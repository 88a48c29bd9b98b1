------------------------------ MODULE CreditLine ------------------------------
(***************************************************************************)
(* One organization's credit line: its BillingAccount, its wallet, the     *)
(* generations that spend from it and the invoices that bill them.         *)
(*                                                                         *)
(* Every transaction that touches the account or spends credits starts by  *)
(* locking the wallet row, so each is one action here.  What is NOT under  *)
(* that lock is modelled as steps of its own: an invoice is planned (the   *)
(* account, the clock and the last invoice are read) before it is issued,  *)
(* and the line is reopened by a follow-up after a payment committed.      *)
(* Dunning keeps the lock between its read of the overdue invoices and its *)
(* write, and a settlement of no credits does not take the lock.           *)
(*                                                                         *)
(* A generation costs one credit; now is the one clock of the system, and  *)
(* a month is Month ticks of it.                                           *)
(***************************************************************************)
EXTENDS Integers, FiniteSets, FiniteSetsExt

CONSTANTS
  Gens,          \* generations of the workspace
  Staff,         \* "Invoice now" requests
  Terms,         \* the terms staff agree: [limit, minimum], in credits and minor units
  Prepaid,       \* credits in the wallet before the line opens
  Rate,          \* minor units per credit
  Month,         \* ticks of a calendar month
  NetDays,       \* issue to due
  GraceDays,     \* due to paused
  MaxTime,       \* bound: the clock stops there
  MaxAgreed,     \* bound: how often staff set the terms
  MaxBusy,       \* bound: how many of them issue invoices at once
  MaxCrashes     \* bound: how often a process dies

Tick   == "tick"      \* the worker's hourly pass
Closer == "close"     \* the request that closes the line
Issuers == Staff \cup {Tick, Closer}
Times == 0 .. MaxTime

ASSUME CreditLineAssumption ==
  /\ IsFiniteSet(Gens)
  /\ Staff \cap {Tick, Closer} = {}
  /\ Terms \subseteq [limit : Nat, minimum : Nat]
  /\ Prepaid \in Nat /\ Rate \in Nat \ {0} /\ Month \in Nat \ {0}
  /\ {NetDays, GraceDays, MaxTime, MaxAgreed, MaxBusy, MaxCrashes} \subseteq Nat

VARIABLES
  now,
  account,       \* the billing_accounts row
  overdraft,     \* wallets.overdraftLimit
  gens,          \* status of each generation, and finishedAt of a success
  entries,       \* ledger_entries of the wallet, one per idempotency key
  invoices,      \* periodStart -> invoice; the index on (accountId, periodStart) is unique
  issuers,       \* what each request or pass that issues invoices is doing
  followUps,     \* periodStart -> what is left to do after its payment or void committed
  pausing,       \* dunning holds the wallet lock, with overdue invoices in hand
  agreed, crashes,   \* counters for the bounds
  overtaken      \* history: the line was reopened while its last opening was still being invoiced

vars == <<now, account, overdraft, gens, entries, invoices, issuers, followUps,
          pausing, agreed, crashes, overtaken>>

Payable  == {"OPEN", "OVERDUE"}
Blockers == {"OVERDUE", "DISPUTED", "REFUNDED"}

Account == [status : {"NONE", "ACTIVE", "SUSPENDED", "CLOSED"},
            startedAt : Times, closedAt : Times, limit : Nat, minimum : Nat]
Generation == [status : {"NONE", "RUNNING", "SUCCEEDED", "FAILED"}, finishedAt : Times]
Invoice == [end : Times, billed : SUBSET Gens, total : Nat, dueAt : Nat,
            status : {"OPEN", "OVERDUE", "PAID", "VOID"}]
NoAccount == [status |-> "NONE", startedAt |-> 0, closedAt |-> 0, limit |-> 0, minimum |-> 0]

\* What a request that issues invoices keeps of the account it read.
Snapshot == [status : {"NONE", "ACTIVE", "SUSPENDED", "CLOSED"}, startedAt : Times, closedAt : Times]
Issuer == [pc : {"idle", "plan", "issue", "done"}, at : Times, seen : Snapshot,
           start : Times, end : Times]
Seen(a) == [status |-> a.status, startedAt |-> a.startedAt, closedAt |-> a.closedAt]
Idle == [pc |-> "idle", at |-> 0, seen |-> Seen(NoAccount), start |-> 0, end |-> 0]

\* A pass and a closing may come again; each "Invoice now" is a request of its own.
Finished(p) == IF p \in Staff THEN [Idle EXCEPT !.pc = "done"] ELSE Idle
InFlight(p) == issuers[p].pc \notin {"idle", "done"}

Init ==
  /\ now = 0
  /\ account = NoAccount
  /\ overdraft = 0
  /\ gens = [g \in Gens |-> [status |-> "NONE", finishedAt |-> 0]]
  /\ entries = {[key |-> <<"purchase", 0>>, delta |-> Prepaid]}
  /\ invoices = [i \in {} |-> Idle]
  /\ issuers = [p \in Issuers |-> Idle]
  /\ followUps = [i \in Times |-> "none"]
  /\ pausing = FALSE
  /\ agreed = 0
  /\ crashes = 0
  /\ overtaken = FALSE

-----------------------------------------------------------------------------
(* The wallet.                                                              *)

\* Mutant: dunning decides before it takes the lock.
LineFreeAlways == TRUE

LineFree == ~pausing
Balance  == MapThenSumSet(LAMBDA e : e.delta, entries)
Credits(i) == Cardinality(invoices[i].billed)

\* ledger_apply: a key that is known posts nothing, and no entry may sink the
\* balance below the overdraft.
Apply(kind, id, delta) ==
  /\ LineFree
  /\ IF \E e \in entries : e.key = <<kind, id>>
     THEN UNCHANGED entries
     ELSE /\ Balance + delta >= -overdraft
          /\ entries' = entries \cup {[key |-> <<kind, id>>, delta |-> delta]}

\* A request is charged when it is made.
Debit(g) ==
  /\ gens[g].status = "NONE"
  /\ Apply("debit", g, -1)
  /\ gens' = [gens EXCEPT ![g].status = "RUNNING"]
  /\ UNCHANGED <<now, account, overdraft, invoices, issuers, followUps, pausing,
                 agreed, crashes, overtaken>>

\* Mutant: the completion is stamped before its transaction waits for the wallet.
SucceedStampedEarly(g) ==
  /\ LineFree
  /\ gens[g].status = "RUNNING"
  /\ \E at \in 0 .. now :
       gens' = [gens EXCEPT ![g] = [status |-> "SUCCEEDED", finishedAt |-> at]]
  /\ UNCHANGED <<now, account, overdraft, entries, invoices, issuers, followUps,
                 pausing, agreed, crashes, overtaken>>

\* The completion is stamped after the wallet row is locked.
Succeed(g) ==
  /\ LineFree
  /\ gens[g].status = "RUNNING"
  /\ gens' = [gens EXCEPT ![g] = [status |-> "SUCCEEDED", finishedAt |-> now]]
  /\ UNCHANGED <<now, account, overdraft, entries, invoices, issuers, followUps,
                 pausing, agreed, crashes, overtaken>>

Fail(g) ==
  /\ gens[g].status = "RUNNING"
  /\ Apply("refund", g, 1)
  /\ gens' = [gens EXCEPT ![g].status = "FAILED"]
  /\ UNCHANGED <<now, account, overdraft, invoices, issuers, followUps, pausing,
                 agreed, crashes, overtaken>>

-----------------------------------------------------------------------------
(* Periods and invoices.                                                    *)

Later(a, b)   == IF a >= b THEN a ELSE b
Earlier(a, b) == IF a <= b THEN a ELSE b

MonthStart(t) == (t \div Month) * Month
MonthEnd(t)   == MonthStart(t) + Month

LastEnd == Max({invoices[i].end : i \in DOMAIN invoices} \cup {0})

\* Mutant: the last invoice is forgotten.
OpenPeriodStartOfLine(seen, at) ==
  IF seen.startedAt > at THEN MonthStart(at) ELSE seen.startedAt

\* Mutant: the first period starts with the month, not when the line opened.
OpenPeriodStartOfMonth(seen, at) ==
  LET start == Later(LastEnd, MonthStart(seen.startedAt))
  IN  IF start > at THEN MonthStart(at) ELSE start

\* The end of the last invoice or the moment the line (re)opened, whichever is
\* later; the month's start if a request's clock is behind it.
OpenPeriodStart(seen, at) ==
  LET start == Later(LastEnd, seen.startedAt)
  IN  IF start > at THEN MonthStart(at) ELSE start

\* Work is billed in the period it succeeds in.
Usage(start, end) ==
  {g \in Gens : /\ gens[g].status = "SUCCEEDED"
                /\ gens[g].finishedAt >= start
                /\ gens[g].finishedAt < end}

PriceUsage(billed) == Later(Cardinality(billed) * Rate, account.minimum)

NewInvoice(start, end) ==
  LET billed == Usage(start, end)
      total  == PriceUsage(billed)
  IN  [end |-> end, billed |-> billed, total |-> total, dueAt |-> now + NetDays,
       status |-> IF total = 0 THEN "PAID" ELSE "OPEN"]

\* A closed line is only invoiced by its final invoice.
AllowClosed(p) == p = Closer \/ (p = Tick /\ issuers[p].seen.status = "CLOSED")

MayIssue(p) ==
  /\ account.status = "CLOSED" => AllowClosed(p)
  /\ issuers[p].start \notin DOMAIN invoices

\* The hourly pass goes on to the account's next period after an invoice it wrote.
Issue(p) ==
  /\ LineFree
  /\ issuers[p].pc = "issue"
  /\ \/ /\ MayIssue(p)
        /\ invoices' = [i \in DOMAIN invoices \cup {issuers[p].start} |->
             IF i = issuers[p].start THEN NewInvoice(i, issuers[p].end) ELSE invoices[i]]
        /\ issuers' = [issuers EXCEPT ![p] =
             IF p = Tick THEN [@ EXCEPT !.pc = "plan", !.start = 0, !.end = 0] ELSE Finished(p)]
     \/ /\ ~MayIssue(p)
        /\ issuers' = [issuers EXCEPT ![p] = Finished(p)]
        /\ UNCHANGED invoices
  /\ UNCHANGED <<now, account, overdraft, gens, entries, followUps, pausing,
                 agreed, crashes, overtaken>>

Unlocked == UNCHANGED <<now, account, overdraft, gens, entries, invoices, followUps,
                        pausing, agreed, crashes, overtaken>>

\* The hourly pass bills whole months, or up to the moment the line closed; the
\* other two bill up to their clock.
PeriodEnd(seen, start) ==
  IF seen.status = "CLOSED" THEN Earlier(seen.closedAt, MonthEnd(start)) ELSE MonthEnd(start)

PlannedEnd(p, start) ==
  IF p = Tick THEN PeriodEnd(issuers[p].seen, start) ELSE issuers[p].at

\* Reads the last invoice, outside any lock, and fixes the period to bill; one that is
\* empty or not over ends the request.  Only the hourly pass comes back to the clock
\* and the account it read.
Plan(p) ==
  LET start == OpenPeriodStart(issuers[p].seen, issuers[p].at)
      end   == PlannedEnd(p, start)
  IN  /\ issuers[p].pc = "plan"
      /\ issuers' = [issuers EXCEPT ![p] =
           IF end \in 1 .. issuers[p].at /\ start \in 0 .. (end - 1)
           THEN [(IF p = Tick THEN @ ELSE Idle)
                   EXCEPT !.pc = "issue", !.start = start, !.end = end]
           ELSE Finished(p)]
      /\ Unlocked

\* A request reads its clock and the account with no other await between them.
Begin(p, statuses) ==
  /\ issuers[p].pc = "idle"
  /\ Cardinality({q \in Issuers : InFlight(q)}) < MaxBusy
  /\ account.status \in statuses
  /\ issuers' = [issuers EXCEPT ![p] = [Idle EXCEPT !.pc = "plan", !.at = now, !.seen = Seen(account)]]
  /\ Unlocked

TickBegins     == Begin(Tick, {"ACTIVE", "SUSPENDED", "CLOSED"})
StaffBegins(s) == Begin(s, {"ACTIVE", "SUSPENDED"})

-----------------------------------------------------------------------------
(* The account.                                                             *)

HasBlockers == \E i \in DOMAIN invoices : invoices[i].status \in Blockers

\* What the account's current opening has used up to its close and nobody invoiced.
FinalDue ==
  /\ account.status = "CLOSED"
  /\ Later(LastEnd, account.startedAt) < account.closedAt

\* Mutant: new terms open the wallet of a suspended account.
NewOverdraftAlways(status, limit) == limit

\* New terms reach the wallet at once if the account is active.
NewOverdraft(status, limit) == IF status = "ACTIVE" THEN limit ELSE overdraft

\* An invoice of that opening is still to be written, or some request is at it.
StillInvoicing == FinalDue \/ \E p \in Issuers : InFlight(p)

\* setTerms opens a line, reopens a closed one, or changes the terms of any other.
SetTerms(t) ==
  /\ LineFree
  /\ agreed < MaxAgreed
  /\ account.status = "CLOSED" => ~HasBlockers
  /\ account' = [account EXCEPT !.limit = t.limit, !.minimum = t.minimum,
       !.status = IF @ \in {"NONE", "CLOSED"} THEN "ACTIVE" ELSE @,
       !.startedAt = IF account.status \in {"NONE", "CLOSED"} THEN now ELSE @,
       !.closedAt = 0]
  /\ overdraft' = NewOverdraft(account'.status, t.limit)
  /\ agreed' = agreed + 1
  /\ overtaken' = (overtaken \/ (account.status = "CLOSED" /\ StillInvoicing))
  /\ UNCHANGED <<now, gens, entries, invoices, issuers, followUps, pausing, crashes>>

\* The transaction of closeAccount; the request goes on to the final invoice.
CloseAccount ==
  /\ LineFree
  /\ issuers[Closer].pc = "idle"
  /\ Cardinality({q \in Issuers : InFlight(q)}) < MaxBusy
  /\ account.status \in {"ACTIVE", "SUSPENDED"}
  /\ \A g \in Gens : gens[g].status # "RUNNING"
  /\ account' = [account EXCEPT !.status = "CLOSED", !.closedAt = now]
  /\ overdraft' = 0
  /\ issuers' = [issuers EXCEPT ![Closer] =
       [Idle EXCEPT !.pc = "plan", !.at = now, !.seen = Seen(account')]]
  /\ UNCHANGED <<now, gens, entries, invoices, followUps, pausing, agreed, crashes, overtaken>>

Reopened ==
  /\ account' = [account EXCEPT !.status = "ACTIVE"]
  /\ overdraft' = account.limit

\* Staff lift a suspension by hand.
Reactivate ==
  /\ LineFree
  /\ account.status = "SUSPENDED"
  /\ ~HasBlockers
  /\ Reopened
  /\ UNCHANGED <<now, gens, entries, invoices, issuers, followUps, pausing,
                 agreed, crashes, overtaken>>

-----------------------------------------------------------------------------
(* Paying, voiding and dunning.                                             *)

\* Credits are returned by the transaction that ends the invoice; an invoice of
\* no credits posts nothing and never touches the wallet.
Return(kind, i) ==
  IF Credits(i) > 0 THEN Apply(kind, i, Credits(i)) ELSE UNCHANGED entries

EndInvoice(i, status) ==
  /\ invoices' = [invoices EXCEPT ![i].status = status]
  /\ followUps' = [followUps EXCEPT ![i] = "look"]
  /\ UNCHANGED <<now, account, overdraft, gens, issuers, pausing, agreed, crashes, overtaken>>

SettleInvoice(i) ==
  /\ invoices[i].status \in Payable
  /\ Return("invoice", i)
  /\ EndInvoice(i, "PAID")

\* Mutant: only a voided invoice is refused.
VoidInvoicePaid(i) ==
  /\ invoices[i].status # "VOID"
  /\ Return("void", i)
  /\ EndInvoice(i, "VOID")

VoidInvoice(i) ==
  /\ invoices[i].status \notin {"PAID", "VOID"}
  /\ Return("void", i)
  /\ EndInvoice(i, "VOID")

\* The follow-up reads the account after the commit, and reopens a suspended one.
FollowUpLooks(i) ==
  /\ followUps[i] = "look"
  /\ followUps' = [followUps EXCEPT ![i] = IF account.status = "SUSPENDED" THEN "reopen" ELSE "none"]
  /\ UNCHANGED <<now, account, overdraft, gens, entries, invoices, issuers, pausing,
                 agreed, crashes, overtaken>>

ReactivateIfClear(i) ==
  /\ LineFree
  /\ followUps[i] = "reopen"
  /\ followUps' = [followUps EXCEPT ![i] = "none"]
  /\ \/ account.status = "SUSPENDED" /\ ~HasBlockers /\ Reopened
     \/ (account.status # "SUSPENDED" \/ HasBlockers) /\ UNCHANGED <<account, overdraft>>
  /\ UNCHANGED <<now, gens, entries, invoices, issuers, pausing, agreed, crashes, overtaken>>

MarkOverdue(i) ==
  /\ invoices[i].status = "OPEN"
  /\ invoices[i].dueAt < now
  /\ invoices[i].total > 0
  /\ invoices' = [invoices EXCEPT ![i].status = "OVERDUE"]
  /\ UNCHANGED <<now, account, overdraft, gens, entries, issuers, followUps, pausing,
                 agreed, crashes, overtaken>>

\* dun takes the lock and reads the invoices past their grace ...
PauseReads ==
  /\ LineFree
  /\ account.status = "ACTIVE"
  /\ \E i \in DOMAIN invoices :
       invoices[i].status = "OVERDUE" /\ invoices[i].dueAt + GraceDays <= now
  /\ pausing' = TRUE
  /\ UNCHANGED <<now, account, overdraft, gens, entries, invoices, issuers, followUps,
                 agreed, crashes, overtaken>>

\* ... and suspends the account whatever became of them meanwhile.
PauseCommits ==
  /\ pausing
  /\ pausing' = FALSE
  /\ account' = [account EXCEPT !.status = "SUSPENDED"]
  /\ overdraft' = 0
  /\ UNCHANGED <<now, gens, entries, invoices, issuers, followUps, agreed, crashes, overtaken>>

-----------------------------------------------------------------------------
(* The environment.                                                         *)

TimePasses ==
  /\ now < MaxTime
  /\ now' = now + 1
  /\ UNCHANGED <<account, overdraft, gens, entries, invoices, issuers, followUps,
                 pausing, agreed, crashes, overtaken>>

\* The API dies with its requests and follow-ups, or the worker with its pass; a
\* process that dies with nothing in hand loses nothing.
ApiDies ==
  /\ \/ \E p \in Issuers \ {Tick} : InFlight(p)
     \/ \E i \in Times : followUps[i] # "none"
  /\ crashes < MaxCrashes
  /\ crashes' = crashes + 1
  /\ issuers' = [p \in Issuers |-> IF p # Tick /\ InFlight(p) THEN Finished(p) ELSE issuers[p]]
  /\ followUps' = [i \in Times |-> "none"]
  /\ UNCHANGED <<now, account, overdraft, gens, entries, invoices, pausing, agreed, overtaken>>

WorkerDies ==
  /\ InFlight(Tick) \/ pausing
  /\ crashes < MaxCrashes
  /\ crashes' = crashes + 1
  /\ issuers' = [issuers EXCEPT ![Tick] = Idle]
  /\ pausing' = FALSE
  /\ UNCHANGED <<now, account, overdraft, gens, entries, invoices, followUps, agreed, overtaken>>

Next ==
  \/ \E g \in Gens : Debit(g) \/ Succeed(g) \/ Fail(g)
  \/ \E p \in Issuers : Plan(p) \/ Issue(p)
  \/ TickBegins \/ \E s \in Staff : StaffBegins(s)
  \/ \E t \in Terms : SetTerms(t)
  \/ CloseAccount \/ Reactivate
  \/ \E i \in DOMAIN invoices :
       SettleInvoice(i) \/ VoidInvoice(i) \/ FollowUpLooks(i) \/ ReactivateIfClear(i) \/ MarkOverdue(i)
  \/ PauseReads \/ PauseCommits
  \/ TimePasses \/ ApiDies \/ WorkerDies

Spec == Init /\ [][Next]_vars
-----------------------------------------------------------------------------
(* Properties.                                                              *)

\* Types, one entry per idempotency key, and invoices of natural totals: what
\* CreditLineProofs starts from.
CreditLineTypeOK ==
  /\ now \in Times
  /\ account \in Account
  /\ overdraft \in Nat
  /\ gens \in [Gens -> Generation]
  /\ \A e, f \in entries : e.key = f.key => e = f
  /\ DOMAIN invoices \subseteq Times
  /\ \A i \in DOMAIN invoices : invoices[i] \in Invoice
  /\ issuers \in [Issuers -> Issuer]
  /\ followUps \in [Times -> {"none", "look", "reopen"}]
  /\ {pausing, overtaken} \subseteq BOOLEAN

\* The wallet may go below zero exactly as far as the active account's limit, and
\* not at all while the account is suspended or closed, whoever changed which:
\* staff, dunning, a payment's follow-up.
LineFollowsAccount ==
  overdraft = IF account.status = "ACTIVE" THEN account.limit ELSE 0

\* An invoice bills all the work that succeeded in its period, for good: nothing
\* completes inside a period that has been invoiced.
InvoiceIsComplete ==
  \A i \in DOMAIN invoices : invoices[i].billed = Usage(i, invoices[i].end)

\* Invoices follow one another without a gap and without an overlap.  An invoice
\* that reaches further than all before it starts where the last one ended, or
\* where the line opened.  Excepted: a line reopened while its last opening was
\* still being invoiced, and a request whose clock is behind the last invoice.
InvoicesInOrder ==
  [][\A i \in DOMAIN invoices' \ DOMAIN invoices :
       ~overtaken /\ invoices'[i].end > LastEnd => i = Later(LastEnd, account.startedAt)]_vars

\* The credits of an invoice come back once, when it is paid or voided, however
\* payments, staff and retries meet on it.
CreditsReturnedOnce ==
  \A i \in DOMAIN invoices :
    MapThenSumSet(LAMBDA e : e.delta, {e \in entries : e.key \in {<<"invoice", i>>, <<"void", i>>}})
      = IF invoices[i].status \in {"PAID", "VOID"} THEN Credits(i) ELSE 0

\* A workspace whose blocking invoices are all settled is not left paused: a
\* follow-up that will reopen it is on its way.  Excepted: a process died, or an
\* invoice bills a minimum only and is settled without the wallet lock.
PaidUpIsReopened ==
  /\ account.status = "SUSPENDED"
  /\ crashes = 0
  /\ \A i \in DOMAIN invoices : Credits(i) > 0
  => HasBlockers \/ \E i \in DOMAIN invoices : followUps[i] # "none"

\* The hourly pass can always go on: the period it would plan now is never taken by
\* an invoice it cannot see, so a month that is over, or the last part of a closed
\* line whose request died, is invoiced by the next pass that runs.
BillingNeverStalls ==
  LET start == Later(LastEnd, account.startedAt)
      end   == PeriodEnd(Seen(account), start)
  IN  account.status # "NONE" /\ start < end /\ end <= now
        => /\ OpenPeriodStart(Seen(account), now) \notin DOMAIN invoices
           /\ OpenPeriodStart(Seen(account), now) = start
=============================================================================
