--------------------------- MODULE CreditLineProofs ---------------------------
(***************************************************************************)
(* What holds of CreditLine for any set of generations and staff, any      *)
(* terms, prices, months and bounds.                                       *)
(***************************************************************************)
EXTENDS CreditLine, FiniteSetTheorems, WellFoundedInduction, TLAPS

-----------------------------------------------------------------------------
(* The invariant.                                                          *)

\* Nothing is billed ahead of the clock: no invoice, and no period that some
\* request means to bill, reaches past the present.
PastOnly ==
  /\ \A i \in DOMAIN invoices : invoices[i].end <= now
  /\ \A p \in Issuers : issuers[p].at <= now /\ issuers[p].end <= now

IInv == CreditLineTypeOK /\ LineFollowsAccount /\ InvoiceIsComplete /\ PastOnly

-----------------------------------------------------------------------------
(* Types of what a step writes.                                            *)

LEMMA TimesAreNaturals == Times \subseteq Nat /\ 0 \in Times /\ MaxTime \in Nat
BY CreditLineAssumption DEF Times

LEMMA IdleIsTyped ==
  ASSUME NEW p \in Issuers
  PROVE  /\ {Idle, Finished(p)} \subseteq Issuer
         /\ Idle.at = 0 /\ Idle.end = 0 /\ Finished(p).at = 0 /\ Finished(p).end = 0
BY TimesAreNaturals DEF Idle, Finished, Seen, NoAccount, Snapshot, Issuer

\* An account is read as it is.
LEMMA SeenIsTyped ==
  ASSUME NEW a \in Account
  PROVE  Seen(a) \in Snapshot
BY DEF Seen, Account, Snapshot

\* What a request that begins with account a in hand holds.
LEMMA BegunIsTyped ==
  ASSUME NEW a \in Account, now \in Times
  PROVE  LET begun == [Idle EXCEPT !.pc = "plan", !.at = now, !.seen = Seen(a)]
         IN  begun \in Issuer /\ begun.at <= now /\ begun.end <= now
<1>1. Idle \in Issuer /\ Idle.end = 0
  BY IdleIsTyped DEF Issuers
<1>2. Seen(a) \in Snapshot
  BY SeenIsTyped
<1>3. now \in Nat
  BY TimesAreNaturals
<1> DEFINE begun == [Idle EXCEPT !.pc = "plan", !.at = now, !.seen = Seen(a)]
<1>4. begun \in Issuer /\ begun.at = now /\ begun.end = 0
  BY <1>1, <1>2 DEF Issuer
<1> QED
  BY <1>3, <1>4

\* An invoice that ends at a time t lists some generations and a natural total.
LEMMA NewInvoiceIsTyped ==
  ASSUME account \in Account, now \in Times, NEW s \in Times, NEW e \in Times
  PROVE  /\ NewInvoice(s, e).end = e
         /\ NewInvoice(s, e).billed = Usage(s, e)
         /\ NewInvoice(s, e) \in Invoice
<1> DEFINE billed == Usage(s, e)
           total  == PriceUsage(billed)
<1>1. billed \subseteq Gens
  BY DEF Usage
<1>2. Cardinality(billed) \in Nat
  BY <1>1, FS_Subset, FS_CardinalityType, CreditLineAssumption
<1>3. Cardinality(billed) * Rate \in Nat /\ account.minimum \in Nat
  BY <1>2, CreditLineAssumption, SMT DEF Account
<1>4. total \in Nat
  BY <1>3 DEF PriceUsage, Later
<1>5. now + NetDays \in Nat
  BY TimesAreNaturals, CreditLineAssumption
<1> QED
  BY <1>1, <1>4, <1>5 DEF NewInvoice, Invoice

\* Applying an entry touches no entry that is there, and no key twice.
LEMMA ApplyKeepsKeys ==
  ASSUME NEW kind, NEW id, NEW delta, Apply(kind, id, delta),
         \A e, f \in entries : e.key = f.key => e = f
  PROVE  \A e, f \in entries' : e.key = f.key => e = f
BY DEF Apply

-----------------------------------------------------------------------------
(* The steps, by what they write.  Each fact below is used by the proofs of *)
(* all four parts of the invariant.                                        *)

LEMMA InitHolds == Init => IInv
<1> SUFFICES ASSUME Init PROVE IInv
  OBVIOUS
<1>1. CreditLineTypeOK
  BY TimesAreNaturals, IdleIsTyped
     DEF Init, CreditLineTypeOK, NoAccount, Account, Generation
<1>2. LineFollowsAccount
  BY DEF Init, LineFollowsAccount, NoAccount
<1>3. InvoiceIsComplete
  BY DEF Init, InvoiceIsComplete
<1>4. PastOnly
  BY IdleIsTyped DEF Init, PastOnly
<1> QED
  BY <1>1, <1>2, <1>3, <1>4 DEF IInv

\* A generation is charged, refunded or done: an invoice keeps what it bills, since
\* a success is stamped with the present and no invoice reaches past it.
LEMMA GenerationSteps ==
  ASSUME IInv, NEW g \in Gens, Debit(g) \/ Succeed(g) \/ Fail(g)
  PROVE  IInv'
<1>1. /\ CreditLineTypeOK /\ LineFollowsAccount /\ InvoiceIsComplete /\ PastOnly
      /\ now \in Times /\ gens \in [Gens -> Generation]
  BY DEF IInv, CreditLineTypeOK
<1>2. UNCHANGED <<now, account, overdraft, invoices, issuers, followUps, pausing, overtaken>>
  BY DEF Debit, Succeed, Fail
<1>3. \/ gens' = [gens EXCEPT ![g].status = "RUNNING"] /\ gens[g].status = "NONE"
      \/ gens' = [gens EXCEPT ![g].status = "FAILED"] /\ gens[g].status = "RUNNING"
      \/ /\ gens' = [gens EXCEPT ![g] = [status |-> "SUCCEEDED", finishedAt |-> now]]
         /\ gens[g].status = "RUNNING"
  BY DEF Debit, Succeed, Fail
<1>4. gens' \in [Gens -> Generation]
  BY <1>1, <1>3 DEF Generation
<1>5. \A e, f \in entries' : e.key = f.key => e = f
  BY <1>1, ApplyKeepsKeys DEF CreditLineTypeOK, Debit, Succeed, Fail
<1>6. CreditLineTypeOK'
  BY <1>1, <1>2, <1>4, <1>5 DEF CreditLineTypeOK
<1>7. LineFollowsAccount'
  BY <1>1, <1>2 DEF LineFollowsAccount
<1>8. ASSUME NEW s, NEW e \in Times, e <= now
      PROVE  Usage(s, e)' = Usage(s, e)
  <2>1. \A h \in Gens \ {g} : gens'[h] = gens[h]
    BY <1>1, <1>3
  <2>2. g \notin Usage(s, e)
    BY <1>3 DEF Usage
  <2>3. ~(gens'[g].status = "SUCCEEDED" /\ gens'[g].finishedAt < e)
    BY <1>1, <1>3, <1>8, TimesAreNaturals DEF Generation
  <2> QED
    BY <2>1, <2>2, <2>3 DEF Usage
<1>9. InvoiceIsComplete'
  BY <1>1, <1>2, <1>8 DEF InvoiceIsComplete, PastOnly, CreditLineTypeOK, Invoice
<1>10. PastOnly'
  BY <1>1, <1>2 DEF PastOnly
<1> QED
  BY <1>6, <1>7, <1>9, <1>10 DEF IInv

\* A period is planned within the clock that was read.
LEMMA PlanSteps ==
  ASSUME IInv, NEW p \in Issuers, Plan(p)
  PROVE  IInv'
<1> DEFINE start == OpenPeriodStart(issuers[p].seen, issuers[p].at)
           end   == PlannedEnd(p, start)
<1>1. /\ CreditLineTypeOK /\ LineFollowsAccount /\ InvoiceIsComplete /\ PastOnly
      /\ now \in Times /\ issuers \in [Issuers -> Issuer]
  BY DEF IInv, CreditLineTypeOK
<1>2. UNCHANGED <<now, account, overdraft, gens, entries, invoices, followUps, pausing, overtaken>>
  BY DEF Plan, Unlocked
<1>3. issuers' = [issuers EXCEPT ![p] =
           IF end \in 1 .. issuers[p].at /\ start \in 0 .. (end - 1)
           THEN [(IF p = Tick THEN issuers[p] ELSE Idle)
                   EXCEPT !.pc = "issue", !.start = start, !.end = end]
           ELSE Finished(p)]
  BY DEF Plan
<1>4. issuers[p] \in Issuer /\ issuers[p].at \in Times /\ issuers[p].at <= now
  BY <1>1 DEF PastOnly, Issuer
<1>5. issuers'[p] \in Issuer /\ issuers'[p].at <= now /\ issuers'[p].end <= now
  <2>1. CASE end \in 1 .. issuers[p].at /\ start \in 0 .. (end - 1)
    <3> HIDE DEF start, end
    <3>1. end \in Times /\ start \in Times /\ end <= now
      BY <2>1, <1>1, <1>4, TimesAreNaturals DEF Times
    <3>2. (IF p = Tick THEN issuers[p] ELSE Idle) \in Issuer
      BY <1>4, IdleIsTyped
    <3>3. (IF p = Tick THEN issuers[p] ELSE Idle).at <= now
      BY <1>1, <1>4, IdleIsTyped, TimesAreNaturals
    <3> QED
      BY <2>1, <1>1, <1>3, <3>1, <3>2, <3>3 DEF Issuer
  <2>2. CASE ~(end \in 1 .. issuers[p].at /\ start \in 0 .. (end - 1))
    <3> HIDE DEF start, end
    <3> QED
      BY <2>2, <1>1, <1>3, IdleIsTyped, TimesAreNaturals
  <2> QED
    BY <2>1, <2>2
<1>6. \A q \in Issuers \ {p} : issuers'[q] = issuers[q]
  <2> HIDE DEF start, end
  <2> QED BY <1>1, <1>3
<1>7. issuers' \in [Issuers -> Issuer]
  <2>1. issuers' = [q \in Issuers |-> issuers'[q]]
    <3> HIDE DEF start, end
    <3> QED BY <1>1, <1>3
  <2> QED
    BY <1>1, <2>1, <1>5, <1>6
<1>8. CreditLineTypeOK'
  BY <1>1, <1>2, <1>7 DEF CreditLineTypeOK
<1>9. LineFollowsAccount' /\ InvoiceIsComplete'
  BY <1>1, <1>2 DEF LineFollowsAccount, InvoiceIsComplete, Usage
<1>10. PastOnly'
  BY <1>1, <1>2, <1>5, <1>6 DEF PastOnly
<1> QED
  BY <1>8, <1>9, <1>10 DEF IInv

\* The invoice that is written bills the usage of its period as it is now, and its
\* period is over.
LEMMA IssueSteps ==
  ASSUME IInv, NEW p \in Issuers, Issue(p)
  PROVE  IInv'
<1> DEFINE i == issuers[p].start
           e == issuers[p].end
<1>1. /\ CreditLineTypeOK /\ LineFollowsAccount /\ InvoiceIsComplete /\ PastOnly
      /\ now \in Times /\ account \in Account /\ issuers \in [Issuers -> Issuer]
  BY DEF IInv, CreditLineTypeOK
<1>2. UNCHANGED <<now, account, overdraft, gens, entries, followUps, pausing, overtaken>>
  BY DEF Issue
<1>3. i \in Times /\ e \in Times /\ e <= now
  BY <1>1 DEF PastOnly, Issuer
<1>4. \/ /\ i \notin DOMAIN invoices
         /\ invoices' = [j \in DOMAIN invoices \cup {i} |->
              IF j = i THEN NewInvoice(j, e) ELSE invoices[j]]
      \/ UNCHANGED invoices
  BY DEF Issue, MayIssue
<1>5. issuers' \in [Issuers -> Issuer]
  <2>1. issuers' = [issuers EXCEPT ![p] = [issuers[p] EXCEPT !.pc = "plan", !.start = 0, !.end = 0]]
        \/ issuers' = [issuers EXCEPT ![p] = Finished(p)]
    BY DEF Issue
  <2>2. [issuers[p] EXCEPT !.pc = "plan", !.start = 0, !.end = 0] \in Issuer
    <3>1. issuers[p] \in Issuer
      BY <1>1
    <3> QED
      BY <3>1, TimesAreNaturals DEF Issuer
  <2>3. Finished(p) \in Issuer
    BY IdleIsTyped
  <2> QED
    BY <1>1, <2>1, <2>2, <2>3
<1>6. \A q \in Issuers : issuers'[q].at <= now /\ issuers'[q].end <= now
  <2>1. issuers' = [issuers EXCEPT ![p] = [issuers[p] EXCEPT !.pc = "plan", !.start = 0, !.end = 0]]
        \/ issuers' = [issuers EXCEPT ![p] = Finished(p)]
    BY DEF Issue
  <2>2. 0 <= now
    BY <1>1, TimesAreNaturals
  <2> QED
    BY <1>1, <2>1, <2>2, IdleIsTyped DEF PastOnly, Issuer
<1>7. NewInvoice(i, e).end = e /\ NewInvoice(i, e).billed = Usage(i, e) /\ NewInvoice(i, e) \in Invoice
  BY <1>1, <1>3, NewInvoiceIsTyped
<1>8. /\ DOMAIN invoices' \subseteq Times
      /\ \A j \in DOMAIN invoices' :
           /\ invoices'[j] \in Invoice
           /\ invoices'[j].end <= now
           /\ invoices'[j].billed = Usage(j, invoices'[j].end)
  <2>1. CASE UNCHANGED invoices
    BY <2>1, <1>1 DEF CreditLineTypeOK, PastOnly, InvoiceIsComplete
  <2>2. CASE /\ i \notin DOMAIN invoices
             /\ invoices' = [j \in DOMAIN invoices \cup {i} |->
                  IF j = i THEN NewInvoice(j, e) ELSE invoices[j]]
    <3> HIDE DEF i, e
    <3>1. DOMAIN invoices' = DOMAIN invoices \cup {i}
      BY <2>2
    <3>2. invoices'[i] = NewInvoice(i, e)
      BY <2>2
    <3>3. \A j \in DOMAIN invoices : invoices'[j] = invoices[j]
      BY <2>2
    <3> QED
      BY <1>1, <1>3, <1>7, <3>1, <3>2, <3>3 DEF CreditLineTypeOK, PastOnly, InvoiceIsComplete
  <2> QED
    BY <1>4, <2>1, <2>2
<1>9. CreditLineTypeOK'
  BY <1>1, <1>2, <1>5, <1>8 DEF CreditLineTypeOK
<1>10. LineFollowsAccount' /\ InvoiceIsComplete' /\ PastOnly'
  BY <1>1, <1>2, <1>6, <1>8 DEF LineFollowsAccount, InvoiceIsComplete, PastOnly, Usage
<1> QED
  BY <1>9, <1>10 DEF IInv

\* A request begins with the present.
LEMMA BeginSteps ==
  ASSUME IInv, TickBegins \/ \E s \in Staff : StaffBegins(s)
  PROVE  IInv'
<1>1. /\ CreditLineTypeOK /\ LineFollowsAccount /\ InvoiceIsComplete /\ PastOnly
      /\ now \in Times /\ account \in Account /\ issuers \in [Issuers -> Issuer]
  BY DEF IInv, CreditLineTypeOK
<1>2. PICK p \in Issuers :
        /\ issuers' = [issuers EXCEPT ![p] =
             [Idle EXCEPT !.pc = "plan", !.at = now, !.seen = Seen(account)]]
        /\ Unlocked
  BY DEF TickBegins, StaffBegins, Begin, Issuers
<1>3. /\ [Idle EXCEPT !.pc = "plan", !.at = now, !.seen = Seen(account)] \in Issuer
      /\ [Idle EXCEPT !.pc = "plan", !.at = now, !.seen = Seen(account)].at <= now
      /\ [Idle EXCEPT !.pc = "plan", !.at = now, !.seen = Seen(account)].end <= now
  BY <1>1, BegunIsTyped
<1>4. CreditLineTypeOK'
  BY <1>1, <1>2, <1>3 DEF CreditLineTypeOK, Unlocked
<1>5. LineFollowsAccount' /\ InvoiceIsComplete' /\ PastOnly'
  BY <1>1, <1>2, <1>3 DEF LineFollowsAccount, InvoiceIsComplete, Usage, PastOnly, Unlocked
<1> QED
  BY <1>4, <1>5 DEF IInv

\* Staff, a payment's follow-up and dunning change the account and the wallet's limit
\* together.
LEMMA AccountSteps ==
  ASSUME IInv,
         \/ \E t \in Terms : SetTerms(t)
         \/ Reactivate \/ PauseCommits
         \/ \E i \in DOMAIN invoices : ReactivateIfClear(i)
  PROVE  IInv'
<1>1. /\ CreditLineTypeOK /\ LineFollowsAccount /\ InvoiceIsComplete /\ PastOnly
      /\ now \in Times /\ account \in Account /\ overdraft \in Nat
  BY DEF IInv, CreditLineTypeOK
<1>2. UNCHANGED <<now, gens, entries, invoices, issuers>>
  BY DEF SetTerms, Reactivate, PauseCommits, ReactivateIfClear
<1>3. /\ account' \in Account
      /\ overdraft' = IF account'.status = "ACTIVE" THEN account'.limit ELSE 0
  <2>1. ASSUME NEW t \in Terms, SetTerms(t)
        PROVE  /\ account' \in Account
               /\ overdraft' = IF account'.status = "ACTIVE" THEN account'.limit ELSE 0
    <3>1. t \in [limit : Nat, minimum : Nat]
      BY CreditLineAssumption
    <3> QED
      BY <1>1, <2>1, <3>1, TimesAreNaturals
         DEF SetTerms, NewOverdraft, LineFollowsAccount, Account
  <2>2. CASE Reactivate
    BY <1>1, <2>2 DEF Reactivate, Reopened, Account
  <2>3. CASE PauseCommits
    BY <1>1, <2>3 DEF PauseCommits, Account
  <2>4. ASSUME NEW i \in DOMAIN invoices, ReactivateIfClear(i)
        PROVE  /\ account' \in Account
               /\ overdraft' = IF account'.status = "ACTIVE" THEN account'.limit ELSE 0
    BY <1>1, <2>4 DEF ReactivateIfClear, Reopened, LineFollowsAccount, Account
  <2> QED
    BY <2>1, <2>2, <2>3, <2>4
<1>4. followUps' \in [Times -> {"none", "look", "reopen"}] /\ {pausing', overtaken'} \subseteq BOOLEAN
  BY <1>1 DEF CreditLineTypeOK, SetTerms, Reactivate, PauseCommits, ReactivateIfClear
<1>5. overdraft' \in Nat
  BY <1>3 DEF Account
<1>6. CreditLineTypeOK'
  BY <1>1, <1>2, <1>3, <1>4, <1>5 DEF CreditLineTypeOK
<1>7. LineFollowsAccount' /\ InvoiceIsComplete' /\ PastOnly'
  BY <1>1, <1>2, <1>3 DEF LineFollowsAccount, InvoiceIsComplete, Usage, PastOnly
<1> QED
  BY <1>6, <1>7 DEF IInv

\* Closing takes the limit away and leaves a request that means to bill up to now.
LEMMA CloseSteps ==
  ASSUME IInv, CloseAccount
  PROVE  IInv'
<1>1. /\ CreditLineTypeOK /\ LineFollowsAccount /\ InvoiceIsComplete /\ PastOnly
      /\ now \in Times /\ account \in Account /\ issuers \in [Issuers -> Issuer]
  BY DEF IInv, CreditLineTypeOK
<1>2. account' \in Account /\ account'.status = "CLOSED" /\ overdraft' = 0
  BY <1>1 DEF CloseAccount, Account
<1>3. /\ UNCHANGED <<now, gens, entries, invoices, followUps, pausing, overtaken>>
      /\ issuers' = [issuers EXCEPT ![Closer] =
           [Idle EXCEPT !.pc = "plan", !.at = now, !.seen = Seen(account')]]
  BY DEF CloseAccount
<1>4. /\ [Idle EXCEPT !.pc = "plan", !.at = now, !.seen = Seen(account')] \in Issuer
      /\ [Idle EXCEPT !.pc = "plan", !.at = now, !.seen = Seen(account')].at <= now
      /\ [Idle EXCEPT !.pc = "plan", !.at = now, !.seen = Seen(account')].end <= now
  BY <1>1, <1>2, BegunIsTyped
<1>5. CreditLineTypeOK'
  BY <1>1, <1>2, <1>3, <1>4 DEF CreditLineTypeOK
<1>6. LineFollowsAccount' /\ InvoiceIsComplete' /\ PastOnly'
  BY <1>1, <1>2, <1>3, <1>4 DEF LineFollowsAccount, InvoiceIsComplete, Usage, PastOnly
<1> QED
  BY <1>5, <1>6 DEF IInv

\* Payments, voids and reminders change the status of an invoice, never what it
\* billed.
LEMMA PaymentSteps ==
  ASSUME IInv, NEW i \in DOMAIN invoices,
         SettleInvoice(i) \/ VoidInvoice(i) \/ MarkOverdue(i)
  PROVE  IInv'
<1>1. /\ CreditLineTypeOK /\ LineFollowsAccount /\ InvoiceIsComplete /\ PastOnly
      /\ DOMAIN invoices \subseteq Times /\ \A j \in DOMAIN invoices : invoices[j] \in Invoice
  BY DEF IInv, CreditLineTypeOK
<1>2. UNCHANGED <<now, account, overdraft, gens, issuers, pausing, overtaken>>
  BY DEF SettleInvoice, VoidInvoice, EndInvoice, MarkOverdue
<1>3. PICK s \in {"OVERDUE", "PAID", "VOID"} : invoices' = [invoices EXCEPT ![i].status = s]
  BY DEF SettleInvoice, VoidInvoice, EndInvoice, MarkOverdue
<1>4. /\ DOMAIN invoices' = DOMAIN invoices
      /\ \A j \in DOMAIN invoices :
           /\ invoices'[j] \in Invoice
           /\ invoices'[j].end = invoices[j].end
           /\ invoices'[j].billed = invoices[j].billed
  BY <1>1, <1>3 DEF Invoice
<1>5. \A e, f \in entries' : e.key = f.key => e = f
  BY <1>1, ApplyKeepsKeys
     DEF CreditLineTypeOK, SettleInvoice, VoidInvoice, MarkOverdue, Return
<1>6. followUps' \in [Times -> {"none", "look", "reopen"}]
  BY <1>1 DEF CreditLineTypeOK, SettleInvoice, VoidInvoice, EndInvoice, MarkOverdue
<1>7. CreditLineTypeOK'
  BY <1>1, <1>2, <1>4, <1>5, <1>6 DEF CreditLineTypeOK
<1>8. LineFollowsAccount' /\ InvoiceIsComplete' /\ PastOnly'
  BY <1>1, <1>2, <1>4 DEF LineFollowsAccount, InvoiceIsComplete, Usage, PastOnly
<1> QED
  BY <1>7, <1>8 DEF IInv

\* Steps that write neither the account, nor what was made, nor an invoice.
LEMMA OtherSteps ==
  ASSUME IInv,
         \/ \E i \in DOMAIN invoices : FollowUpLooks(i)
         \/ PauseReads \/ TimePasses \/ ApiDies \/ WorkerDies
         \/ UNCHANGED vars
  PROVE  IInv'
<1>1. /\ CreditLineTypeOK /\ LineFollowsAccount /\ InvoiceIsComplete /\ PastOnly
      /\ now \in Times /\ issuers \in [Issuers -> Issuer]
  BY DEF IInv, CreditLineTypeOK
<1>2. /\ UNCHANGED <<account, overdraft, gens, entries, invoices, overtaken>>
      /\ now' \in Times /\ now <= now'
  BY <1>1, CreditLineAssumption
     DEF Times, FollowUpLooks, PauseReads, TimePasses, ApiDies, WorkerDies, vars
<1>3. \A p \in Issuers : issuers'[p] \in {issuers[p], Idle, Finished(p)}
  <2>1. Tick \in Issuers
    BY DEF Issuers
  <2> QED
    BY <1>1, <2>1 DEF FollowUpLooks, PauseReads, TimePasses, ApiDies, WorkerDies, vars
<1>4. issuers' = [p \in Issuers |-> issuers'[p]]
  BY <1>1 DEF FollowUpLooks, PauseReads, TimePasses, ApiDies, WorkerDies, vars
<1>5. /\ issuers' \in [Issuers -> Issuer]
      /\ \A p \in Issuers : issuers'[p].at <= now' /\ issuers'[p].end <= now'
  <2>1. \A p \in Issuers : /\ issuers'[p] \in Issuer
                           /\ issuers'[p].at <= now' /\ issuers'[p].end <= now'
    <3> SUFFICES ASSUME NEW p \in Issuers
                 PROVE  /\ issuers'[p] \in Issuer
                        /\ issuers'[p].at <= now' /\ issuers'[p].end <= now'
      OBVIOUS
    <3>1. CASE issuers'[p] = issuers[p]
      <4>1. issuers[p] \in Issuer /\ issuers[p].at <= now /\ issuers[p].end <= now
        BY <1>1 DEF PastOnly
      <4>2. {now, now', issuers[p].at, issuers[p].end} \subseteq Nat
        BY <1>1, <1>2, <4>1, TimesAreNaturals DEF Issuer
      <4> QED
        BY <3>1, <1>2, <4>1, <4>2
    <3>2. CASE issuers'[p] \in {Idle, Finished(p)}
      BY <3>2, <1>2, IdleIsTyped, TimesAreNaturals
    <3> QED
      BY <1>3, <3>1, <3>2
  <2> QED
    BY <1>4, <2>1
<1>6. /\ followUps' \in [Times -> {"none", "look", "reopen"}]
      /\ pausing' \in BOOLEAN
  BY <1>1 DEF CreditLineTypeOK, FollowUpLooks, PauseReads, TimePasses, ApiDies, WorkerDies, vars
<1>7. CreditLineTypeOK'
  BY <1>1, <1>2, <1>5, <1>6 DEF CreditLineTypeOK
<1>8. LineFollowsAccount' /\ InvoiceIsComplete'
  BY <1>1, <1>2 DEF LineFollowsAccount, InvoiceIsComplete, Usage
<1>9. \A i \in DOMAIN invoices' : invoices'[i].end <= now'
  <2>1. \A i \in DOMAIN invoices : invoices[i].end \in Nat /\ invoices[i].end <= now
    BY <1>1, TimesAreNaturals DEF CreditLineTypeOK, Invoice, PastOnly
  <2>2. now \in Nat /\ now' \in Nat
    BY <1>1, <1>2, TimesAreNaturals
  <2> QED
    BY <1>2, <2>1, <2>2
<1>10. PastOnly'
  BY <1>5, <1>9 DEF PastOnly
<1> QED
  BY <1>7, <1>8, <1>10 DEF IInv

-----------------------------------------------------------------------------
(* The theorems.                                                           *)

\* The types, the wallet's limit, what the invoices bill and that nothing is billed
\* ahead of the clock hold together, whatever staff, dunning, payments and passes do.
THEOREM Invariance == Spec => []IInv
<1>1. IInv /\ [Next]_vars => IInv'
  <2> SUFFICES ASSUME IInv, [Next]_vars PROVE IInv'
    OBVIOUS
  <2>1. ASSUME NEW g \in Gens, Debit(g) \/ Succeed(g) \/ Fail(g) PROVE IInv'
    BY <2>1, GenerationSteps
  <2>2. ASSUME NEW p \in Issuers, Plan(p) PROVE IInv'
    BY <2>2, PlanSteps
  <2>3. ASSUME NEW p \in Issuers, Issue(p) PROVE IInv'
    BY <2>3, IssueSteps
  <2>4. CASE TickBegins \/ \E s \in Staff : StaffBegins(s)
    BY <2>4, BeginSteps
  <2>5. CASE \/ \E t \in Terms : SetTerms(t)
             \/ Reactivate \/ PauseCommits
             \/ \E i \in DOMAIN invoices : ReactivateIfClear(i)
    BY <2>5, AccountSteps
  <2>6. CASE CloseAccount
    BY <2>6, CloseSteps
  <2>7. ASSUME NEW i \in DOMAIN invoices, SettleInvoice(i) \/ VoidInvoice(i) \/ MarkOverdue(i)
        PROVE  IInv'
    BY <2>7, PaymentSteps
  <2>8. CASE \/ \E i \in DOMAIN invoices : FollowUpLooks(i)
             \/ PauseReads \/ TimePasses \/ ApiDies \/ WorkerDies
             \/ UNCHANGED vars
    BY <2>8, OtherSteps
  <2> QED
    BY <2>1, <2>2, <2>3, <2>4, <2>5, <2>6, <2>7, <2>8 DEF Next
<1> QED
  BY InitHolds, <1>1, PTL DEF Spec

\* The credit line keeps its types; no ledger key is posted twice and no invoice is
\* for less than nothing.
THEOREM TypeCorrect == Spec => []CreditLineTypeOK
<1>1. IInv => CreditLineTypeOK
  BY DEF IInv
<1> QED
  BY <1>1, Invariance, PTL

\* A wallet has the limit of its account while the account is active, and none
\* otherwise, for any terms and any number of staff requests.
THEOREM LineCorrect == Spec => []LineFollowsAccount
<1>1. IInv => LineFollowsAccount
  BY DEF IInv
<1> QED
  BY <1>1, Invariance, PTL

\* No generation completes inside a period that has been invoiced, for any number of
\* generations and of requests that issue invoices at once.
THEOREM BillingComplete == Spec => []InvoiceIsComplete
<1>1. IInv => InvoiceIsComplete
  BY DEF IInv
<1> QED
  BY <1>1, Invariance, PTL

-----------------------------------------------------------------------------
(* Facts of arithmetic and of the fold that sums the ledger.               *)

\* A set of naturals that is bounded has its greatest.
LEMMA GreatestNatural ==
  ASSUME NEW S \in SUBSET Nat, S # {}, NEW b \in Nat, \A x \in S : x <= b
  PROVE  Max(S) \in S /\ \A y \in S : y <= Max(S)
<1> DEFINE R == OpToRel(<, Nat)
           T == {b - x : x \in S}
<1>1. T \subseteq Nat /\ T # {}
  <2>1. \A x \in S : b - x \in Nat
    OBVIOUS
  <2>2. T \subseteq Nat
    BY <2>1
  <2>3. \E x \in S : b - x \in T
    OBVIOUS
  <2> QED
    BY <2>2, <2>3
<1>2. IsWellFoundedOn(R, Nat)
  BY NatLessThanWellFounded
<1>3. PICK t \in T : \A u \in T : <<u, t>> \notin R
  <2> HIDE DEF R, T
  <2> QED
    BY <1>1, <1>2, WFMin
<1>4. \A u \in Nat, v \in Nat : u < v => <<u, v>> \in R
  BY DEF OpToRel
<1>5. \A u \in T : ~(u < t)
  BY <1>1, <1>3, <1>4
<1>6. PICK m \in S : t = b - m
  OBVIOUS
<1>7. \A y \in S : m >= y
  <2> TAKE y \in S
  <2>1. ~(b - y < b - m)
    BY <1>5, <1>6
  <2> QED
    BY <2>1
<1> QED
  BY <1>7 DEF Max

\* The sum over one entry, and over none: the fold's recursion has a solution to choose.
LEMMA FoldOfOne ==
  ASSUME NEW e0, e0.delta \in Int
  PROVE  MapThenSumSet(LAMBDA e : e.delta, {e0}) = e0.delta
<1> DEFINE f(s) == IF s = {} THEN 0 ELSE e0.delta
           step(g, s) == IF s = {} THEN 0
                         ELSE (CHOOSE x \in s : TRUE).delta + g[s \ {CHOOSE x \in s : TRUE}]
           first == [s \in SUBSET {e0} |-> f(s)]
           iter == CHOOSE g : g = [s \in SUBSET {e0} |-> step(g, s)]
<1>1. \A s \in SUBSET {e0} : step(first, s) = f(s)
  <2> TAKE s \in SUBSET {e0}
  <2>1. CASE s = {}
    BY <2>1
  <2>2. CASE s = {e0}
    <3>1. (CHOOSE x \in s : TRUE) = e0 /\ s \ {e0} = {}
      BY <2>2
    <3>2. first[{}] = 0
      OBVIOUS
    <3> QED
      BY <2>2, <3>1, <3>2
  <2> QED
    BY <2>1, <2>2
<1>2. first = [s \in SUBSET {e0} |-> step(first, s)]
  <2> HIDE DEF step
  <2> QED
    BY <1>1
<1>3. iter = [s \in SUBSET {e0} |-> step(iter, s)]
  <2> HIDE DEF step, first
  <2> QED
    BY <1>2
<1>4. MapThenSumSet(LAMBDA e : e.delta, {e0}) = iter[{e0}]
  BY DEF MapThenSumSet, MapThenFoldSet
<1>5. iter[{}] = 0
  <2>1. step(iter, {}) = 0
    OBVIOUS
  <2> HIDE DEF step, first, iter
  <2> QED
    BY <1>3, <2>1
<1>6. iter[{e0}] = e0.delta
  <2>1. (CHOOSE x \in {e0} : TRUE) = e0 /\ {e0} \ {e0} = {}
    OBVIOUS
  <2>2. step(iter, {e0}) = e0.delta + iter[{}]
    <3> HIDE DEF first, iter
    <3> QED
      BY <2>1
  <2> HIDE DEF step, first, iter
  <2> QED
    BY <1>3, <1>5, <2>2
<1> QED
  BY <1>4, <1>6

LEMMA FoldOfNone ==
  MapThenSumSet(LAMBDA e : e.delta, {}) = 0
BY DEF MapThenSumSet, MapThenFoldSet

-----------------------------------------------------------------------------
(* The credits of an invoice.                                              *)

\* The entries that returned the credits of the invoice that starts at i.
Returns(i) == {e \in entries : e.key \in {<<"invoice", i>>, <<"void", i>>}}

\* An invoice that was paid or voided returned its credits in one entry, and no other has one.
ReturnsOK ==
  /\ \A i \in Times \ DOMAIN invoices : Returns(i) = {}
  /\ \A i \in DOMAIN invoices :
       IF invoices[i].status \in {"PAID", "VOID"} /\ Credits(i) > 0
       THEN \E e \in entries : Returns(i) = {e} /\ e.delta = Credits(i)
       ELSE Returns(i) = {}

LEMMA CreditsAreNatural ==
  ASSUME NEW b, b \subseteq Gens
  PROVE  Cardinality(b) \in Nat
BY FS_Subset, FS_CardinalityType, CreditLineAssumption

\* Steps that return nothing, and end no invoice.
LEMMA ReturnsStay ==
  ASSUME ReturnsOK, DOMAIN invoices' = DOMAIN invoices,
         \A i \in DOMAIN invoices :
           /\ invoices'[i].billed = invoices[i].billed
           /\ invoices'[i].status \in {"PAID", "VOID"} <=> invoices[i].status \in {"PAID", "VOID"},
         \A i \in Times : Returns(i)' = Returns(i),
         DOMAIN invoices \subseteq Times
  PROVE  ReturnsOK'
<1>1. \A i \in Times : Returns(i)' \subseteq entries'
  BY DEF Returns
<1> QED
  BY <1>1 DEF ReturnsOK, Credits

\* An entry of another kind is no return.
LEMMA OtherEntries ==
  ASSUME NEW kind, NEW id, NEW delta, Apply(kind, id, delta), kind \notin {"invoice", "void"}
  PROVE  \A i \in Times : Returns(i)' = Returns(i)
<1> TAKE i \in Times
<1>1. \A e \in entries' : e.key \in {<<"invoice", i>>, <<"void", i>>} => e \in entries
  BY DEF Apply
<1>2. entries \subseteq entries'
  BY DEF Apply
<1> QED
  BY <1>1, <1>2 DEF Returns

\* The end of an invoice that was not ended yet.
LEMMA EndReturns ==
  ASSUME IInv, ReturnsOK, NEW i \in DOMAIN invoices, SettleInvoice(i) \/ VoidInvoice(i)
  PROVE  ReturnsOK'
<1>0. DOMAIN invoices \subseteq Times /\ \A j \in DOMAIN invoices : invoices[j] \in Invoice
  BY DEF IInv, CreditLineTypeOK
<1>1. PICK kind \in {"invoice", "void"}, st \in {"PAID", "VOID"} :
        Return(kind, i) /\ invoices' = [invoices EXCEPT ![i].status = st]
  BY DEF SettleInvoice, VoidInvoice, EndInvoice
<1>2. invoices[i].status \notin {"PAID", "VOID"}
  BY DEF SettleInvoice, VoidInvoice, Payable
<1>3. Returns(i) = {}
  BY <1>2 DEF ReturnsOK
<1>4. /\ DOMAIN invoices' = DOMAIN invoices
      /\ invoices'[i].status = st
      /\ \A j \in DOMAIN invoices : invoices'[j].billed = invoices[j].billed /\ (j # i => invoices'[j] = invoices[j])
  BY <1>0, <1>1 DEF Invoice
<1>5. \A j \in DOMAIN invoices : Credits(j)' = Credits(j)
  BY <1>4 DEF Credits
<1>6. CASE Credits(i) > 0
  <2>1. Apply(kind, i, Credits(i))
    BY <1>1, <1>6 DEF Return
  <2> DEFINE f == [key |-> <<kind, i>>, delta |-> Credits(i)]
  <2>2. ~ \E e \in entries : e.key = <<kind, i>>
    BY <1>3 DEF Returns
  <2>3. entries' = entries \cup {f}
    BY <2>1, <2>2 DEF Apply
  <2>4. Returns(i)' = {f}
    BY <1>3, <2>3 DEF Returns
  <2>5. \A j \in Times : j # i => Returns(j)' = Returns(j)
    BY <2>3 DEF Returns
  <2>6. f.delta = Credits(i) /\ f \in entries'
    BY <2>3
  <2> HIDE DEF f
  <2>7. \A j \in Times \ DOMAIN invoices : Returns(j)' = {}
    BY <2>5 DEF ReturnsOK
  <2>8. ASSUME NEW j \in DOMAIN invoices, j # i
        PROVE  IF invoices'[j].status \in {"PAID", "VOID"} /\ Credits(j)' > 0
               THEN \E e \in entries' : Returns(j)' = {e} /\ e.delta = Credits(j)'
               ELSE Returns(j)' = {}
    BY <1>0, <1>4, <1>5, <2>3, <2>5, <2>8 DEF ReturnsOK
  <2>9. \E e \in entries' : Returns(i)' = {e} /\ e.delta = Credits(i)'
    BY <1>5, <2>4, <2>6
  <2> QED
    BY <1>4, <1>5, <1>6, <2>7, <2>8, <2>9 DEF ReturnsOK
<1>7. CASE ~(Credits(i) > 0)
  <2>1. entries' = entries
    BY <1>1, <1>7 DEF Return
  <2>2. \A j \in Times : Returns(j)' = Returns(j)
    BY <2>1 DEF Returns
  <2> QED
    BY <1>0, <1>3, <1>4, <1>5, <1>7, <2>1, <2>2 DEF ReturnsOK
<1> QED
  BY <1>6, <1>7

\* A new invoice owes its credits, if it has any.
LEMMA IssueReturns ==
  ASSUME IInv, ReturnsOK, NEW p \in Issuers, Issue(p)
  PROVE  ReturnsOK'
<1>1. /\ CreditLineTypeOK /\ account \in Account /\ now \in Times /\ issuers[p] \in Issuer
      /\ DOMAIN invoices \subseteq Times
  BY DEF IInv, CreditLineTypeOK
<1>2. /\ issuers[p].start \in Times /\ issuers[p].end \in Times
      /\ entries' = entries
  BY <1>1 DEF Issuer, Issue
<1>3. PICK i \in Times, e \in Times : i = issuers[p].start /\ e = issuers[p].end
  BY <1>2
<1>4. \A j \in Times : Returns(j)' = Returns(j)
  BY <1>2 DEF Returns
<1>5. CASE UNCHANGED invoices
  BY <1>1, <1>4, <1>5, ReturnsStay
<1>6. CASE /\ i \notin DOMAIN invoices
           /\ invoices' = [j \in DOMAIN invoices \cup {i} |->
                IF j = i THEN NewInvoice(j, e) ELSE invoices[j]]
  <2>1. NewInvoice(i, e).status \in {"PAID", "VOID"} => Cardinality(NewInvoice(i, e).billed) = 0
    <3> DEFINE b == Usage(i, e)
    <3>1. Cardinality(b) \in Nat
      BY CreditsAreNatural DEF Usage
    <3>2. account.minimum \in Nat /\ Rate \in Nat /\ Rate > 0
      BY <1>1, CreditLineAssumption DEF Account
    <3> HIDE DEF b
    <3>3. Cardinality(b) > 0 => Cardinality(b) * Rate > 0
      BY <3>1, <3>2
    <3>4. Cardinality(b) * Rate \in Nat
      BY <3>1, <3>2
    <3>5. PriceUsage(b) = 0 => Cardinality(b) = 0
      BY <3>1, <3>2, <3>3, <3>4 DEF PriceUsage, Later
    <3> QED
      BY <3>5 DEF NewInvoice, b
  <2>2. /\ DOMAIN invoices' = DOMAIN invoices \cup {i} /\ invoices'[i] = NewInvoice(i, e)
        /\ \A j \in DOMAIN invoices : invoices'[j] = invoices[j]
    BY <1>6
  <2>3. Returns(i)' = {}
    BY <1>2, <1>4, <1>6 DEF ReturnsOK
  <2>4. invoices'[i].status \in {"PAID", "VOID"} => ~(Credits(i)' > 0)
    BY <2>1, <2>2 DEF Credits
  <2>5. \A j \in DOMAIN invoices : Credits(j)' = Credits(j)
    BY <2>2 DEF Credits
  <2>6. ASSUME NEW j \in DOMAIN invoices
        PROVE  IF invoices'[j].status \in {"PAID", "VOID"} /\ Credits(j)' > 0
               THEN \E f \in entries' : Returns(j)' = {f} /\ f.delta = Credits(j)'
               ELSE Returns(j)' = {}
    BY <1>1, <1>2, <1>4, <2>2, <2>5 DEF ReturnsOK
  <2>7. \A j \in Times \ DOMAIN invoices' : Returns(j)' = {}
    BY <1>4, <2>2 DEF ReturnsOK
  <2> QED
    BY <2>2, <2>3, <2>4, <2>6, <2>7 DEF ReturnsOK
<1> QED
  BY <1>5, <1>6, <1>3 DEF Issue, MayIssue

\* Every other step leaves the returns and the invoices' ends alone.
LEMMA ReturnsStep ==
  ASSUME IInv, ReturnsOK, [Next]_vars
  PROVE  ReturnsOK'
<1>0. DOMAIN invoices \subseteq Times /\ \A i \in DOMAIN invoices : invoices[i] \in Invoice
  BY DEF IInv, CreditLineTypeOK
<1>1. CASE invoices' = invoices /\ entries' = entries
  <2>1. \A i \in Times : Returns(i)' = Returns(i)
    BY <1>1 DEF Returns
  <2> QED
    BY <1>0, <1>1, <2>1, ReturnsStay
<1>2. ASSUME NEW g \in Gens, Debit(g) \/ Succeed(g) \/ Fail(g)
      PROVE  ReturnsOK'
  <2>1. \A i \in Times : Returns(i)' = Returns(i)
    <3>1. CASE Succeed(g)
      BY <3>1 DEF Succeed, Returns
    <3>2. CASE Debit(g)
      BY <3>2, OtherEntries DEF Debit
    <3>3. CASE Fail(g)
      BY <3>3, OtherEntries DEF Fail
    <3> QED
      BY <1>2, <3>1, <3>2, <3>3
  <2>2. invoices' = invoices
    BY <1>2 DEF Debit, Succeed, Fail
  <2> QED
    BY <1>0, <2>1, <2>2, ReturnsStay
<1>3. ASSUME NEW i \in DOMAIN invoices, MarkOverdue(i)
      PROVE  ReturnsOK'
  <2>1. invoices' = [invoices EXCEPT ![i].status = "OVERDUE"] /\ invoices[i].status = "OPEN" /\ entries' = entries
    BY <1>3 DEF MarkOverdue
  <2>2. /\ DOMAIN invoices' = DOMAIN invoices
        /\ \A j \in DOMAIN invoices :
             /\ invoices'[j].billed = invoices[j].billed
             /\ invoices'[j].status \in {"PAID", "VOID"} <=> invoices[j].status \in {"PAID", "VOID"}
    BY <1>0, <2>1 DEF Invoice
  <2>3. \A j \in Times : Returns(j)' = Returns(j)
    BY <2>1 DEF Returns
  <2> QED
    BY <1>0, <2>2, <2>3, ReturnsStay
<1>4. CASE \/ TickBegins \/ \E s \in Staff : StaffBegins(s)
           \/ \E p \in Issuers : Plan(p)
           \/ \E t \in Terms : SetTerms(t)
           \/ CloseAccount \/ Reactivate \/ PauseReads \/ PauseCommits
           \/ \E i \in DOMAIN invoices : FollowUpLooks(i) \/ ReactivateIfClear(i)
           \/ TimePasses \/ ApiDies \/ WorkerDies \/ UNCHANGED vars
  BY <1>1, <1>4 DEF TickBegins, StaffBegins, Begin, Plan, Unlocked, SetTerms, CloseAccount, Reactivate,
     PauseReads, PauseCommits, FollowUpLooks, ReactivateIfClear, TimePasses, ApiDies, WorkerDies, vars
<1>5. CASE \E p \in Issuers : Issue(p)
  BY <1>5, IssueReturns
<1>6. CASE \E i \in DOMAIN invoices : SettleInvoice(i) \/ VoidInvoice(i)
  BY <1>6, EndReturns
<1> QED
  BY <1>2, <1>3, <1>4, <1>5, <1>6 DEF Next

LEMMA InitReturns == Init => ReturnsOK
BY DEF Init, ReturnsOK, Returns

\* The credits of an invoice come back once (settleInvoice, voidInvoice, ledger_apply), however payments, staff and
\* retries meet on it: in one entry of all its credits, when it is paid or voided, and not before.
THEOREM CreditsComeBackOnce == Spec => []CreditsReturnedOnce
<1>1. IInv /\ ReturnsOK => CreditsReturnedOnce
  <2> SUFFICES ASSUME IInv, ReturnsOK, NEW i \in DOMAIN invoices
               PROVE  MapThenSumSet(LAMBDA e : e.delta, Returns(i))
                        = IF invoices[i].status \in {"PAID", "VOID"} THEN Credits(i) ELSE 0
    BY DEF CreditsReturnedOnce, Returns
  <2>1. Credits(i) \in Nat
    <3>1. invoices[i].billed \subseteq Gens
      BY DEF IInv, CreditLineTypeOK, Invoice
    <3> QED
      BY <3>1, CreditsAreNatural DEF Credits
  <2>2. CASE invoices[i].status \in {"PAID", "VOID"} /\ Credits(i) > 0
    <3>1. PICK e \in entries : Returns(i) = {e} /\ e.delta = Credits(i)
      BY <2>2 DEF ReturnsOK
    <3>2. MapThenSumSet(LAMBDA x : x.delta, {e}) = e.delta
      BY <2>1, <3>1, FoldOfOne
    <3> QED
      BY <2>2, <3>1, <3>2
  <2>3. CASE ~(invoices[i].status \in {"PAID", "VOID"} /\ Credits(i) > 0)
    <3>1. Returns(i) = {}
      BY <2>3 DEF ReturnsOK
    <3>2. invoices[i].status \in {"PAID", "VOID"} => Credits(i) = 0
      BY <2>1, <2>3
    <3> QED
      BY <3>1, <3>2, FoldOfNone
  <2> QED
    BY <2>2, <2>3
<1>2. IInv /\ ReturnsOK /\ [Next]_vars => ReturnsOK'
  BY ReturnsStep
<1> QED
  BY InitReturns, Invariance, <1>1, <1>2, PTL DEF Spec

-----------------------------------------------------------------------------
(* The end of a pause.                                                     *)

AllCredits == \A i \in DOMAIN invoices : Credits(i) > 0

\* As long as nobody died and every invoice takes the lock, a pause that dunning is about to write, and one that
\* is written, has its cause or an end.
PauseHasCause ==
  /\ crashes \in Nat
  /\ crashes = 0 /\ AllCredits =>
       /\ pausing => \E i \in DOMAIN invoices : invoices[i].status = "OVERDUE"
       /\ account.status = "SUSPENDED" => HasBlockers \/ \E i \in DOMAIN invoices : followUps[i] # "none"

LEMMA CausesStep ==
  ASSUME IInv, PauseHasCause, [Next]_vars
  PROVE  PauseHasCause'
<1>counted. crashes' \in Nat
  <2>1. crashes' = crashes \/ crashes' = crashes + 1
    BY DEF Next, vars, Debit, Succeed, Fail, Plan, Issue, TickBegins, StaffBegins, Begin, Unlocked, SetTerms,
       CloseAccount, Reactivate, SettleInvoice, VoidInvoice, EndInvoice, FollowUpLooks, ReactivateIfClear,
       MarkOverdue, PauseReads, PauseCommits, TimePasses, ApiDies, WorkerDies
  <2> QED
    BY <2>1 DEF PauseHasCause
<1> SUFFICES ASSUME crashes' = 0, AllCredits'
             PROVE  /\ pausing' => \E i \in DOMAIN invoices' : invoices'[i].status = "OVERDUE"
                    /\ account'.status = "SUSPENDED" =>
                         HasBlockers' \/ \E i \in DOMAIN invoices' : followUps'[i] # "none"
  BY <1>counted DEF PauseHasCause
<1>0. /\ DOMAIN invoices \subseteq Times /\ \A i \in DOMAIN invoices : invoices[i] \in Invoice
      /\ account \in Account /\ followUps \in [Times -> {"none", "look", "reopen"}] /\ pausing \in BOOLEAN
  BY DEF IInv, CreditLineTypeOK
<1>1. CASE ApiDies \/ WorkerDies
  BY <1>1 DEF ApiDies, WorkerDies, PauseHasCause
<1>2. CASE UNCHANGED <<account, invoices, followUps, pausing, crashes>>
  <2>1. PauseHasCause /\ AllCredits /\ crashes = 0 /\ (HasBlockers => HasBlockers')
    BY <1>2 DEF AllCredits, Credits, HasBlockers
  <2> QED
    BY <1>2, <2>1 DEF PauseHasCause
<1>3. ASSUME NEW p \in Issuers, Issue(p)
      PROVE  /\ pausing' => \E i \in DOMAIN invoices' : invoices'[i].status = "OVERDUE"
             /\ account'.status = "SUSPENDED" =>
                  HasBlockers' \/ \E i \in DOMAIN invoices' : followUps'[i] # "none"
  <2>1. ~pausing /\ UNCHANGED <<account, followUps, pausing, crashes>>
    BY <1>3 DEF Issue, LineFree
  <2>2. /\ DOMAIN invoices \subseteq DOMAIN invoices'
        /\ \A i \in DOMAIN invoices : invoices'[i] = invoices[i]
    BY <1>3 DEF Issue, MayIssue
  <2>3. AllCredits
    BY <2>2 DEF AllCredits, Credits
  <2>4. HasBlockers => HasBlockers'
    BY <2>2 DEF HasBlockers
  <2> QED
    BY <2>1, <2>2, <2>3, <2>4 DEF PauseHasCause
<1>4. ASSUME NEW i \in DOMAIN invoices, SettleInvoice(i) \/ VoidInvoice(i) \/ MarkOverdue(i)
      PROVE  /\ pausing' => \E j \in DOMAIN invoices' : invoices'[j].status = "OVERDUE"
             /\ account'.status = "SUSPENDED" =>
                  HasBlockers' \/ \E j \in DOMAIN invoices' : followUps'[j] # "none"
  <2>1. PICK st \in {"PAID", "VOID", "OVERDUE"} :
          /\ invoices' = [invoices EXCEPT ![i].status = st]
          /\ st # "OVERDUE" => followUps' = [followUps EXCEPT ![i] = "look"] /\ (Credits(i) > 0 => ~pausing)
    <3>1. CASE SettleInvoice(i)
      BY <3>1 DEF SettleInvoice, EndInvoice, Return, Apply, LineFree
    <3>2. CASE VoidInvoice(i)
      BY <3>2 DEF VoidInvoice, EndInvoice, Return, Apply, LineFree
    <3>3. CASE MarkOverdue(i)
      BY <3>3 DEF MarkOverdue
    <3> QED
      BY <1>4, <3>1, <3>2, <3>3
  <2>2. UNCHANGED <<account, pausing, crashes>>
    BY <1>4 DEF SettleInvoice, VoidInvoice, MarkOverdue, EndInvoice
  <2>3. /\ DOMAIN invoices' = DOMAIN invoices /\ invoices'[i].status = st
        /\ \A j \in DOMAIN invoices : invoices'[j].billed = invoices[j].billed
    BY <1>0, <2>1 DEF Invoice
  <2>4. AllCredits
    BY <2>3 DEF AllCredits, Credits
  <2>5. CASE st = "OVERDUE"
    BY <2>3, <2>5 DEF HasBlockers, Blockers
  <2>6. CASE st # "OVERDUE"
    BY <1>0, <2>1, <2>2, <2>3, <2>4, <2>6 DEF AllCredits
  <2> QED
    BY <2>5, <2>6
<1>5. ASSUME NEW i \in DOMAIN invoices, FollowUpLooks(i) \/ ReactivateIfClear(i)
      PROVE  /\ pausing' => \E j \in DOMAIN invoices' : invoices'[j].status = "OVERDUE"
             /\ account'.status = "SUSPENDED" =>
                  HasBlockers' \/ \E j \in DOMAIN invoices' : followUps'[j] # "none"
  <2>1. UNCHANGED <<invoices, pausing, crashes>>
    BY <1>5 DEF FollowUpLooks, ReactivateIfClear
  <2>2. PauseHasCause /\ AllCredits /\ crashes = 0 /\ (HasBlockers => HasBlockers')
    BY <2>1 DEF AllCredits, Credits, HasBlockers
  <2>3. CASE FollowUpLooks(i)
    BY <1>0, <2>1, <2>2, <2>3 DEF FollowUpLooks, PauseHasCause
  <2>4. CASE ReactivateIfClear(i)
    <3>1. account'.status = "SUSPENDED" => HasBlockers
      BY <1>0, <2>4 DEF ReactivateIfClear, Reopened, Account
    <3> QED
      BY <2>1, <2>2, <3>1 DEF PauseHasCause
  <2> QED
    BY <1>5, <2>3, <2>4
<1>6. CASE \/ \E t \in Terms : SetTerms(t)
           \/ CloseAccount \/ Reactivate
  <2>1. UNCHANGED <<invoices, pausing, crashes, followUps>>
    BY <1>6 DEF SetTerms, CloseAccount, Reactivate
  <2>2. PauseHasCause /\ AllCredits /\ crashes = 0 /\ (HasBlockers => HasBlockers')
    BY <2>1 DEF AllCredits, Credits, HasBlockers
  <2>3. account'.status = "SUSPENDED" => account.status = "SUSPENDED"
    BY <1>0, <1>6 DEF SetTerms, CloseAccount, Reactivate, Reopened, Account
  <2> QED
    BY <2>1, <2>2, <2>3 DEF PauseHasCause
<1>7. CASE PauseReads
  <2>1. /\ UNCHANGED <<invoices, account>> /\ account.status = "ACTIVE"
        /\ \E i \in DOMAIN invoices : invoices[i].status = "OVERDUE"
    BY <1>7 DEF PauseReads
  <2> QED
    BY <2>1
<1>8. CASE PauseCommits
  <2>1. UNCHANGED <<invoices, crashes>> /\ pausing /\ ~pausing'
    BY <1>8 DEF PauseCommits
  <2>2. PauseHasCause /\ AllCredits /\ crashes = 0
    BY <2>1 DEF AllCredits, Credits
  <2> QED
    BY <2>1, <2>2 DEF PauseHasCause, HasBlockers, Blockers
<1>9. CASE \/ TickBegins \/ \E s \in Staff : StaffBegins(s)
           \/ \E p \in Issuers : Plan(p)
           \/ \E g \in Gens : Debit(g) \/ Succeed(g) \/ Fail(g)
           \/ TimePasses \/ UNCHANGED vars
  BY <1>2, <1>9 DEF TickBegins, StaffBegins, Begin, Plan, Unlocked, Debit, Succeed, Fail, TimePasses, vars
<1> QED
  BY <1>1, <1>3, <1>4, <1>5, <1>6, <1>7, <1>8, <1>9 DEF Next

\* A workspace whose blocking invoices are all settled is not left paused: what dunning read under the wallet's lock
\* is still so when it suspends (dun), and a payment that ends the last cause leaves its follow-up
\* (reactivateIfClear).  Excepted are a death, and an invoice that is settled without the lock.
THEOREM PaidUpReopens == Spec => []PaidUpIsReopened
<1>1. Init => PauseHasCause
  BY DEF Init, PauseHasCause, NoAccount
<1>2. PauseHasCause => PaidUpIsReopened
  BY DEF PauseHasCause, PaidUpIsReopened, AllCredits
<1>3. IInv /\ PauseHasCause /\ [Next]_vars => PauseHasCause'
  BY CausesStep
<1> QED
  BY Invariance, <1>1, <1>2, <1>3, PTL DEF Spec

-----------------------------------------------------------------------------
(* The order of the invoices.                                              *)

\* The last end is the greatest.
LastEndIsTop ==
  /\ LastEnd \in Nat /\ \A i \in DOMAIN invoices : invoices[i].end \in Nat /\ invoices[i].end <= LastEnd
  /\ LastEnd = 0 \/ \E i \in DOMAIN invoices : invoices[i].end = LastEnd

LEMMA TopExists == CreditLineTypeOK => LastEndIsTop
<1> SUFFICES ASSUME CreditLineTypeOK PROVE LastEndIsTop
  OBVIOUS
<1> DEFINE S == {invoices[i].end : i \in DOMAIN invoices} \cup {0}
<1>1. \A i \in DOMAIN invoices : invoices[i].end \in Times
  BY DEF CreditLineTypeOK, Invoice
<1>2. S \in SUBSET Nat /\ S # {} /\ MaxTime \in Nat /\ \A x \in S : x <= MaxTime
  BY <1>1, CreditLineAssumption DEF Times
<1>3. Max(S) \in S /\ \A y \in S : y <= Max(S)
  <2> HIDE DEF S
  <2> QED
    BY <1>2, GreatestNatural
<1>4. LastEnd = Max(S)
  BY DEF LastEnd
<1> HIDE DEF S
<1>5. \A i \in DOMAIN invoices : invoices[i].end \in S
  BY DEF S
<1>6. LastEnd \in S /\ \A y \in S : y <= LastEnd
  BY <1>3, <1>4
<1>7. LastEnd = 0 \/ \E i \in DOMAIN invoices : invoices[i].end = LastEnd
  BY <1>6 DEF S
<1> QED
  BY <1>2, <1>5, <1>6, <1>7 DEF LastEndIsTop

LEMMA LastEndStays ==
  ASSUME DOMAIN invoices' = DOMAIN invoices, \A i \in DOMAIN invoices : invoices'[i].end = invoices[i].end
  PROVE  LastEnd' = LastEnd
<1>1. {invoices'[i].end : i \in DOMAIN invoices'} = {invoices[i].end : i \in DOMAIN invoices}
  OBVIOUS
<1> QED
  BY <1>1 DEF LastEnd

LEMMA LastEndMoves ==
  ASSUME CreditLineTypeOK, CreditLineTypeOK', NEW i, DOMAIN invoices' = DOMAIN invoices \cup {i},
         \A j \in DOMAIN invoices : invoices'[j].end = invoices[j].end
  PROVE  /\ LastEnd' \in Nat /\ LastEnd <= LastEnd'
         /\ invoices'[i].end <= LastEnd => LastEnd' = LastEnd
<1>1. /\ LastEnd \in Nat /\ \A j \in DOMAIN invoices : invoices[j].end \in Nat /\ invoices[j].end <= LastEnd
      /\ LastEnd = 0 \/ \E j \in DOMAIN invoices : invoices[j].end = LastEnd
  BY TopExists DEF LastEndIsTop
<1>2. /\ LastEnd' \in Nat
      /\ \A j \in DOMAIN invoices' : invoices'[j].end \in Nat /\ invoices'[j].end <= LastEnd'
      /\ LastEnd' = 0 \/ \E j \in DOMAIN invoices' : invoices'[j].end = LastEnd'
  <2>1. LastEndIsTop'
    BY TopExists, PTL
  <2> QED
    BY <2>1 DEF LastEndIsTop
<1>3. LastEnd <= LastEnd'
  BY <1>1, <1>2
<1>4. ASSUME invoices'[i].end <= LastEnd
      PROVE  LastEnd' <= LastEnd
  BY <1>1, <1>2, <1>4
<1> QED
  BY <1>1, <1>2, <1>3, <1>4

\* What a request plans with and what it has planned, as long as the opening it began in is not overtaken: an
\* invoice that reaches further than all before it starts where the last one ends, or where the line opened.
PlannedAt(p) ==
  /\ issuers[p].pc = "issue" => issuers[p].start < issuers[p].end
  /\ ~overtaken =>
       /\ issuers[p].pc = "plan" \/ p = Tick =>
            issuers[p].seen.startedAt = account.startedAt /\ account.startedAt <= issuers[p].at
       /\ issuers[p].pc = "issue" =>
            \/ issuers[p].end <= LastEnd
            \/ issuers[p].start \in DOMAIN invoices
            \/ issuers[p].start = Later(LastEnd, account.startedAt)

InOrder ==
  /\ \A i \in DOMAIN invoices : i < invoices[i].end
  /\ account.startedAt <= now
  /\ account.status = "NONE" => \A p \in Issuers : ~InFlight(p)
  /\ \A p \in Issuers : InFlight(p) => PlannedAt(p)

LEMMA InitInOrder == Init => InOrder
<1> SUFFICES ASSUME Init PROVE InOrder
  OBVIOUS
<1>1. \A p \in Issuers : ~InFlight(p)
  BY DEF Init, InFlight, Idle
<1> QED
  BY <1>1 DEF Init, InOrder, NoAccount

\* Steps that write no invoice: who is at work has what it had, or begins with the account and the clock.
LEMMA OrderStays ==
  ASSUME IInv, InOrder,
         DOMAIN invoices' = DOMAIN invoices, \A i \in DOMAIN invoices : invoices'[i].end = invoices[i].end,
         overtaken => overtaken',
         account'.startedAt <= now',
         account'.status = "NONE" => account.status = "NONE",
         \A p \in Issuers : InFlight(p)' =>
           \/ issuers'[p] = issuers[p] /\ (~overtaken' => account'.startedAt = account.startedAt)
           \/ /\ account'.status # "NONE" /\ issuers'[p].pc = "plan"
              /\ issuers'[p].seen.startedAt = account'.startedAt /\ account'.startedAt <= issuers'[p].at
  PROVE  InOrder'
<1>1. LastEnd' = LastEnd
  BY LastEndStays
<1>2. ASSUME NEW p \in Issuers, InFlight(p)'
      PROVE  PlannedAt(p)' /\ account'.status # "NONE"
  <2>1. CASE issuers'[p] = issuers[p] /\ (~overtaken' => account'.startedAt = account.startedAt)
    <3>1. InFlight(p)
      BY <1>2, <2>1 DEF InFlight
    <3>2. PlannedAt(p) /\ account.status # "NONE"
      BY <3>1 DEF InOrder
    <3> QED
      BY <1>1, <2>1, <3>2 DEF PlannedAt
  <2>2. CASE /\ account'.status # "NONE" /\ issuers'[p].pc = "plan"
             /\ issuers'[p].seen.startedAt = account'.startedAt /\ account'.startedAt <= issuers'[p].at
    BY <2>2 DEF PlannedAt
  <2> QED
    BY <1>2, <2>1, <2>2
<1>3. \A i \in DOMAIN invoices' : i < invoices'[i].end
  BY DEF InOrder
<1>4. account'.status = "NONE" => \A p \in Issuers : ~InFlight(p)'
  BY <1>2
<1> QED
  BY <1>2, <1>3, <1>4 DEF InOrder

\* A period is planned from where the last one ends, or where the line opened, unless the clock is behind.
LEMMA PlanInOrder ==
  ASSUME IInv, InOrder, NEW p \in Issuers, Plan(p)
  PROVE  InOrder'
<1>1. /\ CreditLineTypeOK /\ issuers \in [Issuers -> Issuer] /\ issuers[p] \in Issuer
      /\ issuers[p].pc = "plan" /\ account \in Account
  BY DEF IInv, CreditLineTypeOK, Plan
<1>2. UNCHANGED <<now, account, overtaken, invoices>>
  BY DEF Plan, Unlocked
<1>3. LastEnd' = LastEnd /\ LastEnd \in Nat
  BY <1>1, <1>2, LastEndStays, TopExists DEF LastEndIsTop
<1>4. InFlight(p) /\ account.status # "NONE" /\ PlannedAt(p)
  BY <1>1 DEF InFlight, InOrder
<1> DEFINE start == OpenPeriodStart(issuers[p].seen, issuers[p].at)
           end   == PlannedEnd(p, start)
<1>5. issuers' = [issuers EXCEPT ![p] =
         IF end \in 1 .. issuers[p].at /\ start \in 0 .. (end - 1)
         THEN [(IF p = Tick THEN issuers[p] ELSE Idle) EXCEPT !.pc = "issue", !.start = start, !.end = end]
         ELSE Finished(p)]
  BY DEF Plan
<1>6. \A q \in Issuers \ {p} : issuers'[q] = issuers[q]
  <2> HIDE DEF start, end
  <2> QED BY <1>1, <1>5
<1>7. CASE end \in 1 .. issuers[p].at /\ start \in 0 .. (end - 1)
  <2>1. ~overtaken /\ ~(end <= LastEnd) => start = Later(LastEnd, account.startedAt)
    <3> SUFFICES ASSUME ~overtaken, ~(end <= LastEnd)
                 PROVE  start = Later(LastEnd, account.startedAt)
      OBVIOUS
    <3>1. issuers[p].seen.startedAt = account.startedAt /\ account.startedAt <= issuers[p].at
      BY <1>1, <1>4 DEF PlannedAt
    <3>2. issuers[p].at \in Nat /\ account.startedAt \in Nat
      BY <1>1, TimesAreNaturals DEF Issuer, Account
    <3> DEFINE first == Later(LastEnd, account.startedAt)
    <3>3. start = IF first > issuers[p].at THEN MonthStart(issuers[p].at) ELSE first
      BY <3>1 DEF OpenPeriodStart
    <3>4. end \in Nat /\ end <= issuers[p].at
      <4> HIDE DEF start, end
      <4> QED
        BY <1>7, <3>2
    <3>5. first \in Nat /\ (first > issuers[p].at => LastEnd > issuers[p].at)
      BY <1>3, <3>1, <3>2 DEF Later
    <3> HIDE DEF start, end, first
    <3>6. ~(first > issuers[p].at)
      BY <1>3, <3>2, <3>4, <3>5
    <3> QED
      BY <3>3, <3>6 DEF first
  <2> DEFINE old == IF p = Tick THEN issuers[p] ELSE Idle
             row == [old EXCEPT !.pc = "issue", !.start = start, !.end = end]
  <2>2. old \in Issuer
    BY <1>1, IdleIsTyped
  <2> HIDE DEF start, end, old
  <2>3. row.pc = "issue" /\ row.start = start /\ row.end = end /\ row.seen = old.seen /\ row.at = old.at
    BY <2>2 DEF Issuer
  <2>4. issuers'[p] = row
    BY <1>1, <1>5, <1>7 DEF old
  <2> HIDE DEF row
  <2>5. start < end
    BY <1>1, <1>7, TimesAreNaturals DEF Issuer
  <2>6. ~overtaken' => end <= LastEnd' \/ start = Later(LastEnd', account'.startedAt)
    BY <1>2, <1>3, <2>1
  <2>7. ~overtaken' /\ p = Tick =>
          issuers'[p].seen.startedAt = account'.startedAt /\ account'.startedAt <= issuers'[p].at
    BY <1>1, <1>2, <1>4, <2>3, <2>4 DEF PlannedAt, old
  <2>8. PlannedAt(p)'
    BY <2>3, <2>4, <2>5, <2>6, <2>7 DEF PlannedAt
  <2>9. ASSUME NEW q \in Issuers, InFlight(q)', q # p
        PROVE  PlannedAt(q)'
    <3>1. issuers'[q] = issuers[q] /\ InFlight(q)
      BY <1>6, <2>9 DEF InFlight
    <3>2. PlannedAt(q)
      BY <3>1 DEF InOrder
    <3> QED
      BY <1>2, <1>3, <3>1, <3>2 DEF PlannedAt
  <2>10. account'.status # "NONE" /\ account'.startedAt <= now'
    BY <1>2, <1>4 DEF InOrder
  <2>11. \A i \in DOMAIN invoices' : i < invoices'[i].end
    BY <1>2 DEF InOrder
  <2> QED
    BY <2>8, <2>9, <2>10, <2>11 DEF InOrder
<1>8. CASE ~(end \in 1 .. issuers[p].at /\ start \in 0 .. (end - 1))
  <2> HIDE DEF start, end
  <2>1. issuers'[p] = Finished(p)
    BY <1>1, <1>5, <1>8
  <2>2. ~InFlight(p)'
    BY <2>1, IdleIsTyped DEF InFlight, Finished, Idle
  <2>3. \A q \in Issuers : InFlight(q)' => issuers'[q] = issuers[q]
    BY <1>6, <2>2
  <2>4. account.startedAt <= now
    BY DEF InOrder
  <2> QED
    BY <1>2, <2>3, <2>4, OrderStays
<1> QED
  BY <1>7, <1>8

\* The invoice that is written, if it reaches further than all before it, starts where its plan began.
LEMMA IssueInOrder ==
  ASSUME IInv, IInv', InOrder, NEW p \in Issuers, Issue(p)
  PROVE  /\ InOrder'
         /\ \A i \in DOMAIN invoices' \ DOMAIN invoices :
              ~overtaken /\ invoices'[i].end > LastEnd => i = Later(LastEnd, account.startedAt)
<1>1. /\ CreditLineTypeOK /\ issuers \in [Issuers -> Issuer] /\ issuers[p] \in Issuer
      /\ account \in Account /\ now \in Times
  BY DEF IInv, CreditLineTypeOK
<1>2. UNCHANGED <<now, account, overtaken>> /\ issuers[p].pc = "issue"
  BY DEF Issue
<1>3. LastEnd \in Nat /\ CreditLineTypeOK'
  BY <1>1, TopExists DEF LastEndIsTop, IInv
<1>4. InFlight(p) /\ account.status # "NONE" /\ PlannedAt(p) /\ account.startedAt <= now
  BY <1>2 DEF InFlight, InOrder
<1>5. PICK i \in Times, e \in Times : i = issuers[p].start /\ e = issuers[p].end
  BY <1>1 DEF Issuer
<1>6. i < e
  BY <1>2, <1>4, <1>5 DEF PlannedAt
<1>7. \A q \in Issuers \ {p} : issuers'[q] = issuers[q]
  BY <1>1 DEF Issue
<1>8. CASE UNCHANGED invoices /\ issuers' = [issuers EXCEPT ![p] = Finished(p)]
  <2>1. ~InFlight(p)'
    BY <1>1, <1>8 DEF InFlight, Finished, Idle
  <2>2. \A q \in Issuers : InFlight(q)' => issuers'[q] = issuers[q]
    BY <1>7, <2>1
  <2>3. InOrder'
    BY <1>2, <1>4, <1>8, <2>2, OrderStays
  <2> QED
    BY <1>8, <2>3
<1>9. CASE /\ i \notin DOMAIN invoices
           /\ invoices' = [j \in DOMAIN invoices \cup {i} |->
                IF j = i THEN NewInvoice(j, e) ELSE invoices[j]]
           /\ issuers' = [issuers EXCEPT ![p] =
                IF p = Tick THEN [issuers[p] EXCEPT !.pc = "plan", !.start = 0, !.end = 0] ELSE Finished(p)]
  <2>1. NewInvoice(i, e).end = e
    BY <1>1, NewInvoiceIsTyped
  <2>2. /\ DOMAIN invoices' = DOMAIN invoices \cup {i} /\ invoices'[i].end = e
        /\ \A j \in DOMAIN invoices : invoices'[j] = invoices[j]
    BY <1>9, <2>1
  <2>3. /\ LastEnd' \in Nat /\ LastEnd <= LastEnd'
        /\ e <= LastEnd => LastEnd' = LastEnd
    BY <1>1, <1>3, <2>2, LastEndMoves
  <2>4. ~overtaken /\ e > LastEnd => i = Later(LastEnd, account.startedAt)
    BY <1>2, <1>3, <1>4, <1>5, <1>9, TimesAreNaturals DEF PlannedAt
  <2>5. \A j \in DOMAIN invoices' : j < invoices'[j].end
    BY <1>6, <2>2 DEF InOrder
  <2>6. ASSUME NEW q \in Issuers, InFlight(q)', q # p
        PROVE  PlannedAt(q)'
    <3>1. issuers'[q] = issuers[q] /\ InFlight(q) /\ issuers[q] \in Issuer
      BY <1>1, <1>7, <2>6 DEF InFlight
    <3>2. PlannedAt(q) /\ issuers[q].end \in Nat
      BY <3>1, TimesAreNaturals DEF InOrder, Issuer
    <3>3. ASSUME ~overtaken, issuers[q].pc = "issue"
          PROVE  \/ issuers[q].end <= LastEnd'
                 \/ issuers[q].start \in DOMAIN invoices'
                 \/ issuers[q].start = Later(LastEnd', account.startedAt)
      <4>1. CASE issuers[q].end <= LastEnd
        BY <1>3, <2>3, <3>2, <4>1
      <4>2. CASE issuers[q].start \in DOMAIN invoices
        BY <2>2, <4>2
      <4>3. CASE issuers[q].start = Later(LastEnd, account.startedAt)
        BY <1>3, <2>2, <2>3, <2>4, <3>3, <4>3, TimesAreNaturals
      <4> QED
        BY <3>2, <3>3, <4>1, <4>2, <4>3 DEF PlannedAt
    <3> QED
      BY <1>2, <3>1, <3>2, <3>3 DEF PlannedAt
  <2>7. InFlight(p)' => PlannedAt(p)'
    <3> SUFFICES ASSUME InFlight(p)' PROVE PlannedAt(p)'
      OBVIOUS
    <3>1. p = Tick
      BY <1>1, <1>9 DEF InFlight, Finished, Idle
    <3>2. issuers'[p] = [issuers[p] EXCEPT !.pc = "plan", !.start = 0, !.end = 0]
      BY <1>1, <1>9, <3>1
    <3>3. issuers'[p].pc = "plan" /\ issuers'[p].seen = issuers[p].seen /\ issuers'[p].at = issuers[p].at
      BY <1>1, <3>2 DEF Issuer
    <3> QED
      BY <1>2, <1>4, <3>1, <3>3 DEF PlannedAt
  <2>8. InOrder'
    BY <1>2, <1>4, <2>5, <2>6, <2>7 DEF InOrder
  <2> QED
    BY <2>2, <2>4, <2>8
<1> QED
  BY <1>5, <1>8, <1>9 DEF Issue, MayIssue

\* Opening a line again, if nobody is at work on its last opening; or the account begins.
LEMMA TermsInOrder ==
  ASSUME IInv, InOrder, NEW t \in Terms, SetTerms(t)
  PROVE  InOrder'
<1>1. /\ account \in Account /\ now \in Nat /\ overtaken \in BOOLEAN
      /\ account.startedAt <= now
  BY TimesAreNaturals DEF IInv, CreditLineTypeOK, InOrder
<1>2. /\ UNCHANGED <<now, invoices, issuers>>
      /\ account' = [account EXCEPT !.limit = t.limit, !.minimum = t.minimum,
           !.status = IF @ \in {"NONE", "CLOSED"} THEN "ACTIVE" ELSE @,
           !.startedAt = IF account.status \in {"NONE", "CLOSED"} THEN now ELSE @,
           !.closedAt = 0]
      /\ overtaken' = (overtaken \/ (account.status = "CLOSED" /\ StillInvoicing))
  BY DEF SetTerms
<1>3. /\ account'.startedAt = (IF account.status \in {"NONE", "CLOSED"} THEN now ELSE account.startedAt)
      /\ account'.status # "NONE"
  BY <1>1, <1>2 DEF Account
<1>4. account'.startedAt <= now'
  BY <1>1, <1>2, <1>3
<1>5. ASSUME NEW p \in Issuers, InFlight(p)', ~overtaken'
      PROVE  account'.startedAt = account.startedAt
  <2>1. InFlight(p)
    BY <1>2, <1>5 DEF InFlight
  <2>2. account.status \notin {"NONE", "CLOSED"}
    BY <1>2, <1>5, <2>1 DEF InOrder, StillInvoicing
  <2> QED
    BY <1>3, <2>2
<1>6. overtaken => overtaken'
  BY <1>2
<1> QED
  BY <1>2, <1>3, <1>4, <1>5, <1>6, OrderStays

\* A request begins with the account and the clock as they are.
LEMMA BeginInOrder ==
  ASSUME IInv, InOrder, NEW p \in Issuers,
         issuers' = [issuers EXCEPT ![p] = [Idle EXCEPT !.pc = "plan", !.at = now, !.seen = Seen(account')]],
         account' \in Account, account'.startedAt = account.startedAt, account'.status # "NONE",
         UNCHANGED <<now, invoices, overtaken>>
  PROVE  InOrder'
<1>1. issuers \in [Issuers -> Issuer] /\ account.startedAt <= now /\ Idle \in Issuer
  BY IdleIsTyped DEF IInv, CreditLineTypeOK, InOrder
<1> DEFINE row == [Idle EXCEPT !.pc = "plan", !.at = now, !.seen = Seen(account')]
<1>2. row.pc = "plan" /\ row.at = now /\ row.seen.startedAt = account'.startedAt
  BY <1>1 DEF Issuer, Seen
<1> HIDE DEF row
<1>3. \A q \in Issuers : issuers'[q] = IF q = p THEN row ELSE issuers[q]
  BY <1>1 DEF row
<1>4. \A q \in Issuers : InFlight(q)' =>
        \/ issuers'[q] = issuers[q]
        \/ issuers'[q].pc = "plan" /\ issuers'[q].seen.startedAt = account'.startedAt
           /\ account'.startedAt <= issuers'[q].at
  BY <1>1, <1>2, <1>3
<1> QED
  BY <1>1, <1>4, OrderStays

\* One step.
LEMMA OrderStep ==
  ASSUME IInv, IInv', InOrder, [Next]_vars
  PROVE  /\ InOrder'
         /\ \A i \in DOMAIN invoices' \ DOMAIN invoices :
              ~overtaken /\ invoices'[i].end > LastEnd => i = Later(LastEnd, account.startedAt)
<1>0. /\ account \in Account /\ account' \in Account /\ now \in Nat /\ now' \in Nat
      /\ issuers \in [Issuers -> Issuer]
      /\ \A i \in DOMAIN invoices : invoices[i] \in Invoice
      /\ account.startedAt \in Nat /\ account.startedAt <= now
  BY TimesAreNaturals DEF IInv, CreditLineTypeOK, InOrder, Account
<1>1. ASSUME DOMAIN invoices' = DOMAIN invoices, \A i \in DOMAIN invoices : invoices'[i].end = invoices[i].end,
             overtaken' = overtaken, now <= now', account'.startedAt = account.startedAt,
             account'.status = "NONE" => account.status = "NONE",
             \A p \in Issuers : InFlight(p)' => issuers'[p] = issuers[p]
      PROVE  InOrder'
  <2>1. account'.startedAt <= now'
    BY <1>0, <1>1
  <2> QED
    BY <1>1, <2>1, OrderStays
<1>2. CASE \/ \E g \in Gens : Debit(g) \/ Succeed(g) \/ Fail(g)
           \/ \E i \in DOMAIN invoices : FollowUpLooks(i)
           \/ PauseReads \/ TimePasses \/ UNCHANGED vars
  <2>1. UNCHANGED <<account, invoices, issuers, overtaken>> /\ (now' = now \/ now' = now + 1)
    BY <1>2 DEF Debit, Succeed, Fail, FollowUpLooks, PauseReads, TimePasses, vars
  <2>2. now <= now'
    BY <1>0, <2>1
  <2> QED
    BY <1>1, <2>1, <2>2
<1>3. CASE Reactivate \/ PauseCommits \/ \E i \in DOMAIN invoices : ReactivateIfClear(i)
  <2>1. /\ UNCHANGED <<now, invoices, issuers, overtaken>>
        /\ \/ account' = account
           \/ account' = [account EXCEPT !.status = "ACTIVE"]
           \/ account' = [account EXCEPT !.status = "SUSPENDED"]
    BY <1>3 DEF Reactivate, PauseCommits, ReactivateIfClear, Reopened
  <2>2. account'.startedAt = account.startedAt /\ (account'.status = "NONE" => account.status = "NONE")
    BY <1>0, <2>1 DEF Account
  <2>3. now <= now'
    BY <1>0, <2>1
  <2> QED
    BY <1>1, <2>1, <2>2, <2>3
<1>4. CASE \E i \in DOMAIN invoices : SettleInvoice(i) \/ VoidInvoice(i) \/ MarkOverdue(i)
  <2>1. PICK i \in DOMAIN invoices, s \in {"OVERDUE", "PAID", "VOID"} : invoices' = [invoices EXCEPT ![i].status = s]
    BY <1>4 DEF SettleInvoice, VoidInvoice, EndInvoice, MarkOverdue
  <2>2. DOMAIN invoices' = DOMAIN invoices /\ \A j \in DOMAIN invoices : invoices'[j].end = invoices[j].end
    BY <1>0, <2>1 DEF Invoice
  <2>3. UNCHANGED <<now, account, issuers, overtaken>>
    BY <1>4 DEF SettleInvoice, VoidInvoice, EndInvoice, MarkOverdue
  <2>4. now <= now'
    BY <1>0, <2>3
  <2> QED
    BY <1>1, <2>2, <2>3, <2>4
<1>5. CASE ApiDies \/ WorkerDies
  <2>1. UNCHANGED <<now, account, invoices, overtaken>>
    BY <1>5 DEF ApiDies, WorkerDies
  <2>2. \A p \in Issuers : issuers'[p] \in {issuers[p], Idle, Finished(p)}
    BY <1>0, <1>5 DEF ApiDies, WorkerDies
  <2>3. \A p \in Issuers : Idle.pc \in {"idle", "done"} /\ Finished(p).pc \in {"idle", "done"}
    BY DEF Idle, Finished
  <2>4. \A p \in Issuers : InFlight(p)' => issuers'[p] = issuers[p]
    BY <2>2, <2>3 DEF InFlight
  <2>5. now <= now'
    BY <1>0, <2>1
  <2> QED
    BY <1>1, <2>1, <2>4, <2>5
<1>6. CASE TickBegins \/ \E s \in Staff : StaffBegins(s)
  <2>1. PICK p \in Issuers :
          /\ issuers' = [issuers EXCEPT ![p] = [Idle EXCEPT !.pc = "plan", !.at = now, !.seen = Seen(account)]]
          /\ account.status # "NONE" /\ Unlocked
    BY <1>6 DEF TickBegins, StaffBegins, Begin, Issuers
  <2>2. account' = account /\ UNCHANGED <<now, invoices, overtaken>>
    BY <2>1 DEF Unlocked
  <2>3. InOrder'
    BY <1>0, <2>1, <2>2, BeginInOrder
  <2> QED
    BY <2>2, <2>3
<1>7. CASE CloseAccount
  <2>1. /\ UNCHANGED <<now, invoices, overtaken>>
        /\ issuers' = [issuers EXCEPT ![Closer] = [Idle EXCEPT !.pc = "plan", !.at = now, !.seen = Seen(account')]]
        /\ account' = [account EXCEPT !.status = "CLOSED", !.closedAt = now]
    BY <1>7 DEF CloseAccount
  <2>2. account'.startedAt = account.startedAt /\ account'.status # "NONE" /\ Closer \in Issuers
    BY <1>0, <2>1 DEF Account, Issuers
  <2>3. InOrder'
    BY <1>0, <2>1, <2>2, BeginInOrder
  <2> QED
    BY <2>1, <2>3
<1>8. CASE \E t \in Terms : SetTerms(t)
  <2>1. InOrder'
    BY <1>8, TermsInOrder
  <2> QED
    BY <1>8, <2>1 DEF SetTerms
<1>9. CASE \E p \in Issuers : Plan(p)
  <2>1. InOrder'
    BY <1>9, PlanInOrder
  <2> QED
    BY <1>9, <2>1 DEF Plan, Unlocked
<1>10. CASE \E p \in Issuers : Issue(p)
  BY <1>10, IssueInOrder
<1> QED
  BY <1>2, <1>3, <1>4, <1>5, <1>6, <1>7, <1>8, <1>9, <1>10 DEF Next

\* What a step adds and what the requests hold stay in order.
LEMMA OrderIsKept == Spec => []InOrder
<1>1. IInv /\ IInv' /\ InOrder /\ [Next]_vars => InOrder'
  BY OrderStep
<1> QED
  BY InitInOrder, Invariance, <1>1, PTL DEF Spec

\* Invoices follow one another without a gap and without an overlap (openPeriodStart, issueInvoice), however many
\* requests plan and issue beside one another: one that reaches further than all before it starts where the last one
\* ends, or where the line opened.
THEOREM OrderCorrect == Spec => InvoicesInOrder
<1>1. IInv /\ IInv' /\ InOrder /\ [Next]_vars =>
        [\A i \in DOMAIN invoices' \ DOMAIN invoices :
           ~overtaken /\ invoices'[i].end > LastEnd => i = Later(LastEnd, account.startedAt)]_vars
  BY OrderStep
<1> QED
  BY OrderIsKept, Invariance, <1>1, PTL DEF Spec, InvoicesInOrder

\* The period the hourly pass would plan next is never taken by an invoice it cannot see, since every invoice ends
\* after it starts and the pass starts after the last end (openPeriodStart, the unique period of an account).
THEOREM NeverStalls == Spec => []BillingNeverStalls
<1>1. IInv /\ InOrder => BillingNeverStalls
  <2> SUFFICES ASSUME IInv, InOrder PROVE BillingNeverStalls
    OBVIOUS
  <2> DEFINE start == Later(LastEnd, account.startedAt)
             end   == PeriodEnd(Seen(account), start)
  <2>1. /\ CreditLineTypeOK /\ account \in Account /\ now \in Nat /\ account.startedAt \in Nat
        /\ account.closedAt \in Nat
        /\ Seen(account).startedAt = account.startedAt /\ Seen(account).status = account.status
        /\ Seen(account).closedAt = account.closedAt
    BY TimesAreNaturals DEF IInv, CreditLineTypeOK, Account, Seen
  <2>2. LastEnd \in Nat /\ \A i \in DOMAIN invoices : invoices[i].end \in Nat /\ invoices[i].end <= LastEnd
    BY <2>1, TopExists DEF LastEndIsTop
  <2>3. start \in Nat /\ LastEnd <= start
    BY <2>1, <2>2 DEF Later
  <2>4. start \notin DOMAIN invoices
    <3>1. \A i \in DOMAIN invoices : i < invoices[i].end /\ i \in Nat
      BY <2>1, TimesAreNaturals DEF InOrder, CreditLineTypeOK
    <3> HIDE DEF start
    <3> QED
      BY <2>2, <2>3, <3>1
  <2>5. end \in Nat
    <3>1. MonthEnd(start) \in Nat
      <4> HIDE DEF start
      <4> QED
        BY <2>3, CreditLineAssumption DEF MonthEnd, MonthStart
    <3> HIDE DEF start
    <3> QED
      BY <2>1, <3>1 DEF PeriodEnd, Earlier
  <2>6. start < end /\ end <= now => OpenPeriodStart(Seen(account), now) = start
    <3> HIDE DEF end
    <3>1. start < end /\ end <= now => ~(start > now)
      BY <2>1, <2>3, <2>5
    <3> QED
      BY <2>1, <3>1 DEF OpenPeriodStart
  <2> QED
    BY <2>4, <2>6 DEF BillingNeverStalls
<1> QED
  BY OrderIsKept, Invariance, <1>1, PTL
=============================================================================
