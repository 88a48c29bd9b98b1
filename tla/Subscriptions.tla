---------------------------- MODULE Subscriptions ----------------------------
(***************************************************************************)
(* A plan that renews (billing.service.ts, with Paddle): the provider      *)
(* bills every period and tells of it by webhooks, which arrive in any     *)
(* order, more than once and beside one another; the local row follows     *)
(* them.  The customer cancels here, or a refund ends the plan: the        *)
(* command is saved with the row and carried to the provider by the        *)
(* request itself and by the maintenance pass, until it is through.        *)
(* What becomes of one payment's refunds is in Payments.                   *)
(***************************************************************************)
EXTENDS Naturals, FiniteSets

CONSTANTS
  MaxPeriods,  \* bound: periods the provider bills
  Hands,       \* bound: charges being looked into at once
  MaxErrors,   \* bound: calls to the provider that fail, or whose answer is lost
  Portal,      \* whether the customer may also schedule the end at the provider
  Refunds,     \* whether a charge may be returned in full
  None

ASSUME SubscriptionsAssumption ==
  /\ MaxPeriods \in Nat \ {0} /\ MaxErrors \in Nat
  /\ {Portal, Refunds} \subseteq BOOLEAN

VARIABLES
  clock,   \* the provider's clock: every fact has its time
  month,   \* the period the calendar is in
  prov,    \* the provider's subscription
  txn,     \* Periods -> the provider's transaction that bills the period, and when it was billed
  news,    \* the subscription events the provider has sent; a charge has news when it has a transaction
  pay,     \* Periods -> the status of its Payment row
  sub,     \* the Subscription row; touched: providerCancelAttempts or NextAt changed since the pass read it
  hand,    \* Hands -> a charge being looked into
  caller,  \* "api" and "pass": who calls the provider, with the row as it was read
  errors,  \* calls that failed
  stop     \* ghost: money of the current period went back, the plan must end at once

provider == <<clock, prov, txn, news>>
vars == <<provider, month, pay, sub, hand, caller, errors, stop>>

Periods == 1 .. MaxPeriods
Live == {"ACTIVE", "PAST_DUE"}
Settled == {"SUCCEEDED", "REFUNDED", "NEEDS_REVIEW"}
Later(s, t) == IF s > t THEN s ELSE t

Idle == [at |-> "idle", n |-> None, saw |-> None, cancelled |-> FALSE]
NoCall == [at |-> "idle", status |-> None, atEnd |-> FALSE]

\* The checkout of the first period is open.
Init ==
  /\ clock = 0 /\ month = 1
  /\ prov = [status |-> "none", period |-> 1, sched |-> FALSE]
  /\ txn = [n \in Periods |-> [state |-> "none", at |-> 0]]
  /\ news = {}
  /\ pay = [n \in Periods |-> IF n = 1 THEN "PENDING" ELSE "NONE"]
  /\ sub = [status |-> "NONE", start |-> 0, end |-> 0, atEnd |-> FALSE, asked |-> FALSE, upd |-> 0,
            pending |-> FALSE, due |-> FALSE, touched |-> FALSE]
  /\ hand = [h \in Hands |-> Idle]
  /\ caller = [c \in {"api", "pass"} |-> NoCall]
  /\ errors = 0 /\ stop = FALSE

-----------------------------------------------------------------------------
(* External: the provider.                                                  *)

\* The subscription becomes p at the time of this step, and a webhook tells so.
Becomes(p) ==
  /\ clock' = clock + 1
  /\ prov' = p
  /\ news' = news \cup {[status |-> p.status, period |-> p.period, sched |-> p.sched, at |-> clock + 1]}

\* A period is billed: the checkout is paid, or the plan renews, with or without success.
Bills(state) ==
  LET n == IF prov.status = "none" THEN 1 ELSE prov.period + 1 IN
  /\ \/ prov.status = "none" /\ state = "paid"
     \/ prov.status = "active" /\ ~prov.sched /\ n \in Periods /\ month >= n
  /\ txn' = [txn EXCEPT ![n] = [state |-> state, at |-> clock + 1]]
  /\ Becomes([status |-> IF state = "paid" THEN "active" ELSE "past_due", period |-> n, sched |-> FALSE])
  /\ UNCHANGED <<month, pay, sub, hand, caller, errors, stop>>

\* The same transaction is paid after all, or given up with the subscription.
Collects ==
  /\ prov.status = "past_due"
  /\ txn' = [txn EXCEPT ![prov.period].state = "paid"]
  /\ Becomes([prov EXCEPT !.status = "active"])
  /\ UNCHANGED <<month, pay, sub, hand, caller, errors, stop>>

GivesUp ==
  /\ prov.status = "past_due"
  /\ txn' = [txn EXCEPT ![prov.period].state = "canceled"]
  /\ Becomes([prov EXCEPT !.status = "canceled", !.sched = FALSE])
  /\ UNCHANGED <<month, pay, sub, hand, caller, errors, stop>>

\* A scheduled end takes effect.
Ends ==
  /\ prov.status \in {"active", "past_due"} /\ prov.sched /\ month > prov.period
  /\ Becomes([prov EXCEPT !.status = "canceled", !.sched = FALSE])
  /\ UNCHANGED <<month, txn, pay, sub, hand, caller, errors, stop>>

SchedulesThere ==
  /\ Portal /\ prov.status = "active" /\ ~prov.sched
  /\ Becomes([prov EXCEPT !.sched = TRUE])
  /\ UNCHANGED <<month, txn, pay, sub, hand, caller, errors, stop>>

Tick ==
  /\ month <= MaxPeriods
  /\ month' = month + 1
  /\ UNCHANGED <<provider, pay, sub, hand, caller, errors, stop>>

-----------------------------------------------------------------------------
(* A charge: act, renewalPayment, verify, settle.                           *)

\* Mutant of HasRow: a plan that is over has no renewals.
HasRowWhileLive(n) == pay[n] # "NONE" \/ sub.status \in Live

\* renewalPayment needs the plan and its first paid charge, to know what was agreed.
HasRow(n) == pay[n] # "NONE" \/ (sub.status # "NONE" /\ pay[1] \in {"SUCCEEDED", "REFUNDED"})

\* The row is found or made, and the provider asked how the charge stands; settled rows are left alone.
Receives(h, n) ==
  /\ hand[h].at = "idle" /\ txn[n].state # "none"
  /\ HasRow(n) /\ pay[n] \notin Settled
  /\ pay' = [pay EXCEPT ![n] = IF @ = "NONE" THEN "PENDING" ELSE @]
  /\ hand' = [hand EXCEPT ![h] = [Idle EXCEPT !.at = "seen", !.n = n, !.saw = txn[n].state]]
  /\ UNCHANGED <<provider, month, sub, caller, errors, stop>>

CancelledHere == sub.status = "CANCELLED" \/ sub.pending

\* settle takes the lock on the payment and looks at the plan, which is not locked yet.
Looks(h) ==
  /\ hand[h].at = "seen"
  /\ \A i \in Hands : ~(hand[i].n = hand[h].n /\ hand[i].at = "settle")
  /\ IF pay[hand[h].n] \in Settled THEN hand' = [hand EXCEPT ![h] = Idle]
     ELSE hand' = [hand EXCEPT ![h].at = "settle", ![h].cancelled = CancelledHere /\ hand[h].n > 1]
  /\ UNCHANGED <<provider, month, pay, sub, caller, errors, stop>>

\* Mutant of Authority: every declined renewal counts.
AuthorityOfAny(n) == TRUE

\* renewalFailureAuthority: whether a declined renewal says anything of the plan as it is now.
Authority(n) ==
  /\ txn[n].at > sub.upd
  /\ n > sub.end
  /\ (\A m \in Periods \ {1, n} : pay[m] # "SUCCEEDED") => txn[n].at >= sub.start

Declined(n) ==
  /\ pay' = [pay EXCEPT ![n] = "FAILED"]
  /\ sub' = IF n > 1 /\ sub.status = "ACTIVE" /\ Authority(n) THEN [sub EXCEPT !.status = "PAST_DUE"] ELSE sub

\* Ending the plan at once: the row is terminal and the provider has to be told.
EndNow(s) == [s EXCEPT !.status = "CANCELLED", !.atEnd = FALSE, !.asked = TRUE,
                       !.pending = TRUE, !.due = TRUE, !.touched = TRUE]

\* queueAutomaticRefund, queueSubscriptionCancellation
QueueRefund(n) ==
  /\ pay' = [pay EXCEPT ![n] = "NEEDS_REVIEW"]
  /\ sub' = EndNow(sub)
  /\ stop' = TRUE

\* The paid period only moves forward.
Advances(n) == n > sub.end

\* upsertSubscription
Upserted(n) ==
  [sub EXCEPT
     !.status = IF sub.status \in {"NONE", "ACTIVE"} \/ txn[n].at > sub.upd THEN "ACTIVE" ELSE @,
     !.start = IF Advances(n) THEN txn[n].at ELSE @,
     !.end   = IF Advances(n) THEN n ELSE @,
     !.upd   = Later(@, txn[n].at)]

\* The rest of settle, with the plan locked: a renewal whose plan was cancelled since settle
\* looked rolls back and is tried again.
Settles(h) ==
  LET n == hand[h].n IN
  /\ hand[h].at = "settle"
  /\ CASE hand[h].saw \in {"past_due", "canceled"} ->
            Declined(n) /\ UNCHANGED stop
       [] hand[h].saw = "paid" /\ hand[h].cancelled ->
            QueueRefund(n)
       [] hand[h].saw = "paid" /\ ~hand[h].cancelled /\ n > 1 /\ CancelledHere ->
            UNCHANGED <<pay, sub, stop>>
       [] OTHER ->
            /\ pay' = [pay EXCEPT ![n] = "SUCCEEDED"]
            /\ sub' = Upserted(n)
            /\ UNCHANGED stop
  /\ hand' = [hand EXCEPT ![h] = Idle]
  /\ UNCHANGED <<provider, month, caller, errors>>

-----------------------------------------------------------------------------
(* A subscription event: act.                                               *)

LocalStatus(status) ==
  CASE status = "active" -> "ACTIVE" [] status = "past_due" -> "PAST_DUE" [] status = "canceled" -> "CANCELLED"

\* Mutant of Stale: events count as they come.
StaleNever(e) == FALSE

Stale(e) == e.at <= sub.upd

\* Mutant of CancelAsked: the provider has the last word.
CancelAskedNever == FALSE

CancelAsked == sub.asked /\ (sub.atEnd \/ sub.status = "CANCELLED")

Follows(e) ==
  LET over == e.status = "canceled" IN
  [sub EXCEPT
     !.status  = IF ~over /\ CancelAsked THEN @ ELSE LocalStatus(e.status),
     !.start   = IF Advances(e.period) THEN txn[e.period].at ELSE @,
     !.end     = IF Advances(e.period) THEN e.period ELSE @,
     !.atEnd   = IF over THEN FALSE ELSE IF CancelAsked THEN @ ELSE e.sched,
     !.asked   = @ \/ over,
     !.upd     = e.at,
     !.pending = @ /\ ~over,
     !.touched = @ \/ over]

ActSubscription(e) ==
  /\ sub.status # "NONE" /\ ~Stale(e)
  /\ sub' = Follows(e)
  /\ UNCHANGED <<provider, month, pay, hand, caller, errors, stop>>

-----------------------------------------------------------------------------
(* Ending the plan.                                                         *)

\* cancelSubscription: the command is saved before the provider is called.
Ask ==
  /\ sub.status \in Live /\ caller["api"].at = "idle"
  /\ ~(sub.atEnd /\ ~sub.pending)
  /\ sub' = [sub EXCEPT !.atEnd = TRUE, !.asked = TRUE, !.pending = TRUE, !.due = TRUE, !.touched = TRUE]
  /\ caller' = [caller EXCEPT !["api"] = [at |-> "call", status |-> sub.status, atEnd |-> TRUE]]
  /\ UNCHANGED <<provider, month, pay, hand, errors, stop>>

\* paymentOwnsCurrentSubscriptionPeriod
OwnsPeriod(n) ==
  LET others == {m \in Periods \ {n} : pay[m] = "SUCCEEDED"}
  IN  others = {} \/ (n >= sub.end /\ \A m \in others : n > m)

\* applyConfirmedAdjustment: a charge was returned in full.
Returned(n) ==
  /\ Refunds /\ pay[n] = "SUCCEEDED"
  /\ pay' = [pay EXCEPT ![n] = "REFUNDED"]
  /\ IF OwnsPeriod(n) THEN sub' = EndNow(sub) /\ stop' = TRUE
     ELSE UNCHANGED <<sub, stop>>
  /\ UNCHANGED <<provider, month, hand, caller, errors>>

\* maintenanceTick: the paid period of a plan that was to end is over.
PeriodOver ==
  /\ sub.status \in Live /\ sub.atEnd /\ sub.end < month
  /\ sub' = [sub EXCEPT !.status = "CANCELLED"]
  /\ UNCHANGED <<provider, month, pay, hand, caller, errors, stop>>

\* reconcileProviderCancellations: read, claim, call, clear.
PassReads ==
  /\ caller["pass"].at = "idle" /\ sub.pending /\ sub.due
  /\ caller' = [caller EXCEPT !["pass"] = [at |-> "claim", status |-> sub.status, atEnd |-> sub.atEnd]]
  /\ sub' = [sub EXCEPT !.touched = FALSE]
  /\ UNCHANGED <<provider, month, pay, hand, errors, stop>>

PassClaims ==
  /\ caller["pass"].at = "claim"
  /\ IF sub.pending /\ ~sub.touched
     THEN /\ sub' = [sub EXCEPT !.due = FALSE]
          /\ caller' = [caller EXCEPT !["pass"].at = "call"]
     ELSE /\ caller' = [caller EXCEPT !["pass"] = NoCall]
          /\ UNCHANGED sub
  /\ UNCHANGED <<provider, month, pay, hand, errors, stop>>

\* At the end of the period, unless the row was terminal when it was read.
AtPeriodEnd(c) == caller[c].status # "CANCELLED" /\ caller[c].atEnd

\* External: the provider takes the command; it refuses one for a subscription that is over.
Takes(c) ==
  /\ IF AtPeriodEnd(c) THEN Becomes([prov EXCEPT !.sched = TRUE])
     ELSE Becomes([prov EXCEPT !.status = "canceled", !.sched = FALSE])
  /\ UNCHANGED txn

Calls(c) ==
  /\ caller[c].at = "call" /\ prov.status # "canceled"
  /\ IF AtPeriodEnd(c) /\ prov.sched THEN UNCHANGED provider ELSE Takes(c)
  /\ caller' = [caller EXCEPT ![c].at = "clear"]
  /\ UNCHANGED <<month, pay, sub, hand, errors, stop>>

\* The call fails, or is refused; or it got through and its answer is lost; or the process dies.  The request
\* then puts the next call off, by id.
CallFails(c) ==
  /\ caller[c].at \in {"call", "clear"}
  /\ \/ errors < MaxErrors /\ errors' = errors + 1
     \/ caller[c].at = "call" /\ prov.status = "canceled" /\ UNCHANGED errors
  /\ sub' = sub \/ (c = "api" /\ sub' = [sub EXCEPT !.due = FALSE, !.touched = TRUE])
  /\ caller' = [caller EXCEPT ![c] = NoCall]
  /\ UNCHANGED <<provider, month, pay, hand, stop>>

\* Mutant of Unchanged: the command is cleared whatever it has become.
UnchangedAnyhow(c) == sub.pending

\* A newer, immediate command is not cleared by the answer to an older one.
Unchanged(c) == sub.pending /\ sub.status = caller[c].status /\ sub.atEnd = caller[c].atEnd

Clears(c) ==
  /\ caller[c].at = "clear"
  /\ sub' = IF Unchanged(c) THEN [sub EXCEPT !.pending = FALSE, !.touched = TRUE] ELSE sub
  /\ caller' = [caller EXCEPT ![c] = NoCall]
  /\ UNCHANGED <<provider, month, pay, hand, errors, stop>>

\* The back-off has passed.
ComesDue ==
  /\ sub.pending /\ ~sub.due
  /\ sub' = [sub EXCEPT !.due = TRUE]
  /\ UNCHANGED <<provider, month, pay, hand, caller, errors, stop>>

-----------------------------------------------------------------------------
Charge(n) == \E h \in Hands : Receives(h, n)
Look(h) == Looks(h) \/ Settles(h)
Pass == PassReads \/ PassClaims \/ Calls("pass") \/ CallFails("pass") \/ Clears("pass")

Next ==
  \/ (\E state \in {"paid", "past_due"} : Bills(state)) \/ Collects \/ GivesUp \/ Ends \/ SchedulesThere \/ Tick
  \/ \E n \in Periods : Charge(n) \/ Returned(n)
  \/ \E h \in Hands : Look(h)
  \/ \E e \in news : ActSubscription(e)
  \/ Ask \/ Calls("api") \/ CallFails("api") \/ Clears("api")
  \/ PeriodOver \/ Pass \/ ComesDue

Spec == Init /\ [][Next]_vars

\* Receipts are tried again until they are dealt with; the maintenance timer fires, and time passes.
FairSpec ==
  /\ Spec
  /\ \A n \in Periods : SF_vars(Charge(n))
  /\ \A h \in Hands : WF_vars(Look(h))
  /\ WF_vars(\E e \in news : ActSubscription(e))
  /\ WF_vars(Pass) /\ WF_vars(ComesDue) /\ WF_vars(PeriodOver) /\ WF_vars(Tick)

-----------------------------------------------------------------------------
(* Properties.                                                              *)

Quiet ==
  /\ \A e \in news : e.at <= sub.upd
  /\ \A n \in Periods : txn[n].state = "none" \/ pay[n] \in Settled \/ (txn[n].state # "paid" /\ pay[n] = "FAILED")
  /\ ~sub.pending
  /\ \A h \in Hands : hand[h] = Idle
  /\ \A c \in {"api", "pass"} : caller[c] = NoCall

\* When everything the provider sent was dealt with, in whatever order and however often, the row says what the
\* provider says, but for a plan that was ended here.
FollowsProvider ==
  Quiet /\ prov.status # "none" /\ ~sub.asked =>
    /\ sub.end = prov.period /\ sub.atEnd = prov.sched
    /\ \/ sub.status = LocalStatus(prov.status)
       \/ sub.status = "CANCELLED" /\ prov.sched /\ month > prov.period

\* A paid period is never taken back by news of an earlier one, and a cancelled plan never comes back to life.
OnlyForward ==
  [][/\ sub'.end >= sub.end
     /\ sub.status = "CANCELLED" => sub'.status = "CANCELLED"]_vars

\* Whoever has asked for the end of the plan gets it: no late news of the provider undoes it.
AskedStays == sub.asked => sub.atEnd \/ sub.status = "CANCELLED"

\* The command is not given up before the provider has it: the end is scheduled there or, where the money went
\* back, has come.
ClearedWasTold ==
  ~sub.pending =>
    /\ sub.asked => prov.sched \/ prov.status = "canceled"
    /\ stop => prov.status = "canceled"

\* In the end every charge that was paid is credited or returned, whatever order its news came in, and a plan whose
\* money went back is billed no more.
CatchesUp ==
  <>[](/\ \A n \in Periods : txn[n].state = "paid" => pay[n] \in Settled
       /\ stop => prov.status = "canceled")
=============================================================================
