------------------------------ MODULE Payments -------------------------------
(***************************************************************************)
(* One purchase through Flutterwave, from its checkout to the last refund: *)
(* the Payment row, its RefundRequest, the provider's adjustments of it    *)
(* and the credits they move in one wallet.                                *)
(*                                                                         *)
(* Every transaction here first locks the payment row (then the request,   *)
(* then the wallet), so each is one action.  What is NOT under that lock   *)
(* is what the module is about: a verification is read from the provider   *)
(* before the transaction that applies it, so it can be stale, applied     *)
(* twice or out of order; and the checkout request and its reconciler      *)
(* write the row by id from a snapshot they read before a provider call.   *)
(* The one provider call made under the lock is the refund itself.         *)
(*                                                                         *)
(* A hand is a process at work: the checkout request, the reconciler of    *)
(* uncertain checkouts, a charge webhook or return page, the staff member  *)
(* who approves, the refund pass of the worker and the refund webhooks.    *)
(***************************************************************************)
EXTENDS Integers, FiniteSets, FiniteSetsExt

CONSTANTS
  Kinds,         \* subset of {"PACK", "PLAN"}: what may have been bought
  Amount,        \* minor units the row is priced at
  Credits,       \* credits it buys
  Ours,          \* ids the provider gives to the refunds we ask for
  Disputes,      \* chargebacks of the provider
  Disputed,      \* what they may withhold, by what was bought
  Slow,          \* the provider may take longer over a charge than a bank over a dispute
  Nameless,      \* the provider may take a refund and not name it yet
  Hooks,         \* refund webhooks being handled
  Spends,        \* one-credit debits of the wallet
  None,          \* no id
  MaxAttempts,   \* REFUND_MAX_ATTEMPTS
  MaxChecks,     \* CHECKOUT_RECONCILE_MAX_ATTEMPTS
  MaxCycles,     \* bound: cycles of the refund request
  MaxReversals,  \* bound: adjustments the provider reverses
  MaxRevisions,  \* bound: credit movements of one adjustment
  MaxBusy        \* bound: hands at work at once

Refs  == Ours \cup Disputes
Hands == {"checkout", "asker", "staff", "tick"} \cup Hooks

ASSUME PaymentsAssumption ==
  /\ Kinds \subseteq {"PACK", "PLAN"}
  /\ Amount \in Nat \ {0} /\ Credits \in Nat \ {0}
  /\ IsFiniteSet(Refs) /\ Ours \cap Disputes = {} /\ None \notin Refs
  /\ Hooks \cap {"checkout", "asker", "staff", "tick"} = {}
  /\ {Slow, Nameless} \subseteq BOOLEAN
  /\ Disputed \in [Kinds -> SUBSET (1 .. Amount)]
  /\ {MaxAttempts, MaxChecks} \subseteq Nat \ {0}
  /\ {MaxCycles, MaxReversals, MaxRevisions, MaxBusy} \subseteq Nat

VARIABLES
  payment,       \* the payments row; amount is what the provider charged, once verified
  request,       \* its refund_requests row, NONE before there is one
  adjustments,   \* payment_adjustments, by the provider's id
  entries,       \* ledger_entries of the wallet, one per idempotency key
  sub,           \* status of the subscription a plan paid for
  provider,      \* external: the hosted page, the charge, the refunds and chargebacks
  hands          \* what each process at work has read and is about to do

vars == <<payment, request, adjustments, entries, sub, provider, hands>>

Final  == {"SUCCEEDED", "REFUNDED", "NEEDS_REVIEW"}
Cycles == 0 .. MaxCycles       \* 0: none

Payment == [kind : Kinds, amount : Nat,
            status : {"PENDING", "OPEN", "FAILED"} \cup Final,    \* OPEN: PENDING with its page stored
            why : {"other", "abandoned", "partial", "exhausted"},   \* class of failureReason
            ref : BOOLEAN,             \* providerRef: the charge is known
            granted : BOOLEAN,         \* ledgerEntryId
            auto : BOOLEAN,            \* the automaticRefund marker of providerPayload
            checks : Nat]              \* the checkoutRecovery attempts of providerPayload
Request == [status : {"NONE", "REQUESTED", "PROCESSING", "APPROVED", "REFUSED", "CANCELLED", "NEEDS_REVIEW"},
            cycle : Cycles, by : {"customer", "system"},
            ref : Refs \cup {None},    \* gatewayRef
            posted : BOOLEAN,          \* processingAt
            attempts : 0 .. MaxAttempts,   \* like posted, kept only while it is PROCESSING
            exhausted : BOOLEAN]       \* lastError says the reconciliation is exhausted
Adjustment == [status : {"NONE", "PENDING", "SUCCEEDED", "FAILED", "REVERSED"},
               money : Int, credit : Int,         \* amountDeltaMinor, creditDelta
               cycle : Cycles, rev : Nat,         \* refundCycle, ledgerRevision
               past : SUBSET {"unbound", "again"}]   \* history, read by the properties alone
Charge == {"none", "failed", "paid"}
Hand == [pc : {"idle", "create", "persist", "uncertain", "settle", "check", "submit", "verify",
               "exhaust", "apply"},
         saw : Charge \cup {"pending", "succeeded", "reversed"},
         ref : Refs \cup {None}, amount : 0 .. Amount, cycle : Cycles, n : Nat]

Idle == [pc |-> "idle", saw |-> "none", ref |-> None, amount |-> 0, cycle |-> 0, n |-> 0]
Unseen == [status |-> "NONE", money |-> 0, credit |-> 0, cycle |-> 0, rev |-> 0, past |-> {}]

\* The row is written before the provider is asked for a page.
Init ==
  /\ \E k \in Kinds :
       payment = [kind |-> k, status |-> "PENDING", amount |-> Amount,
                  why |-> "other", ref |-> FALSE, granted |-> FALSE, auto |-> FALSE, checks |-> 0]
  /\ request = [status |-> "NONE", cycle |-> 0, by |-> "customer", ref |-> None,
                posted |-> FALSE, attempts |-> 0, exhausted |-> FALSE]
  /\ adjustments = [r \in Refs |-> Unseen]
  /\ entries = {}
  /\ sub = "NONE"
  /\ provider = [page |-> FALSE, charge |-> "none", paid |-> 0,
                 refunds |-> [r \in Refs |-> [state |-> "none", amount |-> 0, since |-> 0]]]
  /\ hands = [w \in Hands |-> IF w = "checkout" THEN [Idle EXCEPT !.pc = "create"] ELSE Idle]

Rest(w)    == hands' = [hands EXCEPT ![w] = Idle]
Becomes(w, h) == hands' = [hands EXCEPT ![w] = h]
Free(w)    == hands[w].pc = "idle" /\ Cardinality({v \in Hands : hands[v].pc # "idle"}) < MaxBusy

-----------------------------------------------------------------------------
(* The ledger.                                                              *)

Key(kind, n, r) == <<kind, n, r>>
Known(key)      == \E e \in entries : e.key = key
Sum(E)          == MapThenSumSet(LAMBDA e : e.delta, E)
Balance         == Sum(entries)
Posted(key, delta) == IF Known(key) THEN entries ELSE entries \cup {[key |-> key, delta |-> delta]}

Granted   == Key("payment", 0, None)
Reserve(c) == Key("reserve", c, None)
Release(c) == Key("release", c, None)
Month(m)   == Key("month", m, None)

\* The immutable funding of this payment.
Funded == Sum({e \in entries : e.key[1] \in {"payment", "month"}})

\* A debit may not take the balance below zero; a forced clawback may.
Spend(n) ==
  /\ ~Known(Key("spend", n, None))
  /\ Balance >= 1
  /\ entries' = Posted(Key("spend", n, None), -1)
  /\ UNCHANGED <<payment, request, adjustments, sub, provider, hands>>

\* One later month of a yearly plan, granted under the payment's lock.
GrantMonth ==
  /\ payment.kind = "PLAN" /\ payment.status = "SUCCEEDED"
  /\ ~Known(Month(1))
  /\ entries' = Posted(Month(1), Credits)
  /\ UNCHANGED <<payment, request, adjustments, sub, provider, hands>>

-----------------------------------------------------------------------------
(* The checkout.                                                            *)

Unfinished == UNCHANGED <<request, adjustments, entries, sub>>

PageMade ==
  /\ hands["checkout"].pc = "create"
  /\ provider' = [provider EXCEPT !.page = TRUE]
  /\ Becomes("checkout", [Idle EXCEPT !.pc = "persist"])
  /\ UNCHANGED payment /\ Unfinished

\* The call fails without a verdict: there may be a page all the same.
CreateFails ==
  /\ hands["checkout"].pc = "create"
  /\ \E made \in BOOLEAN : provider' = [provider EXCEPT !.page = made]
  /\ Becomes("checkout", [Idle EXCEPT !.pc = "uncertain"])
  /\ UNCHANGED payment /\ Unfinished

\* The row is marked by id, with the payload it was created with.
MarkUncertain ==
  /\ hands["checkout"].pc = "uncertain"
  /\ payment' = [payment EXCEPT !.why = "other", !.auto = FALSE, !.checks = 0]
  /\ Rest("checkout")
  /\ UNCHANGED provider /\ Unfinished

Uncreated == payment.status = "PENDING"

FailUncreatedCheckout(why) ==
  payment' = IF Uncreated THEN [payment EXCEPT !.status = "FAILED", !.why = why] ELSE payment

CreateRejected ==
  /\ hands["checkout"].pc = "create"
  /\ FailUncreatedCheckout("other")
  /\ Rest("checkout")
  /\ UNCHANGED provider /\ Unfinished

\* The page is stored and handed out only while nothing else closed the checkout;
\* if the database fails twice it is not, and the row is at most marked.
PersistCheckoutSession ==
  /\ hands["checkout"].pc = "persist"
  /\ \/ payment' = IF Uncreated THEN [payment EXCEPT !.status = "OPEN"] ELSE payment
     \/ payment' = IF Uncreated THEN [payment EXCEPT !.why = "other", !.checks = 0] ELSE payment
     \/ UNCHANGED payment
  /\ Rest("checkout")
  /\ UNCHANGED provider /\ Unfinished

\* reconcileUncertainCheckouts reads the row and asks the provider, in vain if the
\* call fails ...
CheckBegins ==
  /\ Free("tick")
  /\ Uncreated
  /\ \E saw \in {"none", provider.charge} :
       Becomes("tick", [Idle EXCEPT !.pc = IF saw = "none" THEN "check" ELSE "settle",
                                          !.saw = saw, !.amount = provider.paid, !.n = payment.checks])
  /\ UNCHANGED <<payment, provider>> /\ Unfinished

\* Mutant: the check is not counted.
CheckEndsUncounted ==
  LET h == hands["tick"]
  IN  /\ h.pc = "check"
      /\ IF h.n + 1 >= MaxChecks
         THEN FailUncreatedCheckout("abandoned")
         ELSE payment' = [payment EXCEPT !.why = "other", !.auto = FALSE, !.checks = h.n]
      /\ Rest("tick")
      /\ UNCHANGED provider /\ Unfinished

\* ... and, if there is no verdict, gives up after so many checks or counts one more:
\* by id, with the payload it read.
CheckEnds ==
  LET h == hands["tick"]
  IN  /\ h.pc = "check"
      /\ IF h.n + 1 >= MaxChecks
         THEN FailUncreatedCheckout("abandoned")
         ELSE payment' = [payment EXCEPT !.why = "other", !.auto = FALSE, !.checks = h.n + 1]
      /\ Rest("tick")
      /\ UNCHANGED provider /\ Unfinished

-----------------------------------------------------------------------------
(* Settlement.                                                              *)

\* A charge webhook or the return page reads the charge of a row that is not final.
AskCharge ==
  /\ Free("asker")
  /\ payment.status \notin Final
  /\ provider.charge # "none"
  /\ Becomes("asker", [Idle EXCEPT !.pc = "settle", !.saw = provider.charge, !.amount = provider.paid])
  /\ UNCHANGED <<payment, request, adjustments, entries, sub, provider>>

Leaves(status) == [request EXCEPT !.status = status, !.posted = FALSE, !.attempts = 0, !.exhausted = FALSE]

\* A new cycle of the one request row this payment can have.
NewCycle(status, by) ==
  [status |-> status, cycle |-> request.cycle + 1, by |-> by, ref |-> None,
   posted |-> FALSE, attempts |-> 0, exhausted |-> FALSE]

\* The provider is to return the whole charge, and nothing is granted.
QueueAutomaticRefund(charged) ==
  /\ request.cycle < MaxCycles
  /\ payment' = [payment EXCEPT !.status = "NEEDS_REVIEW", !.amount = charged, !.ref = TRUE,
                                 !.auto = TRUE, !.why = "other", !.checks = 0]
  /\ sub' = IF payment.kind = "PLAN" THEN "CANCELLED" ELSE sub
  /\ request' = NewCycle("PROCESSING", "system")
  /\ UNCHANGED entries

GrantPurchase ==
  /\ payment' = [payment EXCEPT !.status = "SUCCEEDED", !.ref = TRUE, !.granted = TRUE, !.why = "other",
                                 !.checks = 0]
  /\ entries' = Posted(Granted, Credits)
  /\ sub' = IF payment.kind = "PLAN" THEN "ACTIVE" ELSE sub
  /\ UNCHANGED request

\* A charge that failed is not granted for; the payment may still succeed later.
ChargeFailed ==
  /\ payment' = [payment EXCEPT !.status = "FAILED", !.why = "other", !.checks = 0]
  /\ UNCHANGED <<request, entries, sub>>

\* Mutant: a row under review is settled again, whatever put it there.
SettledUnlessReviewed == payment.status \in {"SUCCEEDED", "REFUNDED"}

\* isRecoverableEarlyAdjustment
Settled ==
  payment.status \in Final /\ ~(payment.status = "NEEDS_REVIEW" /\ ~payment.granted /\ payment.why = "partial")

\* Mutant: whether the row is already settled is not looked at again under the lock.
SettleUnchecked(saw, charged) ==
  \/ saw = "failed" /\ ChargeFailed
  \/ saw = "paid" /\ charged # payment.amount /\ QueueAutomaticRefund(charged)
  \/ saw = "paid" /\ charged = payment.amount /\ GrantPurchase

\* Another subscription may have taken the workspace while a plan was being paid.
Settle(saw, charged) ==
  IF Settled THEN UNCHANGED <<payment, request, entries, sub>>
  ELSE IF saw = "failed" THEN ChargeFailed
  ELSE IF (payment.status = "FAILED" /\ payment.why = "abandoned") \/ charged # payment.amount
  THEN QueueAutomaticRefund(charged)
  ELSE GrantPurchase \/ (payment.kind = "PLAN" /\ QueueAutomaticRefund(charged))

SettleCharge(w) ==
  /\ hands[w].pc = "settle"
  /\ Settle(hands[w].saw, hands[w].amount)
  /\ Rest(w)
  /\ UNCHANGED <<adjustments, provider>>

-----------------------------------------------------------------------------
(* Asking for a refund, and deciding.                                       *)

Undisturbed == UNCHANGED <<adjustments, sub, provider>>

\* refundEligibility
Eligible == payment.status = "SUCCEEDED" /\ payment.kind = "PACK" /\ Balance >= Credits

RequestRefund ==
  /\ request.cycle < MaxCycles
  /\ request.status \in {"NONE", "REFUSED", "CANCELLED"}
  /\ Eligible
  /\ request' = NewCycle("REQUESTED", "customer")
  /\ UNCHANGED <<payment, entries, hands>> /\ Undisturbed

CloseRequest(status) ==
  /\ request.status = "REQUESTED"
  /\ request' = [request EXCEPT !.status = status]
  /\ UNCHANGED <<payment, entries, hands>> /\ Undisturbed

CancelRefundRequest == CloseRequest("CANCELLED")
RefuseRefund        == CloseRequest("REFUSED")

\* The whole purchase is reserved before the provider is asked; if some of it was
\* spent the request is refused.
ApproveRefund ==
  /\ Free("staff")
  /\ request.status = "REQUESTED" /\ payment.status = "SUCCEEDED"
  /\ IF Balance >= Credits
     THEN /\ request' = [request EXCEPT !.status = "PROCESSING", !.posted = FALSE, !.attempts = 0]
          /\ entries' = Posted(Reserve(request.cycle), -Credits)
          /\ Becomes("staff", [Idle EXCEPT !.pc = "submit", !.cycle = request.cycle])
     ELSE /\ request' = [request EXCEPT !.status = "REFUSED"]
          /\ UNCHANGED <<entries, hands>>
  /\ UNCHANGED payment /\ Undisturbed

-----------------------------------------------------------------------------
(* Sending the money back.                                                  *)

Asked == [state |-> "pending", amount |-> payment.amount, since |-> request.cycle]
Unused == {r \in Ours : provider.refunds[r].state = "none"}
NextId == IF Unused = {} THEN {} ELSE {CHOOSE r \in Unused : TRUE}
Saw(w, r, state) ==
  Becomes(w, [hands[w] EXCEPT !.pc = "apply", !.saw = state, !.ref = r,
                              !.amount = IF r = None THEN 0 ELSE provider'.refunds[r].amount, !.n = 0])

\* refundDiscoveryContext and discoverRefund: refunds made since this cycle was
\* decided that no other cycle owns.  A chargeback is no refund.
Discovered(cycle) ==
  {r \in Ours : /\ provider.refunds[r].state # "none"
                /\ provider.refunds[r].since >= cycle
                /\ adjustments[r].cycle \in {0, cycle}}

\* What a submission must still find once it holds the locks.
MaySubmit(w) ==
  /\ request.status = "PROCESSING" /\ request.cycle = hands[w].cycle
  /\ request.attempts = hands[w].n /\ request.ref = None
  /\ w = "staff" => ~request.posted

\* The provider knows of a refund already: it is adopted, and nothing is sent.
Discover(w, r) ==
  /\ r \in Discovered(request.cycle)
  /\ request' = [request EXCEPT !.ref = r, !.posted = TRUE]
  /\ UNCHANGED provider
  /\ Saw(w, r, provider.refunds[r].state)

\* The provider takes the refund and answers, with or without its id; ...
Post(w, r) ==
  /\ provider' = [provider EXCEPT !.refunds[r] = Asked]
  /\ \E known \in {r} \cup (IF Nameless THEN {None} ELSE {}) :
       /\ request' = [request EXCEPT !.ref = known, !.posted = TRUE]
       /\ Saw(w, known, "pending")

\* ... refuses it; ...
PostRejected(w) ==
  /\ request' = [request EXCEPT !.posted = TRUE]
  /\ UNCHANGED provider
  /\ Saw(w, None, "failed")

\* ... or its answer is lost, and the transaction with it.
PostLost(w) ==
  /\ \/ \E r \in NextId : provider' = [provider EXCEPT !.refunds[r] = Asked]
     \/ UNCHANGED provider
  /\ Rest(w)
  /\ UNCHANGED request

\* Mutant: the refund is sent without asking the provider what it has already.
SubmitBlindly(w) ==
  \/ \E r \in NextId : Post(w, r)
  \/ PostRejected(w) \/ PostLost(w)

\* submitRefundCycle holds both locks through discovery, the call and the recording.
SubmitRefundCycle(w) ==
  \/ \E r \in Discovered(request.cycle) : Discover(w, r)
  \/ Discovered(request.cycle) = {} /\ \E r \in NextId : Post(w, r)
  \/ Discovered(request.cycle) = {} /\ (PostRejected(w) \/ PostLost(w))

Submit(w) ==
  /\ hands[w].pc = "submit"
  /\ IF MaySubmit(w) THEN SubmitRefundCycle(w) ELSE Rest(w) /\ UNCHANGED <<request, provider>>
  /\ UNCHANGED <<payment, adjustments, entries, sub>>

\* A request is due again after REFUND_RECHECK_MS, long after a submission has timed out.
Due == request.status = "PROCESSING" /\ hands["staff"].pc = "idle"

\* The pass claims a request and either gives it up, verifies the refund it knows or
\* submits it.
Claim ==
  LET n == IF request.attempts < MaxAttempts THEN request.attempts + 1 ELSE MaxAttempts
      next == IF n >= MaxAttempts THEN "exhaust" ELSE IF request.ref # None THEN "verify" ELSE "submit"
  IN  /\ Free("tick")
      /\ Due
      /\ request' = [request EXCEPT !.attempts = n]
      /\ Becomes("tick", [Idle EXCEPT !.pc = next, !.ref = request.ref, !.cycle = request.cycle, !.n = n])
      /\ UNCHANGED <<payment, entries>> /\ Undisturbed

\* Mutant: the attempts are compared with their number before the claim.
StillClaimedBefore(h) ==
  /\ request.status = "PROCESSING" /\ request.attempts = h.n - 1 /\ request.cycle = h.cycle
  /\ payment.status # "REFUNDED"

StillClaimed(h) ==
  /\ request.status = "PROCESSING" /\ request.attempts = h.n /\ request.cycle = h.cycle
  /\ payment.status # "REFUNDED"

Exhaust ==
  /\ hands["tick"].pc = "exhaust"
  /\ IF StillClaimed(hands["tick"])
     THEN /\ request' = [Leaves("NEEDS_REVIEW") EXCEPT !.exhausted = TRUE]
          /\ payment' = [payment EXCEPT !.status = "NEEDS_REVIEW", !.why = "exhausted"]
     ELSE UNCHANGED <<request, payment>>
  /\ Rest("tick")
  /\ UNCHANGED entries /\ Undisturbed

VerifyRefund ==
  /\ hands["tick"].pc = "verify"
  /\ \/ UNCHANGED provider /\ Saw("tick", hands["tick"].ref, provider.refunds[hands["tick"].ref].state)
     \/ UNCHANGED provider /\ Rest("tick")
  /\ UNCHANGED <<payment, request, adjustments, entries, sub>>

\* A refund webhook is only a notification: the adjustment is read from the provider.
HookBegins(w, r) ==
  /\ Free(w)
  /\ payment.ref
  /\ provider.refunds[r].state # "none"
  /\ UNCHANGED provider
  /\ Saw(w, r, provider.refunds[r].state)
  /\ UNCHANGED <<payment, request, adjustments, entries, sub>>

-----------------------------------------------------------------------------
(* Applying what the provider said.                                         *)

\* The cycle an adjustment may act for: the one it is bound to, the one the caller
\* submitted, or the one that waits for it; a success may also be adopted by a request
\* that has not heard of its own submission.
RefundCycleBinding(explicit, r, bound, adopt) ==
  CASE request.status = "NONE" -> 0
    [] request.status # "NONE" /\ bound # 0 ->
         IF request.cycle = bound /\ explicit \in {0, bound} THEN bound ELSE 0
    [] request.status # "NONE" /\ bound = 0 /\ explicit # 0 ->
         IF explicit = request.cycle THEN explicit ELSE 0
    [] OTHER ->
         IF /\ r # None
            /\ request.status \in {"PROCESSING", "NEEDS_REVIEW"}
            /\ \/ request.ref = r
               \/ adopt /\ request.status = "PROCESSING" /\ request.ref = None /\ ~request.posted
         THEN request.cycle ELSE 0

\* The cycle the adjustment is bound to from now on.
BoundTo(h, adopt) ==
  LET had == IF h.ref = None THEN 0 ELSE adjustments[h.ref].cycle
  IN  IF had # 0 THEN had ELSE RefundCycleBinding(h.cycle, h.ref, 0, adopt)

ActsFor(h, adopt) == RefundCycleBinding(h.cycle, h.ref, BoundTo(h, adopt), adopt)

Record(h, row) == adjustments' = IF h.ref = None THEN adjustments ELSE [adjustments EXCEPT ![h.ref] = row]

Over(status) == status \in {"SUCCEEDED", "REVERSED"}
Net == MapThenSumSet(LAMBDA r : adjustments[r].money, {r \in Refs : Over(adjustments[r].status)})

\* The provider is still at it: a status that is final already is not taken back.
ApplyPending(h) ==
  LET c == ActsFor(h, FALSE)
  IN  /\ h.saw = "pending"
      /\ Record(h, [adjustments[h.ref] EXCEPT !.cycle = BoundTo(h, FALSE),
                      !.status = IF @ = "NONE" THEN "PENDING" ELSE @])
      /\ request' = IF c # 0 /\ request.status = "PROCESSING" /\ h.ref # None
                    THEN [request EXCEPT !.ref = h.ref] ELSE request
      /\ UNCHANGED <<payment, entries, sub>>

FinalAlready(h) == h.ref # None /\ Over(adjustments[h.ref].status)

\* The request that waits for this refund, or was given up waiting.
Waiting(c) ==
  /\ c # 0 /\ request.cycle = c
  /\ request.status = "PROCESSING" \/ (request.status = "NEEDS_REVIEW" /\ request.exhausted)

\* Mutant: a request that was given up waiting gets nothing back.
GivenBackWhileProcessing(c) ==
  IF request.status = "PROCESSING" /\ Known(Reserve(c))
  THEN Posted(Release(c), -Sum({e \in entries : e.key = Reserve(c)}))
  ELSE entries

GivenBack(c) ==
  IF Known(Reserve(c)) THEN Posted(Release(c), -Sum({e \in entries : e.key = Reserve(c)})) ELSE entries

\* The refund failed: what was reserved for it comes back.
ReleaseRefundReservation(h) ==
  LET c == ActsFor(h, FALSE)
      automatic == request.by = "system"
      ends == ~FinalAlready(h) /\ Waiting(c)
  IN  /\ h.saw = "failed"
      /\ Record(h, [adjustments[h.ref] EXCEPT !.cycle = BoundTo(h, FALSE),
                      !.status = IF FinalAlready(h) THEN @ ELSE "FAILED"])
      /\ entries' = IF ends THEN GivenBack(c) ELSE entries
      /\ request' = IF ends
                    THEN [Leaves(IF automatic THEN "NEEDS_REVIEW" ELSE "REFUSED")
                            EXCEPT !.ref = IF h.ref = None THEN @ ELSE h.ref]
                    ELSE request
      /\ payment' = IF /\ ends /\ ~automatic /\ request.exhausted
                       /\ payment.status = "NEEDS_REVIEW" /\ payment.why = "exhausted" /\ Net = 0
                    THEN [payment EXCEPT !.status = "SUCCEEDED", !.why = "other"]
                    ELSE payment
      /\ UNCHANGED sub

-----------------------------------------------------------------------------
(* A confirmed adjustment: applyConfirmedAdjustment.                        *)

Least(a, b) == IF a <= b THEN a ELSE b
Most(a, b)  == IF a >= b THEN a ELSE b

\* The fulfilment of the charge is known, so that its return can be weighed.
Ready == payment.granted \/ payment.auto

\* What the row is to say: money out, money back, or a reversal seen before its debit.
TargetMoney(h) ==
  CASE h.saw = "succeeded" -> -h.amount
    [] h.saw = "reversed" /\ adjustments[h.ref].money < 0 -> 0
    [] OTHER -> h.amount

Others(r) == {q \in Refs \ {r} : Over(adjustments[q].status)}
NetAfter(h) == TargetMoney(h) + MapThenSumSet(LAMBDA q : adjustments[q].money, Others(h.ref))

\* The share of the credits that goes back with the money, rounded up.
Withheld(net) ==
  Least(Funded, (Funded * Least(payment.amount, Most(0, -net)) + payment.amount - 1) \div payment.amount)

\* Mutant: what the other adjustments have taken is forgotten.
TargetCreditAlone(h) == -Withheld(NetAfter(h))

TargetCredit(h) ==
  -Withheld(NetAfter(h)) - MapThenSumSet(LAMBDA q : adjustments[q].credit, Others(h.ref))

\* Mutant: the reservation is not taken for what it is, so the credits are taken twice.
CoveredNever(h, c) == FALSE

\* What was reserved for this refund already counts as taken.
CoveredByReservation(h, c) ==
  /\ adjustments[h.ref].credit = 0
  /\ c # 0 /\ Known(Reserve(c)) /\ ~Known(Release(c))

CurrentCredit(h, c) ==
  IF CoveredByReservation(h, c)
  THEN Sum({e \in entries : e.key = Reserve(c)})
  ELSE adjustments[h.ref].credit

Movement(h, c) == TargetCredit(h) - CurrentCredit(h, c)

\* History: it was first confirmed for no cycle, or told again after it had taken nothing.
PastAfter(h, c) ==
  LET row == adjustments[h.ref]
  IN  row.past \cup (IF ~Over(row.status) /\ c = 0 THEN {"unbound"} ELSE {})
               \cup (IF Over(row.status) /\ row.credit = 0 THEN {"again"} ELSE {})

\* The row and the movement that makes its credits what they should be.
Moved(h, c) ==
  LET row == adjustments[h.ref]
      rev == IF Movement(h, c) = 0 THEN row.rev ELSE row.rev + 1
  IN  /\ rev <= MaxRevisions
      /\ adjustments' = [adjustments EXCEPT ![h.ref] =
           [status |-> IF h.saw = "reversed" THEN "REVERSED" ELSE "SUCCEEDED",
            money |-> TargetMoney(h), credit |-> TargetCredit(h),
            cycle |-> BoundTo(h, h.saw = "succeeded"), rev |-> rev, past |-> PastAfter(h, c)]]

WithMovement(h, c) ==
  IF Movement(h, c) = 0 THEN entries
  ELSE Posted(Key("move", adjustments[h.ref].rev + 1, h.ref), Movement(h, c))

Fully(net) == net = -payment.amount
TooMuch(net) == net < -payment.amount

\* The money of an automatic refund came back, or the plan it paid for is cancelled by
\* now: it must go out again.
Contained(h, c) ==
  /\ h.saw = "reversed"
  /\ payment.auto \/ (c # 0 /\ request.by = "system") \/ sub = "CANCELLED"

PaymentAfter(h, c, net) ==
  LET fulfilled == payment.granted \/ Funded > 0
  IN  [payment EXCEPT
         !.status = CASE Contained(h, c) \/ TooMuch(net) -> "NEEDS_REVIEW"
                      [] Fully(net) /\ ~Contained(h, c) -> "REFUNDED"
                      [] net # 0 /\ ~Fully(net) /\ ~TooMuch(net) /\ ~Contained(h, c) -> "NEEDS_REVIEW"
                      [] OTHER -> IF fulfilled THEN "SUCCEEDED"
                                  ELSE IF payment.status \in {"FAILED", "NEEDS_REVIEW"} THEN payment.status
                                  ELSE "PENDING",
         !.why = CASE Contained(h, c) \/ TooMuch(net) \/ Fully(net) -> "other"
                   [] ~Contained(h, c) /\ net < 0 /\ ~TooMuch(net) /\ ~Fully(net) -> "partial"
                   [] OTHER -> IF h.saw = "reversed" THEN "other" ELSE @,
         !.auto = @ \/ (Contained(h, c) /\ sub = "CANCELLED" /\ net = 0)]

\* A bound request ends, or goes to a person; a contained reversal starts a new cycle
\* and reserves every credit this payment funded, spent or not.
RequestAfter(h, c, net) ==
  IF Contained(h, c) /\ net = 0 THEN NewCycle("PROCESSING", "system")
  ELSE IF c = 0 THEN request
  ELSE [Leaves(IF Fully(net) THEN "APPROVED" ELSE "NEEDS_REVIEW") EXCEPT !.ref = h.ref]

EntriesAfter(h, c, net) ==
  LET moved == WithMovement(h, c)
  IN  IF Contained(h, c) /\ net = 0 /\ Funded > 0
      THEN moved \cup {[key |-> Reserve(request.cycle + 1), delta |-> -Funded]}
      ELSE moved

\* A full return or an open dispute ends the plan.
SubAfter(h, net) ==
  IF /\ sub # "NONE" /\ payment.granted
     /\ Fully(net) \/ TooMuch(net) \/ (h.ref \in Disputes /\ h.saw = "succeeded" /\ net < 0)
  THEN "CANCELLED" ELSE sub

\* An unbound reversal that moves nothing is recorded and no more.
OnlyRecorded(h, c) ==
  /\ h.saw = "reversed" /\ c = 0 /\ Movement(h, c) = 0
  /\ TargetMoney(h) = adjustments[h.ref].money

ApplyConfirmedAdjustment(h) ==
  LET c   == ActsFor(h, h.saw = "succeeded" /\ adjustments[h.ref].status # "REVERSED")
      net == NetAfter(h)
  IN  /\ h.saw \in {"succeeded", "reversed"}
      /\ CASE ~Ready -> UNCHANGED <<payment, request, adjustments, entries, sub>>
           [] Ready /\ adjustments[h.ref].status = "REVERSED" ->
                /\ Record(h, [adjustments[h.ref] EXCEPT !.cycle = BoundTo(h, FALSE)])
                /\ UNCHANGED <<payment, request, entries, sub>>
           [] OTHER ->
                /\ Moved(h, c)
                /\ Contained(h, c) /\ net = 0 => request.cycle < MaxCycles
                /\ entries' = EntriesAfter(h, c, net)
                /\ IF OnlyRecorded(h, c) THEN UNCHANGED <<payment, request, sub>>
                   ELSE /\ payment' = PaymentAfter(h, c, net)
                        /\ request' = RequestAfter(h, c, net)
                        /\ sub' = SubAfter(h, net)

\* applyRefundVerification
Apply(w) ==
  /\ hands[w].pc = "apply"
  /\ hands[w].ref \in Disputes /\ ~Slow => \A v \in Hands : hands[v].pc # "settle"
  /\ \/ ApplyPending(hands[w])
     \/ ReleaseRefundReservation(hands[w])
     \/ ApplyConfirmedAdjustment(hands[w])
  /\ Rest(w)
  /\ UNCHANGED provider

-----------------------------------------------------------------------------
(* The environment.                                                         *)

\* External: the customer pays, too little at times, perhaps after a card was declined.
Pays(charge, amount) ==
  /\ provider.page
  /\ provider.charge \in {"none", "failed"} /\ provider.charge # charge
  /\ provider' = [provider EXCEPT !.charge = charge, !.paid = amount]
  /\ UNCHANGED <<payment, request, adjustments, entries, sub, hands>>

\* External: a refund goes through or fails; what went through may be reversed; the
\* bank withholds a disputed charge, or a part of it, at once.
Moves(r, from, to) ==
  /\ provider.refunds[r].state = from
  /\ to = "reversed" => Cardinality({q \in Refs : provider.refunds[q].state = to}) < MaxReversals
  /\ provider' = [provider EXCEPT !.refunds[r].state = to]
  /\ UNCHANGED <<payment, request, adjustments, entries, sub, hands>>

Dispute(r, amount) ==
  /\ provider.charge = "paid" /\ amount <= provider.paid
  /\ provider.refunds[r].state = "none"
  /\ provider' = [provider EXCEPT !.refunds[r] = [state |-> "succeeded", amount |-> amount, since |-> 0]]
  /\ UNCHANGED <<payment, request, adjustments, entries, sub, hands>>

\* The customer's cancellation takes effect at the end of the paid period.
PlanEnds ==
  /\ sub = "ACTIVE"
  /\ sub' = "CANCELLED"
  /\ UNCHANGED <<payment, request, adjustments, entries, provider, hands>>

Dies(w) ==
  /\ hands[w].pc # "idle"
  /\ Rest(w)
  /\ UNCHANGED <<payment, request, adjustments, entries, sub, provider>>

PassStep == Claim \/ Exhaust \/ VerifyRefund \/ Submit("tick") \/ Apply("tick")

Next ==
  \/ \E n \in Spends : Spend(n)
  \/ GrantMonth \/ PlanEnds
  \/ PageMade \/ CreateFails \/ CreateRejected \/ MarkUncertain \/ PersistCheckoutSession
  \/ CheckBegins \/ CheckEnds \/ AskCharge
  \/ \E w \in {"asker", "tick"} : SettleCharge(w)
  \/ RequestRefund \/ CancelRefundRequest \/ RefuseRefund \/ ApproveRefund
  \/ Submit("staff") \/ Apply("staff") \/ PassStep
  \/ \E w \in Hooks : Apply(w) \/ \E r \in Refs : HookBegins(w, r)
  \/ Pays("failed", 0) \/ \E amount \in 1 .. Amount : Pays("paid", amount)
  \/ \E r \in Ours : Moves(r, "pending", "succeeded") \/ Moves(r, "pending", "failed")
  \/ \E r \in Refs : Moves(r, "succeeded", "reversed")
  \/ \E r \in Disputes, amount \in Disputed[payment.kind] : Dispute(r, amount)
  \/ \E w \in Hands : Dies(w)

\* A call under way ends, and the worker does not die at the same step of its pass for ever.
Fairness ==
  /\ WF_vars(PageMade \/ CreateFails \/ CreateRejected \/ MarkUncertain \/ PersistCheckoutSession)
  /\ WF_vars(SettleCharge("asker")) /\ SF_vars(SettleCharge("tick"))
  /\ \A w \in {"staff", "tick"} : WF_vars(Submit(w))
  /\ \A w \in {"staff", "tick"} \cup Hooks : WF_vars(Apply(w))
  /\ WF_vars(VerifyRefund)
  /\ SF_vars(CheckBegins) /\ SF_vars(CheckEnds) /\ SF_vars(Claim) /\ SF_vars(Exhaust)

Spec == Init /\ [][Next]_vars
FairSpec == Spec /\ Fairness

-----------------------------------------------------------------------------
(* Properties.                                                              *)

\* The cycles whose reservation no confirmed refund has used and no failure returned.
Outstanding ==
  {c \in 1 .. MaxCycles :
     /\ Known(Reserve(c)) /\ ~Known(Release(c))
     /\ \A r \in Refs : ~(adjustments[r].cycle = c /\ Over(adjustments[r].status))}

\* Credits owed back for this much money: the least number that covers its share.
Owed(money) == CHOOSE n \in 0 .. Funded : /\ n * payment.amount >= Funded * money
                                          /\ \A m \in 0 .. Funded : m * payment.amount >= Funded * money => n <= m
Returned == Least(payment.amount, Most(0, -Net))

\* Whatever the order of webhooks, answers and checks, the ledger holds what the money
\* says: the credits paid for, less the share of the money returned, less what is
\* reserved for a refund under way.
CreditsMatchMoney ==
  Sum({e \in entries : e.key[1] # "spend"}) =
    Funded - Owed(Returned) + Sum({e \in entries : \E c \in Outstanding : e.key = Reserve(c)})

\* Whatever the order in which refunds and chargebacks are confirmed, told twice or
\* reversed, and whatever is granted meanwhile, the credits the adjustments hold taken are
\* together the share of the money that is away.
RowsMatchMoney ==
  MapThenSumSet(LAMBDA r : adjustments[r].credit, {r \in Refs : Over(adjustments[r].status)}) = -Owed(Returned)

\* The confirmed adjustments of a cycle that had a reservation.
Reserved == {r \in Refs : /\ adjustments[r].cycle # 0 /\ Over(adjustments[r].status)
                          /\ Known(Reserve(adjustments[r].cycle))}

\* One was confirmed before it was bound to its cycle: first seen reversed, or while the
\* request did not know it for its own.
ConfirmedUnbound == \E r \in Reserved : "unbound" \in adjustments[r].past

\* One took nothing, a chargeback having returned the charge already, and was told again.
ToldAgain == \E r \in Reserved : "again" \in adjustments[r].past

\* A second reversal queues one more full refund of a plan over the one under way, and
\* reserves its credits once more: nothing ends the reservation of the first.
ReversedTwice ==
  \E r, q \in Refs : /\ r # q
                    /\ adjustments[r].status = "REVERSED" /\ adjustments[q].status = "REVERSED"

\* The same, where the code keeps it: unless an adjustment was confirmed before it was
\* bound to a cycle that reserved credits for it, or told again after it took nothing.
CreditsMatchMoneyMostly == ConfirmedUnbound \/ ToldAgain \/ CreditsMatchMoney

\* The same, whatever was over-returned: the comment over the target credits says so.
CreditsMatchWhenOverReturned == ConfirmedUnbound \/ CreditsMatchMoney

\* We never have two refunds of one charge at the provider, through lost answers, nameless
\* ones, retries and cycles; a chargeback the bank reverses may queue one too many.
OneLiveRefund ==
  \/ Cardinality({r \in Ours : provider.refunds[r].state \in {"pending", "succeeded"}}) <= 1
  \/ \E r \in Disputes : provider.refunds[r].state = "reversed"

\* Credits set aside for a refund are used or given back when its request ends; only a
\* request under way, or one given up waiting, still holds them: as long as no second
\* reversal reserved them once more.
ReservationEnds ==
  \/ ReversedTwice
  \/ \A c \in Outstanding :
       c = request.cycle /\ (request.status = "PROCESSING" \/ (request.status = "NEEDS_REVIEW" /\ request.exhausted))

\* A payment is REFUNDED only when all its money went back and SUCCEEDED only when it
\* was granted and none of it is away.
StatusMatchesMoney ==
  /\ payment.status = "REFUNDED" => Net = -payment.amount
  /\ payment.status = "SUCCEEDED" => payment.granted /\ Net = 0

\* Once the return of a charge is queued, a verification that comes late grants nothing.
ReturnedIsNotGranted == [][~payment.granted /\ payment.granted' => request.by = "customer"]_vars

\* A checkout that nobody knows the outcome of is settled, shown or given up.
UncertainCheckoutEnds == (payment.status = "PENDING") ~> (payment.status # "PENDING")

\* A refund under way ends or goes to a person, unless a chargeback returned the charge
\* meanwhile.
RefundEnds ==
  (request.status = "PROCESSING") ~> (request.status # "PROCESSING" \/ payment.status = "REFUNDED")
=============================================================================
