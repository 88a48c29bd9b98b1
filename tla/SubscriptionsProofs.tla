-------------------------- MODULE SubscriptionsProofs --------------------------
(***************************************************************************)
(* Theorems about Subscriptions, for any number of periods, of charges     *)
(* looked into at once and of failing calls: a cancellation stays, a plan  *)
(* only moves forward, the command to the provider is not given up before  *)
(* it is through, and the row comes to say what the provider says.         *)
(***************************************************************************)
EXTENDS Subscriptions, TLAPS

Statuses == {"NONE", "CANCELLED"} \cup Live
States == {"paid", "past_due", "canceled"}
ProvStatus == {"active", "past_due", "canceled"}
Event == [status : ProvStatus, period : Periods, sched : BOOLEAN, at : Nat]
ProvRow == [status : ProvStatus \cup {"none"}, period : Periods, sched : BOOLEAN]
SubRow == [status : Statuses, start : Nat, end : Nat, atEnd : BOOLEAN, asked : BOOLEAN, upd : Nat,
           pending : BOOLEAN, due : BOOLEAN, touched : BOOLEAN]
HandRow == [at : {"idle", "seen", "settle"}, n : Periods \cup {None}, saw : States \cup {None},
            cancelled : BOOLEAN]
CallRow == [at : {"idle", "claim", "call", "clear"}, status : Statuses \cup {None}, atEnd : BOOLEAN]

SubscriptionsTypeOK ==
  /\ clock \in Nat /\ month \in Nat
  /\ prov \in ProvRow
  /\ txn \in [Periods -> [state : States \cup {"none"}, at : Nat]]
  /\ news \subseteq Event
  /\ pay \in [Periods -> {"NONE", "PENDING", "FAILED"} \cup Settled]
  /\ sub \in SubRow
  /\ hand \in [Hands -> HandRow]
  /\ caller \in [{"api", "pass"} -> CallRow]
  /\ errors \in Nat /\ stop \in BOOLEAN

\* There is a plan once its first charge was credited, and nothing else of it before.
Begun ==
  /\ sub.status # "NONE" => pay[1] \in Settled
  /\ \A n \in Periods : pay[n] = "SUCCEEDED" \/ (n # 1 /\ pay[n] # "NONE") => sub.status # "NONE"
  /\ sub.asked => sub.status # "NONE"
  /\ sub.pending => sub.asked
  /\ stop => sub.status = "CANCELLED"

\* What a hand holds: a charge that is not settled and that no other hand is settling.
HandsOK ==
  \A h \in Hands : hand[h].at # "idle" =>
    /\ hand[h].n \in Periods /\ hand[h].saw \in States
    /\ hand[h].n # 1 \/ hand[h].cancelled => sub.status # "NONE"
    /\ hand[h].at = "settle" =>
         /\ pay[hand[h].n] \notin Settled
         /\ \A i \in Hands : hand[i].at = "settle" /\ hand[i].n = hand[h].n => i = h

\* Nothing is known of a subscription that the provider does not have; a cancelled one is over.
ProviderOK ==
  /\ \A n \in Periods : txn[n].state # "none" => prov.status # "none"
  /\ \A h \in Hands : hand[h].at # "idle" => prov.status # "none"
  /\ sub.status # "NONE" \/ prov.sched => prov.status # "none"
  /\ \A e \in news : e.at <= clock /\ (e.status = "canceled" => prov.status = "canceled")

\* As long as nobody has asked for the end here, an end scheduled at the provider is the last
\* thing it tells but for the end itself.
Unasked ==
  ~sub.asked =>
    /\ sub.status = "CANCELLED" => sub.atEnd
    /\ \A e, f \in news : e.sched /\ f.at > e.at => f.status = "canceled"
    /\ (\E e \in news : e.sched) =>
         prov.status = "canceled" \/ (prov.status = "active" /\ prov.sched)
    /\ sub.atEnd => /\ \E e \in news : e.sched
                    /\ \A e \in news : e.at > sub.upd => e.status = "canceled"

\* Somebody calls only when the end was asked for; the answer says that the provider has the command.
CallsOK ==
  \A c \in {"api", "pass"} :
    /\ caller[c].at # "idle" => sub.asked
    /\ caller[c].at = "clear" =>
         prov.status = "canceled" \/ (AtPeriodEnd(c) /\ prov.sched)

IInv ==
  /\ SubscriptionsTypeOK /\ Begun /\ HandsOK /\ ProviderOK /\ Unasked /\ CallsOK
  /\ AskedStays /\ ClearedWasTold

-----------------------------------------------------------------------------
LEMMA FirstPeriod == 1 \in Periods /\ Periods \subseteq Nat /\ \A n \in Periods : n # 1 <=> n > 1
BY SubscriptionsAssumption DEF Periods

\* The initial state.
LEMMA InitOK == Init => IInv
<1> SUFFICES ASSUME Init PROVE IInv
  OBVIOUS
<1> USE FirstPeriod DEF Init
<1>1. SubscriptionsTypeOK
  BY DEF SubscriptionsTypeOK, ProvRow, SubRow, HandRow, CallRow, Idle, NoCall, Statuses, States, ProvStatus, Live
<1>2. Begun /\ HandsOK /\ ProviderOK /\ Unasked /\ CallsOK
  BY DEF Begun, HandsOK, ProviderOK, Unasked, CallsOK, Idle, NoCall
<1>3. AskedStays /\ ClearedWasTold
  BY DEF AskedStays, ClearedWasTold
<1> QED
  BY <1>1, <1>2, <1>3 DEF IInv

\* What the provider does, if it goes no way back: its new state and its news.
LEMMA ProviderMoves ==
  ASSUME IInv, NEW p \in ProvRow, Becomes(p), UNCHANGED <<pay, sub, hand, stop>>,
         p.status # "none",
         txn' \in [Periods -> [state : States \cup {"none"}, at : Nat]],
         prov.status = "canceled" => p.status = "canceled",
         prov.sched => p.sched \/ p.status = "canceled",
         ~sub.asked => /\ (\E e \in news : e.sched) => p.status = "canceled"
                       /\ p.sched => p.status = "active"
  PROVE  /\ clock' \in Nat /\ prov' \in ProvRow /\ news' \subseteq Event
         /\ Begun' /\ HandsOK' /\ ProviderOK' /\ Unasked' /\ AskedStays' /\ ClearedWasTold'
<1> USE DEF IInv, SubscriptionsTypeOK, Becomes
<1>0. /\ clock' = clock + 1 /\ prov' = p
      /\ news' = news \cup {[status |-> p.status, period |-> p.period, sched |-> p.sched, at |-> clock + 1]}
      /\ clock \in Nat /\ clock + 1 \in Nat
  OBVIOUS
<1>1. clock' \in Nat /\ prov' \in ProvRow /\ news' \subseteq Event
  BY <1>0 DEF ProvRow, Event
<1>2. Begun' /\ HandsOK' /\ AskedStays' /\ ClearedWasTold'
  BY <1>0 DEF Begun, HandsOK, AskedStays, ClearedWasTold
<1>3. \A e \in news' : e \in news \/ (e.status = p.status /\ e.sched = p.sched /\ e.at = clock + 1)
  BY <1>0
<1>4. \A e \in news : e.at \in Nat /\ e.at <= clock
  BY DEF ProviderOK, Event
<1>5. ProviderOK'
  BY <1>0, <1>3, <1>4 DEF ProviderOK
<1>6. Unasked'
  <2> SUFFICES ASSUME ~sub'.asked PROVE Unasked'
    BY DEF Unasked
  <2>1. Unasked /\ ~sub.asked
    OBVIOUS
  <2>2. \A e, f \in news' : e.sched /\ f.at > e.at => f.status = "canceled"
    BY <1>0, <1>3, <1>4, <2>1 DEF Unasked
  <2>3. (\E e \in news' : e.sched) => p.status = "canceled" \/ (p.status = "active" /\ p.sched)
    BY <1>3, <2>1
  <2>4. sub.atEnd => /\ \E e \in news' : e.sched
                     /\ \A e \in news' : e.at > sub.upd => e.status = "canceled"
    BY <1>0, <1>3, <2>1 DEF Unasked
  <2> QED
    BY <1>0, <2>1, <2>2, <2>3, <2>4 DEF Unasked
<1> QED
  BY <1>1, <1>2, <1>5, <1>6

\* The commands the provider has been told stay told.
LEMMA ToldStaysTold ==
  ASSUME CallsOK, UNCHANGED <<caller, sub>>,
         prov.status = "canceled" => prov'.status = "canceled",
         prov.sched => prov'.sched \/ prov'.status = "canceled"
  PROVE  CallsOK'
BY DEF CallsOK, AtPeriodEnd

\* The provider bills, collects, gives up or ends by itself.
LEMMA ProviderSteps ==
  ASSUME IInv, (\E state \in {"paid", "past_due"} : Bills(state)) \/ Collects \/ GivesUp \/ Ends \/ SchedulesThere
  PROVE  IInv'
<1> USE DEF IInv
<1>0. /\ prov \in ProvRow /\ txn \in [Periods -> [state : States \cup {"none"}, at : Nat]]
      /\ clock + 1 \in Nat /\ prov.period \in Periods
  BY DEF SubscriptionsTypeOK, ProvRow
<1>1. ASSUME NEW p \in ProvRow, Becomes(p), UNCHANGED <<month, pay, sub, hand, caller, errors, stop>>,
             p.status # "none", prov.status # "canceled",
             txn' \in [Periods -> [state : States \cup {"none"}, at : Nat]],
             prov.sched => p.sched \/ p.status = "canceled",
             ~sub.asked => /\ (\E e \in news : e.sched) => p.status = "canceled"
                           /\ p.sched => p.status = "active"
      PROVE  IInv'
  <2>1. /\ clock' \in Nat /\ prov' \in ProvRow /\ news' \subseteq Event
        /\ Begun' /\ HandsOK' /\ ProviderOK' /\ Unasked' /\ AskedStays' /\ ClearedWasTold'
    BY <1>1, ProviderMoves
  <2>2. SubscriptionsTypeOK'
    BY <1>1, <2>1 DEF SubscriptionsTypeOK
  <2>3. CallsOK'
    BY <1>1, ToldStaysTold DEF Becomes
  <2> QED
    BY <2>1, <2>2, <2>3
<1>2. ~sub.asked /\ (\E e \in news : e.sched) =>
        prov.status = "canceled" \/ (prov.status = "active" /\ prov.sched)
  BY DEF Unasked
<1>3. ASSUME NEW state \in {"paid", "past_due"}, Bills(state)
      PROVE  IInv'
  <2> DEFINE n == IF prov.status = "none" THEN 1 ELSE prov.period + 1
             p == [status |-> IF state = "paid" THEN "active" ELSE "past_due", period |-> n, sched |-> FALSE]
  <2>1. n \in Periods /\ p \in ProvRow /\ p.status # "none" /\ ~p.sched
    BY <1>3, FirstPeriod DEF Bills, ProvRow, ProvStatus
  <2>2. txn' \in [Periods -> [state : States \cup {"none"}, at : Nat]]
    BY <1>0, <1>3, <2>1 DEF Bills, States
  <2>3. prov.status # "canceled" /\ (prov.status = "active" => ~prov.sched) /\ prov.status \in {"none", "active"}
    BY <1>3 DEF Bills
  <2>4. Becomes(p) /\ UNCHANGED <<month, pay, sub, hand, caller, errors, stop>>
    BY <1>3 DEF Bills
  <2>5. prov.status = "none" => ~prov.sched
    BY DEF ProviderOK
  <2> QED
    BY <1>1, <1>2, <2>1, <2>2, <2>3, <2>4, <2>5
<1>4. CASE Collects
  <2>1. [prov EXCEPT !.status = "active"] \in ProvRow
    BY <1>0 DEF ProvRow, ProvStatus
  <2>2. txn' \in [Periods -> [state : States \cup {"none"}, at : Nat]]
    BY <1>0, <1>4 DEF Collects, States
  <2> QED
    BY <1>0, <1>1, <1>2, <1>4, <2>1, <2>2 DEF Collects, ProvRow
<1>5. CASE GivesUp
  <2>1. [prov EXCEPT !.status = "canceled", !.sched = FALSE] \in ProvRow
    BY <1>0 DEF ProvRow, ProvStatus
  <2>2. txn' \in [Periods -> [state : States \cup {"none"}, at : Nat]]
    BY <1>0, <1>5 DEF GivesUp, States
  <2> QED
    BY <1>0, <1>1, <1>2, <1>5, <2>1, <2>2 DEF GivesUp, ProvRow
<1>6. CASE Ends
  <2>1. [prov EXCEPT !.status = "canceled", !.sched = FALSE] \in ProvRow
    BY <1>0 DEF ProvRow, ProvStatus
  <2> QED
    BY <1>0, <1>1, <1>2, <1>6, <2>1 DEF Ends, ProvRow
<1>7. CASE SchedulesThere
  <2>1. [prov EXCEPT !.sched = TRUE] \in ProvRow
    BY <1>0 DEF ProvRow, ProvStatus
  <2> QED
    BY <1>0, <1>1, <1>2, <1>7, <2>1 DEF SchedulesThere, ProvRow
<1> QED
  BY <1>3, <1>4, <1>5, <1>6, <1>7

\* A call that gets through.
LEMMA CallSteps ==
  ASSUME IInv, NEW c \in {"api", "pass"}, Calls(c)
  PROVE  IInv'
<1> USE DEF IInv
<1>0. /\ prov \in ProvRow /\ caller \in [{"api", "pass"} -> CallRow] /\ sub.asked
      /\ prov.status # "none" /\ prov.status # "canceled"
  BY DEF Calls, SubscriptionsTypeOK, CallsOK, Begun, ProviderOK
<1>1. /\ caller' = [caller EXCEPT ![c].at = "clear"] /\ caller' \in [{"api", "pass"} -> CallRow]
      /\ UNCHANGED <<month, pay, sub, hand, errors, stop, txn>>
  BY <1>0 DEF Calls, Takes, CallRow, provider
<1>2. \A d \in {"api", "pass"} : AtPeriodEnd(d)' = AtPeriodEnd(d) /\ (d # c => caller'[d] = caller[d])
  BY <1>0, <1>1 DEF AtPeriodEnd, CallRow
<1>3. CASE AtPeriodEnd(c) /\ prov.sched
  <2>1. UNCHANGED provider
    BY <1>3 DEF Calls
  <2>2. SubscriptionsTypeOK' /\ Begun' /\ HandsOK' /\ ProviderOK' /\ Unasked' /\ AskedStays' /\ ClearedWasTold'
    BY <1>1, <2>1 DEF SubscriptionsTypeOK, Begun, HandsOK, ProviderOK, Unasked, AskedStays, ClearedWasTold, provider
  <2>3. CallsOK'
    BY <1>0, <1>1, <1>2, <1>3, <2>1 DEF CallsOK, provider
  <2> QED
    BY <2>2, <2>3
<1>4. CASE ~(AtPeriodEnd(c) /\ prov.sched)
  <2> DEFINE p == IF AtPeriodEnd(c) THEN [prov EXCEPT !.sched = TRUE]
                  ELSE [prov EXCEPT !.status = "canceled", !.sched = FALSE]
  <2>1. /\ p \in ProvRow /\ p.status # "none"
        /\ IF AtPeriodEnd(c) THEN p.sched ELSE p.status = "canceled"
    BY <1>0 DEF ProvRow, ProvStatus
  <2>2. Becomes(p)
    BY <1>4 DEF Calls, Takes
  <2>3. prov' = p
    BY <2>2 DEF Becomes
  <2>4. txn' \in [Periods -> [state : States \cup {"none"}, at : Nat]]
    BY <1>1 DEF SubscriptionsTypeOK
  <2> HIDE DEF p
  <2>5. /\ clock' \in Nat /\ prov' \in ProvRow /\ news' \subseteq Event
        /\ Begun' /\ HandsOK' /\ ProviderOK' /\ Unasked' /\ AskedStays' /\ ClearedWasTold'
    BY <1>0, <1>1, <2>1, <2>2, <2>4, ProviderMoves
  <2>6. SubscriptionsTypeOK'
    BY <1>1, <2>4, <2>5 DEF SubscriptionsTypeOK
  <2>7. CallsOK'
    BY <1>0, <1>1, <1>2, <2>1, <2>3 DEF CallsOK
  <2> QED
    BY <2>5, <2>6, <2>7
<1> QED
  BY <1>3, <1>4

\* Time passes, the pass reads and claims, or a call fails: nothing is said of the plan.
LEMMA QuietSteps ==
  ASSUME IInv,
         Tick \/ ComesDue \/ PassReads \/ PassClaims \/ \E c \in {"api", "pass"} : CallFails(c)
  PROVE  IInv'
<1> USE DEF IInv
<1>0. /\ sub \in SubRow /\ caller \in [{"api", "pass"} -> CallRow] /\ NoCall \in CallRow
      /\ sub.status \in Statuses /\ sub.atEnd \in BOOLEAN
  BY DEF SubscriptionsTypeOK, SubRow, CallRow, NoCall
<1>1. UNCHANGED <<provider, pay, hand, stop>>
  BY DEF Tick, ComesDue, PassReads, PassClaims, CallFails, provider
<1>2. \/ sub' = sub \/ sub' = [sub EXCEPT !.touched = FALSE]
      \/ sub' = [sub EXCEPT !.due = TRUE] \/ sub' = [sub EXCEPT !.due = FALSE]
      \/ sub' = [sub EXCEPT !.due = FALSE, !.touched = TRUE]
  BY DEF Tick, ComesDue, PassReads, PassClaims, CallFails
<1>3. /\ sub' \in SubRow
      /\ sub'.status = sub.status /\ sub'.atEnd = sub.atEnd /\ sub'.asked = sub.asked
      /\ sub'.upd = sub.upd /\ sub'.pending = sub.pending
  BY <1>0, <1>2 DEF SubRow
<1>4. /\ caller' \in [{"api", "pass"} -> CallRow]
      /\ \A c \in {"api", "pass"} : \/ caller'[c].at = "idle"
                                    \/ caller'[c] = caller[c]
                                    \/ caller'[c].at \in {"claim", "call"} /\ sub.asked
  <2>1. CASE Tick \/ ComesDue
    BY <1>0, <2>1 DEF Tick, ComesDue
  <2>2. CASE PassReads
    BY <1>0, <2>2 DEF PassReads, Begun, CallRow
  <2>3. CASE PassClaims
    <3>1. caller["pass"].at = "claim" /\ sub.asked
      BY <2>3 DEF PassClaims, CallsOK
    <3>2. \/ caller' = [caller EXCEPT !["pass"].at = "call"]
          \/ caller' = [caller EXCEPT !["pass"] = NoCall]
      BY <2>3 DEF PassClaims
    <3>3. CASE caller' = [caller EXCEPT !["pass"].at = "call"]
      <4>1. caller["pass"] \in CallRow /\ [caller["pass"] EXCEPT !.at = "call"] \in CallRow
        BY <1>0 DEF CallRow
      <4>2. caller' = [caller EXCEPT !["pass"] = [caller["pass"] EXCEPT !.at = "call"]]
        BY <3>3
      <4>3. [caller["pass"] EXCEPT !.at = "call"].at = "call"
        BY <4>1 DEF CallRow
      <4> QED
        BY <1>0, <3>1, <4>1, <4>2, <4>3
    <3>4. CASE caller' = [caller EXCEPT !["pass"] = NoCall]
      BY <1>0, <3>4 DEF NoCall
    <3> QED
      BY <3>2, <3>3, <3>4
  <2>4. ASSUME NEW c \in {"api", "pass"}, CallFails(c)
        PROVE  /\ caller' \in [{"api", "pass"} -> CallRow]
               /\ \A d \in {"api", "pass"} : caller'[d].at = "idle" \/ caller'[d] = caller[d]
    BY <1>0, <2>4 DEF CallFails, NoCall
  <2> QED
    BY <2>1, <2>2, <2>3, <2>4
<1>5. month' \in Nat /\ errors' \in Nat
  BY DEF SubscriptionsTypeOK, Tick, ComesDue, PassReads, PassClaims, CallFails
<1>6. SubscriptionsTypeOK'
  BY <1>1, <1>3, <1>4, <1>5 DEF SubscriptionsTypeOK, provider
<1>7. Begun' /\ HandsOK' /\ ProviderOK' /\ Unasked' /\ AskedStays' /\ ClearedWasTold'
  BY <1>1, <1>3 DEF Begun, HandsOK, ProviderOK, Unasked, AskedStays, ClearedWasTold, provider
<1>8. CallsOK'
  BY <1>1, <1>3, <1>4 DEF CallsOK, AtPeriodEnd, provider
<1> QED
  BY <1>6, <1>7, <1>8

\* A charge is taken in hand.
LEMMA Receiving ==
  ASSUME IInv, NEW h \in Hands, NEW n \in Periods, Receives(h, n)
  PROVE  IInv'
<1> USE DEF IInv
<1> DEFINE row == [Idle EXCEPT !.at = "seen", !.n = n, !.saw = txn[n].state]
<1>0. /\ pay \in [Periods -> {"NONE", "PENDING", "FAILED"} \cup Settled] /\ hand \in [Hands -> HandRow]
      /\ txn[n].state \in States
  BY DEF SubscriptionsTypeOK, Receives
<1>1. row \in HandRow /\ row.at = "seen" /\ row.n = n /\ row.saw = txn[n].state /\ row.cancelled = FALSE
  BY <1>0 DEF Idle, HandRow
<1> HIDE DEF row
<1>2. /\ hand' = [hand EXCEPT ![h] = row] /\ pay[n] \notin Settled
      /\ pay' = [pay EXCEPT ![n] = IF pay[n] = "NONE" THEN "PENDING" ELSE pay[n]]
      /\ UNCHANGED <<provider, month, sub, caller, errors, stop>>
  BY DEF Receives, row
<1>3. /\ pay' \in [Periods -> {"NONE", "PENDING", "FAILED"} \cup Settled]
      /\ \A m \in Periods : pay'[m] = pay[m] \/ (m = n /\ pay[n] = "NONE" /\ pay'[n] = "PENDING")
  BY <1>0, <1>2
<1>4. hand' \in [Hands -> HandRow] /\ \A i \in Hands : hand'[i] = IF i = h THEN row ELSE hand[i]
  BY <1>0, <1>1, <1>2
<1>5. (n # 1 => sub.status # "NONE") /\ prov.status # "none"
  BY FirstPeriod DEF Receives, HasRow, Begun, ProviderOK
<1>6. SubscriptionsTypeOK'
  BY <1>2, <1>3, <1>4 DEF SubscriptionsTypeOK, provider
<1>7. Begun'
  BY <1>2, <1>3, <1>5, FirstPeriod DEF Begun, Settled
<1>8. HandsOK'
  <2>1. \A i \in Hands : hand'[i].at = "settle" => i # h /\ hand'[i] = hand[i]
    BY <1>1, <1>4
  <2>2. \A m \in Periods : pay[m] \notin Settled => pay'[m] \notin Settled
    BY <1>3 DEF Settled
  <2> QED
    BY <1>0, <1>1, <1>2, <1>4, <1>5, <2>1, <2>2 DEF HandsOK
<1>9. ProviderOK'
  BY <1>1, <1>2, <1>4, <1>5 DEF ProviderOK, provider
<1>10. Unasked' /\ AskedStays' /\ ClearedWasTold' /\ CallsOK'
  BY <1>2 DEF Unasked, AskedStays, ClearedWasTold, CallsOK, AtPeriodEnd, provider
<1> QED
  BY <1>6, <1>7, <1>8, <1>9, <1>10

\* The lock on the payment is taken, and the plan looked at.
LEMMA Looking ==
  ASSUME IInv, NEW h \in Hands, Looks(h)
  PROVE  IInv'
<1> USE DEF IInv
<1>0. /\ hand \in [Hands -> HandRow] /\ hand[h] \in HandRow
      /\ sub.status \in Statuses /\ sub.pending \in BOOLEAN
      /\ hand[h].n \in Periods /\ hand[h].saw \in States
  BY DEF SubscriptionsTypeOK, SubRow, HandsOK, Looks
<1>1. UNCHANGED <<provider, month, pay, sub, caller, errors, stop>>
  BY DEF Looks
<1>2. PICK row \in HandRow :
        /\ hand' = [hand EXCEPT ![h] = row]
        /\ row.at = "idle" \/ (/\ row.at = "settle" /\ row.n = hand[h].n /\ row.saw = hand[h].saw
                               /\ pay[row.n] \notin Settled
                               /\ row.cancelled => CancelledHere)
  <2>1. CASE pay[hand[h].n] \in Settled
    BY <2>1 DEF Looks, Idle, HandRow
  <2>2. CASE pay[hand[h].n] \notin Settled
    <3> DEFINE row == [hand[h] EXCEPT !.at = "settle", !.cancelled = CancelledHere /\ hand[h].n > 1]
    <3>1. hand' = [hand EXCEPT ![h] = row]
      BY <1>0, <2>2 DEF Looks
    <3>2. (CancelledHere /\ hand[h].n > 1) \in BOOLEAN
      BY <1>0 DEF CancelledHere
    <3>3. /\ row \in HandRow /\ row.at = "settle" /\ row.n = hand[h].n /\ row.saw = hand[h].saw
          /\ row.cancelled = (CancelledHere /\ hand[h].n > 1)
      BY <1>0, <3>2 DEF HandRow
    <3> QED
      BY <2>2, <3>1, <3>3
  <2> QED
    BY <2>1, <2>2
<1>3. hand' \in [Hands -> HandRow] /\ \A i \in Hands : hand'[i] = IF i = h THEN row ELSE hand[i]
  BY <1>0, <1>2
<1>4. CancelledHere => sub.status # "NONE"
  BY DEF CancelledHere, Begun
<1>5. SubscriptionsTypeOK'
  BY <1>1, <1>3 DEF SubscriptionsTypeOK, provider
<1>6. HandsOK'
  <2>1. \A i \in Hands : ~(hand[i].n = hand[h].n /\ hand[i].at = "settle")
    BY DEF Looks
  <2>2. /\ hand[h].at # "idle" /\ hand[h].n \in Periods /\ hand[h].saw \in States
        /\ hand[h].n # 1 => sub.status # "NONE"
    BY DEF Looks, HandsOK
  <2>3. ASSUME NEW i \in Hands, hand'[i].at # "idle"
        PROVE  /\ hand'[i].n \in Periods /\ hand'[i].saw \in States
               /\ hand'[i].n # 1 \/ hand'[i].cancelled => sub.status # "NONE"
               /\ hand'[i].at = "settle" => pay[hand'[i].n] \notin Settled
    BY <1>2, <1>3, <1>4, <2>2, <2>3 DEF HandsOK
  <2>4. ASSUME NEW i \in Hands, NEW j \in Hands, hand'[i].at = "settle", hand'[j].at = "settle",
               hand'[i].n = hand'[j].n
        PROVE  i = j
    BY <1>2, <1>3, <2>1, <2>4 DEF HandsOK
  <2> QED
    BY <1>1, <2>3, <2>4 DEF HandsOK
<1>7. ProviderOK'
  <2>1. prov.status # "none"
    BY DEF Looks, ProviderOK
  <2> QED
    BY <1>1, <2>1 DEF ProviderOK, provider
<1>8. Begun' /\ Unasked' /\ AskedStays' /\ ClearedWasTold' /\ CallsOK'
  BY <1>1 DEF Begun, Unasked, AskedStays, ClearedWasTold, CallsOK, AtPeriodEnd, provider
<1> QED
  BY <1>5, <1>6, <1>7, <1>8

\* A step of the plan that says nothing of its end, but that its last period is over.
KeepsEnd ==
  /\ sub'.asked = sub.asked /\ sub'.atEnd = sub.atEnd /\ sub'.pending = sub.pending
  /\ sub'.upd >= sub.upd
  /\ sub.status = "CANCELLED" => sub'.status = "CANCELLED"
  /\ sub'.status = "CANCELLED" => sub.status = "CANCELLED" \/ sub.atEnd
  /\ stop' = stop

EndsNow == sub' = EndNow(sub) /\ (stop' = TRUE \/ stop' = stop)

LEMMA PlanMoves ==
  ASSUME IInv, sub' \in SubRow, UNCHANGED <<provider, caller>>, KeepsEnd \/ EndsNow,
         sub.status # "NONE" => sub'.status # "NONE"
  PROVE  /\ Unasked' /\ CallsOK' /\ AskedStays' /\ ClearedWasTold'
         /\ sub'.asked => sub'.status # "NONE"
         /\ sub'.pending => sub'.asked
         /\ stop' => sub'.status = "CANCELLED"
<1> USE DEF IInv
<1>0. /\ sub \in SubRow /\ sub.upd \in Nat /\ sub'.upd \in Nat
      /\ \A e \in news : e.at \in Nat
  BY DEF SubscriptionsTypeOK, SubRow, Event
<1>1. CASE KeepsEnd
  BY <1>0, <1>1 DEF KeepsEnd, Unasked, CallsOK, AskedStays, ClearedWasTold, AtPeriodEnd, provider, Begun
<1>2. CASE EndsNow
  <2>1. sub'.asked /\ sub'.pending /\ sub'.status = "CANCELLED"
    BY <1>0, <1>2 DEF EndsNow, EndNow, SubRow
  <2> QED
    BY <2>1 DEF Unasked, CallsOK, AskedStays, ClearedWasTold, AtPeriodEnd, provider
<1> QED
  BY <1>1, <1>2

\* What the end of a look writes to the plan.
LEMMA SettledPlan ==
  ASSUME IInv, NEW h \in Hands, Settles(h), NEW n \in Periods, n = hand[h].n
  PROVE  /\ sub' \in SubRow /\ stop' \in BOOLEAN /\ sub'.end >= sub.end
         /\ KeepsEnd \/ EndsNow
         /\ sub.status # "NONE" => sub'.status # "NONE"
         /\ \/ UNCHANGED <<pay, sub>>
            \/ /\ pay' = [pay EXCEPT ![n] = "FAILED"] /\ (sub'.status # "NONE" => sub.status # "NONE")
            \/ /\ pay' = [pay EXCEPT ![n] = "NEEDS_REVIEW"] /\ sub.status # "NONE"
            \/ /\ pay' = [pay EXCEPT ![n] = "SUCCEEDED"] /\ sub'.status # "NONE"
               /\ n # 1 => sub.status # "NONE"
<1> USE DEF IInv
<1>0. /\ sub \in SubRow /\ stop \in BOOLEAN /\ sub.status \in Statuses /\ sub.end \in Nat /\ sub.upd \in Nat
      /\ n \in Nat /\ txn[n].at \in Nat /\ (n # 1 <=> n > 1)
      /\ sub.pending \in BOOLEAN /\ sub.atEnd \in BOOLEAN /\ sub.asked \in BOOLEAN
  BY FirstPeriod DEF SubscriptionsTypeOK, SubRow
<1>1. /\ hand[h].at = "settle" /\ hand[h].saw \in States /\ pay[n] \notin Settled
      /\ n # 1 \/ hand[h].cancelled => sub.status # "NONE"
      /\ hand[h].cancelled \in BOOLEAN
  BY DEF Settles, HandsOK, SubscriptionsTypeOK, HandRow
<1>2. CASE hand[h].saw \in {"past_due", "canceled"}
  <2>1. Declined(n) /\ stop' = stop
    BY <1>2 DEF Settles
  <2>2. CASE sub' = [sub EXCEPT !.status = "PAST_DUE"] /\ sub.status = "ACTIVE"
    BY <1>0, <2>1, <2>2 DEF Declined, KeepsEnd, SubRow, Statuses, Live
  <2>3. CASE sub' = sub
    BY <1>0, <2>1, <2>3 DEF Declined, KeepsEnd
  <2> QED
    BY <2>1, <2>2, <2>3 DEF Declined
<1>3. CASE hand[h].saw = "paid" /\ hand[h].cancelled
  <2>1. QueueRefund(n)
    BY <1>3 DEF Settles
  <2>2. sub' \in SubRow /\ sub'.end = sub.end /\ sub'.status = "CANCELLED"
    BY <1>0, <2>1 DEF QueueRefund, EndNow, SubRow, Statuses
  <2> QED
    BY <1>0, <1>1, <1>3, <2>1, <2>2 DEF QueueRefund, EndsNow
<1>4. CASE hand[h].saw = "paid" /\ ~hand[h].cancelled /\ n > 1 /\ CancelledHere
  <2>1. UNCHANGED <<pay, sub, stop>>
    BY <1>4 DEF Settles
  <2> QED
    BY <1>0, <2>1 DEF KeepsEnd
<1>5. CASE hand[h].saw = "paid" /\ ~hand[h].cancelled /\ ~(n > 1 /\ CancelledHere)
  <2>1. pay' = [pay EXCEPT ![n] = "SUCCEEDED"] /\ sub' = Upserted(n) /\ stop' = stop
    BY <1>5 DEF Settles
  <2>2. sub.status # "CANCELLED"
    BY <1>0, <1>1, <1>5 DEF CancelledHere, Begun
  <2>3. Later(sub.upd, txn[n].at) \in Nat /\ Later(sub.upd, txn[n].at) >= sub.upd
    BY <1>0 DEF Later
  <2>4. /\ sub' \in SubRow /\ sub'.asked = sub.asked /\ sub'.atEnd = sub.atEnd /\ sub'.pending = sub.pending
        /\ sub'.upd = Later(sub.upd, txn[n].at)
        /\ sub'.end = IF Advances(n) THEN n ELSE sub.end
        /\ sub'.status = IF sub.status \in {"NONE", "ACTIVE"} \/ txn[n].at > sub.upd THEN "ACTIVE" ELSE sub.status
    BY <1>0, <2>1, <2>3 DEF Upserted, SubRow, Statuses, Live
  <2>5. sub'.end >= sub.end /\ sub'.status # "NONE" /\ sub'.status # "CANCELLED"
    BY <1>0, <2>2, <2>4 DEF Advances
  <2> QED
    BY <1>0, <1>1, <2>1, <2>2, <2>3, <2>4, <2>5 DEF KeepsEnd
<1> QED
  BY <1>1, <1>2, <1>3, <1>4, <1>5 DEF States

\* The end of a look.
LEMMA Settling ==
  ASSUME IInv, NEW h \in Hands, Settles(h)
  PROVE  IInv' /\ sub'.end >= sub.end /\ (sub.status = "CANCELLED" => sub'.status = "CANCELLED")
<1> USE DEF IInv
<1>1. PICK n \in Periods : n = hand[h].n
  BY DEF Settles, HandsOK
<1>2. /\ sub' \in SubRow /\ stop' \in BOOLEAN /\ sub'.end >= sub.end
      /\ KeepsEnd \/ EndsNow
      /\ sub.status # "NONE" => sub'.status # "NONE"
  BY <1>1, SettledPlan
<1>3. \/ UNCHANGED <<pay, sub>>
      \/ /\ pay' = [pay EXCEPT ![n] = "FAILED"] /\ (sub'.status # "NONE" => sub.status # "NONE")
      \/ /\ pay' = [pay EXCEPT ![n] = "NEEDS_REVIEW"] /\ sub.status # "NONE"
      \/ /\ pay' = [pay EXCEPT ![n] = "SUCCEEDED"] /\ sub'.status # "NONE"
         /\ n # 1 => sub.status # "NONE"
  BY <1>1, SettledPlan
<1>4. /\ hand' = [hand EXCEPT ![h] = Idle] /\ UNCHANGED <<provider, month, caller, errors>>
      /\ hand[h].at = "settle"
  BY DEF Settles
<1>5. /\ pay \in [Periods -> {"NONE", "PENDING", "FAILED"} \cup Settled] /\ hand \in [Hands -> HandRow]
      /\ Idle \in HandRow /\ Idle.at = "idle" /\ pay[n] \notin Settled
      /\ n # 1 => sub.status # "NONE"
  BY <1>1, <1>4 DEF SubscriptionsTypeOK, HandsOK, Idle, HandRow
<1>6. hand' \in [Hands -> HandRow] /\ \A i \in Hands : hand'[i] = IF i = h THEN Idle ELSE hand[i]
  BY <1>4, <1>5
<1>7. /\ pay' \in [Periods -> {"NONE", "PENDING", "FAILED"} \cup Settled]
      /\ \A m \in Periods : m # n => pay'[m] = pay[m]
  BY <1>3, <1>5 DEF Settled
<1>8. Unasked' /\ CallsOK' /\ AskedStays' /\ ClearedWasTold'
      /\ (sub'.asked => sub'.status # "NONE")
      /\ (sub'.pending => sub'.asked)
      /\ (stop' => sub'.status = "CANCELLED")
  BY <1>2, <1>4, PlanMoves
<1>9. SubscriptionsTypeOK'
  BY <1>2, <1>4, <1>6, <1>7 DEF SubscriptionsTypeOK, provider
<1>10. Begun'
  <2>1. sub'.status # "NONE" => pay'[1] \in Settled
    BY <1>3, <1>5, <1>7, FirstPeriod DEF Begun, Settled
  <2>2. \A m \in Periods : pay'[m] = "SUCCEEDED" \/ (m # 1 /\ pay'[m] # "NONE") => sub'.status # "NONE"
    <3> TAKE m \in Periods
    <3>1. CASE m # n
      BY <1>2, <1>7, <3>1 DEF Begun
    <3>2. CASE m = n
      BY <1>2, <1>3, <1>5, <3>2 DEF Begun, Settled
    <3> QED
      BY <3>1, <3>2
  <2> QED
    BY <1>8, <2>1, <2>2 DEF Begun
<1>11. HandsOK'
  <2>1. ASSUME NEW i \in Hands, hand'[i].at # "idle"
        PROVE  /\ hand'[i] = hand[i] /\ hand[i].at # "idle" /\ i # h
               /\ hand[i].at = "settle" => hand[i].n # n
    BY <1>1, <1>4, <1>5, <1>6, <2>1 DEF HandsOK
  <2> QED
    BY <1>2, <1>7, <2>1 DEF HandsOK
<1>12. ProviderOK'
  <2>1. prov.status # "none"
    BY <1>4 DEF ProviderOK
  <2> QED
    BY <1>4, <2>1 DEF ProviderOK, provider
<1>13. sub.status = "CANCELLED" => sub'.status = "CANCELLED"
  <2>1. EndsNow => sub'.status = "CANCELLED"
    BY DEF EndsNow, EndNow, SubscriptionsTypeOK, SubRow
  <2> QED
    BY <1>2, <2>1 DEF KeepsEnd
<1> QED
  BY <1>2, <1>8, <1>9, <1>10, <1>11, <1>12, <1>13

\* A charge was returned, or the paid period is over.
LEMMA ReturnedOrOver ==
  ASSUME IInv, (\E n \in Periods : Returned(n)) \/ PeriodOver
  PROVE  IInv' /\ sub'.end >= sub.end /\ (sub.status = "CANCELLED" => sub'.status = "CANCELLED")
<1> USE DEF IInv
<1>0. /\ sub \in SubRow /\ sub.end \in Nat /\ sub.upd \in Nat /\ stop \in BOOLEAN
      /\ pay \in [Periods -> {"NONE", "PENDING", "FAILED"} \cup Settled]
  BY DEF SubscriptionsTypeOK, SubRow
<1>1. ASSUME sub' \in SubRow, sub'.end = sub.end, stop' \in BOOLEAN, KeepsEnd \/ EndsNow,
             sub.status # "NONE" /\ sub'.status # "NONE",
             UNCHANGED <<provider, month, hand, caller, errors>>,
             pay' \in [Periods -> {"NONE", "PENDING", "FAILED"} \cup Settled],
             \A m \in Periods : pay[m] = pay'[m] \/ (pay[m] = "SUCCEEDED" /\ pay'[m] = "REFUNDED")
      PROVE  IInv' /\ sub'.end >= sub.end /\ (sub.status = "CANCELLED" => sub'.status = "CANCELLED")
  <2>1. Unasked' /\ CallsOK' /\ AskedStays' /\ ClearedWasTold'
        /\ (sub'.asked => sub'.status # "NONE")
        /\ (sub'.pending => sub'.asked)
        /\ (stop' => sub'.status = "CANCELLED")
    BY <1>1, PlanMoves
  <2>2. \A m \in Periods : pay[m] \in Settled <=> pay'[m] \in Settled
    BY <1>1 DEF Settled
  <2>3. SubscriptionsTypeOK'
    BY <1>1 DEF SubscriptionsTypeOK, provider
  <2>4. pay'[1] \in Settled
    BY <1>1, <2>2, FirstPeriod DEF Begun
  <2>5. Begun'
    BY <1>1, <2>1, <2>4 DEF Begun
  <2>6. HandsOK'
    BY <1>1, <2>2 DEF HandsOK
  <2>7. ProviderOK'
    BY <1>1 DEF ProviderOK, provider
  <2>8. EndsNow => sub'.status = "CANCELLED"
    BY <1>0 DEF EndsNow, EndNow, SubRow
  <2>9. sub'.end >= sub.end /\ (sub.status = "CANCELLED" => sub'.status = "CANCELLED")
    BY <1>0, <1>1, <2>8 DEF KeepsEnd
  <2> QED
    BY <2>1, <2>3, <2>5, <2>6, <2>7, <2>9
<1>2. ASSUME NEW n \in Periods, Returned(n)
      PROVE  IInv' /\ sub'.end >= sub.end /\ (sub.status = "CANCELLED" => sub'.status = "CANCELLED")
  <2>1. /\ pay[n] = "SUCCEEDED" /\ pay' = [pay EXCEPT ![n] = "REFUNDED"] /\ sub.status # "NONE"
        /\ UNCHANGED <<provider, month, hand, caller, errors>>
    BY <1>2 DEF Returned, Begun
  <2>2. (sub' = EndNow(sub) /\ stop' = TRUE) \/ (sub' = sub /\ stop' = stop)
    BY <1>2 DEF Returned
  <2>3. /\ pay' \in [Periods -> {"NONE", "PENDING", "FAILED"} \cup Settled]
        /\ \A m \in Periods : pay[m] = pay'[m] \/ (pay[m] = "SUCCEEDED" /\ pay'[m] = "REFUNDED")
    BY <1>0, <2>1 DEF Settled
  <2>4. CASE sub' = EndNow(sub) /\ stop' = TRUE
    <3>1. sub' \in SubRow /\ sub'.end = sub.end /\ sub'.status = "CANCELLED"
      BY <1>0, <2>4 DEF EndNow, SubRow, Statuses
    <3> QED
      BY <1>1, <2>1, <2>3, <2>4, <3>1 DEF EndsNow
  <2>5. CASE sub' = sub /\ stop' = stop
    BY <1>0, <1>1, <2>1, <2>3, <2>5 DEF KeepsEnd
  <2> QED
    BY <2>2, <2>4, <2>5
<1>3. CASE PeriodOver
  <2>1. /\ sub' = [sub EXCEPT !.status = "CANCELLED"] /\ sub.status \in Live /\ sub.atEnd
        /\ UNCHANGED <<provider, month, pay, hand, caller, errors, stop>>
    BY <1>3 DEF PeriodOver
  <2>2. sub' \in SubRow /\ sub'.end = sub.end /\ sub'.status = "CANCELLED" /\ sub.status # "NONE"
        /\ sub'.asked = sub.asked /\ sub'.atEnd = sub.atEnd /\ sub'.pending = sub.pending /\ sub'.upd = sub.upd
    BY <1>0, <2>1 DEF SubRow, Statuses, Live
  <2>3. sub'.upd >= sub.upd
    BY <1>0, <2>2
  <2>4. stop' \in BOOLEAN /\ stop' = stop /\ pay' = pay
    BY <1>0, <2>1
  <2>5. KeepsEnd
    BY <2>1, <2>2, <2>3, <2>4 DEF KeepsEnd
  <2> QED
    BY <1>0, <1>1, <2>1, <2>2, <2>4, <2>5
<1> QED
  BY <1>2, <1>3

\* The parts of the invariant that ask no more of the plan than that there is one.
LEMMA PlanOnly ==
  ASSUME IInv, sub' \in SubRow, caller' \in [{"api", "pass"} -> CallRow],
         UNCHANGED <<provider, month, pay, hand, errors, stop>>,
         sub.status # "NONE" /\ sub'.status # "NONE",
         sub'.pending => sub'.asked,
         stop => sub'.status = "CANCELLED"
  PROVE  SubscriptionsTypeOK' /\ Begun' /\ HandsOK' /\ ProviderOK'
<1> USE DEF IInv
<1>1. SubscriptionsTypeOK'
  BY DEF SubscriptionsTypeOK, provider
<1>2. Begun'
  BY DEF Begun
<1>3. HandsOK'
  BY DEF HandsOK
<1>4. ProviderOK'
  BY DEF ProviderOK, provider
<1> QED
  BY <1>1, <1>2, <1>3, <1>4

\* An event of the provider.
LEMMA Following ==
  ASSUME IInv, NEW e \in news, ActSubscription(e)
  PROVE  IInv' /\ sub'.end >= sub.end /\ (sub.status = "CANCELLED" => sub'.status = "CANCELLED")
<1> USE DEF IInv
<1> DEFINE over == e.status = "canceled"
<1>0. /\ sub \in SubRow /\ sub.upd \in Nat /\ sub.end \in Nat /\ stop \in BOOLEAN /\ sub.status \in Statuses
      /\ sub.asked \in BOOLEAN /\ sub.atEnd \in BOOLEAN /\ sub.pending \in BOOLEAN /\ sub.touched \in BOOLEAN
      /\ e \in Event /\ e.at \in Nat /\ e.sched \in BOOLEAN /\ e.period \in Periods /\ e.period \in Nat
      /\ e.status \in ProvStatus /\ txn[e.period].at \in Nat
      /\ caller \in [{"api", "pass"} -> CallRow]
  BY FirstPeriod DEF SubscriptionsTypeOK, SubRow, Event
<1>1. /\ sub.status # "NONE" /\ e.at > sub.upd /\ sub' = Follows(e)
      /\ UNCHANGED <<provider, month, pay, hand, caller, errors, stop>>
  BY <1>0 DEF ActSubscription, Stale
<1>2. LocalStatus(e.status) = IF over THEN "CANCELLED" ELSE IF e.status = "active" THEN "ACTIVE" ELSE "PAST_DUE"
  BY <1>0 DEF LocalStatus, ProvStatus
<1>3. /\ sub' \in SubRow
      /\ sub'.status = IF ~over /\ CancelAsked THEN sub.status ELSE LocalStatus(e.status)
      /\ sub'.end = IF Advances(e.period) THEN e.period ELSE sub.end
      /\ sub'.atEnd = IF over THEN FALSE ELSE IF CancelAsked THEN sub.atEnd ELSE e.sched
      /\ sub'.asked = (sub.asked \/ over)
      /\ sub'.upd = e.at
      /\ sub'.pending = (sub.pending /\ ~over)
  <2> DEFINE st == IF ~over /\ CancelAsked THEN sub.status ELSE LocalStatus(e.status)
             b  == IF Advances(e.period) THEN txn[e.period].at ELSE sub.start
             n  == IF Advances(e.period) THEN e.period ELSE sub.end
             t  == IF over THEN FALSE ELSE IF CancelAsked THEN sub.atEnd ELSE e.sched
             k  == sub.asked \/ over
             p  == sub.pending /\ ~over
             c  == sub.touched \/ over
  <2>1. LocalStatus(e.status) \in Statuses /\ sub.start \in Nat
    BY <1>0, <1>2 DEF Statuses, Live, SubRow
  <2>2. st \in Statuses /\ b \in Nat /\ n \in Nat /\ t \in BOOLEAN
    BY <1>0, <2>1
  <2>3. k \in BOOLEAN /\ p \in BOOLEAN /\ c \in BOOLEAN
    BY <1>0, Zenon
  <2>4. sub' = [sub EXCEPT !.status = st, !.start = b, !.end = n, !.atEnd = t, !.asked = k,
                           !.upd = e.at, !.pending = p, !.touched = c]
    BY <1>1 DEF Follows, over
  <2> HIDE DEF st, b, n, t, k, p, c
  <2>5. /\ sub' \in SubRow /\ sub'.status = st /\ sub'.end = n /\ sub'.atEnd = t /\ sub'.asked = k
        /\ sub'.upd = e.at /\ sub'.pending = p
    <3>1. sub \in SubRow /\ e.at \in Nat
      BY <1>0
    <3> HIDE DEF IInv, over
    <3> QED
      BY <3>1, <2>2, <2>3, <2>4 DEF SubRow
  <2> QED
    BY <2>5, Zenon DEF st, n, t, k, p
<1>4. sub'.end >= sub.end
  BY <1>0, <1>3 DEF Advances
<1>5. CASE over
  <2>1. sub'.status = "CANCELLED" /\ sub'.asked /\ ~sub'.pending /\ prov.status = "canceled"
    <3>1. prov.status = "canceled"
      BY <1>5 DEF ProviderOK
    <3>2. sub'.status = "CANCELLED"
      BY <1>2, <1>3, <1>5
    <3>3. sub'.asked /\ ~sub'.pending
      BY <1>3, <1>5, Zenon
    <3> QED
      BY <3>1, <3>2, <3>3
  <2>2. SubscriptionsTypeOK' /\ Begun' /\ HandsOK' /\ ProviderOK'
    BY <1>0, <1>1, <1>3, <2>1, PlanOnly
  <2>3. Unasked' /\ AskedStays' /\ ClearedWasTold'
    BY <1>1, <2>1 DEF Unasked, AskedStays, ClearedWasTold, provider
  <2>4. CallsOK'
    BY <1>1, <2>1 DEF CallsOK, AtPeriodEnd, provider
  <2> QED
    BY <1>4, <2>1, <2>2, <2>3, <2>4
<1>6. CASE ~over /\ sub.asked
  <2>1. CancelAsked
    BY <1>6 DEF CancelAsked, AskedStays
  <2>2. sub'.status = sub.status /\ sub'.atEnd = sub.atEnd /\ sub'.asked = sub.asked /\ sub'.pending = sub.pending
    BY <1>0, <1>3, <1>6, <2>1
  <2>3. sub'.upd >= sub.upd
    BY <1>0, <1>1, <1>3
  <2>4. KeepsEnd
    BY <1>1, <2>2, <2>3 DEF KeepsEnd
  <2>5. Unasked' /\ CallsOK' /\ AskedStays' /\ ClearedWasTold'
    BY <1>1, <1>3, <2>2, <2>4, PlanMoves
  <2>6. sub'.pending => sub'.asked
    BY <2>2 DEF Begun
  <2>7. stop => sub'.status = "CANCELLED"
    BY <2>2 DEF Begun
  <2>8. SubscriptionsTypeOK' /\ Begun' /\ HandsOK' /\ ProviderOK'
    BY <1>0, <1>1, <1>3, <2>2, <2>6, <2>7, PlanOnly
  <2> QED
    BY <1>4, <2>2, <2>5, <2>8
<1>7. CASE ~over /\ ~sub.asked
  <2>1. sub.status # "CANCELLED" /\ ~stop /\ ~sub.pending
    <3>1. sub.status = "CANCELLED" => sub.atEnd /\ over
      BY <1>0, <1>1, <1>7 DEF Unasked
    <3> QED
      BY <1>7, <3>1 DEF Begun
  <2>2. sub'.status \notin {"NONE", "CANCELLED"} /\ ~sub'.asked /\ ~sub'.pending /\ sub'.atEnd = e.sched
    BY <1>2, <1>3, <1>7, <2>1 DEF CancelAsked
  <2>3. SubscriptionsTypeOK' /\ Begun' /\ HandsOK' /\ ProviderOK'
    BY <1>0, <1>1, <1>3, <2>1, <2>2, PlanOnly
  <2>4. Unasked'
    BY <1>0, <1>1, <1>3, <1>7, <2>2 DEF Unasked, provider
  <2>5. AskedStays' /\ ClearedWasTold'
    BY <1>1, <2>1, <2>2 DEF AskedStays, ClearedWasTold
  <2>6. CallsOK'
    BY <1>1, <1>7 DEF CallsOK
  <2> QED
    BY <1>4, <2>1, <2>3, <2>4, <2>5, <2>6
<1> QED
  BY <1>5, <1>6, <1>7

\* The customer asks for the end.
LEMMA Asking ==
  ASSUME IInv, Ask
  PROVE  IInv' /\ sub'.end >= sub.end /\ (sub.status = "CANCELLED" => sub'.status = "CANCELLED")
<1> USE DEF IInv
<1>0. sub \in SubRow /\ sub.end \in Nat /\ sub.status \in Statuses /\ caller \in [{"api", "pass"} -> CallRow]
  BY DEF SubscriptionsTypeOK, SubRow
<1>1. /\ sub.status \in Live
      /\ sub' = [sub EXCEPT !.atEnd = TRUE, !.asked = TRUE, !.pending = TRUE, !.due = TRUE, !.touched = TRUE]
      /\ caller' = [caller EXCEPT !["api"] = [at |-> "call", status |-> sub.status, atEnd |-> TRUE]]
      /\ UNCHANGED <<provider, month, pay, hand, errors, stop>>
  BY DEF Ask
<1>2. /\ sub' \in SubRow /\ sub'.status = sub.status /\ sub'.end = sub.end /\ sub'.atEnd
      /\ sub'.asked /\ sub'.pending
  BY <1>0, <1>1 DEF SubRow
<1>3. [at |-> "call", status |-> sub.status, atEnd |-> TRUE] \in CallRow
  BY <1>0 DEF CallRow
<1>4. /\ caller' \in [{"api", "pass"} -> CallRow] /\ caller'["api"].at = "call"
      /\ caller'["pass"] = caller["pass"]
  BY <1>0, <1>1, <1>3
<1>5. stop => sub'.status = "CANCELLED"
  BY <1>2 DEF Begun
<1>6. SubscriptionsTypeOK' /\ Begun' /\ HandsOK' /\ ProviderOK'
  BY <1>1, <1>2, <1>4, <1>5, PlanOnly DEF Live
<1>7. Unasked' /\ AskedStays' /\ ClearedWasTold'
  BY <1>2 DEF Unasked, AskedStays, ClearedWasTold
<1>8. CallsOK'
  BY <1>1, <1>2, <1>4 DEF CallsOK, AtPeriodEnd, provider
<1>9. sub'.end >= sub.end
  BY <1>0, <1>2
<1> QED
  BY <1>2, <1>6, <1>7, <1>8, <1>9

\* The answer of the provider is written down.
LEMMA Clearing ==
  ASSUME IInv, NEW c \in {"api", "pass"}, Clears(c)
  PROVE  IInv' /\ sub'.end >= sub.end /\ (sub.status = "CANCELLED" => sub'.status = "CANCELLED")
<1> USE DEF IInv
<1>0. sub \in SubRow /\ sub.end \in Nat /\ caller \in [{"api", "pass"} -> CallRow] /\ NoCall \in CallRow
  BY DEF SubscriptionsTypeOK, SubRow, NoCall, CallRow
<1>1. /\ caller[c].at = "clear" /\ caller' = [caller EXCEPT ![c] = NoCall]
      /\ UNCHANGED <<provider, month, pay, hand, errors, stop>>
      /\ sub' = IF Unchanged(c) THEN [sub EXCEPT !.pending = FALSE, !.touched = TRUE] ELSE sub
  BY DEF Clears
<1>2. /\ sub' \in SubRow /\ sub'.status = sub.status /\ sub'.end = sub.end /\ sub'.atEnd = sub.atEnd
      /\ sub'.asked = sub.asked /\ sub'.upd = sub.upd
      /\ Unchanged(c) => ~sub'.pending
      /\ ~Unchanged(c) => sub'.pending = sub.pending
  BY <1>0, <1>1 DEF SubRow
<1>3. /\ caller' \in [{"api", "pass"} -> CallRow]
      /\ \A d \in {"api", "pass"} : caller'[d] = caller[d] \/ caller'[d].at = "idle"
  BY <1>0, <1>1 DEF NoCall
<1>4. sub.asked /\ sub.status # "NONE" /\ (prov.status = "canceled" \/ (AtPeriodEnd(c) /\ prov.sched))
  BY <1>1 DEF CallsOK, Begun
<1>5. /\ stop => sub.status = "CANCELLED"
      /\ sub'.pending => sub'.asked
  BY <1>2, <1>4 DEF Begun
<1>6. SubscriptionsTypeOK' /\ Begun' /\ HandsOK' /\ ProviderOK'
  BY <1>1, <1>2, <1>3, <1>4, <1>5, PlanOnly
<1>7. Unasked' /\ AskedStays'
  BY <1>2, <1>4 DEF Unasked, AskedStays
<1>8. CallsOK'
  BY <1>1, <1>2, <1>3 DEF CallsOK, AtPeriodEnd, provider
<1>9. ClearedWasTold'
  <2>1. CASE Unchanged(c)
    <3>1. stop => prov.status = "canceled"
      BY <1>4, <1>5, <2>1 DEF Unchanged, AtPeriodEnd
    <3> QED
      BY <1>1, <1>4, <3>1 DEF ClearedWasTold, provider
  <2>2. CASE ~Unchanged(c)
    BY <1>1, <1>2, <2>2 DEF ClearedWasTold, provider
  <2> QED
    BY <2>1, <2>2
<1>10. sub'.end >= sub.end
  BY <1>0, <1>2
<1> QED
  BY <1>2, <1>6, <1>7, <1>8, <1>9, <1>10

\* Steps that are nobody's word on the plan: its status and its paid period are as they were.
LEMMA PlanUntouched ==
  ASSUME IInv,
         \/ (\E state \in {"paid", "past_due"} : Bills(state)) \/ Collects \/ GivesUp \/ Ends \/ SchedulesThere
         \/ Tick \/ ComesDue \/ PassReads \/ PassClaims
         \/ \E c \in {"api", "pass"} : Calls(c) \/ CallFails(c)
         \/ \E n \in Periods : Charge(n)
         \/ \E h \in Hands : Looks(h)
         \/ UNCHANGED vars
  PROVE  sub'.status = sub.status /\ sub'.end >= sub.end
<1>0. sub \in SubRow /\ sub.end \in Nat
  BY DEF IInv, SubscriptionsTypeOK, SubRow
<1>1. \/ sub' = sub
      \/ sub' = [sub EXCEPT !.due = TRUE]
      \/ sub' = [sub EXCEPT !.due = FALSE]
      \/ sub' = [sub EXCEPT !.touched = FALSE]
      \/ sub' = [sub EXCEPT !.due = FALSE, !.touched = TRUE]
  BY DEF Bills, Collects, GivesUp, Ends, SchedulesThere, Tick, ComesDue, PassReads, PassClaims,
     Calls, CallFails, Charge, Receives, Looks, vars
<1>2. sub'.status = sub.status /\ sub'.end = sub.end
  BY <1>0, <1>1 DEF SubRow
<1> QED
  BY <1>0, <1>2

\* One step: the invariant is kept, and the plan moves forward only.
LEMMA Step ==
  ASSUME IInv, [Next]_vars
  PROVE  IInv' /\ sub'.end >= sub.end /\ (sub.status = "CANCELLED" => sub'.status = "CANCELLED")
<1>1. CASE (\E state \in {"paid", "past_due"} : Bills(state)) \/ Collects \/ GivesUp \/ Ends \/ SchedulesThere
  BY <1>1, ProviderSteps, PlanUntouched
<1>2. CASE Tick \/ ComesDue \/ PassReads \/ PassClaims \/ \E c \in {"api", "pass"} : CallFails(c)
  <2>1. IInv'
    BY <1>2, QuietSteps
  <2>2. sub'.status = sub.status /\ sub'.end >= sub.end
    BY <1>2, PlanUntouched
  <2> QED
    BY <2>1, <2>2
<1>3. ASSUME NEW c \in {"api", "pass"}, Calls(c)
      PROVE  IInv' /\ sub'.status = sub.status /\ sub'.end >= sub.end
  BY <1>3, CallSteps, PlanUntouched
<1>4. ASSUME NEW n \in Periods, Charge(n)
      PROVE  IInv' /\ sub'.status = sub.status /\ sub'.end >= sub.end
  <2>1. PICK h \in Hands : Receives(h, n)
    BY <1>4 DEF Charge
  <2> QED
    BY <1>4, <2>1, Receiving, PlanUntouched
<1>5. CASE (\E n \in Periods : Returned(n)) \/ PeriodOver
  BY <1>5, ReturnedOrOver
<1>6. ASSUME NEW h \in Hands, Look(h)
      PROVE  IInv' /\ sub'.end >= sub.end /\ (sub.status = "CANCELLED" => sub'.status = "CANCELLED")
  <2>1. CASE Looks(h)
    BY <2>1, Looking, PlanUntouched
  <2>2. CASE Settles(h)
    BY <2>2, Settling
  <2> QED
    BY <1>6, <2>1, <2>2 DEF Look
<1>7. ASSUME NEW e \in news, ActSubscription(e)
      PROVE  IInv' /\ sub'.end >= sub.end /\ (sub.status = "CANCELLED" => sub'.status = "CANCELLED")
  BY <1>7, Following
<1>8. CASE Ask
  BY <1>8, Asking
<1>9. ASSUME NEW c \in {"api", "pass"}, Clears(c)
      PROVE  IInv' /\ sub'.end >= sub.end /\ (sub.status = "CANCELLED" => sub'.status = "CANCELLED")
  BY <1>9, Clearing
<1>10. CASE UNCHANGED vars
  <2>1. IInv'
    BY <1>10 DEF IInv, vars, provider, SubscriptionsTypeOK, Begun, HandsOK, ProviderOK, Unasked, CallsOK,
       AtPeriodEnd, AskedStays, ClearedWasTold
  <2> QED
    BY <1>10, <2>1, PlanUntouched
<1>11. \/ (\E state \in {"paid", "past_due"} : Bills(state)) \/ Collects \/ GivesUp \/ Ends \/ SchedulesThere
       \/ Tick \/ ComesDue \/ PassReads \/ PassClaims \/ \E c \in {"api", "pass"} : CallFails(c)
       \/ \E c \in {"api", "pass"} : Calls(c) \/ Clears(c)
       \/ (\E n \in Periods : Charge(n)) \/ (\E n \in Periods : Returned(n)) \/ PeriodOver
       \/ (\E h \in Hands : Look(h)) \/ (\E e \in news : ActSubscription(e)) \/ Ask
       \/ UNCHANGED vars
  BY DEF Next, Pass
<1> QED
  BY <1>1, <1>2, <1>3, <1>4, <1>5, <1>6, <1>7, <1>8, <1>9, <1>10, <1>11

\* The invariant holds of the plan, its charges, the provider and whoever calls it, always.
THEOREM Invariance == Spec => []IInv
<1>1. IInv /\ [Next]_vars => IInv'
  BY Step
<1> QED
  BY InitOK, <1>1, PTL DEF Spec

\* Every variable keeps its type: settle, act and the maintenance pass write no row outside it.
THEOREM SubscriptionsTypeCorrect == Spec => []SubscriptionsTypeOK
<1>1. IInv => SubscriptionsTypeOK
  BY DEF IInv
<1> QED
  BY Invariance, <1>1, PTL

\* Whoever has asked for the end of the plan gets it, whatever events arrive late (act, settle).
THEOREM AskedStaysCorrect == Spec => []AskedStays
<1>1. IInv => AskedStays
  BY DEF IInv
<1> QED
  BY Invariance, <1>1, PTL

\* reconcileProviderCancellations and cancelSubscription do not give a command up before the provider has it.
THEOREM ClearedCorrect == Spec => []ClearedWasTold
<1>1. IInv => ClearedWasTold
  BY DEF IInv
<1> QED
  BY Invariance, <1>1, PTL

\* The paid period never moves back, and no news brings a cancelled plan back to life (act, upsertSubscription).
THEOREM ForwardCorrect == Spec => OnlyForward
<1>1. IInv /\ [Next]_vars => [/\ sub'.end >= sub.end
                              /\ sub.status = "CANCELLED" => sub'.status = "CANCELLED"]_vars
  BY Step
<1> QED
  BY Invariance, <1>1, PTL DEF Spec, OnlyForward

-----------------------------------------------------------------------------
(* The row follows the provider.  What matters is not the order in which the *)
(* news come but that each has its time: a row that has the time of the      *)
(* provider's clock has what the provider has, unless it was ended here.     *)

\* The last thing the provider told is what it is.
Told ==
  /\ prov.status # "none" => \E e \in news : e.at = clock
  /\ \A e \in news :
       /\ e.period <= prov.period
       /\ e.at = clock => e.status = prov.status /\ e.period = prov.period /\ e.sched = prov.sched

\* The provider bills one period after the other, and what was paid stays paid.
Billed ==
  /\ \A n \in Periods : txn[n].state # "none" =>
       /\ n <= prov.period /\ txn[n].at <= clock
       /\ txn[n].at = clock => /\ n = prov.period /\ ~prov.sched
                               /\ txn[n].state = "paid" => prov.status = "active"
  /\ prov.status = "none" => prov.period = 1
  /\ prov.status = "past_due" => txn[prov.period].state \notin {"none", "paid"}
  /\ \A h \in Hands : hand[h].at # "idle" =>
       /\ txn[hand[h].n].state # "none"
       /\ hand[h].saw = "paid" => txn[hand[h].n].state = "paid"

\* The row says what the provider says, or its last period is over before the provider tells so.
Agrees ==
  /\ sub.end = prov.period /\ sub.atEnd = prov.sched
  /\ \/ sub.status = LocalStatus(prov.status)
     \/ sub.status = "CANCELLED" /\ prov.sched /\ month > prov.period

Matches ==
  /\ sub.end <= prov.period /\ sub.upd <= clock
  /\ ~sub.asked /\ prov.status # "none" /\ sub.upd = clock => Agrees

FInv == Told /\ Billed /\ Matches

LEMMA InitFollows == Init => FInv
<1> USE FirstPeriod DEF Init
<1>1. Init => Told /\ Billed
  BY DEF Told, Billed, Idle
<1>2. Init => Matches
  BY DEF Matches
<1> QED
  BY <1>1, <1>2 DEF FInv

\* The provider's word is newer than all the row has.
LEMMA NewsComes ==
  ASSUME IInv, FInv, NEW p \in ProvRow, Becomes(p), p.status # "none", p.period >= prov.period,
         UNCHANGED sub
  PROVE  Told' /\ Matches'
<1> USE DEF IInv, FInv
<1>0. /\ clock \in Nat /\ prov \in ProvRow /\ prov.period \in Nat /\ p.period \in Nat
      /\ sub.end \in Nat /\ sub.upd \in Nat
      /\ \A e \in news : e.at \in Nat /\ e.at <= clock /\ e.period \in Nat /\ e.period <= prov.period
  BY FirstPeriod DEF SubscriptionsTypeOK, ProvRow, SubRow, Event, ProviderOK, Told
<1>1. /\ clock' = clock + 1 /\ prov' = p
      /\ news' = news \cup {[status |-> p.status, period |-> p.period, sched |-> p.sched, at |-> clock + 1]}
  BY DEF Becomes
<1>2. Told'
  <2>1. \E e \in news' : e.at = clock'
    <3> DEFINE e == [status |-> p.status, period |-> p.period, sched |-> p.sched, at |-> clock + 1]
    <3>1. e \in news' /\ e.at = clock'
      BY <1>1
    <3> QED
      BY <3>1
  <2>2. ASSUME NEW e \in news'
        PROVE  /\ e.period <= prov'.period
               /\ e.at = clock' => e.status = prov'.status /\ e.period = prov'.period /\ e.sched = prov'.sched
    <3>1. CASE e \in news
      <4>1. e.at < clock' /\ e.period <= p.period
        BY <1>0, <1>1, <3>1
      <4> QED
        BY <1>0, <1>1, <3>1, <4>1
    <3>2. CASE e = [status |-> p.status, period |-> p.period, sched |-> p.sched, at |-> clock + 1]
      BY <1>0, <1>1, <3>2
    <3> QED
      BY <1>1, <3>1, <3>2
  <2> QED
    BY <2>1, <2>2 DEF Told
<1>3. Matches'
  <2>1. sub.end <= p.period /\ sub.upd < clock'
    BY <1>0, <1>1 DEF Matches
  <2> QED
    BY <1>0, <1>1, <2>1 DEF Matches
<1> QED
  BY <1>2, <1>3

\* What is billed, when the provider moves on and the transactions stay.
LEMMA BillsStay ==
  ASSUME IInv, FInv, NEW p \in ProvRow, Becomes(p), p.period = prov.period,
         p.status = "past_due" => prov.status = "past_due", p.status # "none", UNCHANGED <<txn, hand>>
  PROVE  Billed'
<1> USE DEF IInv, FInv
<1>0. /\ clock \in Nat /\ clock' = clock + 1 /\ prov' = p
      /\ \A n \in Periods : txn[n].at \in Nat
  BY DEF SubscriptionsTypeOK, Becomes
<1>1. \A n \in Periods : txn[n].state # "none" => n <= p.period /\ txn[n].at <= clock' /\ txn[n].at # clock'
  BY <1>0 DEF Billed
<1>2. (p.status = "past_due" => txn[p.period].state \notin {"none", "paid"}) /\ (p.status = "none" => p.period = 1)
  BY DEF Billed
<1>3. \A h \in Hands : hand[h].at # "idle" =>
        /\ txn[hand[h].n].state # "none"
        /\ hand[h].saw = "paid" => txn[hand[h].n].state = "paid"
  BY DEF Billed
<1> QED
  BY <1>0, <1>1, <1>2, <1>3 DEF Billed

\* The provider bills, collects, gives up, ends or schedules the end.
LEMMA ProviderTells ==
  ASSUME IInv, FInv,
         (\E state \in {"paid", "past_due"} : Bills(state)) \/ Collects \/ GivesUp \/ Ends \/ SchedulesThere
  PROVE  FInv'
<1> USE DEF IInv, FInv
<1>0. /\ clock \in Nat /\ prov \in ProvRow /\ prov.period \in Periods /\ prov.period \in Nat
      /\ prov.status \in ProvStatus \cup {"none"} /\ prov.sched \in BOOLEAN
      /\ txn \in [Periods -> [state : States \cup {"none"}, at : Nat]]
      /\ \A n \in Periods : txn[n].at \in Nat /\ n \in Nat
      /\ \A h \in Hands : hand[h].at # "idle" => hand[h].n \in Periods
  BY FirstPeriod DEF SubscriptionsTypeOK, ProvRow, HandsOK
<1>1. ASSUME NEW state \in {"paid", "past_due"}, Bills(state)
      PROVE  FInv'
  <2> DEFINE n == IF prov.status = "none" THEN 1 ELSE prov.period + 1
             p == [status |-> IF state = "paid" THEN "active" ELSE "past_due", period |-> n, sched |-> FALSE]
  <2>1. n \in Periods /\ p \in ProvRow /\ p.status # "none" /\ ~p.sched /\ p.period = n
        /\ p.status = (IF state = "paid" THEN "active" ELSE "past_due")
    BY <1>1, FirstPeriod DEF Bills, ProvRow, ProvStatus
  <2>2. /\ Becomes(p) /\ UNCHANGED <<sub, hand>>
        /\ txn' = [txn EXCEPT ![n] = [state |-> state, at |-> clock + 1]]
    BY <1>1 DEF Bills
  <2>3. \A m \in Periods : txn[m].state # "none" => m < n
    <3>1. CASE prov.status = "none"
      BY <3>1 DEF ProviderOK
    <3>2. CASE prov.status # "none"
      BY <1>0, <3>2 DEF Billed
    <3> QED
      BY <3>1, <3>2
  <2>4. n >= prov.period
    <3>1. prov.status = "none" => prov.period = 1
      BY DEF Billed
    <3> QED
      BY <1>0, <3>1
  <2> HIDE DEF n, p
  <2>5. Told' /\ Matches'
    BY <2>1, <2>2, <2>4, NewsComes
  <2>6. clock' = clock + 1 /\ prov' = p
    BY <2>2 DEF Becomes
  <2>7. ASSUME NEW m \in Periods
        PROVE  /\ m = n => txn'[m].state = state /\ txn'[m].at = clock + 1
               /\ m # n => txn'[m] = txn[m]
    BY <1>0, <2>1, <2>2, <2>7
  <2>8. ASSUME NEW m \in Periods, txn'[m].state # "none"
        PROVE  /\ m <= prov'.period /\ txn'[m].at <= clock'
               /\ txn'[m].at = clock' => /\ m = prov'.period /\ ~prov'.sched
                                         /\ txn'[m].state = "paid" => prov'.status = "active"
    <3>1. CASE m = n
      BY <1>0, <2>1, <2>6, <2>7, <3>1
    <3>2. CASE m # n
      <4>1. txn'[m] = txn[m] /\ m < n /\ txn[m].at <= clock
        BY <2>3, <2>7, <2>8, <3>2 DEF Billed
      <4> QED
        BY <1>0, <2>1, <2>6, <3>2, <4>1
    <3> QED
      BY <3>1, <3>2
  <2>9. prov'.status = "past_due" => txn'[prov'.period].state \notin {"none", "paid"}
    BY <2>1, <2>6, <2>7
  <2>10. ASSUME NEW h \in Hands, hand'[h].at # "idle"
         PROVE  /\ txn'[hand'[h].n].state # "none"
                /\ hand'[h].saw = "paid" => txn'[hand'[h].n].state = "paid"
    <3>1. /\ hand[h].n \in Periods /\ txn[hand[h].n].state # "none"
          /\ hand[h].saw = "paid" => txn[hand[h].n].state = "paid"
      BY <1>0, <2>2, <2>10 DEF Billed
    <3>2. hand[h].n < n
      BY <2>3, <3>1
    <3>3. hand[h].n # n
      BY <1>0, <2>1, <3>1, <3>2
    <3> QED
      BY <2>2, <2>7, <3>1, <3>3
  <2>11. Billed'
    BY <2>1, <2>6, <2>8, <2>9, <2>10 DEF Billed
  <2> QED
    BY <2>5, <2>11
<1>2. ASSUME NEW st \in {"paid", "canceled"}, NEW p \in ProvRow, Becomes(p), prov.status = "past_due",
             p.status = (IF st = "paid" THEN "active" ELSE "canceled"), p.period = prov.period,
             txn' = [txn EXCEPT ![prov.period].state = st], UNCHANGED <<sub, hand>>
      PROVE  FInv'
  <2>1. Told' /\ Matches'
    BY <1>0, <1>2, NewsComes
  <2>2. clock' = clock + 1 /\ prov' = p
    BY <1>2 DEF Becomes
  <2>3. txn'[prov.period].state = st /\ txn'[prov.period].at = txn[prov.period].at
    BY <1>0, <1>2
  <2>4. \A m \in Periods : m # prov.period => txn'[m] = txn[m]
    BY <1>0, <1>2
  <2>5. txn[prov.period].state # "paid"
    BY <1>2 DEF Billed
  <2>6. Billed'
    <3>1. ASSUME NEW m \in Periods, txn'[m].state # "none"
          PROVE  m <= p.period /\ txn'[m].at <= clock' /\ txn'[m].at # clock'
      <4>1. m <= p.period
        BY <1>0, <1>2, <2>4, <3>1 DEF Billed
      <4>2. m # prov.period => txn[m].at <= clock
        BY <2>4, <3>1 DEF Billed
      <4>3. txn[prov.period].at <= clock
        BY <1>0, <1>2 DEF Billed
      <4>4. txn'[m].at = txn[m].at
        BY <2>3, <2>4
      <4> QED
        BY <1>0, <2>2, <4>1, <4>2, <4>3, <4>4
    <3>2. ASSUME NEW h \in Hands, hand[h].at # "idle"
          PROVE  /\ txn'[hand[h].n].state # "none"
                 /\ hand[h].saw = "paid" => txn'[hand[h].n].state = "paid"
      <4>1. /\ hand[h].n \in Periods /\ txn[hand[h].n].state # "none"
            /\ hand[h].saw = "paid" => txn[hand[h].n].state = "paid"
        BY <1>0, <3>2 DEF Billed
      <4> QED
        BY <1>2, <2>3, <2>4, <2>5, <4>1
    <3> QED
      BY <1>2, <2>2, <3>1, <3>2 DEF Billed
  <2> QED
    BY <2>1, <2>6
<1>3. CASE Collects
  <2>1. /\ [prov EXCEPT !.status = "active"] \in ProvRow /\ [prov EXCEPT !.status = "active"].status = "active"
        /\ [prov EXCEPT !.status = "active"].period = prov.period
    BY <1>0 DEF ProvRow, ProvStatus
  <2> QED
    BY <1>2, <1>3, <2>1 DEF Collects
<1>4. CASE GivesUp
  <2> DEFINE p == [prov EXCEPT !.status = "canceled", !.sched = FALSE]
  <2>1. p \in ProvRow /\ p.status = "canceled" /\ p.period = prov.period
    BY <1>0 DEF ProvRow, ProvStatus
  <2>2. Becomes(p)
    BY <1>4 DEF GivesUp
  <2> HIDE DEF p
  <2> QED
    BY <1>2, <1>4, <2>1, <2>2 DEF GivesUp
<1>5. CASE Ends
  <2> DEFINE p == [prov EXCEPT !.status = "canceled", !.sched = FALSE]
  <2>1. p \in ProvRow /\ p.status = "canceled" /\ p.period = prov.period
    BY <1>0 DEF ProvRow, ProvStatus
  <2>2. Becomes(p) /\ UNCHANGED <<sub, hand, txn>>
    BY <1>5 DEF Ends
  <2> HIDE DEF p
  <2> QED
    BY <1>0, <2>1, <2>2, NewsComes, BillsStay
<1>6. CASE SchedulesThere
  <2> DEFINE p == [prov EXCEPT !.sched = TRUE]
  <2>1. p \in ProvRow /\ p.status = "active" /\ p.period = prov.period
    BY <1>0, <1>6 DEF ProvRow, ProvStatus, SchedulesThere
  <2>2. Becomes(p) /\ UNCHANGED <<sub, hand, txn>>
    BY <1>6 DEF SchedulesThere
  <2> HIDE DEF p
  <2> QED
    BY <1>0, <2>1, <2>2, NewsComes, BillsStay
<1> QED
  BY <1>1, <1>3, <1>4, <1>5, <1>6

\* A command gets through to the provider.
LEMMA CommandTells ==
  ASSUME IInv, FInv, NEW c \in {"api", "pass"}, Calls(c)
  PROVE  FInv'
<1> USE DEF IInv, FInv
<1>0. /\ prov \in ProvRow /\ prov.status # "none" /\ prov.period \in Nat
  BY FirstPeriod DEF Calls, SubscriptionsTypeOK, CallsOK, Begun, ProviderOK, ProvRow
<1>1. UNCHANGED <<month, sub, hand, txn>>
  BY DEF Calls, Takes, provider
<1>2. CASE AtPeriodEnd(c) /\ prov.sched
  <2>1. UNCHANGED provider
    BY <1>2 DEF Calls
  <2> QED
    BY <1>1, <2>1 DEF Told, Billed, Matches, Agrees, provider
<1>3. CASE ~(AtPeriodEnd(c) /\ prov.sched)
  <2> DEFINE p == IF AtPeriodEnd(c) THEN [prov EXCEPT !.sched = TRUE]
                  ELSE [prov EXCEPT !.status = "canceled", !.sched = FALSE]
  <2>1. /\ p \in ProvRow /\ p.status # "none" /\ p.period = prov.period
        /\ p.status = "past_due" => prov.status = "past_due"
    BY <1>0 DEF ProvRow, ProvStatus
  <2>2. Becomes(p)
    BY <1>3 DEF Calls, Takes
  <2> HIDE DEF p
  <2>3. p.period >= prov.period
    BY <1>0, <2>1
  <2>4. Told' /\ Matches'
    BY <1>1, <2>1, <2>2, <2>3, NewsComes
  <2>5. Billed'
    BY <1>1, <2>1, <2>2, BillsStay
  <2> QED
    BY <2>4, <2>5
<1> QED
  BY <1>2, <1>3

\* What a hand may come to: it lets go, keeps its charge, or takes one as the provider has it.
HandsMove ==
  \A h \in Hands : \/ hand'[h].at = "idle"
                   \/ hand[h].at # "idle" /\ hand'[h].n = hand[h].n /\ hand'[h].saw = hand[h].saw
                   \/ txn[hand'[h].n].state # "none" /\ hand'[h].saw = txn[hand'[h].n].state

\* The provider is as it was: what it told and billed is, too.
LEMMA ProviderStays ==
  ASSUME FInv, UNCHANGED provider, HandsMove
  PROVE  Told' /\ Billed'
<1>1. Told'
  BY DEF FInv, Told, provider
<1>2. ASSUME NEW h \in Hands, hand'[h].at # "idle"
      PROVE  /\ txn[hand'[h].n].state # "none"
             /\ hand'[h].saw = "paid" => txn[hand'[h].n].state = "paid"
  <2>1. CASE hand[h].at # "idle" /\ hand'[h].n = hand[h].n /\ hand'[h].saw = hand[h].saw
    BY <2>1 DEF FInv, Billed
  <2> QED
    BY <1>2, <2>1 DEF HandsMove
<1>3. Billed'
  BY <1>2 DEF FInv, Billed, provider
<1> QED
  BY <1>1, <1>3

\* The plan says what it said.
PlanSame ==
  /\ sub'.status = sub.status /\ sub'.end = sub.end /\ sub'.atEnd = sub.atEnd
  /\ sub'.asked = sub.asked /\ sub'.upd = sub.upd /\ month' >= month

LEMMA PlanStays ==
  ASSUME IInv, FInv, UNCHANGED provider, HandsMove, PlanSame, month' \in Nat
  PROVE  FInv'
<1>1. Told' /\ Billed'
  BY ProviderStays
<1>2. month \in Nat /\ prov.period \in Nat
  BY FirstPeriod DEF IInv, SubscriptionsTypeOK, ProvRow
<1>3. Matches'
  BY <1>2 DEF FInv, Matches, Agrees, PlanSame, provider
<1> QED
  BY <1>1, <1>3 DEF FInv

\* Time passes, a pass reads, claims, fails or clears, or a charge is taken in hand: the plan says what it said.
LEMMA SilentSteps ==
  ASSUME IInv, FInv,
         \/ Tick \/ ComesDue \/ PassReads \/ PassClaims
         \/ \E c \in {"api", "pass"} : CallFails(c) \/ Clears(c)
         \/ \E n \in Periods : Charge(n)
         \/ \E h \in Hands : Looks(h)
         \/ UNCHANGED vars
  PROVE  FInv'
<1>0. sub \in SubRow /\ month \in Nat /\ hand \in [Hands -> HandRow]
  BY DEF IInv, SubscriptionsTypeOK
<1>1. UNCHANGED provider
  BY DEF Tick, ComesDue, PassReads, PassClaims, CallFails, Clears, Charge, Receives, Looks, vars
<1>2. \/ sub' = sub
      \/ sub' = [sub EXCEPT !.due = TRUE]
      \/ sub' = [sub EXCEPT !.due = FALSE]
      \/ sub' = [sub EXCEPT !.touched = FALSE]
      \/ sub' = [sub EXCEPT !.due = FALSE, !.touched = TRUE]
      \/ sub' = [sub EXCEPT !.pending = FALSE, !.touched = TRUE]
  BY DEF Tick, ComesDue, PassReads, PassClaims, CallFails, Clears, Charge, Receives, Looks, vars
<1>3. month' \in Nat /\ month' >= month
  <2>1. month' = month + 1 \/ month' = month
    BY DEF Tick, ComesDue, PassReads, PassClaims, CallFails, Clears, Charge, Receives, Looks, vars
  <2> QED
    BY <1>0, <2>1
<1>4. PlanSame
  BY <1>0, <1>2, <1>3 DEF PlanSame, SubRow
<1>5. HandsMove
  <2>1. CASE hand' = hand
    BY <2>1 DEF HandsMove
  <2>2. ASSUME NEW h \in Hands, NEW n \in Periods, Receives(h, n)
        PROVE  HandsMove
    <3> DEFINE row == [Idle EXCEPT !.at = "seen", !.n = n, !.saw = txn[n].state]
    <3>1. row.n = n /\ row.saw = txn[n].state /\ txn[n].state # "none"
      BY <2>2 DEF Idle, Receives
    <3>2. hand' = [hand EXCEPT ![h] = row]
      BY <2>2 DEF Receives
    <3> HIDE DEF row
    <3>3. \A i \in Hands : hand'[i] = IF i = h THEN row ELSE hand[i]
      BY <1>0, <3>2
    <3> QED
      BY <3>1, <3>3 DEF HandsMove
  <2>3. ASSUME NEW h \in Hands, Looks(h)
        PROVE  HandsMove
    <3>1. hand[h] \in HandRow /\ hand[h].at = "seen"
      BY <1>0, <2>3 DEF Looks
    <3>2. \/ hand' = [hand EXCEPT ![h] = Idle]
          \/ hand' = [hand EXCEPT ![h].at = "settle", ![h].cancelled = CancelledHere /\ hand[h].n > 1]
      BY <2>3 DEF Looks
    <3>3. CASE hand' = [hand EXCEPT ![h] = Idle]
      BY <1>0, <3>3 DEF HandsMove, Idle
    <3>4. CASE hand' = [hand EXCEPT ![h].at = "settle", ![h].cancelled = CancelledHere /\ hand[h].n > 1]
      <4> DEFINE row == [hand[h] EXCEPT !.at = "settle", !.cancelled = CancelledHere /\ hand[h].n > 1]
      <4>1. row.n = hand[h].n /\ row.saw = hand[h].saw
        BY <3>1 DEF HandRow
      <4>2. hand' = [hand EXCEPT ![h] = row]
        BY <1>0, <3>4
      <4> HIDE DEF row
      <4>3. \A i \in Hands : hand'[i] = IF i = h THEN row ELSE hand[i]
        BY <1>0, <4>2
      <4> QED
        BY <3>1, <4>1, <4>3 DEF HandsMove
    <3> QED
      BY <3>2, <3>3, <3>4
  <2> QED
    BY <2>1, <2>2, <2>3
       DEF Tick, ComesDue, PassReads, PassClaims, CallFails, Clears, Charge, vars
<1> QED
  BY <1>1, <1>3, <1>4, <1>5, PlanStays

\* Somebody asks for the end here, or a charge that was returned ends the plan: the row has its own word.
LEMMA AskedMatches ==
  ASSUME IInv, FInv, UNCHANGED provider, HandsMove,
         sub'.asked, sub'.end = sub.end, sub'.upd = sub.upd
  PROVE  FInv'
<1>1. Told' /\ Billed'
  BY ProviderStays
<1>2. Matches'
  BY DEF FInv, Matches, provider
<1> QED
  BY <1>1, <1>2 DEF FInv

LEMMA EndsHere ==
  ASSUME IInv, FInv, Ask \/ (\E n \in Periods : Returned(n)) \/ PeriodOver
  PROVE  FInv'
<1> USE DEF IInv, FInv
<1>0. /\ sub \in SubRow /\ month \in Nat /\ sub.end \in Nat /\ prov.period \in Nat
  BY FirstPeriod DEF SubscriptionsTypeOK, SubRow, ProvRow
<1>1. UNCHANGED provider /\ hand' = hand /\ month' = month
  BY DEF Ask, Returned, PeriodOver
<1>2. HandsMove
  BY <1>1 DEF HandsMove
<1>3. CASE Ask
  <2>1. sub'.asked /\ sub'.end = sub.end /\ sub'.upd = sub.upd
    BY <1>0, <1>3 DEF Ask, SubRow
  <2> QED
    BY <1>1, <1>2, <2>1, AskedMatches
<1>4. ASSUME NEW n \in Periods, Returned(n)
      PROVE  FInv'
  <2>1. CASE sub' = EndNow(sub)
    <3>1. sub'.asked /\ sub'.end = sub.end /\ sub'.upd = sub.upd
      BY <1>0, <2>1 DEF EndNow, SubRow
    <3> QED
      BY <1>1, <1>2, <3>1, AskedMatches
  <2>2. CASE sub' = sub
    <3>1. PlanSame /\ month' \in Nat
      BY <1>0, <1>1, <2>2 DEF PlanSame
    <3> QED
      BY <1>1, <1>2, <3>1, PlanStays
  <2> QED
    BY <1>4, <2>1, <2>2 DEF Returned
<1>5. CASE PeriodOver
  <2>1. /\ sub.atEnd /\ sub.end < month /\ sub'.status = "CANCELLED" /\ sub'.end = sub.end
        /\ sub'.atEnd = sub.atEnd /\ sub'.asked = sub.asked /\ sub'.upd = sub.upd
    BY <1>0, <1>5 DEF PeriodOver, SubRow
  <2>2. Told' /\ Billed'
    BY <1>1, <1>2, ProviderStays
  <2>3. Matches'
    <3>1. sub'.end <= prov'.period /\ sub'.upd <= clock'
      BY <1>1, <2>1 DEF Matches, provider
    <3>2. ASSUME ~sub'.asked, prov'.status # "none", sub'.upd = clock'
          PROVE  Agrees'
      <4>1. Agrees
        BY <1>1, <2>1, <3>2 DEF Matches, provider
      <4>2. sub.end = prov.period /\ sub.atEnd = prov.sched
        BY <4>1 DEF Agrees
      <4>3. prov.sched /\ month > prov.period
        BY <1>0, <2>1, <4>2
      <4> QED
        BY <1>1, <2>1, <4>2, <4>3 DEF Agrees, provider
    <3> QED
      BY <3>1, <3>2 DEF Matches
  <2> QED
    BY <2>2, <2>3
<1> QED
  BY <1>3, <1>4, <1>5

\* An event of the provider that has its clock's time brings what the provider is.
LEMMA EventMatches ==
  ASSUME IInv, FInv, NEW e \in news, ActSubscription(e)
  PROVE  FInv'
<1> USE DEF IInv, FInv
<1> DEFINE over == e.status = "canceled"
<1>0. /\ sub \in SubRow /\ sub.end \in Nat /\ prov.period \in Nat /\ sub.upd \in Nat /\ sub.asked \in BOOLEAN
      /\ e.at \in Nat /\ e.period \in Nat /\ clock \in Nat
      /\ e.at <= clock /\ e.period <= prov.period
      /\ sub.end <= prov.period
  BY FirstPeriod DEF SubscriptionsTypeOK, SubRow, ProvRow, Event, ProviderOK, Told, Matches
<1>1. /\ sub' = Follows(e) /\ UNCHANGED provider /\ hand' = hand /\ month' = month
  BY DEF ActSubscription
<1>2. HandsMove
  BY <1>1 DEF HandsMove
<1>3. Told' /\ Billed'
  BY <1>1, <1>2, ProviderStays
<1>4. /\ sub'.status = (IF ~over /\ CancelAsked THEN sub.status ELSE LocalStatus(e.status))
      /\ sub'.end = (IF Advances(e.period) THEN e.period ELSE sub.end)
      /\ sub'.atEnd = (IF over THEN FALSE ELSE IF CancelAsked THEN sub.atEnd ELSE e.sched)
      /\ sub'.asked = (sub.asked \/ over)
      /\ sub'.upd = e.at
  BY <1>0, <1>1 DEF Follows, SubRow
<1>5. sub'.end <= prov.period /\ sub'.upd <= clock
  BY <1>0, <1>4
<1>6. ASSUME ~sub'.asked, sub'.upd = clock
      PROVE  Agrees'
  <2>1. ~sub.asked /\ ~over /\ ~CancelAsked
    BY <1>4, <1>6 DEF CancelAsked
  <2>2. e.status = prov.status /\ e.period = prov.period /\ e.sched = prov.sched
    BY <1>4, <1>6 DEF Told
  <2>3. sub'.end = prov.period
    BY <1>0, <1>4, <2>2 DEF Advances
  <2>4. sub'.status = LocalStatus(prov.status) /\ sub'.atEnd = prov.sched
    BY <1>4, <2>1, <2>2
  <2> QED
    BY <1>1, <2>3, <2>4 DEF Agrees, LocalStatus, provider
<1>7. Matches'
  BY <1>1, <1>5, <1>6 DEF Matches, provider
<1> QED
  BY <1>3, <1>7

\* A charge that is settled brings the plan no further than the provider is, and no newer word than it has.
LEMMA ChargeMatches ==
  ASSUME IInv, FInv, NEW h \in Hands, Settles(h)
  PROVE  FInv'
<1> USE DEF IInv, FInv
<1> DEFINE n == hand[h].n
<1>0. /\ sub \in SubRow /\ sub.end \in Nat /\ sub.upd \in Nat /\ sub.atEnd \in BOOLEAN
      /\ month \in Nat /\ clock \in Nat /\ prov.period \in Nat /\ hand \in [Hands -> HandRow]
      /\ sub.end <= prov.period /\ sub.upd <= clock /\ prov.status \in ProvStatus \cup {"none"}
  BY FirstPeriod DEF SubscriptionsTypeOK, SubRow, ProvRow, Matches
<1>1. /\ hand[h].at = "settle" /\ n \in Periods /\ n \in Nat /\ (n # 1 <=> n > 1)
      /\ hand[h].saw \in States /\ txn[n].state # "none" /\ pay[n] \notin Settled
      /\ hand[h].saw = "paid" => txn[n].state = "paid"
      /\ prov.status # "none"
  BY FirstPeriod DEF Settles, HandsOK, Billed, ProviderOK
<1>2. /\ txn[n].at \in Nat /\ n <= prov.period /\ txn[n].at <= clock
      /\ txn[n].at = clock => n = prov.period /\ ~prov.sched /\ (txn[n].state = "paid" => prov.status = "active")
  BY <1>1 DEF SubscriptionsTypeOK, Billed
<1>3. UNCHANGED provider /\ month' = month /\ hand' = [hand EXCEPT ![h] = Idle]
  BY DEF Settles
<1>4. HandsMove
  BY <1>0, <1>3 DEF HandsMove, Idle
<1> HIDE DEF n
<1>5. CASE sub' = sub
  <2>1. PlanSame
    BY <1>0, <1>3, <1>5 DEF PlanSame
  <2> QED
    BY <1>0, <1>3, <1>4, <2>1, PlanStays
<1>6. CASE Declined(n)
  <2>1. CASE Authority(n) /\ sub' = [sub EXCEPT !.status = "PAST_DUE"]
    <3>1. txn[n].at > sub.upd
      BY <2>1 DEF Authority
    <3>2. sub'.end = sub.end /\ sub'.upd = sub.upd /\ sub.upd # clock
      BY <1>0, <1>2, <2>1, <3>1 DEF SubRow
    <3>3. Told' /\ Billed'
      BY <1>3, <1>4, ProviderStays
    <3>4. Matches'
      BY <1>0, <1>3, <3>2 DEF Matches, provider
    <3> QED
      BY <3>3, <3>4
  <2> QED
    BY <1>5, <1>6, <2>1 DEF Declined
<1>7. CASE QueueRefund(n)
  <2>1. sub'.asked /\ sub'.end = sub.end /\ sub'.upd = sub.upd
    BY <1>0, <1>7 DEF QueueRefund, EndNow, SubRow
  <2> QED
    BY <1>3, <1>4, <2>1, AskedMatches
<1>8. ASSUME hand[h].saw = "paid", ~hand[h].cancelled, ~(n > 1 /\ CancelledHere), sub' = Upserted(n)
      PROVE  FInv'
  <2>1. sub.status # "CANCELLED"
    BY <1>1, <1>8 DEF CancelledHere, Begun
  <2>2. /\ sub'.asked = sub.asked /\ sub'.atEnd = sub.atEnd
        /\ sub'.upd = Later(sub.upd, txn[n].at)
        /\ sub'.end = (IF Advances(n) THEN n ELSE sub.end)
        /\ sub'.status = (IF sub.status \in {"NONE", "ACTIVE"} \/ txn[n].at > sub.upd THEN "ACTIVE" ELSE sub.status)
    BY <1>0, <1>8 DEF Upserted, SubRow
  <2>3. sub'.end <= prov.period /\ sub'.upd <= clock
    BY <1>0, <1>1, <1>2, <2>2 DEF Later
  <2>4. ASSUME ~sub.asked, sub.upd = clock
        PROVE  Agrees'
    <3>1. Agrees
      BY <1>1, <2>4 DEF Matches
    <3>2. sub.end = prov.period /\ sub.atEnd = prov.sched /\ sub.status = LocalStatus(prov.status)
      BY <2>1, <3>1 DEF Agrees
    <3>3. LocalStatus(prov.status) # "NONE"
      BY <1>0, <1>1 DEF LocalStatus, ProvStatus
    <3>4. sub'.end = sub.end /\ sub'.status = sub.status
      BY <1>0, <1>1, <1>2, <2>2, <2>4, <3>2, <3>3 DEF Advances
    <3> QED
      BY <1>3, <2>2, <3>2, <3>4 DEF Agrees, LocalStatus, provider
  <2>5. ASSUME ~sub.asked, sub.upd # clock, sub'.upd = clock
        PROVE  Agrees'
    <3>1. txn[n].at = clock /\ txn[n].at > sub.upd
      BY <1>0, <1>2, <2>2, <2>5 DEF Later
    <3>2. n = prov.period /\ ~prov.sched /\ prov.status = "active"
      BY <1>1, <1>2, <1>8, <3>1
    <3>3. sub'.end = prov.period
      BY <1>0, <1>1, <2>2, <3>2 DEF Advances
    <3>4. sub'.status = "ACTIVE" /\ LocalStatus(prov.status) = "ACTIVE"
      BY <2>2, <3>1, <3>2 DEF LocalStatus
    <3>5. ~sub.atEnd
      <4>1. PICK e \in news : e.at = clock
        BY <1>1 DEF Told
      <4>2. e.at > sub.upd /\ e.status = "active"
        BY <3>1, <3>2, <4>1 DEF Told
      <4> QED
        BY <2>5, <4>2 DEF Unasked
    <3>6. sub'.atEnd = prov.sched
      BY <1>0, <2>2, <3>2, <3>5 DEF SubscriptionsTypeOK, ProvRow
    <3> QED
      BY <1>3, <3>3, <3>4, <3>6 DEF Agrees, LocalStatus, provider
  <2>6. Matches'
    BY <1>3, <2>2, <2>3, <2>4, <2>5 DEF Matches, provider
  <2>7. Told' /\ Billed'
    BY <1>3, <1>4, ProviderStays
  <2> QED
    BY <2>6, <2>7
<1>9. \/ Declined(n) \/ QueueRefund(n) \/ sub' = sub
      \/ /\ hand[h].saw = "paid" /\ ~hand[h].cancelled /\ ~(n > 1 /\ CancelledHere)
         /\ sub' = Upserted(n)
  <2>1. CASE hand[h].saw \in {"past_due", "canceled"}
    BY <2>1 DEF Settles, n
  <2>2. CASE hand[h].saw = "paid" /\ hand[h].cancelled
    BY <2>2 DEF Settles, n
  <2>3. CASE hand[h].saw = "paid" /\ ~hand[h].cancelled /\ n > 1 /\ CancelledHere
    BY <2>3 DEF Settles, n
  <2>4. CASE hand[h].saw = "paid" /\ ~hand[h].cancelled /\ ~(n > 1 /\ CancelledHere)
    BY <2>4 DEF Settles, n
  <2> QED
    BY <1>1, <2>1, <2>2, <2>3, <2>4 DEF States
<1> QED
  BY <1>5, <1>6, <1>7, <1>8, <1>9

\* One step keeps what ties the row to the provider.
LEMMA FollowsStep ==
  ASSUME IInv, FInv, [Next]_vars
  PROVE  FInv'
<1>1. CASE (\E state \in {"paid", "past_due"} : Bills(state)) \/ Collects \/ GivesUp \/ Ends \/ SchedulesThere
  BY <1>1, ProviderTells
<1>2. CASE \/ Tick \/ ComesDue \/ PassReads \/ PassClaims
           \/ \E c \in {"api", "pass"} : CallFails(c) \/ Clears(c)
           \/ \E n \in Periods : Charge(n)
           \/ \E h \in Hands : Looks(h)
           \/ UNCHANGED vars
  BY <1>2, SilentSteps
<1>3. CASE \E c \in {"api", "pass"} : Calls(c)
  BY <1>3, CommandTells
<1>4. CASE Ask \/ (\E n \in Periods : Returned(n)) \/ PeriodOver
  BY <1>4, EndsHere
<1>5. CASE \E h \in Hands : Settles(h)
  BY <1>5, ChargeMatches
<1>6. CASE \E e \in news : ActSubscription(e)
  BY <1>6, EventMatches
<1> QED
  BY <1>1, <1>2, <1>3, <1>4, <1>5, <1>6 DEF Next, Look, Pass

\* When every event and every charge was dealt with, in whatever order and however often each came (act, settle,
\* upsertSubscription, maintenanceTick), the row says what the provider says, unless the plan was ended here.
THEOREM FollowsCorrect == Spec => []FollowsProvider
<1>1. IInv /\ FInv => FollowsProvider
  <2> SUFFICES ASSUME IInv, FInv, Quiet, prov.status # "none", ~sub.asked
               PROVE  /\ sub.end = prov.period /\ sub.atEnd = prov.sched
                      /\ \/ sub.status = LocalStatus(prov.status)
                         \/ sub.status = "CANCELLED" /\ prov.sched /\ month > prov.period
    BY DEF FollowsProvider
  <2>1. PICK e \in news : e.at = clock
    BY DEF FInv, Told
  <2>2. clock <= sub.upd /\ sub.upd <= clock
    BY <2>1 DEF Quiet, FInv, Matches
  <2>3. clock \in Nat /\ sub.upd \in Nat
    BY DEF IInv, SubscriptionsTypeOK, SubRow
  <2>4. sub.upd = clock
    BY <2>2, <2>3
  <2> QED
    BY <2>4 DEF FInv, Matches, Agrees
<1>2. IInv /\ FInv /\ [Next]_vars => FInv'
  BY FollowsStep
<1> QED
  BY InitFollows, Invariance, <1>1, <1>2, PTL DEF Spec
=============================================================================
