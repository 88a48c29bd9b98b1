------------------------------ MODULE Deliveries ------------------------------
(***************************************************************************)
(* Outbound webhooks (webhook.dispatcher.ts): what one endpoint of an      *)
(* organization hears of its finished generations.  A listener writes one  *)
(* row per event, outside the transaction that finished the generation; a  *)
(* pass of the worker selects the rows that are due together with their    *)
(* endpoint and calls one after the other; the portal's test and replay    *)
(* call at once, beside the pass.  An attempt writes the row and the       *)
(* endpoint from what it read before its call, by id, in two statements.   *)
(***************************************************************************)
EXTENDS Naturals, FiniteSets

CONSTANTS
  Events,       \* finished generations the endpoint wants to hear of
  MaxAttempts,  \* WEBHOOK_MAX_ATTEMPTS
  PauseAfter,   \* WEBHOOK_PAUSE_AFTER
  MaxPortal,    \* bound: replays asked for in the portal
  MaxSwitches,  \* bound: times the customer switches the endpoint off or on
  MaxDeaths     \* bound: attempts and listeners that end in the middle

ASSUME DeliveriesAssumption ==
  /\ {MaxAttempts, PauseAfter} \subseteq Nat \ {0}
  /\ {MaxPortal, MaxSwitches, MaxDeaths} \subseteq Nat

VARIABLES
  event,     \* Events -> where the news of it is: before its row there is only memory
  row,       \* Events -> its webhook_deliveries row; due: nextAttemptAt has passed
  endpoint,  \* active and failures of the endpoint's row
  batch,     \* what the pass has selected and not yet tried, as it was selected
  hand,      \* "pass" and "portal": the attempt in hand, as it was read
  used       \* how much of each bound is used up

(* Ghosts: what no code keeps.                                             *)
VARIABLES
  tries,     \* Events -> calls since the row was written or replayed
  beside     \* events of which two attempts were read side by side

rows  == <<event, row>>
ghost == <<tries, beside>>
vars  == <<event, row, endpoint, batch, hand, used, ghost>>

Hands == {"pass", "portal"}
None == "none"
Free == [at |-> "idle", event |-> None, attempts |-> 0, failures |-> 0, ok |-> FALSE, todo |-> {}]

\* Ghosts count no further than a property asks.
Upto(n, cap) == IF n < cap THEN n ELSE cap

Init ==
  /\ event = [e \in Events |-> "running"]
  /\ row = [e \in Events |-> [status |-> "NONE", attempts |-> 0, due |-> FALSE]]
  /\ endpoint = [active |-> TRUE, failures |-> 0]
  /\ batch = {}
  /\ hand = [h \in Hands |-> Free]
  /\ used = [portal |-> 0, switches |-> 0, deaths |-> 0]
  /\ tries = [e \in Events |-> 0] /\ beside = {}

\* Somebody has read e's row, or is about to, and will call for it.
ByPass(e)   == hand["pass"].event = e \/ \E s \in batch : s.event = e
ByPortal(e) == hand["portal"].event = e

-----------------------------------------------------------------------------
(* The listener.                                                            *)

\* The generation is terminal; the listener is called and not awaited.
Finishes(e) ==
  /\ event[e] = "running"
  /\ event' = [event EXCEPT ![e] = "told"]
  /\ UNCHANGED <<row, endpoint, batch, hand, used, ghost>>

\* Mutant of Wanted: a paused endpoint gets no row, and the news waits for it.
WantedLater == endpoint.active

\* onGenerationFinished: only an active endpoint is told.
Wanted == TRUE

Enqueue(e) ==
  /\ event[e] = "told" /\ Wanted
  /\ IF endpoint.active
     THEN /\ event' = [event EXCEPT ![e] = "queued"]
          /\ row' = [row EXCEPT ![e] = [status |-> "PENDING", attempts |-> 0, due |-> TRUE]]
     ELSE /\ event' = [event EXCEPT ![e] = "unwanted"]
          /\ UNCHANGED row
  /\ UNCHANGED <<endpoint, batch, hand, used, ghost>>

\* The process dies, or the listener's query fails: a listener that throws is only logged.
ListenerDies(e) ==
  /\ event[e] = "told" /\ used.deaths < MaxDeaths
  /\ event' = [event EXCEPT ![e] = "lost"]
  /\ used' = [used EXCEPT !.deaths = @ + 1]
  /\ UNCHANGED <<row, endpoint, batch, hand, ghost>>

-----------------------------------------------------------------------------
(* Who calls: the pass and the portal.                                      *)

\* Mutant of Due: whatever the row says by now.
DueWhenever(e) == row[e].status # "NONE" /\ row[e].due

Due(e) == row[e].status = "PENDING" /\ row[e].due

\* deliverDue, one pass at a time: the endpoint is read with each row, paused or not.
Select ==
  /\ batch = {} /\ hand["pass"].at = "idle"
  /\ LET due == {e \in Events : Due(e)} IN
     /\ due # {}
     /\ batch' = {[event |-> e, attempts |-> row[e].attempts, failures |-> endpoint.failures] : e \in due}
     /\ beside' = beside \cup {e \in due : ByPortal(e)}
  /\ UNCHANGED <<rows, endpoint, hand, used, tries>>

Calls(h, s) ==
  [at |-> "call", event |-> s.event, attempts |-> s.attempts, failures |-> s.failures, ok |-> FALSE, todo |-> {}]

Next1(s) ==
  /\ hand["pass"].at = "idle" /\ s \in batch
  /\ batch' = batch \ {s}
  /\ hand' = [hand EXCEPT !["pass"] = Calls("pass", s)]
  /\ UNCHANGED <<rows, endpoint, used, ghost>>

\* redeliver: the row starts again, by id; then it is read with its endpoint and called.
Redeliver(e) ==
  /\ hand["portal"].at = "idle" /\ row[e].status # "NONE"
  /\ used.portal < MaxPortal
  /\ used' = [used EXCEPT !.portal = @ + 1]
  /\ row' = [row EXCEPT ![e] = [status |-> "PENDING", attempts |-> 0, due |-> TRUE]]
  /\ hand' = [hand EXCEPT !["portal"] = [Free EXCEPT !.at = "read", !.event = e]]
  /\ tries' = [tries EXCEPT ![e] = 0]
  /\ beside' = IF ByPass(e) THEN beside \cup {e} ELSE beside
  /\ UNCHANGED <<event, endpoint, batch>>

DeliverOne ==
  LET e == hand["portal"].event IN
  /\ hand["portal"].at = "read"
  /\ hand' = [hand EXCEPT !["portal"] =
                Calls("portal", [event |-> e, attempts |-> row[e].attempts, failures |-> endpoint.failures])]
  /\ beside' = IF ByPass(e) THEN beside \cup {e} ELSE beside
  /\ UNCHANGED <<rows, endpoint, batch, used, tries>>

-----------------------------------------------------------------------------
(* attempt                                                                  *)

\* External: a 2xx, or anything else within TIMEOUT_MS.
Answers(h, ok) ==
  /\ hand[h].at = "call"
  /\ hand' = [hand EXCEPT ![h].at = "write", ![h].ok = ok, ![h].todo = {"row", "endpoint"}]
  /\ tries' = [tries EXCEPT ![hand[h].event] = Upto(@ + 1, MaxAttempts)]
  /\ UNCHANGED <<rows, endpoint, batch, used, beside>>

Done(h, what) ==
  LET left == hand[h].todo \ {what}
  IN  hand' = [hand EXCEPT ![h] = IF left = {} THEN Free ELSE [hand[h] EXCEPT !.todo = left]]

\* Mutant of GivesUp: one attempt too few.
GivesUpEarly(attempts) == attempts + 1 >= MaxAttempts

GivesUp(attempts) == attempts >= MaxAttempts

\* The two updates are sent together and arrive in any order; only a failure sets nextAttemptAt.
WriteRow(h) ==
  LET n == hand[h].attempts + 1 IN
  /\ hand[h].at = "write" /\ "row" \in hand[h].todo
  /\ row' = [row EXCEPT ![hand[h].event] =
               [status |-> IF hand[h].ok THEN "SENT" ELSE IF GivesUp(n) THEN "FAILED" ELSE "PENDING",
                attempts |-> n, due |-> hand[h].ok /\ @.due]]
  /\ Done(h, "row")
  /\ UNCHANGED <<event, endpoint, batch, used, ghost>>

Pauses(failures) == failures >= PauseAfter

WriteEndpoint(h) ==
  LET n == hand[h].failures + 1 IN
  /\ hand[h].at = "write" /\ "endpoint" \in hand[h].todo
  /\ endpoint' = IF hand[h].ok THEN [endpoint EXCEPT !.failures = 0]
                 ELSE [active |-> endpoint.active /\ ~Pauses(n), failures |-> n]
  /\ Done(h, "endpoint")
  /\ UNCHANGED <<rows, batch, used, ghost>>

\* The process dies or the database fails: what is not written is lost, and with an attempt of
\* the pass what it had selected.
Dies(h) ==
  /\ hand[h].at # "idle" /\ used.deaths < MaxDeaths
  /\ used' = [used EXCEPT !.deaths = @ + 1]
  /\ hand' = [hand EXCEPT ![h] = Free]
  /\ batch' = IF h = "pass" THEN {} ELSE batch
  /\ UNCHANGED <<rows, endpoint, ghost>>

-----------------------------------------------------------------------------
(* Time, and the customer.                                                  *)

\* The back-off of a row has passed; only a PENDING row is asked.
ComesDue(e) ==
  /\ row[e].status = "PENDING" /\ ~row[e].due
  /\ row' = [row EXCEPT ![e].due = TRUE]
  /\ UNCHANGED <<event, endpoint, batch, hand, used, ghost>>

\* updateWebhook: switched off, or on with a clean count.
SwitchOff ==
  /\ endpoint.active /\ used.switches < MaxSwitches
  /\ used' = [used EXCEPT !.switches = @ + 1]
  /\ endpoint' = [endpoint EXCEPT !.active = FALSE]
  /\ UNCHANGED <<rows, batch, hand, ghost>>

SwitchOn ==
  /\ used.switches < MaxSwitches
  /\ used' = [used EXCEPT !.switches = @ + 1]
  /\ endpoint' = [active |-> TRUE, failures |-> 0]
  /\ UNCHANGED <<rows, batch, hand, ghost>>

-----------------------------------------------------------------------------
Attempt(h) == (\E ok \in BOOLEAN : Answers(h, ok)) \/ WriteRow(h) \/ WriteEndpoint(h)

Next ==
  \/ \E e \in Events : Finishes(e) \/ Enqueue(e) \/ ListenerDies(e) \/ Redeliver(e) \/ ComesDue(e)
  \/ Select \/ (\E s \in batch : Next1(s)) \/ DeliverOne
  \/ \E h \in Hands : Attempt(h) \/ Dies(h)
  \/ SwitchOff \/ SwitchOn

Spec == Init /\ [][Next]_vars

\* A listener runs on, the timer keeps firing, a call has a timeout, and time passes.
FairSpec ==
  /\ Spec
  /\ \A e \in Events : WF_vars(Enqueue(e)) /\ WF_vars(ComesDue(e))
  /\ WF_vars(Select) /\ WF_vars(\E s \in batch : Next1(s)) /\ WF_vars(DeliverOne)
  /\ \A h \in Hands : WF_vars(Attempt(h))

-----------------------------------------------------------------------------
(* Properties.                                                              *)

\* A delivery is abandoned only after MAX_ATTEMPTS calls since it was written or replayed: a pass that
\* dies, a call whose answer is not recorded and the other deliveries of a batch use none of them up.
\* Two attempts of one row side by side may.
AbandonedWasTried ==
  \A e \in Events : row[e].status = "FAILED" => tries[e] >= MaxAttempts \/ e \in beside

\* What was delivered stays delivered until it is replayed: no older attempt puts it back on
\* the schedule, unless it was read beside the one that succeeded.
SentStaysSent ==
  [][\A e \in Events : row[e].status = "SENT" =>
        \/ row'[e].status = "SENT"
        \/ row'[e].attempts = 0
        \/ e \in beside]_vars

\* Everything that finished for an active endpoint is sent or given up, as long as its row was
\* written; no mix of passes, replays and deaths leaves a row unattended.
EveryEventEnds ==
  <>[](\A e \in Events :
         event[e] \in {"told", "queued"} => row[e].status \in {"SENT", "FAILED"})
=============================================================================
