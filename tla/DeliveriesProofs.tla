--------------------------- MODULE DeliveriesProofs ---------------------------
(***************************************************************************)
(* Theorems about Deliveries, for any events, attempts, pauses, replays    *)
(* and deaths: a delivery is given up only after its attempts, and what    *)
(* was delivered stays delivered, for all rows that were not read twice at *)
(* a time.                                                                 *)
(***************************************************************************)
EXTENDS Deliveries, TLAPS

Row == [status : {"NONE", "PENDING", "SENT", "FAILED"}, attempts : Nat, due : BOOLEAN]
Selection == [event : Events, attempts : Nat, failures : Nat]
HandRow == [at : {"idle", "read", "call", "write"}, event : Events \cup {None}, attempts : Nat,
            failures : Nat, ok : BOOLEAN, todo : SUBSET {"row", "endpoint"}]

DeliveriesTypeOK ==
  /\ row \in [Events -> Row]
  /\ endpoint \in [active : BOOLEAN, failures : Nat]
  /\ batch \subseteq Selection
  /\ hand \in [Hands -> HandRow]
  /\ tries \in [Events -> Nat]
  /\ beside \subseteq Events

InHand(h, e) == hand[h].at # "idle" /\ hand[h].event = e
Selected(e) == \E s \in batch : s.event = e

\* The attempt in hand may still write the row of e.
Open(h, e) == InHand(h, e) /\ (hand[h].at = "write" => "row" \in hand[h].todo)

\* n calls were made for e; nobody counts further than MaxAttempts.
Tried(e, n) == n <= tries[e] \/ tries[e] >= MaxAttempts

HandsOK == \A h \in Hands : hand[h].at # "idle" => hand[h].event \in Events

\* The pass has a row once, in hand or still to be tried.
Selections ==
  /\ \A s, t \in batch : s.event = t.event => s = t
  /\ \A e \in Events : InHand("pass", e) => ~Selected(e)

\* A row that was never read twice at a time: whoever has it knows it as it is, and each attempt it
\* counts was a call.
Alone(e) ==
  /\ ~(InHand("portal", e) /\ (InHand("pass", e) \/ Selected(e)))
  /\ row[e].status = "FAILED" => tries[e] >= MaxAttempts
  /\ Tried(e, row[e].attempts)
  /\ \A s \in batch : s.event = e => row[e].status = "PENDING" /\ Tried(e, s.attempts)
  /\ \A h \in Hands : Open(h, e) =>
       /\ row[e].status = "PENDING"
       /\ hand[h].at = "call" => Tried(e, hand[h].attempts)
       /\ hand[h].at = "write" => Tried(e, hand[h].attempts + 1)

IInv == DeliveriesTypeOK /\ HandsOK /\ Selections /\ \A e \in Events : e \notin beside => Alone(e)

-----------------------------------------------------------------------------
LEMMA InitOK == Init => IInv
<1> SUFFICES ASSUME Init PROVE IInv
  OBVIOUS
<1> USE DEF Init
<1>1. Free \in HandRow /\ Free.at = "idle"
  <2>1. {} \in SUBSET {"row", "endpoint"} /\ None \in Events \cup {None}
    OBVIOUS
  <2> QED
    BY <2>1 DEF Free, HandRow
<1>2. DeliveriesTypeOK
  BY <1>1 DEF DeliveriesTypeOK, Row
<1>3. \A h \in Hands : hand[h].at = "idle"
  BY <1>1
<1>4. HandsOK /\ Selections
  BY <1>3 DEF HandsOK, Selections, Selected
<1>5. ASSUME NEW e \in Events PROVE Alone(e)
  <2>1. tries[e] = 0 /\ row[e].status = "NONE" /\ row[e].attempts = 0 /\ batch = {}
    OBVIOUS
  <2>2. \A h \in Hands : ~InHand(h, e)
    BY <1>3 DEF InHand
  <2> QED
    BY <2>1, <2>2 DEF Alone, Tried, Open, Hands
<1> QED
  BY <1>2, <1>4, <1>5 DEF IInv

\* What was true of an event stays so when its row and its attempts are left alone and nobody more has it.
LEMMA LeftAlone ==
  ASSUME DeliveriesTypeOK, NEW e \in Events, Alone(e), tries'[e] \in Nat,
         tries'[e] >= tries[e] \/ tries'[e] >= MaxAttempts,
         row'[e].status = row[e].status, row'[e].attempts = row[e].attempts,
         \A s \in batch' : s.event = e => s \in batch,
         \A h \in Hands : InHand(h, e)' => hand'[h] = hand[h]
  PROVE  Alone(e)'
<1>0. /\ tries[e] \in Nat /\ row[e].attempts \in Nat /\ MaxAttempts \in Nat
      /\ \A s \in batch : s.attempts \in Nat
      /\ \A h \in Hands : hand[h].attempts \in Nat
  BY DeliveriesAssumption DEF DeliveriesTypeOK, Row, Selection, HandRow
<1>1. \A h \in Hands : InHand(h, e)' => InHand(h, e)
  BY DEF InHand
<1>2. Selected(e)' => Selected(e)
  BY DEF Selected
<1>3. \A h \in Hands : Open(h, e)' => Open(h, e) /\ hand'[h] = hand[h]
  BY DEF Open, InHand
<1>4. tries[e] >= MaxAttempts => tries'[e] >= MaxAttempts
  BY <1>0
<1>5. \A n \in Nat : n <= tries[e] \/ tries[e] >= MaxAttempts => n <= tries'[e] \/ tries'[e] >= MaxAttempts
  BY <1>0
<1>6. /\ ~(InHand("portal", e)' /\ (InHand("pass", e)' \/ Selected(e)'))
      /\ row'[e].status = "FAILED" => tries'[e] >= MaxAttempts
  BY <1>0, <1>1, <1>2, <1>4 DEF Alone, Hands
<1>7. row'[e].attempts <= tries'[e] \/ tries'[e] >= MaxAttempts
  BY <1>0, <1>5 DEF Alone, Tried
<1>8. \A s \in batch' : s.event = e =>
         row'[e].status = "PENDING" /\ (s.attempts <= tries'[e] \/ tries'[e] >= MaxAttempts)
  BY <1>0, <1>5 DEF Alone, Tried
<1>9. ASSUME NEW h \in Hands, Open(h, e)'
      PROVE  /\ row'[e].status = "PENDING"
             /\ hand'[h].at = "call" => hand'[h].attempts <= tries'[e] \/ tries'[e] >= MaxAttempts
             /\ hand'[h].at = "write" => hand'[h].attempts + 1 <= tries'[e] \/ tries'[e] >= MaxAttempts
  <2>1. Open(h, e) /\ hand'[h] = hand[h] /\ hand[h].attempts \in Nat /\ hand[h].attempts + 1 \in Nat
    BY <1>0, <1>3, <1>9
  <2> QED
    BY <2>1, <1>5 DEF Alone, Tried
<1> QED
  BY <1>6, <1>7, <1>8, <1>9 DEF Alone, Tried

\* Steps that write no row anybody counts on, and hand nothing to anybody.
LEMMA QuietSteps ==
  ASSUME IInv,
         \/ \E e \in Events : Finishes(e) \/ ListenerDies(e) \/ ComesDue(e)
         \/ SwitchOff \/ SwitchOn \/ UNCHANGED vars
  PROVE  IInv'
<1> USE DEF IInv
<1>0. row \in [Events -> Row] /\ endpoint \in [active : BOOLEAN, failures : Nat]
  BY DEF DeliveriesTypeOK
<1>1. UNCHANGED <<batch, hand, tries, beside>>
  BY DEF Finishes, ListenerDies, ComesDue, SwitchOff, SwitchOn, vars, ghost
<1>2. endpoint' \in [active : BOOLEAN, failures : Nat]
  <2>1. CASE SwitchOff
    BY <1>0, <2>1 DEF SwitchOff
  <2>2. CASE SwitchOn
    BY <2>2 DEF SwitchOn
  <2>3. CASE endpoint' = endpoint
    BY <1>0, <2>3
  <2> QED
    BY <2>1, <2>2, <2>3 DEF Finishes, ListenerDies, ComesDue, vars
<1>3. /\ row' \in [Events -> Row]
      /\ \A e \in Events : row'[e].status = row[e].status /\ row'[e].attempts = row[e].attempts
  <2>1. ASSUME NEW e \in Events, ComesDue(e)
        PROVE  /\ row' \in [Events -> Row]
               /\ \A f \in Events : row'[f].status = row[f].status /\ row'[f].attempts = row[f].attempts
    <3> DEFINE r == [row[e] EXCEPT !.due = TRUE]
    <3>1. r \in Row /\ r.status = row[e].status /\ r.attempts = row[e].attempts
      BY <1>0 DEF Row
    <3>2. row' = [row EXCEPT ![e] = r]
      BY <2>1 DEF ComesDue
    <3> HIDE DEF r
    <3> QED
      BY <1>0, <3>1, <3>2
  <2>2. CASE row' = row
    BY <1>0, <2>2
  <2> QED
    BY <2>1, <2>2 DEF Finishes, ListenerDies, SwitchOff, SwitchOn, vars, rows
<1>4. DeliveriesTypeOK' /\ HandsOK' /\ Selections'
  BY <1>1, <1>2, <1>3 DEF DeliveriesTypeOK, HandsOK, Selections, InHand, Selected
<1>5. ASSUME NEW e \in Events, e \notin beside' PROVE Alone(e)'
  <2>1. Alone(e) /\ tries[e] \in Nat /\ tries'[e] = tries[e]
    BY <1>1, <1>5 DEF DeliveriesTypeOK
  <2> QED
    BY <1>1, <1>3, <2>1, LeftAlone
<1> QED
  BY <1>4, <1>5

\* The row of an event is written, by the listener or by a replay.
LEMMA Writing ==
  ASSUME IInv, NEW e \in Events, Enqueue(e)
  PROVE  IInv'
<1> USE DEF IInv
<1>0. /\ row \in [Events -> Row] /\ tries \in [Events -> Nat]
      /\ UNCHANGED <<endpoint, batch, hand, tries, beside>>
  BY DEF DeliveriesTypeOK, Enqueue, ghost
<1>1. /\ row' \in [Events -> Row]
      /\ \A f \in Events : f # e => row'[f] = row[f]
      /\ row'[e] = row[e] \/ (row'[e].status = "PENDING" /\ row'[e].attempts = 0)
  <2> DEFINE r == [status |-> "PENDING", attempts |-> 0, due |-> TRUE]
  <2>1. r \in Row /\ r.status = "PENDING" /\ r.attempts = 0
    BY DEF Row
  <2>2. row' = [row EXCEPT ![e] = r] \/ row' = row
    BY DEF Enqueue
  <2> HIDE DEF r
  <2> QED
    BY <1>0, <2>1, <2>2
<1>2. DeliveriesTypeOK' /\ HandsOK' /\ Selections'
  BY <1>0, <1>1 DEF DeliveriesTypeOK, HandsOK, Selections, InHand, Selected
<1>3. ASSUME NEW f \in Events, f \notin beside' PROVE Alone(f)'
  <2>1. Alone(f) /\ tries[f] \in Nat
    BY <1>0, <1>3
  <2>2. CASE row'[f] = row[f]
    BY <1>0, <2>1, <2>2, LeftAlone
  <2>3. CASE row'[f].status = "PENDING" /\ row'[f].attempts = 0
    BY <1>0, <2>1, <2>3 DEF Alone, Tried, Open, InHand, Selected
  <2> QED
    BY <1>1, <2>2, <2>3
<1> QED
  BY <1>2, <1>3

\* The customer asks for a replay.
LEMMA Replaying ==
  ASSUME IInv, NEW e \in Events, Redeliver(e)
  PROVE  IInv'
<1> USE DEF IInv
<1> DEFINE read == [Free EXCEPT !.at = "read", !.event = e]
           fresh == [status |-> "PENDING", attempts |-> 0, due |-> TRUE]
<1>0. /\ row \in [Events -> Row] /\ tries \in [Events -> Nat] /\ hand \in [Hands -> HandRow] /\ beside \subseteq Events
      /\ row' = [row EXCEPT ![e] = fresh] /\ hand' = [hand EXCEPT !["portal"] = read]
      /\ tries' = [tries EXCEPT ![e] = 0]
      /\ beside' = IF ByPass(e) THEN beside \cup {e} ELSE beside
      /\ UNCHANGED <<endpoint, batch>> /\ hand["portal"].at = "idle"
  BY DEF DeliveriesTypeOK, Redeliver
<1>1. read \in HandRow /\ read.at = "read" /\ read.event = e
  BY DEF Free, HandRow
<1>2. fresh \in Row /\ fresh.status = "PENDING" /\ fresh.attempts = 0
  BY DEF Row
<1> HIDE DEF read, fresh
<1>3. /\ hand' \in [Hands -> HandRow] /\ hand'["portal"] = read /\ hand'["pass"] = hand["pass"]
      /\ row' \in [Events -> Row] /\ row'[e] = fresh /\ \A f \in Events : f # e => row'[f] = row[f]
      /\ tries' \in [Events -> Nat] /\ tries'[e] = 0 /\ \A f \in Events : f # e => tries'[f] = tries[f]
  BY <1>0, <1>1, <1>2 DEF Hands
<1>4. DeliveriesTypeOK' /\ HandsOK' /\ Selections'
  BY <1>0, <1>1, <1>3 DEF DeliveriesTypeOK, HandsOK, Selections, InHand, Selected, Hands
<1>5. ASSUME NEW f \in Events, f \notin beside' PROVE Alone(f)'
  <2>1. Alone(f) /\ tries[f] \in Nat
    BY <1>0, <1>5
  <2>2. CASE f # e
    <3>1. \A h \in Hands : InHand(h, f)' => hand'[h] = hand[h]
      BY <1>1, <1>3, <2>2 DEF InHand, Hands
    <3> QED
      BY <1>0, <1>3, <2>1, <2>2, <3>1, LeftAlone
  <2>3. CASE f = e
    <3>1. ~ByPass(e)
      BY <1>0, <1>5, <2>3
    <3>2. ~InHand("pass", e)' /\ ~Selected(e)'
      BY <1>0, <1>3, <3>1 DEF ByPass, InHand, Selected
    <3>3. \A h \in Hands : Open(h, e)' => hand'[h].at = "read"
      BY <1>1, <1>3, <3>2 DEF Open, Hands
    <3> QED
      BY <1>0, <1>2, <1>3, <2>3, <3>2, <3>3 DEF Alone, Tried, Selected
  <2> QED
    BY <2>2, <2>3
<1> QED
  BY <1>4, <1>5

\* The pass selects what is due.
LEMMA Selecting ==
  ASSUME IInv, Select
  PROVE  IInv'
<1> USE DEF IInv
<1> DEFINE due == {e \in Events : Due(e)}
<1>0. /\ row \in [Events -> Row] /\ tries \in [Events -> Nat] /\ hand \in [Hands -> HandRow] /\ beside \subseteq Events
      /\ endpoint.failures \in Nat
      /\ batch' = {[event |-> e, attempts |-> row[e].attempts, failures |-> endpoint.failures] : e \in due}
      /\ beside' = beside \cup {e \in due : ByPortal(e)}
      /\ UNCHANGED <<event, row, endpoint, hand, used, tries>> /\ hand["pass"].at = "idle"
  BY DEF DeliveriesTypeOK, Select, rows
<1>1. /\ batch' \subseteq Selection
      /\ \A s \in batch' : s.event \in due /\ s.attempts = row[s.event].attempts
      /\ \A s, t \in batch' : s.event = t.event => s = t
  BY <1>0 DEF Selection, Row
<1>2. DeliveriesTypeOK' /\ HandsOK' /\ Selections'
  BY <1>0, <1>1 DEF DeliveriesTypeOK, HandsOK, Selections, InHand, Selected
<1>3. ASSUME NEW e \in Events, e \notin beside' PROVE Alone(e)'
  <2>1. Alone(e) /\ ~InHand("pass", e)'
    BY <1>0, <1>3 DEF InHand
  <2>2. Selected(e)' => e \in due /\ ~InHand("portal", e)'
    BY <1>0, <1>1, <1>3 DEF Selected, InHand, ByPortal
  <2>3. \A s \in batch' : s.event = e => row[e].status = "PENDING" /\ Tried(e, s.attempts)
    BY <1>1, <2>1 DEF Alone, Due
  <2>4. \A h \in Hands : Open(h, e)' <=> Open(h, e)
    BY <1>0 DEF Open, InHand
  <2> QED
    BY <1>0, <2>1, <2>2, <2>3, <2>4 DEF Alone, Tried
<1> QED
  BY <1>2, <1>3

\* The pass takes the next of its rows.
LEMMA Taking ==
  ASSUME IInv, NEW s \in batch, Next1(s)
  PROVE  IInv'
<1> USE DEF IInv
<1> DEFINE c == Calls("pass", s)
<1>0. /\ row \in [Events -> Row] /\ tries \in [Events -> Nat] /\ hand \in [Hands -> HandRow]
      /\ s \in Selection /\ batch \subseteq Selection
      /\ batch' = batch \ {s} /\ hand' = [hand EXCEPT !["pass"] = c]
      /\ UNCHANGED <<event, row, endpoint, used, tries, beside>>
  BY DEF DeliveriesTypeOK, Next1, rows, ghost
<1>1. c \in HandRow /\ c.at = "call" /\ c.event = s.event /\ c.attempts = s.attempts /\ s.event \in Events
  BY <1>0 DEF Calls, HandRow, Selection
<1> HIDE DEF c
<1>2. hand' \in [Hands -> HandRow] /\ hand'["pass"] = c /\ hand'["portal"] = hand["portal"]
  BY <1>0, <1>1 DEF Hands
<1>3. \A t \in batch' : t \in batch /\ t.event # s.event
  BY <1>0 DEF Selections
<1>4. DeliveriesTypeOK' /\ HandsOK'
  BY <1>0, <1>1, <1>2 DEF DeliveriesTypeOK, HandsOK, Hands
<1>5. Selections'
  BY <1>0, <1>1, <1>2, <1>3 DEF Selections, InHand, Selected
<1>6. ASSUME NEW e \in Events, e \notin beside' PROVE Alone(e)'
  <2>1. Alone(e) /\ tries[e] \in Nat
    BY <1>0, <1>6
  <2>2. CASE e # s.event
    <3>1. \A h \in Hands : InHand(h, e)' => hand'[h] = hand[h]
      BY <1>1, <1>2, <2>2 DEF InHand, Hands
    <3> QED
      BY <1>0, <1>3, <2>1, <3>1, LeftAlone
  <2>3. CASE e = s.event
    <3>1. Selected(e) /\ row[e].status = "PENDING" /\ Tried(e, s.attempts)
      BY <2>1, <2>3 DEF Alone, Selected
    <3>2. ~InHand("portal", e)' /\ ~InHand("portal", e) /\ ~Selected(e)'
      BY <1>2, <1>3, <2>1, <2>3, <3>1 DEF Alone, InHand, Selected
    <3>3. \A h \in Hands : Open(h, e)' => hand'[h] = c
      BY <1>2, <3>2 DEF Open, Hands
    <3> QED
      BY <1>0, <1>1, <2>1, <3>1, <3>2, <3>3 DEF Alone, Tried, Selected
  <2> QED
    BY <2>2, <2>3
<1> QED
  BY <1>4, <1>5, <1>6

\* The portal reads the row it has written, and the endpoint.
LEMMA Reading ==
  ASSUME IInv, DeliverOne
  PROVE  IInv'
<1> USE DEF IInv
<1> DEFINE e == hand["portal"].event
           c == Calls("portal", [event |-> e, attempts |-> row[e].attempts, failures |-> endpoint.failures])
<1>0. /\ row \in [Events -> Row] /\ tries \in [Events -> Nat] /\ hand \in [Hands -> HandRow] /\ beside \subseteq Events
      /\ endpoint.failures \in Nat
      /\ hand["portal"].at = "read" /\ e \in Events /\ hand' = [hand EXCEPT !["portal"] = c]
      /\ beside' = IF ByPass(e) THEN beside \cup {e} ELSE beside
      /\ UNCHANGED <<event, row, endpoint, batch, used, tries>>
  BY DEF DeliveriesTypeOK, DeliverOne, rows, HandsOK, Hands
<1>1. c \in HandRow /\ c.at = "call" /\ c.event = e /\ c.attempts = row[e].attempts
  BY <1>0 DEF Calls, HandRow, Row
<1> HIDE DEF c
<1>2. hand' \in [Hands -> HandRow] /\ hand'["portal"] = c /\ hand'["pass"] = hand["pass"]
  BY <1>0, <1>1 DEF Hands
<1>3. DeliveriesTypeOK' /\ HandsOK' /\ Selections'
  BY <1>0, <1>1, <1>2 DEF DeliveriesTypeOK, HandsOK, Selections, InHand, Selected, Hands
<1>4. ASSUME NEW f \in Events, f \notin beside' PROVE Alone(f)'
  <2>1. Alone(f) /\ tries[f] \in Nat
    BY <1>0, <1>4
  <2>2. CASE f # e
    <3>1. \A h \in Hands : InHand(h, f)' => hand'[h] = hand[h]
      BY <1>1, <1>2, <2>2 DEF InHand, Hands
    <3> QED
      BY <1>0, <2>1, <3>1, LeftAlone
  <2>3. CASE f = e
    <3>1. InHand("portal", f) /\ Open("portal", f)
      BY <1>0, <2>3 DEF InHand, Open
    <3>2. ~InHand("pass", f)' /\ ~Selected(f)' /\ row[f].status = "PENDING" /\ Tried(f, row[f].attempts)
      BY <1>0, <1>2, <2>1, <3>1 DEF Alone, InHand, Selected, Hands
    <3>3. \A h \in Hands : Open(h, f)' => hand'[h] = c
      BY <1>2, <3>2 DEF Open, Hands
    <3>4. c.at = "call" /\ c.attempts = row[f].attempts
      BY <1>1, <2>3
    <3> HIDE DEF e
    <3> QED
      BY <1>0, <2>1, <3>2, <3>3, <3>4 DEF Alone, Tried, Selected
  <2> QED
    BY <2>2, <2>3
<1> QED
  BY <1>3, <1>4

\* The endpoint answers, or does not: one call more.
LEMMA Answering ==
  ASSUME IInv, NEW h \in Hands, NEW ok \in BOOLEAN, Answers(h, ok)
  PROVE  IInv'
<1> USE DEF IInv
<1>1. PICK e \in Events : hand[h].event = e
  BY DEF HandsOK, Answers
<1> DEFINE c == [hand[h] EXCEPT !.at = "write", !.ok = ok, !.todo = {"row", "endpoint"}]
<1>0. /\ row \in [Events -> Row] /\ tries \in [Events -> Nat] /\ hand \in [Hands -> HandRow]
      /\ hand[h].at = "call" /\ hand[h] \in HandRow /\ MaxAttempts \in Nat
      /\ hand' = [hand EXCEPT ![h] = c]
      /\ tries' = [tries EXCEPT ![e] = Upto(@ + 1, MaxAttempts)]
      /\ UNCHANGED <<event, row, endpoint, batch, used, beside>>
  BY <1>1, DeliveriesAssumption DEF DeliveriesTypeOK, Answers, rows
<1>2. /\ c \in HandRow /\ c.at = "write" /\ c.event = e /\ c.attempts = hand[h].attempts /\ c.attempts \in Nat
  BY <1>0, <1>1 DEF HandRow
<1> HIDE DEF c
<1>3. /\ hand' \in [Hands -> HandRow] /\ hand'[h] = c /\ \A i \in Hands : i # h => hand'[i] = hand[i]
      /\ tries' \in [Events -> Nat] /\ \A f \in Events : f # e => tries'[f] = tries[f]
      /\ tries'[e] = IF tries[e] + 1 < MaxAttempts THEN tries[e] + 1 ELSE MaxAttempts
  BY <1>0, <1>2 DEF Upto
<1>4. DeliveriesTypeOK' /\ HandsOK'
  BY <1>0, <1>2, <1>3 DEF DeliveriesTypeOK, HandsOK
<1>5. \A i \in Hands, f \in Events : InHand(i, f)' <=> InHand(i, f)
  BY <1>0, <1>1, <1>2, <1>3 DEF InHand
<1>6. \A f \in Events : Selected(f)' <=> Selected(f)
  BY <1>0 DEF Selected
<1>7. Selections'
  BY <1>0, <1>5, <1>6 DEF Selections, Hands
<1>8. ASSUME NEW f \in Events, f \notin beside' PROVE Alone(f)'
  <2>1. Alone(f) /\ tries[f] \in Nat
    BY <1>0, <1>8
  <2>2. CASE f # e
    <3>1. \A i \in Hands : InHand(i, f)' => hand'[i] = hand[i]
      BY <1>2, <1>3, <2>2 DEF InHand
    <3> QED
      BY <1>0, <1>3, <2>1, <2>2, <3>1, LeftAlone
  <2>3. CASE f = e
    <3>1. Open(h, f) /\ row[f].status = "PENDING" /\ Tried(f, hand[h].attempts)
      BY <1>0, <1>1, <2>1, <2>3 DEF Open, InHand, Alone
    <3>2. \A n \in Nat : n <= tries[f] \/ tries[f] >= MaxAttempts => n <= tries'[f] \/ tries'[f] >= MaxAttempts
      BY <1>0, <1>3, <2>1, <2>3
    <3>3. hand[h].attempts + 1 <= tries'[f] \/ tries'[f] >= MaxAttempts
      BY <1>0, <1>2, <1>3, <2>1, <2>3, <3>1 DEF Tried
    <3>4. ~(InHand("portal", f)' /\ (InHand("pass", f)' \/ Selected(f)'))
      BY <1>5, <1>6, <2>1 DEF Alone, Hands
    <3>5. /\ row[f].status # "FAILED" /\ row[f].attempts \in Nat
          /\ row[f].attempts <= tries'[f] \/ tries'[f] >= MaxAttempts
      BY <1>0, <2>1, <3>1, <3>2 DEF Alone, Tried, Row
    <3>6. \A s \in batch : s.event = f => s.attempts <= tries'[f] \/ tries'[f] >= MaxAttempts
      BY <2>1, <3>2 DEF Alone, Tried, DeliveriesTypeOK, Selection
    <3>7. \A i \in Hands : i # h => ~Open(i, f)'
      BY <1>5, <2>1, <3>1 DEF Open, Alone, Hands
    <3> QED
      BY <1>0, <1>2, <1>3, <3>1, <3>3, <3>4, <3>5, <3>6, <3>7 DEF Alone, Tried, Selected
  <2> QED
    BY <2>2, <2>3
<1> QED
  BY <1>4, <1>7, <1>8

\* An attempt that lets go of its event, or of one of its two writes.
LEMMA LettingGo ==
  ASSUME IInv, NEW h \in Hands, NEW c \in HandRow, NEW e \in Events,
         hand[h].at # "idle", hand[h].event = e,
         hand' = [hand EXCEPT ![h] = c],
         c.at = "idle" \/ (c.event = e /\ c.at = "write"),
         UNCHANGED <<tries, beside>>, batch' \subseteq batch,
         endpoint' \in [active : BOOLEAN, failures : Nat], row' \in [Events -> Row],
         \A f \in Events : f # e => row'[f] = row[f],
         e \notin beside =>
           \/ /\ row' = row
              /\ c.at = "idle" \/ (c.attempts = hand[h].attempts /\ hand[h].at = "write" /\ c.todo \subseteq hand[h].todo)
           \/ /\ c.at = "idle" \/ "row" \notin c.todo
              /\ Open(h, e)
              /\ row'[e].attempts <= tries[e] \/ tries[e] >= MaxAttempts
              /\ row'[e].status = "FAILED" => tries[e] >= MaxAttempts
  PROVE  IInv'
<1> USE DEF IInv
<1>0. hand \in [Hands -> HandRow] /\ tries \in [Events -> Nat] /\ row \in [Events -> Row]
  BY DEF DeliveriesTypeOK
<1>1. hand' \in [Hands -> HandRow] /\ hand'[h] = c /\ \A i \in Hands : i # h => hand'[i] = hand[i]
  BY <1>0
<1>2. DeliveriesTypeOK' /\ HandsOK'
  BY <1>0, <1>1 DEF DeliveriesTypeOK, HandsOK
<1>3. \A i \in Hands, f \in Events : InHand(i, f)' => InHand(i, f)
  BY <1>1 DEF InHand
<1>4. \A f \in Events : Selected(f)' => Selected(f)
  BY DEF Selected
<1>5. Selections'
  BY <1>3, <1>4 DEF Selections, Hands
<1>6. ASSUME NEW f \in Events, f \notin beside' PROVE Alone(f)'
  <2>1. Alone(f) /\ tries[f] \in Nat
    BY <1>0, <1>6
  <2>2. CASE f # e
    <3>1. \A i \in Hands : InHand(i, f)' => hand'[i] = hand[i]
      BY <1>1, <2>2 DEF InHand
    <3> QED
      BY <1>0, <2>1, <2>2, <3>1, LeftAlone
  <2>3. CASE f = e
    <3>1. ~(InHand("portal", f)' /\ (InHand("pass", f)' \/ Selected(f)'))
      BY <1>3, <1>4, <2>1 DEF Alone, Hands
    <3>2. CASE /\ row' = row
               /\ c.at = "idle" \/ (c.attempts = hand[h].attempts /\ hand[h].at = "write" /\ c.todo \subseteq hand[h].todo)
      <4>1. \A i \in Hands : Open(i, f)' =>
              Open(i, f) /\ hand'[i].at = hand[i].at /\ hand'[i].attempts = hand[i].attempts
        BY <1>1, <2>3, <3>2 DEF Open, InHand
      <4> QED
        BY <2>1, <3>1, <3>2, <4>1 DEF Alone, Tried
    <3>3. CASE /\ c.at = "idle" \/ "row" \notin c.todo
               /\ Open(h, e)
               /\ row'[e].attempts <= tries[e] \/ tries[e] >= MaxAttempts
               /\ row'[e].status = "FAILED" => tries[e] >= MaxAttempts
      <4>1. \A i \in Hands : ~Open(i, f)'
        BY <1>1, <1>3, <2>1, <2>3, <3>3 DEF Open, InHand, Alone, Hands
      <4>2. ~Selected(f)'
        BY <1>4, <2>1, <2>3, <3>3 DEF Open, Alone, Selections, Hands
      <4> QED
        BY <2>1, <2>3, <3>1, <3>3, <4>1, <4>2 DEF Alone, Tried, Selected
    <3> QED
      BY <1>6, <2>3, <3>2, <3>3
  <2> QED
    BY <2>2, <2>3
<1> QED
  BY <1>2, <1>5, <1>6

LEMMA FreeRow == Free \in HandRow /\ Free.at = "idle"
<1>1. {} \in SUBSET {"row", "endpoint"} /\ None \in Events \cup {None}
  OBVIOUS
<1> QED
  BY <1>1 DEF Free, HandRow

\* What is in hand after one of its two writes.
LEMMA AfterWrite ==
  ASSUME IInv, NEW h \in Hands, hand[h].at = "write", NEW what \in {"row", "endpoint"}, Done(h, what)
  PROVE  \E c \in HandRow :
           /\ hand' = [hand EXCEPT ![h] = c]
           /\ \/ c.at = "idle"
              \/ /\ c.at = "write" /\ c.event = hand[h].event /\ c.attempts = hand[h].attempts
                 /\ c.todo = hand[h].todo \ {what}
<1>0. hand[h] \in HandRow /\ hand \in [Hands -> HandRow]
  BY DEF IInv, DeliveriesTypeOK
<1> DEFINE left == hand[h].todo \ {what}
<1>1. CASE left = {}
  BY <1>1, FreeRow DEF Done
<1>2. CASE left # {}
  <2> DEFINE c == [hand[h] EXCEPT !.todo = left]
  <2>1. /\ c \in HandRow /\ c.at = "write" /\ c.event = hand[h].event /\ c.attempts = hand[h].attempts
        /\ c.todo = hand[h].todo \ {what}
    BY <1>0 DEF HandRow
  <2>2. hand' = [hand EXCEPT ![h] = IF left = {} THEN Free ELSE c]
    BY DEF Done
  <2> HIDE DEF c
  <2>3. hand' = [hand EXCEPT ![h] = c]
    BY <1>2, <2>2
  <2> QED
    BY <2>1, <2>3
<1> QED
  BY <1>1, <1>2

\* The row gets the outcome; only an attempt that has the row to itself is counted on.
LEMMA RowWritten ==
  ASSUME IInv, NEW h \in Hands, WriteRow(h)
  PROVE  /\ IInv'
         /\ \A e \in Events : row'[e] = row[e] \/ e \in beside \/ row[e].status = "PENDING"
<1> USE DEF IInv
<1>1. PICK e \in Events : hand[h].event = e
  BY DEF HandsOK, WriteRow
<1> DEFINE n == hand[h].attempts + 1
           r == [status |-> IF hand[h].ok THEN "SENT" ELSE IF GivesUp(n) THEN "FAILED" ELSE "PENDING",
                 attempts |-> n, due |-> hand[h].ok /\ row[e].due]
<1>0. /\ row \in [Events -> Row] /\ tries \in [Events -> Nat] /\ hand \in [Hands -> HandRow] /\ hand[h] \in HandRow
      /\ hand[h].attempts \in Nat /\ n \in Nat /\ MaxAttempts \in Nat
      /\ endpoint \in [active : BOOLEAN, failures : Nat]
  BY DeliveriesAssumption DEF DeliveriesTypeOK, HandRow
<1>2. /\ hand[h].at = "write" /\ "row" \in hand[h].todo /\ row' = [row EXCEPT ![e] = r] /\ Done(h, "row")
      /\ UNCHANGED <<event, endpoint, batch, used, tries, beside>>
  BY <1>1 DEF WriteRow, ghost
<1>3. r \in Row /\ r.attempts = n /\ (r.status = "FAILED" => n >= MaxAttempts)
  <2>1. (hand[h].ok /\ row[e].due) \in BOOLEAN
    BY <1>0, Zenon DEF HandRow, Row
  <2>2. r.status \in {"SENT", "FAILED", "PENDING"} /\ (r.status = "FAILED" => n >= MaxAttempts)
    BY <1>0 DEF GivesUp
  <2> QED
    BY <1>0, <2>1, <2>2 DEF Row
<1> HIDE DEF r
<1>4. /\ row' \in [Events -> Row] /\ row'[e] = r /\ \A f \in Events : f # e => row'[f] = row[f]
  BY <1>0, <1>2, <1>3
<1>5. Open(h, e)
  BY <1>1, <1>2 DEF Open, InHand
<1>6. e \notin beside => /\ row[e].status = "PENDING"
                         /\ n <= tries[e] \/ tries[e] >= MaxAttempts
  BY <1>2, <1>5 DEF Alone, Tried
<1>7. e \notin beside => /\ row'[e].attempts <= tries[e] \/ tries[e] >= MaxAttempts
                         /\ row'[e].status = "FAILED" => tries[e] >= MaxAttempts
  BY <1>0, <1>3, <1>4, <1>6
<1>8. PICK c \in HandRow :
        /\ hand' = [hand EXCEPT ![h] = c]
        /\ \/ c.at = "idle"
           \/ /\ c.at = "write" /\ c.event = hand[h].event /\ c.attempts = hand[h].attempts
              /\ c.todo = hand[h].todo \ {"row"}
  BY <1>2, AfterWrite
<1>9. IInv'
  <2>1. (c.at = "idle" \/ "row" \notin c.todo) /\ (c.at = "idle" \/ (c.event = e /\ c.at = "write"))
    BY <1>1, <1>8
  <2>2. /\ hand[h].at # "idle" /\ UNCHANGED <<tries, beside>> /\ batch' \subseteq batch
        /\ endpoint' \in [active : BOOLEAN, failures : Nat]
    BY <1>0, <1>2
  <2> HIDE DEF IInv
  <2>3. hand' = [hand EXCEPT ![h] = c]
    BY <1>8
  <2> QED
    BY <1>1, <1>4, <1>5, <1>7, <2>1, <2>2, <2>3, LettingGo
<1>10. \A f \in Events : row'[f] = row[f] \/ f \in beside \/ row[f].status = "PENDING"
  BY <1>4, <1>6
<1> QED
  BY <1>9, <1>10

LEMMA EndpointWritten ==
  ASSUME IInv, NEW h \in Hands, WriteEndpoint(h)
  PROVE  IInv' /\ row' = row
<1> USE DEF IInv
<1>1. PICK e \in Events : hand[h].event = e
  BY DEF HandsOK, WriteEndpoint
<1>0. /\ row \in [Events -> Row] /\ endpoint \in [active : BOOLEAN, failures : Nat] /\ endpoint.active \in BOOLEAN
      /\ hand[h].failures + 1 \in Nat
  BY DEF DeliveriesTypeOK, HandRow
<1>2. /\ hand[h].at = "write" /\ Done(h, "endpoint")
      /\ UNCHANGED <<event, row, batch, used, tries, beside>>
  BY DEF WriteEndpoint, rows, ghost
<1>3. endpoint' \in [active : BOOLEAN, failures : Nat]
  <2> DEFINE b == endpoint.active /\ ~Pauses(hand[h].failures + 1)
  <2>1. b \in BOOLEAN
    BY <1>0, Zenon
  <2>2. \/ endpoint' = [endpoint EXCEPT !.failures = 0]
        \/ endpoint' = [active |-> b, failures |-> hand[h].failures + 1]
    <3> HIDE DEF IInv
    <3> QED
      BY Zenon DEF WriteEndpoint
  <2> HIDE DEF b
  <2> QED
    BY <1>0, <2>1, <2>2
<1>4. PICK c \in HandRow :
        /\ hand' = [hand EXCEPT ![h] = c]
        /\ \/ c.at = "idle"
           \/ /\ c.at = "write" /\ c.event = hand[h].event /\ c.attempts = hand[h].attempts
              /\ c.todo = hand[h].todo \ {"endpoint"}
  BY <1>2, AfterWrite
<1>5. c.at = "idle" \/ (c.attempts = hand[h].attempts /\ hand[h].at = "write" /\ c.todo \subseteq hand[h].todo)
  BY <1>2, <1>4
<1> HIDE DEF IInv
<1> QED
  BY <1>0, <1>1, <1>2, <1>3, <1>4, <1>5, LettingGo

LEMMA Dying ==
  ASSUME IInv, NEW h \in Hands, Dies(h)
  PROVE  IInv' /\ row' = row
<1>1. PICK e \in Events : hand[h].event = e
  BY DEF IInv, HandsOK, Dies
<1>2. /\ row \in [Events -> Row] /\ endpoint' \in [active : BOOLEAN, failures : Nat]
      /\ hand[h].at # "idle" /\ hand' = [hand EXCEPT ![h] = Free] /\ batch' \subseteq batch
      /\ UNCHANGED <<event, row, endpoint, tries, beside>>
  BY DEF IInv, DeliveriesTypeOK, Dies, rows, ghost
<1> QED
  BY <1>1, <1>2, FreeRow, LettingGo

\* One step: the invariant is kept, and a row that was sent, and never read twice at a time, stays so.
LEMMA Step ==
  ASSUME IInv, [Next]_vars
  PROVE  /\ IInv'
         /\ \A e \in Events : row[e].status = "SENT" =>
              row'[e].status = "SENT" \/ row'[e].attempts = 0 \/ e \in beside
<1> DEFINE Stays == \A e \in Events : row[e].status = "SENT" =>
                       row'[e].status = "SENT" \/ row'[e].attempts = 0 \/ e \in beside
<1>0. row \in [Events -> Row]
  BY DEF IInv, DeliveriesTypeOK
<1>1. CASE \/ \E e \in Events : Finishes(e) \/ ListenerDies(e)
           \/ SwitchOff \/ SwitchOn \/ UNCHANGED vars
  <2>1. row' = row
    BY <1>1 DEF Finishes, ListenerDies, SwitchOff, SwitchOn, vars, rows
  <2> QED
    BY <1>1, <2>1, QuietSteps
<1>2. ASSUME NEW e \in Events, ComesDue(e) PROVE IInv' /\ Stays
  <2>1. \A f \in Events : row'[f].status = row[f].status
    <3>1. [row[e] EXCEPT !.due = TRUE].status = row[e].status
      BY <1>0 DEF Row
    <3>2. row' = [row EXCEPT ![e] = [row[e] EXCEPT !.due = TRUE]]
      BY <1>2 DEF ComesDue
    <3> QED
      BY <1>0, <3>1, <3>2
  <2> QED
    BY <1>2, <2>1, QuietSteps
<1>3. ASSUME NEW e \in Events, Enqueue(e) PROVE IInv' /\ Stays
  <2>1. row' = row \/ row' = [row EXCEPT ![e] = [status |-> "PENDING", attempts |-> 0, due |-> TRUE]]
    BY <1>3 DEF Enqueue
  <2> QED
    BY <1>0, <1>3, <2>1, Writing
<1>4. ASSUME NEW e \in Events, Redeliver(e) PROVE IInv' /\ Stays
  <2>1. row' = [row EXCEPT ![e] = [status |-> "PENDING", attempts |-> 0, due |-> TRUE]]
    BY <1>4 DEF Redeliver
  <2> QED
    BY <1>0, <1>4, <2>1, Replaying
<1>5. CASE Select \/ (\E s \in batch : Next1(s)) \/ DeliverOne \/ \E h \in Hands, ok \in BOOLEAN : Answers(h, ok)
  <2>1. row' = row
    BY <1>5 DEF Select, Next1, DeliverOne, Answers, rows
  <2> QED
    BY <1>5, <2>1, Selecting, Taking, Reading, Answering
<1>6. ASSUME NEW h \in Hands, WriteRow(h) PROVE IInv' /\ Stays
  BY <1>6, RowWritten
<1>7. ASSUME NEW h \in Hands, WriteEndpoint(h) \/ Dies(h) PROVE IInv' /\ Stays
  BY <1>7, EndpointWritten, Dying
<1> QED
  BY <1>1, <1>2, <1>3, <1>4, <1>5, <1>6, <1>7 DEF Next, Attempt

\* Whoever has a row that was not read twice at a time knows it as it is, always.
THEOREM Invariance == Spec => []IInv
<1>1. IInv /\ [Next]_vars => IInv'
  BY Step
<1> QED
  BY InitOK, <1>1, PTL DEF Spec

\* Rows, endpoint, selections and attempts keep their types.
THEOREM DeliveriesTypeCorrect == Spec => []DeliveriesTypeOK
<1>1. IInv => DeliveriesTypeOK
  BY DEF IInv
<1> QED
  BY Invariance, <1>1, PTL

\* attempt() gives a delivery up only after MAX_ATTEMPTS calls.
THEOREM AbandonedCorrect == Spec => []AbandonedWasTried
<1>1. IInv => AbandonedWasTried
  BY DEF IInv, Alone, AbandonedWasTried
<1> QED
  BY Invariance, <1>1, PTL

\* No older attempt puts what was delivered back on the schedule.
THEOREM SentCorrect == Spec => SentStaysSent
<1>1. IInv /\ [Next]_vars => [\A e \in Events : row[e].status = "SENT" =>
                                 \/ row'[e].status = "SENT"
                                 \/ row'[e].attempts = 0
                                 \/ e \in beside]_vars
  BY Step
<1> QED
  BY Invariance, <1>1, PTL DEF Spec, SentStaysSent
=============================================================================
