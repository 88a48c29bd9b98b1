------------------------- MODULE ProviderRouterProofs -------------------------
(***************************************************************************)
(* Theorems about ProviderRouter, for any processes, providers, requests   *)
(* and window: the single probe of a half-open provider is single, and its *)
(* lease has a holder, unless the probe was never reported.                *)
(***************************************************************************)
EXTENDS ProviderRouter, FiniteSetTheorems, TLAPS

HealthRow == [window : Seq(BOOLEAN), openedAt : Time, probing : BOOLEAN]
WriteRow == [by : Request, key : Provider, openedAt : Time]

RouterTypes ==
  /\ breaker \in [Provider -> Time]
  /\ health \in [Process -> [Provider -> HealthRow]]
  /\ writes \subseteq WriteRow
  /\ req \in [Request -> Req]
  /\ abandoned \in [Process -> SUBSET Provider]

\* Whether r has the lease of k in process p.
Holds(r, p, k) == ProcessOf[r] = p /\ k \in req[r].probes

\* A lease is with a request or given up exactly as long as the process remembers a probe.
LeaseIsSomewhere ==
  \A p \in Process, k \in Provider :
    health[p][k].probing <=> k \in abandoned[p] \/ \E r \in Request : Holds(r, p, k)

\* And it is in one place only.
OnePlace ==
  \A p \in Process, k \in Provider, r \in Request :
    Holds(r, p, k) => k \notin abandoned[p] /\ \A s \in Request : Holds(s, p, k) => s = r

\* A request that calls has a provider; one that is over has no lease.
CallsOne ==
  \A r \in Request :
    /\ req[r].pc = "calling" => req[r].key \in Provider
    /\ req[r].pc = "idle" => req[r].probes = {}

IInv == RouterTypes /\ LeaseIsSomewhere /\ OnePlace /\ CallsOne

-----------------------------------------------------------------------------
LEMMA InitOK == Init => IInv
<1> SUFFICES ASSUME Init PROVE IInv
  OBVIOUS
<1> USE RouterAssumption DEF Init
<1>1. <<>> \in Seq(BOOLEAN)
  OBVIOUS
<1>2. Healthy \in HealthRow /\ Healthy.probing = FALSE /\ Gone \in Req /\ Gone.probes = {} /\ Gone.pc = "idle"
  BY <1>1 DEF Healthy, HealthRow, Gone, Req, Time
<1>3. RouterTypes
  BY <1>2 DEF RouterTypes, Time
<1>4. LeaseIsSomewhere /\ OnePlace /\ CallsOne
  BY <1>2 DEF LeaseIsSomewhere, OnePlace, CallsOne, Holds
<1> QED
  BY <1>3, <1>4 DEF IInv

\* A record of health with another lease.
LEMMA LeaseOfRow ==
  ASSUME NEW h \in HealthRow, NEW b \in BOOLEAN
  PROVE  /\ [h EXCEPT !.probing = b] \in HealthRow
         /\ [h EXCEPT !.probing = b].probing = b
         /\ b = h.probing => [h EXCEPT !.probing = b] = h
BY DEF HealthRow

LEMMA LeaseOfProvider ==
  ASSUME NEW h \in HealthRow, NEW k, NEW new
  PROVE  /\ [h EXCEPT !.probing = @ \/ k \in new] \in HealthRow
         /\ [h EXCEPT !.probing = @ \/ k \in new].probing <=> h.probing \/ k \in new
         /\ k \notin new => [h EXCEPT !.probing = @ \/ k \in new] = h
<1> DEFINE b == h.probing \/ k \in new
<1>1. h.probing \in BOOLEAN
  BY DEF HealthRow
<1>2. b \in BOOLEAN /\ (k \notin new => b = h.probing)
  BY <1>1, Zenon
<1>3. [h EXCEPT !.probing = @ \/ k \in new] = [h EXCEPT !.probing = b]
  BY Zenon
<1> HIDE DEF b
<1>4. /\ [h EXCEPT !.probing = b] \in HealthRow
      /\ [h EXCEPT !.probing = b].probing = b
      /\ b = h.probing => [h EXCEPT !.probing = b] = h
  BY <1>2, LeaseOfRow
<1> QED
  BY <1>2, <1>3, <1>4, Zenon DEF b

\* One request r of process p takes the probes of the providers in new, which nobody probes, and gives up
\* or keeps what it had.
LEMMA Leases ==
  ASSUME IInv, NEW r \in Request, NEW row \in Req, NEW new \in SUBSET Provider,
         req' = [req EXCEPT ![r] = row], row.probes = new,
         row.pc = "calling" => row.key \in Provider, row.pc = "idle" => new = {},
         \A k \in new : ~health[ProcessOf[r]][k].probing,
         health' = [health EXCEPT ![ProcessOf[r]] =
                      [k \in Provider |-> [health[ProcessOf[r]][k] EXCEPT !.probing = @ \/ k \in new]]],
         abandoned' = [abandoned EXCEPT ![ProcessOf[r]] = @ \cup req[r].probes],
         UNCHANGED <<breaker, writes>>
  PROVE  IInv'
<1> USE DEF IInv, RouterTypes
<1> DEFINE p0 == ProcessOf[r]
<1>0. p0 \in Process /\ req[r] \in Req /\ req[r].probes \in SUBSET Provider
  BY RouterAssumption DEF Req
<1>1. \A p \in Process, k \in Provider : health[p][k] \in HealthRow /\ health[p][k].probing \in BOOLEAN
  BY DEF HealthRow
<1>2. health' \in [Process -> [Provider -> HealthRow]]
  <2>1. \A k \in Provider : [health[p0][k] EXCEPT !.probing = @ \/ k \in new] \in HealthRow
    BY <1>0, <1>1, LeaseOfProvider, Zenon
  <2> QED
    BY <1>0, <2>1
<1>3. \A p \in Process, k \in Provider :
        health'[p][k].probing <=> health[p][k].probing \/ (p = p0 /\ k \in new)
  <2>1. \A k \in Provider : [health[p0][k] EXCEPT !.probing = @ \/ k \in new].probing
                              <=> health[p0][k].probing \/ k \in new
    BY <1>0, <1>1, LeaseOfProvider, Zenon
  <2>2. \A k \in Provider : health'[p0][k] = [health[p0][k] EXCEPT !.probing = @ \/ k \in new]
    BY <1>0
  <2>3. \A p \in Process : p # p0 => health'[p] = health[p]
    BY <1>0
  <2> QED
    BY <2>1, <2>2, <2>3, Zenon
<1>4. \A p \in Process, k \in Provider :
        k \in abandoned'[p] <=> k \in abandoned[p] \/ (p = p0 /\ k \in req[r].probes)
  BY <1>0
<1>5. RouterTypes'
  BY <1>0, <1>2
<1>6. \A s \in Request, p \in Process, k \in Provider :
        Holds(s, p, k)' <=> IF s = r THEN p = p0 /\ k \in new ELSE Holds(s, p, k)
  BY <1>0 DEF Holds
<1>7. \A p \in Process, k \in Provider : Holds(r, p, k) <=> p = p0 /\ k \in req[r].probes
  BY <1>0 DEF Holds
<1>8. LeaseIsSomewhere'
  <2> SUFFICES ASSUME NEW p \in Process, NEW k \in Provider
               PROVE  health'[p][k].probing <=> k \in abandoned'[p] \/ \E s \in Request : Holds(s, p, k)'
    BY DEF LeaseIsSomewhere
  <2> HIDE DEF IInv, RouterTypes, p0
  <2>1. health[p][k].probing <=> k \in abandoned[p] \/ \E s \in Request : Holds(s, p, k)
    BY DEF IInv, LeaseIsSomewhere
  <2> QED
    BY <2>1, <1>3, <1>4, <1>6, <1>7
<1>9. OnePlace'
  <2> SUFFICES ASSUME NEW p \in Process, NEW k \in Provider, NEW s \in Request, Holds(s, p, k)'
               PROVE  k \notin abandoned'[p] /\ \A t \in Request : Holds(t, p, k)' => t = s
    BY DEF OnePlace
  <2> HIDE DEF RouterTypes, p0
  <2>1. p = p0 /\ k \in new =>
          k \notin abandoned[p] /\ k \notin req[r].probes /\ \A t \in Request : ~Holds(t, p, k)
    BY <1>7 DEF LeaseIsSomewhere, p0
  <2> QED
    BY <2>1, <1>4, <1>6, <1>7 DEF OnePlace
<1>10. CallsOne'
  BY DEF CallsOne
<1> QED
  BY <1>5, <1>8, <1>9, <1>10

\* The lease of k in p is nobody's any more, and no probe of it is remembered.
LEMMA Releases ==
  ASSUME IInv, NEW p \in Process, NEW k \in Provider,
         health' \in [Process -> [Provider -> HealthRow]],
         ~health'[p][k].probing,
         \A q \in Process, j \in Provider : (q # p \/ j # k) => health'[q][j].probing = health[q][j].probing,
         req' \in [Request -> Req],
         \A s \in Request : req'[s].probes = IF ProcessOf[s] = p THEN req[s].probes \ {k} ELSE req[s].probes,
         \A s \in Request : req'[s].pc = "calling" => req'[s].key = req[s].key /\ req[s].pc = "calling",
         \A s \in Request : req'[s].pc = "idle" => req[s].pc = "idle",
         Forget(p, k), breaker' \in [Provider -> Time], writes' \subseteq WriteRow
  PROVE  IInv'
<1> USE DEF IInv, RouterTypes
<1>1. abandoned' \in [Process -> SUBSET Provider]
      /\ \A q \in Process, j \in Provider : j \in abandoned'[q] <=> j \in abandoned[q] /\ ~(q = p /\ j = k)
  BY DEF Forget
<1>2. \A s \in Request, q \in Process, j \in Provider :
        Holds(s, q, j)' <=> Holds(s, q, j) /\ ~(q = p /\ j = k)
  BY DEF Holds
<1>3. RouterTypes' /\ CallsOne'
  BY <1>1 DEF CallsOne
<1> HIDE DEF RouterTypes
<1>4. LeaseIsSomewhere'
  BY <1>1, <1>2 DEF LeaseIsSomewhere
<1>5. OnePlace'
  BY <1>1, <1>2 DEF OnePlace
<1> QED
  BY <1>3, <1>4, <1>5

\* A request asks, or steers away: what a half-open breaker lets through was probed by nobody.
LEMMA Asking ==
  ASSUME IInv, NEW r \in Request, Ask(r) \/ Steer(r) \/ Leave(r)
  PROVE  IInv'
<1> USE DEF IInv, RouterTypes
<1> DEFINE p == ProcessOf[r]
<1>0. p \in Process /\ req[r] \in Req /\ req[r].probes \in SUBSET Provider
  BY RouterAssumption DEF Req
<1>1. ASSUME NEW found \in SUBSET Provider
      PROVE  /\ Candidates(p, found) \in SUBSET Provider /\ HalfOpen(p, found) \in SUBSET Provider
             /\ \A k \in HalfOpen(p, found) : ~health[p][k].probing
  BY DEF Candidates, HalfOpen, Excluded
<1>2. CASE Ask(r)
  <2>1. PICK found \in SUBSET Provider :
          /\ req[r].pc = "idle" /\ LeaseProbes(p, found)
          /\ req' = [req EXCEPT ![r] = [pc |-> "choosing", cands |-> Candidates(p, found),
                                        probes |-> HalfOpen(p, found), key |-> None]]
          /\ UNCHANGED <<breaker, writes, abandoned>>
    BY <1>2 DEF Ask
  <2> DEFINE row == [pc |-> "choosing", cands |-> Candidates(p, found), probes |-> HalfOpen(p, found), key |-> None]
  <2>2. row \in Req /\ row.probes = HalfOpen(p, found) /\ row.pc = "choosing"
    BY <1>1 DEF Req
  <2>3. abandoned' = [abandoned EXCEPT ![p] = @ \cup req[r].probes]
    BY <1>0, <2>1 DEF CallsOne
  <2>4. health' = [health EXCEPT ![p] =
                     [k \in Provider |-> [health[p][k] EXCEPT !.probing = @ \/ k \in HalfOpen(p, found)]]]
    BY <2>1 DEF LeaseProbes
  <2> HIDE DEF IInv, RouterTypes, row
  <2>5. req' = [req EXCEPT ![r] = row]
    BY <2>1 DEF row
  <2> QED
    BY <1>1, <2>1, <2>2, <2>3, <2>4, <2>5, Leases
<1>3. CASE Steer(r)
  <2>1. PICK found \in SUBSET Provider :
          /\ req[r].pc = "choosing" /\ LeaseProbes(p, found)
          /\ req' = [req EXCEPT ![r].cands = Candidates(p, found), ![r].probes = HalfOpen(p, found)]
          /\ Abandon(p, req[r].probes)
          /\ UNCHANGED <<breaker, writes>>
    BY <1>3 DEF Steer
  <2> DEFINE row == [req[r] EXCEPT !.cands = Candidates(p, found), !.probes = HalfOpen(p, found)]
  <2>2. row \in Req /\ row.probes = HalfOpen(p, found) /\ row.pc = "choosing"
    BY <1>0, <1>1, <2>1 DEF Req
  <2>3. req' = [req EXCEPT ![r] = row]
    BY <2>1
  <2>4. health' = [health EXCEPT ![p] =
                     [k \in Provider |-> [health[p][k] EXCEPT !.probing = @ \/ k \in HalfOpen(p, found)]]]
    BY <2>1 DEF LeaseProbes
  <2> HIDE DEF IInv, RouterTypes, row
  <2> QED
    BY <1>1, <2>1, <2>2, <2>3, <2>4, Leases DEF Abandon
<1>4. CASE Leave(r)
  <2>1. /\ req' = [req EXCEPT ![r] = Gone] /\ Abandon(p, req[r].probes)
        /\ UNCHANGED <<breaker, health, writes>>
    BY <1>4 DEF Leave
  <2> DEFINE no == {}
  <2>2. Gone \in Req /\ Gone.probes = no /\ Gone.pc = "idle" /\ no \in SUBSET Provider /\ \A k \in Provider : k \notin no
    BY DEF Gone, Req
  <2>3. \A k \in Provider : health[p][k] \in HealthRow
    BY <1>0
  <2> HIDE DEF no, IInv, RouterTypes
  <2>4. \A k \in Provider : [health[p][k] EXCEPT !.probing = @ \/ k \in no] = health[p][k]
    BY <2>2, <2>3, LeaseOfProvider, Zenon
  <2>5. health' = [health EXCEPT ![p] =
                     [k \in Provider |-> [health[p][k] EXCEPT !.probing = @ \/ k \in no]]]
    BY <1>0, <2>1, <2>4 DEF IInv, RouterTypes
  <2>6. no = {} /\ \A k \in no : ~health[p][k].probing
    BY DEF no
  <2> QED
    BY <2>1, <2>2, <2>5, <2>6, Leases DEF Abandon
<1> QED
  BY <1>2, <1>3, <1>4

\* The windows a report may leave behind.
LEMMA WindowsAreWindows ==
  ASSUME NEW w \in Seq(BOOLEAN), NEW ok \in BOOLEAN, NEW v \in Windows(w, ok)
  PROVE  v \in Seq(BOOLEAN)
<1>1. PICK n \in 0 .. Len(w) : v = Append(SubSeq(w, n + 1, Len(w)), ok)
  BY DEF Windows
<1>2. SubSeq(w, n + 1, Len(w)) \in Seq(BOOLEAN)
  BY <1>1
<1> QED
  BY <1>1, <1>2

\* A report releases the lease of its provider, however the call went.
LEMMA Reporting ==
  ASSUME IInv, NEW r \in Request, Reports(r)
  PROVE  IInv'
<1> USE DEF IInv, RouterTypes
<1> DEFINE p == ProcessOf[r]
           k == req[r].key
           h == health[p][k]
<1>0. /\ p \in Process /\ k \in Provider /\ h \in HealthRow /\ h.window \in Seq(BOOLEAN)
      /\ h.openedAt \in Time /\ h.probing \in BOOLEAN
  BY RouterAssumption DEF Reports, CallsOne, HealthRow
<1>1. Healthy \in HealthRow /\ ~Healthy.probing
  <2>1. <<>> \in Seq(BOOLEAN)
    OBVIOUS
  <2> QED
    BY <2>1 DEF Healthy, HealthRow, Time
<1>2. ASSUME NEW t \in Time, Write(r, k, t)
      PROVE  writes' \subseteq WriteRow
  BY <1>0, <1>2 DEF Write, WriteRow
<1>3. ASSUME HeardOk(r, p, k)
      PROVE  /\ \E x \in HealthRow : ~x.probing /\ health' = [health EXCEPT ![p][k] = x]
             /\ writes' \subseteq WriteRow
  <2>1. CASE h.openedAt # "null" \/ h.probing
    <3>1. health' = [health EXCEPT ![p][k] = Healthy] /\ Write(r, k, "null")
      BY <1>3, <2>1 DEF HeardOk
    <3> QED
      BY <1>1, <1>2, <3>1 DEF Time
  <2>2. CASE ~(h.openedAt # "null" \/ h.probing)
    <3>1. PICK w \in Windows(h.window, TRUE) : health' = [health EXCEPT ![p][k].window = w]
      BY <1>3, <2>2 DEF HeardOk
    <3>2. w \in Seq(BOOLEAN) /\ writes' = writes
      BY <1>0, <1>3, <2>2, WindowsAreWindows DEF HeardOk
    <3>3. [h EXCEPT !.window = w] \in HealthRow /\ ~[h EXCEPT !.window = w].probing
      BY <1>0, <2>2, <3>2 DEF HealthRow
    <3> QED
      BY <3>1, <3>2, <3>3
  <2> QED
    BY <2>1, <2>2
<1>4. ASSUME HeardNeutral(p, k)
      PROVE  /\ \E x \in HealthRow : ~x.probing /\ health' = [health EXCEPT ![p][k] = x]
             /\ writes' \subseteq WriteRow
  <2>1. [h EXCEPT !.probing = FALSE] \in HealthRow /\ ~[h EXCEPT !.probing = FALSE].probing
    BY <1>0 DEF HealthRow
  <2>2. health' = [health EXCEPT ![p][k] = [h EXCEPT !.probing = FALSE]] /\ writes' = writes
    BY <1>4 DEF HeardNeutral
  <2> QED
    BY <2>1, <2>2
<1>5. ASSUME NEW down \in BOOLEAN, HeardFailure(r, p, k, down)
      PROVE  /\ \E x \in HealthRow : ~x.probing /\ health' = [health EXCEPT ![p][k] = x]
             /\ writes' \subseteq WriteRow
  <2>1. PICK w \in Windows(h.window, FALSE), opens \in BOOLEAN :
          /\ health' = [health EXCEPT ![p][k] =
                          [window |-> w, openedAt |-> IF opens THEN "recent" ELSE h.openedAt, probing |-> FALSE]]
          /\ IF opens THEN Write(r, k, "recent") ELSE UNCHANGED writes
    BY <1>5 DEF HeardFailure
  <2>2. w \in Seq(BOOLEAN)
    BY <1>0, WindowsAreWindows
  <2>3. [window |-> w, openedAt |-> IF opens THEN "recent" ELSE h.openedAt, probing |-> FALSE] \in HealthRow
    BY <1>0, <2>2 DEF HealthRow, Time
  <2>4. writes' \subseteq WriteRow
    BY <1>2, <2>1 DEF Time
  <2> QED
    BY <2>1, <2>3, <2>4
<1>6. /\ \E x \in HealthRow : ~x.probing /\ health' = [health EXCEPT ![p][k] = x]
      /\ writes' \subseteq WriteRow
  BY <1>3, <1>4, <1>5 DEF Reports
<1>7. PICK x \in HealthRow : ~x.probing /\ health' = [health EXCEPT ![p][k] = x]
  BY <1>6
<1>8. /\ health' \in [Process -> [Provider -> HealthRow]] /\ ~health'[p][k].probing
      /\ \A q \in Process, j \in Provider : (q # p \/ j # k) => health'[q][j].probing = health[q][j].probing
  BY <1>0, <1>7
<1>9. /\ Released(p, k) \in [Request -> Req]
      /\ \A s \in Request : /\ Released(p, k)[s].probes = IF ProcessOf[s] = p THEN req[s].probes \ {k} ELSE req[s].probes
                            /\ Released(p, k)[s].pc = req[s].pc /\ Released(p, k)[s].key = req[s].key
  BY DEF Released, Req
<1>10. /\ req[r].pc = "calling" /\ Forget(p, k) /\ UNCHANGED breaker
       /\ \/ req' = [Released(p, k) EXCEPT ![r].pc = "choosing", ![r].cands = {}]
          \/ req' = [Released(p, k) EXCEPT ![r].pc = "choosing"]
  BY DEF Reports
<1>11. /\ req' \in [Request -> Req]
       /\ \A s \in Request : req'[s].probes = Released(p, k)[s].probes /\ req'[s].key = Released(p, k)[s].key
       /\ \A s \in Request : req'[s].pc = IF s = r THEN "choosing" ELSE Released(p, k)[s].pc
  <2> HIDE DEF IInv, RouterTypes
  <2> QED
    BY <1>9, <1>10 DEF Req
<1>12. \A s \in Request :
         /\ req'[s].probes = IF ProcessOf[s] = p THEN req[s].probes \ {k} ELSE req[s].probes
         /\ req'[s].pc = "calling" => req'[s].key = req[s].key /\ req[s].pc = "calling"
         /\ req'[s].pc = "idle" => req[s].pc = "idle"
  BY <1>9, <1>11
<1>13. breaker' \in [Provider -> Time]
  BY <1>10
<1> HIDE DEF IInv, RouterTypes, p, k
<1> QED
  BY <1>0, <1>6, <1>8, <1>10, <1>11, <1>12, <1>13, Releases

\* A console resets a provider.
LEMMA Resetting ==
  ASSUME IInv, NEW p \in Process, NEW k \in Provider, ResetBreaker(p, k)
  PROVE  IInv'
<1> USE DEF IInv, RouterTypes
<1>1. Healthy \in HealthRow /\ ~Healthy.probing
  <2>1. <<>> \in Seq(BOOLEAN)
    OBVIOUS
  <2> QED
    BY <2>1 DEF Healthy, HealthRow, Time
<1>2. /\ health' \in [Process -> [Provider -> HealthRow]] /\ ~health'[p][k].probing
      /\ \A q \in Process, j \in Provider : (q # p \/ j # k) => health'[q][j].probing = health[q][j].probing
  BY <1>1 DEF ResetBreaker
<1>3. /\ req' \in [Request -> Req]
      /\ \A s \in Request :
           /\ req'[s].probes = IF ProcessOf[s] = p THEN req[s].probes \ {k} ELSE req[s].probes
           /\ req'[s].pc = req[s].pc /\ req'[s].key = req[s].key
  BY DEF ResetBreaker, Released, Req
<1>4. Forget(p, k) /\ breaker' \in [Provider -> Time] /\ writes' \subseteq WriteRow
  BY DEF ResetBreaker, Time
<1> HIDE DEF IInv, RouterTypes
<1> QED
  BY <1>2, <1>3, <1>4, Releases

\* A process dies, and with it everything it remembers.
LEMMA Dying ==
  ASSUME IInv, NEW p \in Process, ProcessDies(p)
  PROVE  IInv'
<1> USE DEF IInv, RouterTypes
<1>1. Healthy \in HealthRow /\ ~Healthy.probing /\ Gone \in Req /\ Gone.probes = {} /\ Gone.pc = "idle"
  <2>1. <<>> \in Seq(BOOLEAN)
    OBVIOUS
  <2> QED
    BY <2>1 DEF Healthy, HealthRow, Time, Gone, Req
<1>2. /\ health' \in [Process -> [Provider -> HealthRow]]
      /\ \A q \in Process, j \in Provider :
           health'[q][j].probing <=> q # p /\ health[q][j].probing
  BY <1>1 DEF ProcessDies
<1>3. /\ req' \in [Request -> Req]
      /\ \A s \in Request : req'[s] = IF ProcessOf[s] = p THEN Gone ELSE req[s]
  BY <1>1 DEF ProcessDies
<1>4. /\ abandoned' \in [Process -> SUBSET Provider]
      /\ \A q \in Process : abandoned'[q] = IF q = p THEN {} ELSE abandoned[q]
  BY DEF ProcessDies
<1>5. RouterTypes' /\ CallsOne'
  BY <1>1, <1>2, <1>3, <1>4 DEF ProcessDies, CallsOne
<1>6. \A s \in Request, q \in Process, j \in Provider : Holds(s, q, j)' <=> q # p /\ Holds(s, q, j)
  BY <1>1, <1>3 DEF Holds
<1> HIDE DEF RouterTypes
<1>7. LeaseIsSomewhere'
  BY <1>2, <1>4, <1>6 DEF LeaseIsSomewhere
<1>8. OnePlace'
  BY <1>4, <1>6 DEF OnePlace
<1> QED
  BY <1>5, <1>7, <1>8

\* A request calls the next candidate; the database and the clock move.  No lease changes hands.
LEMMA Others ==
  ASSUME IInv,
         \/ \E r \in Request : Try(r)
         \/ \E x \in writes : Persist(x)
         \/ \E k \in Provider : RowCools(k)
         \/ \E p \in Process, k \in Provider : MemoryCools(p, k)
         \/ UNCHANGED vars
  PROVE  IInv'
<1> USE DEF IInv, RouterTypes
<1>1. ASSUME NEW r \in Request, Try(r)
      PROVE  /\ req' \in [Request -> Req] /\ CallsOne'
             /\ \A s \in Request : req'[s].probes = req[s].probes
  <2>1. PICK k \in req[r].cands :
          req' = [req EXCEPT ![r].pc = "calling", ![r].key = k, ![r].cands = @ \ {k}]
    BY <1>1 DEF Try
  <2>2. req[r] \in Req /\ k \in Provider
    BY <2>1 DEF Req
  <2>3. [req[r] EXCEPT !.pc = "calling", !.key = k, !.cands = @ \ {k}] \in Req
    BY <2>2 DEF Req
  <2> QED
    BY <2>1, <2>2, <2>3 DEF CallsOne, Req
<1>2. /\ req' \in [Request -> Req] /\ CallsOne'
      /\ \A s \in Request : req'[s].probes = req[s].probes
  BY <1>1 DEF Persist, RowCools, MemoryCools, CallsOne, vars
<1>3. /\ health' \in [Process -> [Provider -> HealthRow]]
      /\ \A q \in Process, j \in Provider : health'[q][j].probing = health[q][j].probing
  <2>1. ASSUME NEW p \in Process, NEW k \in Provider, MemoryCools(p, k)
        PROVE  /\ health' \in [Process -> [Provider -> HealthRow]]
               /\ \A q \in Process, j \in Provider : health'[q][j].probing = health[q][j].probing
    <3> DEFINE x == [health[p][k] EXCEPT !.openedAt = "past"]
    <3>1. health[p][k] \in HealthRow
      OBVIOUS
    <3>2. x \in HealthRow /\ x.probing = health[p][k].probing
      BY <3>1 DEF HealthRow, Time
    <3>3. health' = [health EXCEPT ![p][k] = x]
      BY <2>1 DEF MemoryCools
    <3> HIDE DEF x
    <3> QED
      BY <3>2, <3>3
  <2>2. CASE UNCHANGED health
    BY <2>2
  <2> QED
    BY <2>1, <2>2 DEF Try, Persist, RowCools, vars
<1>4. breaker' \in [Provider -> Time] /\ writes' \subseteq WriteRow /\ abandoned' = abandoned
  BY DEF Try, Persist, RowCools, MemoryCools, vars, WriteRow, Time
<1>5. RouterTypes'
  BY <1>2, <1>3, <1>4
<1>6. \A s \in Request, q \in Process, j \in Provider : Holds(s, q, j)' <=> Holds(s, q, j)
  BY <1>2 DEF Holds
<1> HIDE DEF RouterTypes
<1>7. LeaseIsSomewhere'
  BY <1>3, <1>4, <1>6 DEF LeaseIsSomewhere
<1>8. OnePlace'
  BY <1>4, <1>6 DEF OnePlace
<1> QED
  BY <1>2, <1>5, <1>7, <1>8

\* The invariant: every lease is in exactly one place, whatever processes do, and however often they die.
THEOREM Invariance == Spec => []IInv
<1>1. ASSUME IInv, [Next]_vars PROVE IInv'
  BY <1>1, Asking, Reporting, Resetting, Dying, Others DEF Next
<1>2. IInv /\ [Next]_vars => IInv'
  BY <1>1
<1> QED
  BY InitOK, <1>2, PTL DEF Spec

\* The records of health, the rows, the updates on their way and the requests keep their types.
THEOREM RouterTypeCorrect == Spec => []RouterTypes
<1>1. IInv => RouterTypes
  BY DEF IInv
<1> QED
  BY Invariance, <1>1, PTL

\* report() releases the lease of a probe, however the call went: whoever finds a provider probed finds a
\* request that will release it, or a probe that was never reported.
THEOREM LeaseCorrect == Spec => []LeaseIsAccountedFor
<1>1. IInv => LeaseIsAccountedFor
  <2> SUFFICES ASSUME IInv, NEW p \in Process, NEW k \in Provider, health[p][k].probing, k \notin abandoned[p]
               PROVE  Holders(p, k) # {}
    BY DEF LeaseIsAccountedFor
  <2>1. PICK r \in Request : Holds(r, p, k)
    BY DEF IInv, LeaseIsSomewhere
  <2> QED
    BY <2>1 DEF Holders, Holds
<1> QED
  BY Invariance, <1>1, PTL

\* A half-open provider takes one probe of a process at a time (route, LeaseProbes).
THEOREM ProbeCorrect == Spec => []OneProbe
<1>1. IInv => OneProbe
  <2> SUFFICES ASSUME IInv, NEW p \in Process, NEW k \in Provider
               PROVE  Cardinality(Holders(p, k)) + (IF k \in abandoned[p] THEN 1 ELSE 0) <= 1
    BY DEF OneProbe
  <2>1. CASE \E r \in Request : Holds(r, p, k)
    <3>1. PICK r \in Request : Holds(r, p, k)
      BY <2>1
    <3>2. Holders(p, k) = {r} /\ k \notin abandoned[p]
      BY <3>1 DEF IInv, OnePlace, Holders, Holds
    <3>3. Cardinality({r}) = 1
      BY FS_Singleton
    <3> QED
      BY <3>2, <3>3
  <2>2. CASE ~\E r \in Request : Holds(r, p, k)
    <3>1. Holders(p, k) = {}
      BY <2>2 DEF Holders, Holds
    <3>2. Cardinality({}) = 0
      BY FS_EmptySet
    <3> QED
      BY <3>1, <3>2
  <2> QED
    BY <2>1, <2>2
<1> QED
  BY Invariance, <1>1, PTL
=============================================================================
