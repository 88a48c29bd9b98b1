--------------------------- MODULE ProviderRouter ---------------------------
(***************************************************************************)
(* ProviderRouter and its circuit breaker, for one capability.  Each process *)
(* keeps its own health record of a provider; the time a breaker opened is  *)
(* also written to the provider's row, which every process reads.  Requests *)
(* ask for candidates, call some of them one after the other and report how *)
(* each call went.                                                         *)
(*                                                                         *)
(* A time is compared with COOLDOWN_MS only: "recent" is within it, "past"  *)
(* is not.  The sliding window is the samples that have not left it; how    *)
(* many leave before a report is the clock's choice.                       *)
(***************************************************************************)
EXTENDS Integers, Sequences, FiniteSets

CONSTANTS
  Process,
  Provider,
  Request,      \* requests a process may have at a time
  ProcessOf,    \* the process a request is served by
  None,         \* no provider
  MinSamples,   \* MIN_SAMPLES
  MaxSamples    \* how many calls fit in WINDOW_MS

ASSUME RouterAssumption ==
  /\ ProcessOf \in [Request -> Process]
  /\ None \notin Provider
  /\ MinSamples \in Nat \ {0} /\ MaxSamples \in Nat \ {0}

VARIABLES
  breaker,      \* Provider -> breakerOpenedAt of its row
  health,       \* Process -> Provider -> Health
  writes,       \* updates of a row that are on their way to the database
  req           \* Request -> where it is with its candidates

(* What no code keeps: the leases whose holder ended without a report.     *)
VARIABLE
  abandoned     \* Process -> set of providers

vars == <<breaker, health, writes, req, abandoned>>

Time == {"null", "recent", "past"}

Health == [window : UNION {[1..n -> BOOLEAN] : n \in 0..MaxSamples}, openedAt : Time, probing : BOOLEAN]

Healthy == [window |-> <<>>, openedAt |-> "null", probing |-> FALSE]

\* probes: the half-open candidates this request holds the lease of.  No code keeps this.
Req == [pc : {"idle", "choosing", "calling"}, cands : SUBSET Provider, probes : SUBSET Provider,
        key : Provider \cup {None}]

Gone == [pc |-> "idle", cands |-> {}, probes |-> {}, key |-> None]

Init ==
  /\ breaker = [k \in Provider |-> "null"]
  /\ health = [p \in Process |-> [k \in Provider |-> Healthy]]
  /\ writes = {}
  /\ req = [r \in Request |-> Gone]
  /\ abandoned = [p \in Process |-> {}]

Abandon(p, ks) == abandoned' = [abandoned EXCEPT ![p] = @ \cup ks]

-----------------------------------------------------------------------------
(* route.                                                                  *)

OpenedAt(p, k) == IF health[p][k].openedAt # "null" THEN health[p][k].openedAt ELSE breaker[k]

\* Mutant of Excluded: a half-open provider takes any number of probes.
ExcludedWhenOpen(p, k) == OpenedAt(p, k) = "recent"

Excluded(p, k) ==
  \/ OpenedAt(p, k) = "recent"
  \/ OpenedAt(p, k) = "past" /\ health[p][k].probing

\* Of the rows the query returned, the ones this process may call.
Candidates(p, found) == {k \in found : ~Excluded(p, k)}

HalfOpen(p, found) == {k \in Candidates(p, found) : OpenedAt(p, k) = "past"}

\* Every half-open candidate becomes a probe, whether it is called or not.
LeaseProbes(p, found) ==
  health' = [health EXCEPT ![p] =
               [k \in Provider |->
                  [health[p][k] EXCEPT !.probing = @ \/ k \in HalfOpen(p, found)]]]

\* The rows the query returns depend on the capability, the workspace and the constraint.
Ask(r) ==
  LET p == ProcessOf[r] IN
  /\ req[r].pc = "idle"
  /\ \E found \in SUBSET Provider :
       /\ Candidates(p, found) # {}
       /\ LeaseProbes(p, found)
       /\ req' = [req EXCEPT ![r] = [pc |-> "choosing", cands |-> Candidates(p, found),
                                     probes |-> HalfOpen(p, found), key |-> None]]
  /\ UNCHANGED <<breaker, writes, abandoned>>

\* callProvider asks again to steer away from a vendor, and keeps the answer if it leaves anyone.
Steer(r) ==
  LET p == ProcessOf[r] IN
  /\ req[r].pc = "choosing" /\ req[r].key = None
  /\ \E found \in SUBSET Provider :
       /\ Candidates(p, found) # {}
       /\ LeaseProbes(p, found)
       /\ req' = [req EXCEPT ![r].cands = Candidates(p, found), ![r].probes = HalfOpen(p, found)]
  /\ Abandon(p, req[r].probes)
  /\ UNCHANGED <<breaker, writes>>

Try(r) ==
  /\ req[r].pc = "choosing"
  /\ \A x \in writes : x.by # r
  /\ \E k \in req[r].cands :
       req' = [req EXCEPT ![r].pc = "calling", ![r].key = k, ![r].cands = @ \ {k}]
  /\ UNCHANGED <<breaker, health, writes, abandoned>>

\* The request ends: with an answer, an error that is not retried, an accepted job elsewhere, a
\* spent budget, or as askAnyModel ends every one of its calls, without a report.
Leave(r) ==
  /\ req[r].pc \in {"choosing", "calling"}
  /\ \A x \in writes : x.by # r
  /\ req' = [req EXCEPT ![r] = Gone]
  /\ Abandon(ProcessOf[r], req[r].probes)
  /\ UNCHANGED <<breaker, health, writes>>

-----------------------------------------------------------------------------
(* report.                                                                 *)

\* The samples still in the window, and the new one.
Windows(w, ok) ==
  {Append(SubSeq(w, n + 1, Len(w)), ok) : n \in {m \in 0..Len(w) : Len(w) - m < MaxSamples}}

\* persist, called for r, which waits for it.
Write(r, k, time) == writes' = writes \cup {[by |-> r, key |-> k, openedAt |-> time]}

HeardOk(r, p, k) ==
  LET h == health[p][k] IN
  IF h.openedAt # "null" \/ h.probing
  THEN /\ health' = [health EXCEPT ![p][k] = Healthy]
       /\ Write(r, k, "null")
  ELSE /\ \E w \in Windows(h.window, TRUE) : health' = [health EXCEPT ![p][k].window = w]
       /\ UNCHANGED writes

\* Mutant of HeardNeutral: an inconclusive probe keeps its lease.
HeardNothing(p, k) == UNCHANGED <<health, writes>>

\* An inconclusive probe gives its lease back; the breaker stays as it was.
HeardNeutral(p, k) == health' = [health EXCEPT ![p][k].probing = FALSE] /\ UNCHANGED writes

Failures(w) == Cardinality({i \in DOMAIN w : ~w[i]})

Trips(w, down) == down \/ (Len(w) >= MinSamples /\ 2 * Failures(w) >= Len(w))

\* down: PROVIDER_DOWN; else RETRYABLE or RATE_LIMITED.
HeardFailure(r, p, k, down) ==
  LET h == health[p][k] IN
  \E w \in Windows(h.window, FALSE) :
    LET opens == h.probing \/ (Trips(w, down) /\ h.openedAt = "null") IN
    /\ health' = [health EXCEPT ![p][k] =
                    [window |-> w, openedAt |-> IF opens THEN "recent" ELSE h.openedAt, probing |-> FALSE]]
    /\ IF opens THEN Write(r, k, "recent") ELSE UNCHANGED writes

\* The lease of k is nobody's from now on, whoever held it.
Released(p, k) == [r \in Request |-> IF ProcessOf[r] = p THEN [req[r] EXCEPT !.probes = @ \ {k}] ELSE req[r]]
Forget(p, k) == abandoned' = [abandoned EXCEPT ![p] = @ \ {k}]

\* A report releases the lease of its provider, the request's own or another's.
Reports(r) ==
  LET p == ProcessOf[r]
      k == req[r].key
  IN
  /\ req[r].pc = "calling"
  /\ \/ /\ HeardOk(r, p, k)
        /\ req' = [Released(p, k) EXCEPT ![r].pc = "choosing", ![r].cands = {}]
     \/ /\ HeardNeutral(p, k) \/ \E down \in BOOLEAN : HeardFailure(r, p, k, down)
        /\ req' = [Released(p, k) EXCEPT ![r].pc = "choosing"]
  /\ Forget(p, k)
  /\ UNCHANGED breaker

-----------------------------------------------------------------------------
(* The database, the clock, the operators' console, and a process that dies. *)

\* The update commits, or fails and is given up with a warning.
Persist(x) ==
  /\ writes' = writes \ {x}
  /\ breaker' \in {breaker, [breaker EXCEPT ![x.key] = x.openedAt]}
  /\ UNCHANGED <<health, req, abandoned>>

\* COOLDOWN_MS have passed since the time in the row, or in a process's memory.
RowCools(k) ==
  /\ breaker[k] = "recent"
  /\ breaker' = [breaker EXCEPT ![k] = "past"]
  /\ UNCHANGED <<health, writes, req, abandoned>>

MemoryCools(p, k) ==
  /\ health[p][k].openedAt = "recent"
  /\ health' = [health EXCEPT ![p][k].openedAt = "past"]
  /\ UNCHANGED <<breaker, writes, req, abandoned>>

\* resetBreaker: the row, and the memory of the process that serves the console.
ResetBreaker(p, k) ==
  /\ breaker' = [breaker EXCEPT ![k] = "null"]
  /\ health' = [health EXCEPT ![p][k] = Healthy]
  /\ req' = Released(p, k)
  /\ Forget(p, k)
  /\ UNCHANGED writes

\* Its memory and its requests go, and the updates that have not arrived.
ProcessDies(p) ==
  /\ health' = [health EXCEPT ![p] = [k \in Provider |-> Healthy]]
  /\ req' = [r \in Request |-> IF ProcessOf[r] = p THEN Gone ELSE req[r]]
  /\ writes' = {x \in writes : ProcessOf[x.by] # p}
  /\ abandoned' = [abandoned EXCEPT ![p] = {}]
  /\ UNCHANGED breaker

-----------------------------------------------------------------------------
Next ==
  \/ \E r \in Request : Ask(r) \/ Steer(r) \/ Try(r) \/ Leave(r) \/ Reports(r)
  \/ \E x \in writes : Persist(x)
  \/ \E k \in Provider : RowCools(k)
  \/ \E p \in Process, k \in Provider : MemoryCools(p, k) \/ ResetBreaker(p, k)
  \/ \E p \in Process : ProcessDies(p)

Spec == Init /\ [][Next]_vars

-----------------------------------------------------------------------------
(* Properties.                                                             *)

Holders(p, k) == {r \in Request : ProcessOf[r] = p /\ k \in req[r].probes}

\* report() releases the single-probe lease whatever became of the probe: a lease that is held has
\* a request that will release it, unless the probe was never reported at all.
LeaseIsAccountedFor ==
  \A p \in Process, k \in Provider :
    health[p][k].probing => Holders(p, k) # {} \/ k \in abandoned[p]

\* "One probe request is let through": two requests of a process never hold the lease of one
\* provider, nor does one hold it beside a probe that was given up.
OneProbe ==
  \A p \in Process, k \in Provider :
    Cardinality(Holders(p, k)) + (IF k \in abandoned[p] THEN 1 ELSE 0) <= 1
=============================================================================
