------------------------------ MODULE Publishing ------------------------------
(***************************************************************************)
(* Posts to a connected social account (publishing.service.ts).  The rows  *)
(* of PublishJob are the queue: a pass of runDue() hands back what was     *)
(* abandoned, selects what is due, claims each row with a conditional      *)
(* update, posts it and writes the outcome by id, whatever the row says by *)
(* then.  Passes of two processes are kept apart by an advisory lock that  *)
(* a long pass outlives.  People create, move, cancel and retry posts,     *)
(* connect and disconnect the account; two timers exchange its token and   *)
(* read the counts of what was posted, and write to the account by id,     *)
(* whatever has become of it.  Of the account only the status is kept: it  *)
(* is what decides whether anything goes out, not the token beside it.     *)
(*                                                                         *)
(* The platform is the environment: it takes a post, or refuses it for     *)
(* now, for ever or for a dead token, and its answer may be lost.          *)
(***************************************************************************)
EXTENDS Naturals, FiniteSets

CONSTANTS
    Posts,        \* rows of PublishJob that may be created
    Workers,      \* processes that run the publishing timers
    MaxAttempts,  \* length of RETRY_GAPS_MS
    Slow,         \* TRUE: an attempt may outlast STUCK_AFTER_MS
    MaxDeaths,    \* bound: passes that end in the middle
    MaxRequests   \* bound: "try again" requests and changes of a time, over all posts

ASSUME PublishingAssumption ==
    /\ MaxAttempts \in Nat \ {0}
    /\ Slow \in BOOLEAN
    /\ IsFiniteSet(Workers)
    /\ {MaxDeaths, MaxRequests} \subseteq Nat

NoWorker == "nobody"
NoPost == "none"
ASSUME NoOneAssumption == NoWorker \notin Workers /\ NoPost \notin Posts

VARIABLES
    job,        \* the row: status, attempts, and is it late: nextAttemptAt has passed
                \* (SCHEDULED), updatedAt is older than STUCK_AFTER_MS (PUBLISHING)
    account,    \* the status of the account
    run,        \* where each process is in runDue()
    lock,       \* who holds the advisory lock of publishing-due
    asked,      \* requests that have read and not yet written
    timers,     \* timer calls that have read the account and not yet written
    known,      \* how often the platform took the post, less the times the answer
                \* never reached the database
    raced,      \* "try again" writes that hit a row that had moved on
    abandoned,  \* times the row was handed back since it was last tried anew
    consent,    \* has the customer connected and not disconnected since
    used        \* how much of each bound is used up

rowVars == <<job, abandoned>>
ghosts == <<known, raced, consent>>
vars == <<job, account, run, lock, asked, timers, known, raced, abandoned,
          consent, used>>

Status == {"NONE", "SCHEDULED", "PUBLISHING", "PUBLISHED", "FAILED", "CANCELLED"}
AccountStatus == {"CONNECTED", "NEEDS_REAUTH", "DISCONNECTED"}
Steps == {"idle", "sweep", "select", "batch", "read", "call", "taken",
          "later", "never", "reauth", "mark"}
Requests == {"create", "patch", "retry"}

\* An attempt is on its way: the row is in the hands of this process.
InHand(w, p) ==
    run[w].post = p
    /\ run[w].at \in {"read", "call", "taken", "later", "never", "reauth"}

Idle == [at |-> "idle", batch |-> {}, post |-> NoPost, tries |-> 0, consent |-> FALSE]

Init ==
    /\ job = [p \in Posts |->
                 [status |-> "NONE", attempts |-> 0, late |-> FALSE]]
    /\ account = "CONNECTED"
    /\ run = [w \in Workers |-> Idle]
    /\ lock = NoWorker
    /\ asked = [q \in Requests |-> [p \in Posts |-> 0]]
    /\ timers = {}
    /\ known = [p \in Posts |-> 0]
    /\ raced = [p \in Posts |-> 0]
    /\ abandoned = [p \in Posts |-> 0]
    /\ consent = TRUE
    /\ used = [deaths |-> 0, requests |-> 0]

-----------------------------------------------------------------------------
(* People *)

Asks(q, p) == asked' = [asked EXCEPT ![q][p] = @ + 1]
Served(q, p) == asked[q][p] > 0 /\ asked' = [asked EXCEPT ![q][p] = @ - 1]

\* create(): the account is read first, the row is written in a later transaction.
CreateReads(p) ==
    /\ job[p].status = "NONE" /\ asked["create"][p] = 0
    /\ account = "CONNECTED"
    /\ Asks("create", p)
    /\ UNCHANGED <<rowVars, account, run, lock, timers, ghosts, used>>

CreateWrites(p) ==
    /\ Served("create", p)
    /\ \E now \in BOOLEAN :
          job' = [job EXCEPT ![p] = [status |-> "SCHEDULED", attempts |-> 0, late |-> now]]
    /\ UNCHANGED <<account, run, lock, timers, ghosts, abandoned, used>>

\* patch(): SCHEDULED is checked on a read; the update is by id.
PatchReads(p) ==
    /\ job[p].status = "SCHEDULED"
    /\ used.requests < MaxRequests
    /\ used' = [used EXCEPT !.requests = @ + 1]
    /\ Asks("patch", p)
    /\ UNCHANGED <<rowVars, account, run, lock, timers, ghosts>>

PatchWrites(p) ==
    /\ Served("patch", p)
    /\ \E now \in BOOLEAN :
          job' = [job EXCEPT ![p].late = job[p].status = "SCHEDULED" /\ now]
    /\ UNCHANGED <<account, run, lock, timers, ghosts, abandoned, used>>

\* Mutant of Cancellable: a post that is going out can be cancelled.
CancellableWhileGoingOut(p) == job[p].status \in {"SCHEDULED", "PUBLISHING"}

\* cancel(): one conditional update.
Cancellable(p) == job[p].status = "SCHEDULED"

Cancel(p) ==
    /\ Cancellable(p)
    /\ job' = [job EXCEPT ![p].status = "CANCELLED", ![p].late = FALSE]
    /\ UNCHANGED <<account, run, lock, asked, timers, ghosts, abandoned, used>>

\* retry(): FAILED and the account are checked on a read; the update is by id.
RetryReads(p) ==
    /\ job[p].status = "FAILED" /\ account = "CONNECTED"
    /\ used.requests < MaxRequests
    /\ used' = [used EXCEPT !.requests = @ + 1]
    /\ Asks("retry", p)
    /\ UNCHANGED <<rowVars, account, run, lock, timers, ghosts>>

RetryWrites(p) ==
    /\ Served("retry", p)
    /\ job' = [job EXCEPT ![p] =
                  [status |-> "SCHEDULED", attempts |-> 0, late |-> TRUE]]
    /\ raced' = IF job[p].status = "FAILED" THEN raced ELSE [raced EXCEPT ![p] = @ + 1]
    /\ abandoned' = [abandoned EXCEPT ![p] = 0]
    /\ UNCHANGED <<account, run, lock, timers, known, consent, used>>

\* connectCallback(): the account is written over, whatever it was.
Connect ==
    /\ account' = "CONNECTED"
    /\ consent' = TRUE
    /\ UNCHANGED <<rowVars, run, lock, asked, timers, known, raced, used>>

\* disconnect(): the account and everything still waiting, in one transaction.
Disconnect ==
    /\ account' = "DISCONNECTED"
    /\ consent' = FALSE
    /\ job' = [p \in Posts |-> IF job[p].status = "SCHEDULED"
                               THEN [job[p] EXCEPT !.status = "CANCELLED", !.late = FALSE]
                               ELSE job[p]]
    /\ UNCHANGED <<run, lock, asked, timers, known, raced, abandoned, used>>

-----------------------------------------------------------------------------
(* The two timers that write to the account: refreshTokens(), refreshMetrics() *)

RefreshReads ==
    /\ account = "CONNECTED" /\ "refresh" \notin timers
    /\ timers' = timers \cup {"refresh"}
    /\ UNCHANGED <<rowVars, account, run, lock, asked, ghosts, used>>

MetricsReads ==
    /\ account = "CONNECTED" /\ "metrics" \notin timers
    /\ \E p \in Posts : job[p].status = "PUBLISHED"
    /\ timers' = timers \cup {"metrics"}
    /\ UNCHANGED <<rowVars, account, run, lock, asked, ghosts, used>>

\* Mutant of Refreshed: a fresh token connects the account.
RefreshedReconnects == "CONNECTED"

\* A fresh token is written by id; the status is not looked at.
Refreshed == account

Refreshes ==
    /\ "refresh" \in timers
    /\ account' = Refreshed
    /\ timers' = timers \ {"refresh"}
    /\ UNCHANGED <<rowVars, run, lock, asked, ghosts, used>>

\* The platform says the token is dead: the account is marked by id.
TokenRefused(t) ==
    /\ t \in timers
    /\ account' = "NEEDS_REAUTH"
    /\ timers' = timers \ {t}
    /\ UNCHANGED <<rowVars, run, lock, asked, ghosts, used>>

\* The counts were read, or nothing could be.
TimerEnds(t) ==
    /\ t \in timers
    /\ timers' = timers \ {t}
    /\ UNCHANGED <<rowVars, account, run, lock, asked, ghosts, used>>

-----------------------------------------------------------------------------
(* runDue() and attempt(), one process *)

Goes(w, at) == run' = [run EXCEPT ![w].at = at]
Leaves(w) == run' = [run EXCEPT ![w] = Idle]
Returns(w) == run' = [run EXCEPT ![w] = [Idle EXCEPT !.at = "batch", !.batch = run[w].batch]]
Unlocked(w) == IF lock = w THEN NoWorker ELSE lock

\* The timer fires; the process is not in a pass already and gets the lock.
Begin(w) ==
    /\ run[w].at = "idle" /\ lock = NoWorker
    /\ lock' = w
    /\ Goes(w, "sweep")
    /\ UNCHANGED <<rowVars, account, asked, timers, ghosts, used>>

\* The transaction that holds the lock times out under a pass that goes on.
Lapse(w) ==
    /\ lock = w
    /\ lock' = NoWorker
    /\ UNCHANGED <<rowVars, account, run, asked, timers, ghosts, used>>

\* Mutant of Stuck: what was abandoned while going out is not handed back.
StuckOnlyWhenWaiting(p) == job[p].status = "SCHEDULED" /\ job[p].late

Stuck(p) == job[p].status = "PUBLISHING" /\ job[p].late

Sweep(w) ==
    /\ run[w].at = "sweep"
    /\ job' = [p \in Posts |-> IF Stuck(p)
                               THEN [job[p] EXCEPT !.status = "SCHEDULED"]
                               ELSE job[p]]
    /\ abandoned' = [p \in Posts |-> IF Stuck(p) THEN abandoned[p] + 1 ELSE abandoned[p]]
    /\ Goes(w, "select")
    /\ UNCHANGED <<account, lock, asked, timers, ghosts, used>>

Select(w) ==
    /\ run[w].at = "select"
    /\ run' = [run EXCEPT ![w].at = "batch",
                 ![w].batch = {p \in Posts : job[p].status = "SCHEDULED" /\ job[p].late}]
    /\ UNCHANGED <<rowVars, account, lock, asked, timers, ghosts, used>>

\* Mutant of Claimable: the claim does not say SCHEDULED.
ClaimableWhenSelected(p) == job[p].status \in {"SCHEDULED", "PUBLISHING"}

\* The claim: the update says SCHEDULED, so of two passes one gets the row.
Claimable(p) == job[p].status = "SCHEDULED"

Claim(w, p) ==
    /\ run[w].at = "batch" /\ p \in run[w].batch
    /\ IF Claimable(p)
       THEN /\ job' = [job EXCEPT ![p].status = "PUBLISHING", ![p].attempts = @ + 1,
                                  ![p].late = FALSE]
            /\ run' = [run EXCEPT ![w].batch = @ \ {p}, ![w].post = p, ![w].at = "read"]
       ELSE /\ run' = [run EXCEPT ![w].batch = @ \ {p}]
            /\ UNCHANGED job
    /\ UNCHANGED <<abandoned, account, lock, asked, timers, ghosts, used>>

\* attempt() reads the row and its account; an account that is not connected is final.
Read(w) ==
    /\ run[w].at = "read"
    /\ run' = [run EXCEPT ![w].tries = job[run[w].post].attempts,
                 ![w].consent = consent,
                 ![w].at = IF account = "CONNECTED" THEN "call" ELSE "never"]
    /\ UNCHANGED <<rowVars, account, lock, asked, timers, ghosts, used>>

\* The platform takes the post ...
Take(w) ==
    /\ run[w].at = "call"
    /\ known' = [known EXCEPT ![run[w].post] = @ + 1]
    /\ Goes(w, "taken")
    /\ UNCHANGED <<rowVars, account, lock, asked, timers, raced, consent, used>>

\* ... or refuses it, or was never asked.
Refuse(w, kind) ==
    /\ run[w].at = "call"
    /\ kind \in {"later", "never", "reauth"}
    /\ Goes(w, kind)
    /\ UNCHANGED <<rowVars, account, lock, asked, timers, ghosts, used>>

\* Its answer is written to the row.
Record(w) ==
    /\ run[w].at = "taken"
    /\ job' = [job EXCEPT ![run[w].post].status = "PUBLISHED", ![run[w].post].late = FALSE]
    /\ Returns(w)
    /\ UNCHANGED <<abandoned, account, lock, asked, timers, ghosts, used>>

Misses(w) == known' = [known EXCEPT ![run[w].post] = @ - 1]

\* The answer is lost, or the row cannot be written: for attempt() it is an error
\* like any other.
AnswerLost(w) ==
    /\ run[w].at = "taken"
    /\ Misses(w)
    /\ Goes(w, "later")
    /\ UNCHANGED <<rowVars, account, lock, asked, timers, raced, consent, used>>

\* Mutant of CanRetry: one try too many.
CanRetryOnceMore(w) == run[w].at = "later" /\ run[w].tries <= MaxAttempts

CanRetry(w) == run[w].at = "later" /\ run[w].tries < MaxAttempts

\* The catch of attempt(): back to the queue with a gap, or FAILED; by id.
Fail(w) ==
    /\ run[w].at \in {"later", "never", "reauth"}
    /\ job' = [job EXCEPT ![run[w].post] =
                  IF CanRetry(w)
                  THEN [@ EXCEPT !.status = "SCHEDULED", !.late = FALSE]
                  ELSE [@ EXCEPT !.status = "FAILED", !.late = FALSE]]
    /\ IF run[w].at = "reauth" THEN Goes(w, "mark") ELSE Returns(w)
    /\ UNCHANGED <<abandoned, account, lock, asked, timers, ghosts, used>>

Mark(w) ==
    /\ run[w].at = "mark"
    /\ account' = "NEEDS_REAUTH"
    /\ Returns(w)
    /\ UNCHANGED <<rowVars, lock, asked, timers, ghosts, used>>

Finish(w) ==
    /\ run[w].at = "batch" /\ run[w].batch = {}
    /\ Leaves(w)
    /\ lock' = Unlocked(w)
    /\ UNCHANGED <<rowVars, account, asked, timers, ghosts, used>>

\* The process dies, or the database fails the pass: the row stays as it is.
Die(w) ==
    /\ run[w].at # "idle"
    /\ used.deaths < MaxDeaths
    /\ used' = [used EXCEPT !.deaths = @ + 1]
    /\ IF run[w].at = "taken" THEN Misses(w) ELSE UNCHANGED known
    /\ Leaves(w)
    /\ lock' = Unlocked(w)
    /\ UNCHANGED <<rowVars, account, asked, timers, raced, consent>>

-----------------------------------------------------------------------------
(* Time *)

\* nextAttemptAt passes.
ComesDue(p) ==
    /\ job[p].status = "SCHEDULED" /\ ~job[p].late
    /\ job' = [job EXCEPT ![p].late = TRUE]
    /\ UNCHANGED <<account, run, lock, asked, timers, ghosts, abandoned, used>>

\* STUCK_AFTER_MS passes without a write to the row.
GrowsOld(p) ==
    /\ job[p].status = "PUBLISHING" /\ ~job[p].late
    /\ Slow \/ \A w \in Workers : ~InHand(w, p)
    /\ job' = [job EXCEPT ![p].late = TRUE]
    /\ UNCHANGED <<account, run, lock, asked, timers, ghosts, abandoned, used>>

-----------------------------------------------------------------------------
Pass(w) ==
    \/ Sweep(w) \/ Select(w) \/ (\E p \in Posts : Claim(w, p)) \/ Read(w)
    \/ Take(w) \/ (\E kind \in {"later", "never", "reauth"} : Refuse(w, kind))
    \/ Record(w) \/ AnswerLost(w) \/ Fail(w) \/ Mark(w) \/ Finish(w)

Next ==
    \/ \E w \in Workers : Begin(w) \/ Pass(w) \/ Lapse(w) \/ Die(w)
    \/ \E p \in Posts :
          \/ CreateReads(p) \/ CreateWrites(p) \/ PatchReads(p) \/ PatchWrites(p)
          \/ Cancel(p) \/ RetryReads(p) \/ RetryWrites(p)
          \/ ComesDue(p) \/ GrowsOld(p)
    \/ Connect \/ Disconnect
    \/ RefreshReads \/ MetricsReads \/ Refreshes
    \/ \E t \in {"refresh", "metrics"} : TokenRefused(t) \/ TimerEnds(t)

Spec == Init /\ [][Next]_vars

\* The timer keeps firing, a pass goes on until it ends or dies, calls have
\* timeouts, and time passes.
Fairness ==
    /\ WF_vars(\E w \in Workers : Begin(w))
    /\ \A w \in Workers : WF_vars(Pass(w))
    /\ \A p \in Posts : WF_vars(ComesDue(p)) /\ WF_vars(GrowsOld(p))

FairSpec == Spec /\ Fairness

-----------------------------------------------------------------------------
(* Properties *)

\* Types of the row, the account, the passes and the bookkeeping.
PublishingTypeOK ==
    /\ job \in [Posts -> [status : Status, attempts : Nat, late : BOOLEAN]]
    /\ account \in AccountStatus
    /\ run \in [Workers -> [at : Steps, batch : SUBSET Posts, post : Posts \cup {NoPost},
                            tries : Nat, consent : BOOLEAN]]
    /\ \A w \in Workers : run[w].post = NoPost
                          <=> run[w].at \in {"idle", "sweep", "select", "batch"}
    /\ lock \in Workers \cup {NoWorker}
    /\ asked \in [Requests -> [Posts -> Nat]]
    /\ timers \subseteq {"refresh", "metrics"}
    /\ known \in [Posts -> Nat] /\ raced \in [Posts -> Nat] /\ abandoned \in [Posts -> Nat]
    /\ consent \in BOOLEAN
    /\ used \in [deaths : 0..MaxDeaths, requests : 0..MaxRequests]

\* The claim "is what stops two ticks, or two workers, posting the same thing
\* twice": as long as no attempt outlasts STUCK_AFTER_MS, a post is on the
\* platform at most once when its row is PUBLISHED or an attempt holds the answer,
\* and not at all otherwise (waiting, cancelled, failed), but for the times the
\* database was never told and the times a "try again" was written over a row that
\* had moved on.  Overlapping passes and deaths add nothing to this.
TakenIsOnTheRow ==
    \A p \in Posts :
        known[p] <= raced[p]
            + IF \/ job[p].status = "PUBLISHED"
                 \/ \E w \in Workers : InHand(w, p) /\ run[w].at = "taken"
              THEN 1 ELSE 0

\* A post is tried MaxAttempts times, and once more each time a pass that held it
\* was given up for dead (or a "try again" was written over it).
TriesAreCounted ==
    \A p \in Posts : job[p].attempts <= MaxAttempts + abandoned[p] + raced[p]

\* After a disconnect nothing is sent through the account that was not being sent
\* already, whatever the timers and older attempts write to it, until the customer
\* connects it again.
NothingGoesOutWithdrawn ==
    \A w \in Workers : run[w].at \in {"call", "taken"} => run[w].consent

\* What the customer cancelled stays cancelled: no attempt that is still under way,
\* no pass and no timer brings it back, unless a "try again" was written over it.
CancelledStaysCancelled ==
    [][\A p \in Posts : job[p].status = "CANCELLED" =>
          job'[p].status = "CANCELLED" \/ raced'[p] > 0]_vars

\* A post that waits or is going out is published, failed or cancelled in the end.
EveryPostEnds ==
    \A p \in Posts : job[p].status \in {"SCHEDULED", "PUBLISHING"}
                     ~> job[p].status \in {"PUBLISHED", "FAILED", "CANCELLED"}
=============================================================================
