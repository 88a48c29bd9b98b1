------------------------- MODULE GenerationScheduler -------------------------
(***************************************************************************)
(* What the worker runs on timers, and what customers and time do.         *)
(*                                                                         *)
(* The sweep and the dispatch run under a Postgres advisory lock, so there  *)
(* is one pass of each at a time.  A sweep selects its stale rows with one  *)
(* query and then reclaims them one by one; the heartbeatAt it selected is  *)
(* the claim token of each.  A pass is shorter than STALE_AFTER_MS, so a    *)
(* row it selected still carries that heartbeatAt exactly when it is still  *)
(* quiet: the token needs no value of its own.                             *)
(***************************************************************************)
EXTENDS GenerationWorker

VARIABLE
  swept         \* Gen -> what the sweep in progress selected the row as; "no" when it did not

schedulerVars == <<swept>>

SchedulerInit == swept = [g \in Gen |-> "no"]

-----------------------------------------------------------------------------
(* The API.                                                                *)

\* request: the row and the debit commit, then the id goes on its queue.
Request(g) ==
  /\ Kind[g] # "CHILD"
  /\ ~Exists(g)
  /\ CreateRow(g)
  /\ Enqueue("own", g)
  /\ UNCHANGED <<redis, workerVars, swept>>

CanCancel(g) == rows[g].status = "QUEUED"

Cancel(g) ==
  /\ CanCancel(g)
  /\ CancelRow(g)
  /\ UNCHANGED <<queueVars, workerVars, swept>>

-----------------------------------------------------------------------------
(* sweepStale.                                                             *)

HasActiveShot(p) == \E c \in Shots(p) : Active(c)

StaleRunning(g) ==
  /\ rows[g].status = "RUNNING"
  /\ rows[g].hb = "stale"
  /\ ~(IsParent(g) /\ rows[g].stage = "waiting" /\ HasActiveShot(g))

StaleQueued(g) == rows[g].status = "QUEUED" /\ rows[g].old

SweepSelect ==
  /\ \A g \in Gen : swept[g] = "no"
  /\ \E g \in Gen : StaleRunning(g) \/ StaleQueued(g)
  /\ swept' = [g \in Gen |-> IF StaleRunning(g) THEN "RUNNING"
                             ELSE IF StaleQueued(g) THEN "QUEUED" ELSE "no"]
  /\ UNCHANGED <<rowVars, queueVars, workerVars>>

\* Mutant of StaleGuard: the sweep trusts what it selected.
StaleGuardNone(g) == swept[g] # "no" /\ Active(g)

\* staleGuard: the row is still what the sweep selected, and has not been heard from since.
StaleGuard(g) ==
  CASE swept[g] = "RUNNING" -> rows[g].status = "RUNNING" /\ rows[g].hb = "stale"
    [] swept[g] = "QUEUED"  -> rows[g].status = "QUEUED" /\ rows[g].old
    [] OTHER                -> FALSE

\* Every shot of the saved plan is there and none is queued or running.
ReadyToAssemble(p) == IsParent(p) /\ Children(p) = Shots(p) /\ ~HasActiveShot(p)

Swept(g) == swept' = [swept EXCEPT ![g] = "no"]

SweepRequeue(g) ==
  /\ swept[g] = "RUNNING" /\ StaleGuard(g)
  /\ rows[g].attempts < MaxAttempts
  /\ ~ReadyToAssemble(g)
  /\ RequeueRow(g)
  /\ Enqueue("own", g)
  /\ Swept(g)
  /\ UNCHANGED <<ledger, redis, workerVars>>

SweepReassemble(g) ==
  /\ swept[g] = "RUNNING" /\ StaleGuard(g)
  /\ rows[g].attempts < MaxAttempts
  /\ ReadyToAssemble(g)
  /\ RetryAssemblyRow(g)
  /\ Enqueue(ResumeQueue(g), g)
  /\ Swept(g)
  /\ UNCHANGED <<ledger, redis, workerVars>>

SweepFail(g) ==
  /\ StaleGuard(g)
  /\ swept[g] = "RUNNING" => rows[g].attempts >= MaxAttempts
  /\ FailRow(g)
  /\ Swept(g)
  /\ UNCHANGED <<queueVars, workerVars>>

\* The guard no longer matches: somebody checked in, claimed or ended it.
SweepSkip(g) ==
  /\ swept[g] # "no"
  /\ ~StaleGuard(g)
  /\ Swept(g)
  /\ UNCHANGED <<rowVars, queueVars, workerVars>>

\* The pass ends half-way: a query threw, or the process died and released the lock.
SweepDies ==
  /\ \E g \in Gen : swept[g] # "no"
  /\ Fault("crash")
  /\ swept' = [g \in Gen |-> "no"]
  /\ UNCHANGED <<rowVars, queueVars, worker, paused, reports, pauses>>

-----------------------------------------------------------------------------
(* The dispatcher, while Redis answers.                                    *)

RedispatchOrphan(g) ==
  /\ redis
  /\ rows[g].status = "QUEUED"
  /\ Clears(jobs["own"][g])
  /\ Enqueue("own", g)
  /\ UNCHANGED <<rowVars, redis, workerVars, swept>>

WakeReadyParent(p) ==
  /\ redis
  /\ ReadyParent(p)
  /\ Clears(jobs[ResumeQueue(p)][p])
  /\ Enqueue(ResumeQueue(p), p)
  /\ UNCHANGED <<rowVars, redis, workerVars, swept>>

-----------------------------------------------------------------------------
(* Time and the outside world.                                             *)

\* A process that runs holds g, or a shot of g, and its timer keeps g's heartbeat.
KeptAlive(g) ==
  \E w \in Worker \ paused :
    worker[w].pc \in Holding /\ (worker[w].gen = g \/ ParentOf[worker[w].gen] = g)

\* STALE_AFTER_MS pass without a heartbeat.
Lapse(g) ==
  /\ rows[g].status = "RUNNING" /\ rows[g].hb = "fresh"
  /\ ~KeptAlive(g)
  /\ swept[g] = "no"
  /\ rows' = [rows EXCEPT ![g].hb = "stale"]
  /\ UNCHANGED <<ledger, queueVars, workerVars, swept>>

\* QUEUED_STALE_AFTER_MS have passed since the row was created; only a QUEUED row is asked.
\* Bounded: an instance without "age" is one in which nothing waits that long.
Age(g) ==
  /\ "age" \in FaultKinds /\ rows[g].status = "QUEUED" /\ ~rows[g].old
  /\ rows' = [rows EXCEPT ![g].old = TRUE]
  /\ UNCHANGED <<ledger, queueVars, workerVars, swept>>

RedisDown ==
  /\ redis /\ Fault("outage")
  /\ redis' = FALSE
  /\ UNCHANGED <<rowVars, jobs, worker, paused, reports, pauses, swept>>

RedisUp ==
  /\ ~redis
  /\ redis' = TRUE
  /\ UNCHANGED <<rowVars, jobs, workerVars, swept>>

\* Redis loses a job, or the process that was about to add it died first.
LoseJob(q, g) ==
  /\ jobs[q][g] = "ready" /\ Fault("loss")
  /\ jobs' = [jobs EXCEPT ![q][g] = "none"]
  /\ UNCHANGED <<rowVars, redis, worker, paused, reports, pauses, swept>>
=============================================================================
