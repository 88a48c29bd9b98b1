-------------------------- MODULE GenerationWorker --------------------------
(***************************************************************************)
(* GenerationRunner.run: one generation, from the claim to the end of the   *)
(* run, as the steps between which other workers, the scheduler and the API *)
(* can write the same row.  A worker is one slot of one process.  What it   *)
(* read when it claimed the row (attempts, stage) it keeps: handleFailure   *)
(* decides on that snapshot, not on the row.                                *)
(*                                                                         *)
(* A provider call, a pipeline's post-processing and a storage write are    *)
(* one step each, with the outcomes the code tells apart: done, a failure   *)
(* that another attempt could help ("retry"), one that it could not.        *)
(***************************************************************************)
EXTENDS GenerationQueue

CONSTANTS
  Worker,
  FaultKinds,   \* of "crash", "pause", "outage", "loss", "rollback": what may go wrong;
                \* and "age", which is not counted: rows may grow 90 minutes old
  MaxFaults,    \* how many times it may go wrong in one behaviour
  DirectMode    \* TRUE: while Redis is away the workers run QUEUED rows from the database

ASSUME WorkerAssumption == MaxFaults \in Nat /\ DirectMode \in BOOLEAN

VARIABLES
  worker,       \* Worker -> Run
  paused,       \* workers whose process is alive but not running: no timer fires
  reports,      \* parents a finished shot's progress report is on its way to
  faults,       \* faults so far
  pauses        \* how many of them were pauses

workerVars == <<worker, paused, reports, faults, pauses>>

Pcs == {"idle", "claim", "resume", "prepare", "enter", "pipeline", "dispatch", "stageWait",
        "share", "store", "succeed", "failed", "enqueue", "finally", "wakeStage", "wake", "return"}

Run == [pc : Pcs, gen : Gen \cup {None}, via : Queue \cup {"direct", None},
        resumed : BOOLEAN, composing : BOOLEAN, attempt : Nat, made : SUBSET Gen,
        share : Nat, err : {"none", "retry", "final"}, allDone : BOOLEAN]

Idle == [pc |-> "idle", gen |-> None, via |-> None, resumed |-> FALSE, composing |-> FALSE,
         attempt |-> 0, made |-> {}, share |-> 0, err |-> "none", allDone |-> FALSE]

WorkerInit ==
  /\ worker = [w \in Worker |-> Idle]
  /\ paused = {}
  /\ reports = {}
  /\ faults = 0
  /\ pauses = 0

Fault(kind) == kind \in FaultKinds /\ faults < MaxFaults /\ faults' = faults + 1

\* The steps during which the run's heartbeat timer is set.
Holding == {"prepare", "enter", "pipeline", "dispatch", "stageWait", "share", "store",
            "succeed", "failed", "enqueue", "finally"}

\* Worker w is at pc, in a process that runs.
At(w, pc) == worker[w].pc = pc /\ w \notin paused

Goto(w, pc) == worker' = [worker EXCEPT ![w].pc = pc]

\* A thrown error reaches the catch block with its kind.
Throw(w, kind) == worker' = [worker EXCEPT ![w].pc = "failed", ![w].err = kind]

\* The run returns: the slot is free and the job, if the slot still owns one, is complete.
Release(w) ==
  /\ worker' = [worker EXCEPT ![w] = Idle]
  /\ CompleteJob(worker[w].via, worker[w].gen)

-----------------------------------------------------------------------------
(* Taking a generation: from a queue, or straight from the database.       *)

Take(w, q, g) ==
  /\ At(w, "idle")
  /\ TakeJob(q, g)
  /\ worker' = [worker EXCEPT ![w] = [Idle EXCEPT !.pc = "claim", !.gen = g, !.via = q]]
  /\ UNCHANGED <<rowVars, redis, paused, reports, faults, pauses>>

\* wakeReadyParents' query: a waiting parent none of whose shots is queued or running.
ReadyParent(p) ==
  /\ rows[p].status = "RUNNING"
  /\ IsParent(p)
  /\ rows[p].stage = "waiting"
  /\ \A c \in Shots(p) : ~Active(c)

TakeDirect(w, g) ==
  /\ DirectMode /\ ~redis
  /\ At(w, "idle")
  /\ rows[g].status = "QUEUED" \/ ReadyParent(g)
  /\ worker' = [worker EXCEPT ![w] = [Idle EXCEPT !.pc = "claim", !.gen = g, !.via = "direct"]]
  /\ UNCHANGED <<rowVars, queueVars, paused, reports, faults, pauses>>

Start(w) ==
  LET g == worker[w].gen IN
  /\ At(w, "claim")
  /\ IF CanStart(g)
     THEN /\ StartRow(g)
          /\ worker' = [worker EXCEPT ![w].pc = "prepare", ![w].attempt = rows[g].attempts + 1,
                                      ![w].composing = (rows[g].stage = "composing")]
     ELSE Goto(w, "resume") /\ UNCHANGED rows
  /\ UNCHANGED <<ledger, queueVars, paused, reports, faults, pauses>>

\* Not QUEUED: a waiting parent is the one other thing run() may claim; else the job is dropped.
Resume(w) ==
  LET g == worker[w].gen IN
  /\ At(w, "resume")
  /\ IF CanResume(g)
     THEN /\ ResumeRow(g)
          /\ worker' = [worker EXCEPT ![w].pc = "prepare", ![w].attempt = rows[g].attempts + 1,
                                      ![w].composing = TRUE, ![w].resumed = TRUE]
          /\ UNCHANGED jobs
     ELSE Release(w) /\ UNCHANGED rows
  /\ UNCHANGED <<ledger, redis, paused, reports, faults, pauses>>

\* The timer: the row, and the parent of a shot, have been heard from.
Heartbeat(w) ==
  LET g == worker[w].gen IN
  /\ worker[w].pc \in Holding /\ w \notin paused
  /\ \E h \in {g, ParentOf[g]} \cap Gen : rows[h].status = "RUNNING" /\ rows[h].hb # "fresh"
  /\ Beat({g, ParentOf[g]})
  /\ UNCHANGED <<ledger, queueVars, workerVars>>

-----------------------------------------------------------------------------
(* The body of the run.                                                    *)

\* Stage preparing; signing the inputs may throw.
Prepare(w) ==
  /\ At(w, "prepare")
  /\ SetStage(worker[w].gen, "working")
  /\ Goto(w, "enter") \/ \E k \in {"retry", "final"} : Throw(w, k)
  /\ UNCHANGED <<ledger, queueVars, paused, reports, faults, pauses>>

Enter(w) ==
  LET g == worker[w].gen IN
  /\ At(w, "enter")
  /\ SetStage(g, IF worker[w].resumed THEN "composing" ELSE "working")
  /\ Goto(w, IF IsParent(g) /\ ~worker[w].resumed THEN "dispatch" ELSE "pipeline")
  /\ UNCHANGED <<ledger, queueVars, paused, reports, faults, pauses>>

\* A standalone row or a shot: the pipeline returns its artifacts.
Produce(w) ==
  /\ At(w, "pipeline")
  /\ ~IsParent(worker[w].gen)
  /\ Goto(w, "store")
  /\ UNCHANGED <<rowVars, queueVars, paused, reports, faults, pauses>>

\* The planner, a provider or ffmpeg fails.
PipelineFails(w) ==
  /\ At(w, "pipeline") \/ (At(w, "dispatch") /\ worker[w].made = {})
  /\ \E k \in {"retry", "final"} : Throw(w, k)
  /\ UNCHANGED <<rowVars, queueVars, paused, reports, faults, pauses>>

\* createChild: the upsert, then the enqueue of a shot that is still QUEUED.
DispatchShot(w) ==
  /\ At(w, "dispatch")
  /\ \E c \in Shots(worker[w].gen) \ worker[w].made :
       /\ UpsertChild(c)
       /\ IF ~Exists(c) \/ rows[c].status = "QUEUED" THEN Enqueue("own", c) ELSE UNCHANGED jobs
       /\ worker' = [worker EXCEPT ![w].made = @ \cup {c}]
  /\ UNCHANGED <<redis, paused, reports, faults, pauses>>

\* Every shot is out: the parent steps aside.
Wait(w) ==
  LET g == worker[w].gen IN
  /\ At(w, "dispatch")
  /\ worker[w].made = Shots(g)
  /\ WaitRow(g)
  /\ Goto(w, "stageWait")
  /\ UNCHANGED <<ledger, queueVars, paused, reports, faults, pauses>>

StageWait(w) ==
  /\ At(w, "stageWait")
  /\ SetStage(worker[w].gen, "waiting")
  /\ Release(w)
  /\ UNCHANGED <<ledger, redis, paused, reports, faults, pauses>>

\* Mutant of ShotsComplete: orderedAdChildren does not count the shots.
ShotsSomeThere(p) == Children(p) # {}

\* An ad needs every shot of its plan, and every one of them rendered.
ShotsComplete(p) == Children(p) = Shots(p)
ShotsRendered(p) == \A c \in Children(p) : rows[c].status = "SUCCEEDED"

AssembleAd(w) ==
  LET g == worker[w].gen IN
  /\ At(w, "pipeline") /\ worker[w].resumed
  /\ Kind[g] = "AD"
  /\ IF ShotsComplete(g) /\ ShotsRendered(g)
     THEN Goto(w, "store")
     ELSE \E k \in {"retry", "final"} : (~ShotsComplete(g) => k = "retry") /\ Throw(w, k)
  /\ UNCHANGED <<rowVars, queueVars, paused, reports, faults, pauses>>

\* Math.round of credits * failed / children, halves up.
Share(credits, failed, children) == (2 * credits * failed + children) \div (2 * children)

GatherBatch(w) ==
  LET g      == worker[w].gen
      done   == {c \in Children(g) : rows[c].status = "SUCCEEDED"}
      failed == Children(g) \ done
  IN
  /\ At(w, "pipeline") /\ worker[w].resumed
  /\ Kind[g] = "BATCH"
  /\ \/ done = {} /\ Throw(w, "retry")
     \/ done # {} /\ failed = {} /\ Goto(w, "store")
     \/ done # {} /\ failed # {}
        /\ worker' = [worker EXCEPT ![w].pc = "share",
                        ![w].share = Share(Price[g], Cardinality(failed), Cardinality(Children(g)))]
  /\ UNCHANGED <<rowVars, queueVars, paused, reports, faults, pauses>>

RefundShare(w) ==
  /\ At(w, "share")
  /\ ShareRow(worker[w].gen, worker[w].share)
  /\ Goto(w, "store")
  /\ UNCHANGED <<queueVars, paused, reports, faults, pauses>>

\* Stage storing, then the writes to object storage (a batch has none: only its stage write
\* can fail); a shot reports to its parent unawaited.
Store(w) ==
  LET g == worker[w].gen IN
  /\ At(w, "store")
  /\ SetStage(g, "working")
  /\ \/ /\ Goto(w, "succeed")
        /\ reports' = IF Kind[g] = "CHILD" THEN reports \cup {ParentOf[g]} ELSE reports
        /\ UNCHANGED faults
     \/ /\ \E k \in {"retry", "final"} : Throw(w, k)
        /\ IF Kind[g] = "BATCH" THEN Fault("rollback") ELSE UNCHANGED faults
        /\ UNCHANGED reports
  /\ UNCHANGED <<ledger, queueVars, paused, pauses>>

\* reportShots: the progress write and the stage write, in their own time.
Report(p) ==
  /\ p \in reports
  /\ rows' = Staged([rows EXCEPT ![p].hb = IF rows[p].status = "RUNNING" THEN "fresh" ELSE @],
                    p, "waiting")
  /\ reports' = reports \ {p}
  /\ UNCHANGED <<ledger, queueVars, worker, paused, faults, pauses>>

Succeed(w) ==
  LET g == worker[w].gen IN
  /\ At(w, "succeed")
  /\ \/ /\ CanEnd(g)
        /\ \E d \in {0, Premium[g]} : SucceedRow(g, d)
        /\ Goto(w, "finally")
        /\ UNCHANGED faults
     \/ \* ConflictError: somebody else ended it.
        /\ ~CanEnd(g)
        /\ Throw(w, "final")
        /\ UNCHANGED <<rowVars, faults>>
     \/ \* The transaction rolled back: a timeout is retried, anything else is not.
        /\ Fault("rollback")
        /\ \E k \in {"retry", "final"} : Throw(w, k)
        /\ UNCHANGED rowVars
  /\ UNCHANGED <<queueVars, paused, reports, pauses>>

-----------------------------------------------------------------------------
(* handleFailure, and the wake-up in the finally block.                    *)

CanRetry(run) == run.err = "retry" /\ run.attempt < MaxAttempts

\* A parent claimed for assembly goes back to waiting, anything else to the shelf.
Retry(w) ==
  LET g        == worker[w].gen
      assembly == IsParent(g) /\ worker[w].composing
  IN
  /\ At(w, "failed")
  /\ CanRetry(worker[w])
  /\ \/ assembly  /\ CanRetryAssembly(g)  /\ RetryAssemblyRow(g) /\ Goto(w, "enqueue")
     \/ ~assembly /\ CanRequeue(g)        /\ RequeueRow(g)       /\ Goto(w, "enqueue")
     \/ assembly  /\ ~CanRetryAssembly(g) /\ UNCHANGED rows      /\ Goto(w, "finally")
     \/ ~assembly /\ ~CanRequeue(g)       /\ UNCHANGED rows      /\ Goto(w, "finally")
  /\ UNCHANGED <<ledger, queueVars, paused, reports, faults, pauses>>

\* Still inside the run of the job that failed: on that queue the add finds it active.
EnqueueRetry(w) ==
  LET g == worker[w].gen
      q == IF IsParent(g) /\ worker[w].composing THEN ResumeQueue(g) ELSE "own"
  IN
  /\ At(w, "enqueue")
  /\ Enqueue(q, g)
  /\ Goto(w, "finally")
  /\ UNCHANGED <<rowVars, redis, paused, reports, faults, pauses>>

\* No attempt left, or none that could help: fail and refund, unless it already ended.
Fail(w) ==
  LET g == worker[w].gen IN
  /\ At(w, "failed")
  /\ ~CanRetry(worker[w])
  /\ IF CanEnd(g) THEN FailRow(g) ELSE UNCHANGED rowVars
  /\ Goto(w, "finally")
  /\ UNCHANGED <<queueVars, paused, reports, faults, pauses>>

\* The timer is cleared; a shot reads its siblings before the run returns.
Finally(w) ==
  LET g == worker[w].gen IN
  /\ At(w, "finally")
  /\ IF Kind[g] = "CHILD"
     THEN /\ worker' = [worker EXCEPT ![w].pc = "wakeStage",
                          ![w].allDone = \A c \in Children(ParentOf[g]) : Terminal(c)]
          /\ UNCHANGED jobs
     ELSE Release(w)
  /\ UNCHANGED <<rowVars, redis, paused, reports, faults, pauses>>

\* The parent's line is narrated whatever the parent is doing.
WakeStage(w) ==
  /\ At(w, "wakeStage")
  /\ SetStage(ParentOf[worker[w].gen], "waiting")
  /\ IF worker[w].allDone THEN Goto(w, "wake") /\ UNCHANGED jobs ELSE Release(w)
  /\ UNCHANGED <<ledger, redis, paused, reports, faults, pauses>>

\* wakeParent's enqueue, made when every sibling had ended.
Wake(w) ==
  LET p == ParentOf[worker[w].gen] IN
  /\ At(w, "wake")
  /\ IF rows[p].status = "RUNNING" /\ rows[p].stage = "waiting"
     THEN Enqueue(ResumeQueue(p), p)
     ELSE UNCHANGED jobs
  /\ Goto(w, "return")
  /\ UNCHANGED <<rowVars, redis, paused, reports, faults, pauses>>

Return(w) ==
  /\ At(w, "return")
  /\ Release(w)
  /\ UNCHANGED <<rowVars, redis, paused, reports, faults, pauses>>

-----------------------------------------------------------------------------
(* What happens to a process.                                              *)

\* The process dies with the run; BullMQ notices the stalled job.
Crash(w) ==
  /\ worker[w].pc # "idle"
  /\ Fault("crash")
  /\ worker' = [worker EXCEPT ![w] = Idle]
  /\ StallJob(worker[w].via, worker[w].gen)
  /\ UNCHANGED <<rowVars, redis, paused, reports, pauses>>

\* The process stops long enough for its job's lock to lapse, and is still there.
Pause(w) ==
  /\ worker[w].pc # "idle" /\ w \notin paused
  /\ Fault("pause")
  /\ pauses' = pauses + 1
  /\ paused' = paused \cup {w}
  /\ StallJob(worker[w].via, worker[w].gen)
  /\ worker' = [worker EXCEPT ![w].via = "direct"]
  /\ UNCHANGED <<rowVars, redis, reports>>

Unpause(w) ==
  /\ w \in paused
  /\ paused' = paused \ {w}
  /\ UNCHANGED <<rowVars, queueVars, worker, reports, faults, pauses>>
=============================================================================
