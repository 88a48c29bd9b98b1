--------------------------- MODULE GenerationQueue ---------------------------
(***************************************************************************)
(* QueueService and the part of BullMQ it relies on.  A job's id is the     *)
(* generation's id, so a queue holds at most one job of a generation, in    *)
(* one of four states.  "finished" is the tombstone: a completed or failed  *)
(* job that Redis keeps, and that swallows an add of the same id.           *)
(*                                                                         *)
(* A generation can have a job on two queues: the queue of its own          *)
(* capability, and for an ad the media.local queue its assembly runs on.    *)
(***************************************************************************)
EXTENDS GenerationRows

VARIABLES
  jobs,         \* Queue -> Gen -> JobState
  redis         \* TRUE while Redis answers

queueVars == <<jobs, redis>>

Queue == {"own", "assembly"}
JobState == {"none", "ready", "active", "finished"}

QueueInit ==
  /\ jobs = [q \in Queue |-> [g \in Gen |-> "none"]]
  /\ redis = TRUE

\* parentResumeCapability: an ad is stitched on media.local, a batch is gathered where it was planned.
ResumeQueue(g) == IF Kind[g] = "AD" THEN "assembly" ELSE "own"

\* Mutant of Clears: the tombstone is left where it is.
ClearsNothing(state) == state = "none"

\* clearFinishedJob only removes a job that is over.
Clears(state) == state \in {"none", "finished"}

\* enqueue never throws: an add that fails leaves a warning and no job.  While Redis
\* is away the tombstone cannot be cleared, and the add is lost or lands late.
Enqueue(q, g) ==
  \/ /\ Clears(jobs[q][g])
     /\ redis \/ jobs[q][g] = "none"
     /\ jobs' = [jobs EXCEPT ![q][g] = "ready"]
  \/ /\ ~redis \/ ~Clears(jobs[q][g])
     /\ UNCHANGED jobs

\* The consumer takes a job; the processor's return completes it.
TakeJob(q, g) ==
  /\ redis
  /\ jobs[q][g] = "ready"
  /\ jobs' = [jobs EXCEPT ![q][g] = "active"]

CompleteJob(q, g) ==
  jobs' = IF q \in Queue THEN [jobs EXCEPT ![q][g] = "finished"] ELSE jobs

\* A job whose lock lapsed is retried by BullMQ, or failed once it has stalled too often.
StallJob(q, g) ==
  IF q \in Queue
  THEN \E s \in {"ready", "finished"} : jobs' = [jobs EXCEPT ![q][g] = s]
  ELSE UNCHANGED jobs
=============================================================================
