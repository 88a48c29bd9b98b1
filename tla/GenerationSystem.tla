-------------------------- MODULE GenerationSystem --------------------------
(***************************************************************************)
(* The generation pipeline as a whole: the API, the queue, the workers, the *)
(* sweeper and the dispatcher over one table, and what they must never do   *)
(* to a customer's credits and work.                                       *)
(***************************************************************************)
EXTENDS GenerationScheduler

vars == <<rows, ledger, jobs, redis, worker, paused, reports, faults, pauses, swept>>

Init == RowsInit /\ QueueInit /\ WorkerInit /\ SchedulerInit

Api(g) == Request(g) \/ Cancel(g)

RunStep(w) ==
  \/ Start(w) \/ Resume(w) \/ Prepare(w) \/ Enter(w)
  \/ Produce(w) \/ PipelineFails(w) \/ DispatchShot(w) \/ Wait(w) \/ StageWait(w)
  \/ AssembleAd(w) \/ GatherBatch(w) \/ RefundShare(w) \/ Store(w) \/ Succeed(w)
  \/ Retry(w) \/ EnqueueRetry(w) \/ Fail(w)
  \/ Finally(w) \/ WakeStage(w) \/ Wake(w) \/ Return(w)

Sweep(g) == SweepRequeue(g) \/ SweepReassemble(g) \/ SweepFail(g) \/ SweepSkip(g)

Dispatch(g) == RedispatchOrphan(g) \/ WakeReadyParent(g)

Environment ==
  \/ \E g \in Gen : Lapse(g) \/ Age(g)
  \/ (\E w \in Worker : Crash(w) \/ Pause(w) \/ Unpause(w)) /\ UNCHANGED swept
  \/ SweepDies
  \/ RedisDown \/ RedisUp
  \/ \E q \in Queue, g \in Gen : LoseJob(q, g)

WorkerStep ==
  \/ \E w \in Worker, g \in Gen : (\E q \in Queue : Take(w, q, g)) \/ TakeDirect(w, g)
  \/ \E w \in Worker : RunStep(w) \/ Heartbeat(w)
  \/ \E p \in Gen : Report(p)

Next ==
  \/ \E g \in Gen : Api(g)
  \/ WorkerStep /\ UNCHANGED swept
  \/ SweepSelect
  \/ \E g \in Gen : Sweep(g) \/ Dispatch(g)
  \/ Environment

Spec == Init /\ [][Next]_vars

-----------------------------------------------------------------------------
(* Fairness.  A worker that runs takes its next step; the timers of the     *)
(* sweeper and the dispatcher go off; a queue is served in order, so a job  *)
(* that keeps being ready is taken; a dead worker's heartbeat grows old; a  *)
(* paused process comes back.  Nothing is assumed of the API, of a row      *)
(* growing 90 minutes old, of unawaited reports, or of Redis.               *)

Fairness ==
  /\ \A w \in Worker : WF_vars(RunStep(w) /\ UNCHANGED swept)
  /\ \A w \in Worker : WF_vars(Unpause(w) /\ UNCHANGED swept)
  /\ \A g \in Gen : SF_vars((\E w \in Worker : Take(w, "own", g) \/ TakeDirect(w, g)) /\ UNCHANGED swept)
  /\ \A g \in {p \in Gen : ResumeQueue(p) = "assembly"} :
       SF_vars((\E w \in Worker : Take(w, "assembly", g)) /\ UNCHANGED swept)
  /\ \A g \in Gen : WF_vars(Dispatch(g))
  /\ \A g \in Gen : WF_vars(Lapse(g))
  /\ WF_vars(SweepSelect)
  /\ \A g \in Gen : WF_vars(Sweep(g))

FairSpec == Spec /\ Fairness

-----------------------------------------------------------------------------
(* Properties.                                                             *)

\* Every variable keeps its type: the columns, the queue states and the runs' snapshots.
TypeOK ==
  /\ rows \in [Gen -> Row]
  /\ ledger \in [Gen -> Entries]
  /\ jobs \in [Queue -> [Gen -> JobState]]
  /\ redis \in BOOLEAN
  /\ worker \in [Worker -> Run]
  /\ paused \subseteq Worker
  /\ reports \subseteq Gen
  /\ faults \in Nat
  /\ pauses \in Nat
  /\ swept \in [Gen -> {"no", "RUNNING", "QUEUED"}]

\* What the wallet has paid for a row is what the row says it costs: its price from the
\* moment it exists, its (possibly downgraded) credits once it succeeded, nothing once it
\* failed or was cancelled, however many workers, sweeps and cancellations raced for it.
\* (A batch gives shares back before it ends; see ShareComesBackOnce.)
PaidMatchesRow ==
  \A g \in Gen : Kind[g] # "BATCH" =>
    Paid(g) = CASE rows[g].status \in {"ABSENT", "FAILED", "CANCELLED"} -> 0
                [] rows[g].status \in {"QUEUED", "RUNNING", "SUCCEEDED"} -> rows[g].credits

\* A row never leaves a terminal state: a late answer, a second sweep or a zombie's
\* retry cannot revive, fail or deliver what already ended (throwTerminalConflict).
TerminalIsFinal ==
  [][\A g \in Gen : Terminal(g) => rows'[g].status = rows[g].status]_vars

\* The steps in which a run does the work it claimed.
Working == {"prepare", "enter", "pipeline", "dispatch", "share", "store", "succeed"}

\* Unless a process was paused, two runs never work on the same standalone row or shot: start()'s
\* conditional update makes every worker but one drop the job, by whatever road the job arrived.
OneRunPerRow ==
  pauses = 0 =>
    \A v, w \in Worker :
      /\ worker[v].pc \in Working /\ worker[w].pc \in Working
      /\ worker[v].gen = worker[w].gen /\ ~IsParent(worker[v].gen)
      => v = w

\* A sweep does not reclaim a row that checked in after the sweep selected it.
SweepSparesTheLiving ==
  [][\A g \in Gen :
       swept[g] = "RUNNING" /\ swept'[g] = "no" /\ rows[g].status = "RUNNING" /\ rows[g].hb = "fresh"
         => rows'[g].status = "RUNNING"]_vars

\* An ad that succeeded was made from every shot of its plan, all of them rendered,
\* although shots are created one by one and each may wake the parent at any time.
AdIsWhole ==
  \A p \in Gen : Kind[p] = "AD" /\ rows[p].status = "SUCCEEDED"
                   => \A c \in Shots(p) : rows[c].status = "SUCCEEDED"

\* A replayed assembly cannot hand the failed share of a batch back twice (refundShare's own key):
\* a batch that gave a share back still paid for at least one photo until it ended.
ShareComesBackOnce ==
  \A p \in Gen : Kind[p] = "BATCH" =>
    LET n == Cardinality(Shots(p)) IN ledger[p].share <= Share(Price[p], n - 1, n)

\* Every generation that was accepted, and every shot, ends: whatever job was lost, worker
\* died or wake-up went missing, the sweeper and the dispatcher bring it to a terminal state, which
\* it does not leave (TerminalIsFinal).
EveryGenerationEnds == <>[](\A g \in Gen : ~Active(g))

\* The service implements the abstract hold: held once, then captured or released once.
HoldOf(g) ==
  CASE rows[g].status = "ABSENT"                 -> "none"
    [] rows[g].status \in {"QUEUED", "RUNNING"} -> "held"
    [] rows[g].status = "SUCCEEDED"              -> "captured"
    [] OTHER                                     -> "released"

CH == INSTANCE CreditHold WITH
        hold <- [g \in Gen |-> HoldOf(g)],
        paid <- [g \in Gen |-> Paid(g)]

ImplementsCreditHold == CH!Spec
=============================================================================
