---------------------------- MODULE ProviderCalls ----------------------------
(***************************************************************************)
(* One paid operation of one generation: callWithFallback over the router's *)
(* candidates and the ProviderAttemptJournal, run by run.  The router may   *)
(* answer any set of candidates (its own module is ProviderRouter): what    *)
(* the journal promises does not depend on who is healthy.                 *)
(*                                                                         *)
(* The journal's rows of the operation are, for each provider, the sequence *)
(* of its submissions.  Next to what the row says stands what is true at    *)
(* the vendor (job), which no code reads: it is what the journal is for.    *)
(*                                                                         *)
(* A run is one attempt of the generation, on a worker.  Runs follow each   *)
(* other, unless a worker that was given up for dead is still there.        *)
(***************************************************************************)
EXTENDS Integers, Sequences, FiniteSets

CONSTANTS
  Worker,
  Provider,
  None,         \* no provider
  Direct,       \* providers that answer the POST itself and never report a job id
  MaxRuns,      \* MAX_ATTEMPTS
  MaxOverlaps,  \* how many runs may start while another is still going
  MaxFaults     \* crashes and failed database writes

ASSUME CallsAssumption ==
  /\ None \notin Provider
  /\ Direct \subseteq Provider
  /\ MaxRuns \in Nat \ {0} /\ MaxOverlaps \in Nat /\ MaxFaults \in Nat

VARIABLES
  journal,      \* Provider -> Seq(Attempt), by submissionNo
  run,          \* Worker -> Run
  op,           \* "open" until the generation ended
  runs,         \* runs started
  overlaps,     \* of them, those that started beside another
  mishaps       \* faults so far

vars == <<journal, run, op, runs, overlaps, mishaps>>

\* job: the vendor has nothing, works on it, made it, or can be asked for nothing more.
Attempt == [status : {"SUBMITTING", "SUBMITTED", "SUCCEEDED", "FAILED"}, known : BOOLEAN,
            job : {"none", "live", "made", "failed"}]

Pcs == {"idle", "route", "outstanding", "next", "begin", "create", "post", "accepted", "poll",
        "settle", "guard", "decide", "done"}

\* PROVIDER_DOWN; RETRYABLE or RATE_LIMITED; a refusal of the request; SUBMISSION_UNKNOWN;
\* INVALID_INPUT of an adapter.
ErrorKinds == {"DOWN", "RETRYABLE", "REFUSED", "UNKNOWN", "INVALID"}
Retryable(kind) == kind \in {"DOWN", "RETRYABLE"}

\* sure: the error carries the proof that the vendor has no job.
Run == [pc : Pcs, cands : SUBSET Provider, key : Provider \cup {None}, no : Nat,
        err : ErrorKinds \cup {"none"}, sure : BOOLEAN]

Off == [pc |-> "idle", cands |-> {}, key |-> None, no |-> 0, err |-> "none", sure |-> FALSE]

Init ==
  /\ journal = [k \in Provider |-> <<>>]
  /\ run = [w \in Worker |-> Off]
  /\ op = "open"
  /\ runs = 0
  /\ overlaps = 0
  /\ mishaps = 0

\* Mutant of Open: a job that was made is not looked for.
OpenInFlight(a) == a.status \in {"SUBMITTING", "SUBMITTED"}

\* OPEN: what was submitted, or may have been, and has not definitely failed.
Open(a) == a.status # "FAILED"
Unsettled == {a \in Provider \X (1..MaxRuns) : a[2] \in DOMAIN journal[a[1]] /\ Open(journal[a[1]][a[2]])}

At(w, pc) == run[w].pc = pc
Goto(w, pc) == run' = [run EXCEPT ![w].pc = pc]
Mishap == mishaps < MaxFaults /\ mishaps' = mishaps + 1

\* The attempt the run of w holds.
Mine(w) == journal[run[w].key][run[w].no]
SetMine(w, a) == journal' = [journal EXCEPT ![run[w].key][run[w].no] = a]

\* A call throws: to the catch block of the candidate's turn.  The router hears of it first.
Throw(w, kind, sure) ==
  run' = [run EXCEPT ![w].pc = IF run[w].no = 0 THEN "decide" ELSE "guard",
                     ![w].err = kind, ![w].sure = sure]

\* The run ends with an error: another run, while there are any left, if it may help.
EndRun(w, kind) ==
  /\ run' = [run EXCEPT ![w] = Off]
  /\ op' = IF Retryable(kind) /\ runs < MaxRuns THEN op ELSE "over"

-----------------------------------------------------------------------------
(* A run reaches its operation.                                            *)

StartRun(w) ==
  /\ op = "open" /\ At(w, "idle") /\ runs < MaxRuns
  /\ runs' = runs + 1
  /\ IF \A v \in Worker : At(v, "idle")
     THEN UNCHANGED overlaps
     ELSE overlaps < MaxOverlaps /\ overlaps' = overlaps + 1
  /\ Goto(w, "route")
  /\ UNCHANGED <<journal, op, mishaps>>

\* Who is a candidate depends on the rows, the breakers, the constraint and the steering.
Route(w) ==
  /\ At(w, "route")
  /\ \E found \in SUBSET Provider :
       run' = [run EXCEPT ![w].pc = "outstanding", ![w].cands = found]
  /\ UNCHANGED <<journal, op, runs, overlaps, mishaps>>

\* outstanding: an accepted job is the only candidate, routed or not; one that cannot be named,
\* or whose provider is gone, ends the generation.
Outstanding(w) ==
  /\ At(w, "outstanding")
  /\ \/ Unsettled = {} /\ Goto(w, "next") /\ UNCHANGED op
     \/ \E a \in Unsettled :
          /\ Unsettled = {a} /\ journal[a[1]][a[2]].known
          /\ run' = [run EXCEPT ![w].pc = "next", ![w].cands = {a[1]}]
          /\ UNCHANGED op
     \/ /\ Unsettled # {}
        /\ \/ Cardinality(Unsettled) > 1
           \/ \E a \in Unsettled : ~journal[a[1]][a[2]].known \/ a[1] \notin run[w].cands
        /\ EndRun(w, "UNKNOWN")
  /\ UNCHANGED <<journal, runs, overlaps, mishaps>>

\* The next candidate, unless there is none or the shared budget is spent.
Candidate(w) ==
  /\ At(w, "next")
  /\ \/ \E k \in run[w].cands :
          /\ run' = [run EXCEPT ![w].pc = "begin", ![w].key = k, ![w].cands = @ \ {k},
                                ![w].no = 0, ![w].err = "none", ![w].sure = FALSE]
          /\ UNCHANGED op
     \/ run[w].cands # {} /\ EndRun(w, "RETRYABLE")
     \/ run[w].cands = {} /\ EndRun(w, "DOWN")
  /\ UNCHANGED <<journal, runs, overlaps, mishaps>>

-----------------------------------------------------------------------------
(* One candidate's turn.                                                   *)

\* begin reads the provider's latest submission: resumed, refused, or followed by a new one.
Begin(w) ==
  LET k == run[w].key
      n == Len(journal[k])
  IN
  /\ At(w, "begin")
  /\ \/ /\ n > 0 /\ Open(journal[k][n]) /\ journal[k][n].known
        /\ run' = [run EXCEPT ![w].pc = "poll", ![w].no = n]
     \/ /\ n > 0 /\ Open(journal[k][n]) /\ ~journal[k][n].known
        /\ Throw(w, "UNKNOWN", FALSE)
     \/ /\ n > 0 => ~Open(journal[k][n])
        /\ run' = [run EXCEPT ![w].pc = "create", ![w].no = n + 1]
  /\ UNCHANGED <<journal, op, runs, overlaps, mishaps>>

NewAttempt == [status |-> "SUBMITTING", known |-> FALSE, job |-> "none"]

\* The row, before the POST.  The submission number is unique; a create that fails, whether
\* or not the row is there, is an error like any other and leaves the run without an attempt.
Create(w) ==
  LET k == run[w].key
      new == Len(journal[k]) < run[w].no
  IN
  /\ At(w, "create")
  /\ \/ /\ new
        /\ journal' = [journal EXCEPT ![k] = Append(@, NewAttempt)]
        /\ Goto(w, "post")
        /\ UNCHANGED mishaps
     \/ /\ run' = [run EXCEPT ![w].pc = "decide", ![w].err = "RETRYABLE", ![w].no = 0]
        /\ IF new
           THEN Mishap /\ journal' \in {journal, [journal EXCEPT ![k] = Append(@, NewAttempt)]}
           ELSE UNCHANGED <<journal, mishaps>>
  /\ UNCHANGED <<op, runs, overlaps>>

\* The adapter's POST.
Post(w) ==
  LET a == Mine(w) IN
  /\ At(w, "post")
  /\ \/ \* Nothing was sent, or the vendor answered with a 4xx or a refusal.
        \E kind \in {"DOWN", "RETRYABLE", "REFUSED", "INVALID"} :
          Throw(w, kind, TRUE) /\ UNCHANGED journal
     \/ \* No answer, or one that says nothing about the job: it may be running.
        /\ \E job \in {"none", "live"} : SetMine(w, [a EXCEPT !.job = job])
        /\ Throw(w, "RETRYABLE", FALSE)
     \/ /\ run[w].key \notin Direct
        /\ SetMine(w, [a EXCEPT !.job = "live"])
        /\ Goto(w, "accepted")
     \/ /\ run[w].key \in Direct
        /\ SetMine(w, [a EXCEPT !.job = "made"])
        /\ Goto(w, "settle")
  /\ UNCHANGED <<op, runs, overlaps, mishaps>>

\* onSubmitted: the id is saved before anybody waits for the job.
Submitted(w) ==
  LET a == Mine(w) IN
  /\ At(w, "accepted")
  /\ \/ /\ a.status = "SUBMITTING"
        /\ SetMine(w, [a EXCEPT !.status = "SUBMITTED", !.known = TRUE])
        /\ Goto(w, "poll")
        /\ UNCHANGED mishaps
     \/ /\ (a.status # "SUBMITTING" /\ UNCHANGED mishaps) \/ Mishap
        /\ Throw(w, "UNKNOWN", FALSE)
        /\ UNCHANGED journal
  /\ UNCHANGED <<op, runs, overlaps>>

\* settled: a late error does not downgrade a success, nor a late answer revive a failure.
Settled(a, outcome) ==
  IF a.status \in {"SUBMITTING", "SUBMITTED", outcome} THEN [a EXCEPT !.status = outcome] ELSE a

\* The wait for the job, until the vendor decides, the connection fails or the budget is spent.
Poll(w) ==
  LET a == Mine(w) IN
  /\ At(w, "poll")
  /\ \/ /\ a.job \in {"live", "made"}
        /\ SetMine(w, [a EXCEPT !.job = "made"])
        /\ Goto(w, "settle")
     \/ \* The vendor gives the job up, or what it made cannot be used.
        /\ SetMine(w, [Settled(a, "FAILED") EXCEPT !.job = "failed"])
        /\ \E kind \in {"RETRYABLE", "REFUSED"} : Throw(w, kind, FALSE)
     \/ \E kind \in {"DOWN", "RETRYABLE", "REFUSED"} : Throw(w, kind, FALSE) /\ UNCHANGED journal
  /\ UNCHANGED <<op, runs, overlaps, mishaps>>

Settle(w) ==
  /\ At(w, "settle")
  /\ \/ /\ SetMine(w, Settled(Mine(w), "SUCCEEDED"))
        /\ Goto(w, "done")
        /\ UNCHANGED mishaps
     \/ /\ Mishap
        /\ Throw(w, "RETRYABLE", FALSE)
        /\ UNCHANGED journal
  /\ UNCHANGED <<op, runs, overlaps>>

\* Mutant of Rejected: no answer is taken for a refusal.
RejectedWhenRetryable(a, kind, sure) == a.status = "SUBMITTING"

\* rejectBeforeAcceptance: a 4xx, a refusal or a local error proves that no job is live.
Rejected(a, kind, sure) == a.status = "SUBMITTING" /\ sure

\* guardFailure: only an attempt that definitely failed lets the fallback go on.
GuardFailure(w) ==
  LET a    == Mine(w)
      kind == run[w].err
  IN
  /\ At(w, "guard")
  /\ \/ /\ a.status = "FAILED"
        /\ Goto(w, "decide")
        /\ UNCHANGED <<journal, op>>
     \/ /\ Rejected(a, kind, run[w].sure)
        /\ SetMine(w, Settled(a, "FAILED"))
        /\ Goto(w, "decide")
        /\ UNCHANGED op
     \/ /\ a.status = "SUBMITTED" /\ Retryable(kind)
        /\ EndRun(w, kind)
        /\ UNCHANGED journal
     \/ /\ a.status # "FAILED" /\ ~Rejected(a, kind, run[w].sure)
        /\ ~(a.status = "SUBMITTED" /\ Retryable(kind))
        /\ EndRun(w, "UNKNOWN")
        /\ UNCHANGED journal
  /\ UNCHANGED <<runs, overlaps, mishaps>>

\* A vendor's failure and an adapter's own defect may fall back; a refusal may not.
Decide(w) ==
  LET kind == run[w].err IN
  /\ At(w, "decide")
  /\ IF (Retryable(kind) \/ kind = "INVALID") /\ run[w].cands # {}
     THEN Goto(w, "next") /\ UNCHANGED op
     ELSE EndRun(w, kind)
  /\ UNCHANGED <<journal, runs, overlaps, mishaps>>

\* The result is the pipeline's: the generation ends with it, or fails later and may be run again.
Finish(w) ==
  /\ At(w, "done")
  /\ \/ run' = [run EXCEPT ![w] = Off] /\ op' = "over"
     \/ EndRun(w, "RETRYABLE")
  /\ UNCHANGED <<journal, runs, overlaps, mishaps>>

-----------------------------------------------------------------------------
(* The process dies with its run; the row is swept, and failed when it has no run left. *)

Crash(w) ==
  /\ ~At(w, "idle")
  /\ Mishap
  /\ run' = [run EXCEPT ![w] = Off]
  /\ op' = IF runs < MaxRuns THEN op ELSE "over"
  /\ UNCHANGED <<journal, runs, overlaps>>

-----------------------------------------------------------------------------
Next == \E w \in Worker :
  \/ StartRun(w) \/ Route(w) \/ Outstanding(w) \/ Candidate(w)
  \/ Begin(w) \/ Create(w) \/ Post(w) \/ Submitted(w) \/ Poll(w) \/ Settle(w)
  \/ GuardFailure(w) \/ Decide(w) \/ Finish(w) \/ Crash(w)

Spec == Init /\ [][Next]_vars

-----------------------------------------------------------------------------
(* Properties.                                                             *)

\* The same operation is never with two vendors, nor twice with one, whatever crashed, timed out
\* or fell back, as long as no run starts beside another.
OneVendorJob ==
  overlaps = 0 =>
    \A k, j \in Provider : \A n \in DOMAIN journal[k], m \in DOMAIN journal[j] :
      /\ journal[k][n].job \in {"live", "made"} /\ journal[j][m].job \in {"live", "made"}
      => k = j /\ n = m

\* "submissionNo permits a new call only after the vendor has definitively failed the previous
\* one": an older submission is FAILED and the vendor has nothing for it, beside whatever runs.
NewCallAfterFailure ==
  \A k \in Provider : \A n \in DOMAIN journal[k] :
    n < Len(journal[k]) => journal[k][n].status = "FAILED" /\ journal[k][n].job \in {"none", "failed"}
=============================================================================
