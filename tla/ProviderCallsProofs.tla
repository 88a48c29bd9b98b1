-------------------------- MODULE ProviderCallsProofs --------------------------
(***************************************************************************)
(* Theorems about ProviderCalls, for any workers, providers, runs and      *)
(* faults, with runs beside each other or not: the rows keep their types,   *)
(* and a new submission follows a definite failure.  As long as runs follow *)
(* each other, one operation is never with two vendors.                     *)
(***************************************************************************)
EXTENDS ProviderCalls, TLAPS

CallsTypeOK ==
  /\ journal \in [Provider -> Seq(Attempt)]
  /\ run \in [Worker -> Run]
  /\ op \in {"open", "over"}
  /\ runs \in 0 .. MaxRuns /\ overlaps \in Nat /\ mishaps \in Nat

\* What an attempt's row and its job have to do with each other, and with the attempts after it.
JournalOK ==
  \A k \in Provider : \A n \in 1 .. Len(journal[k]) :
    /\ journal[k][n].status = "FAILED" => journal[k][n].job \in {"none", "failed"}
    /\ journal[k][n].known => journal[k][n].status # "SUBMITTING"
    /\ n < Len(journal[k]) => journal[k][n].status = "FAILED"

\* A run at one of these holds an attempt.
Holding == {"post", "accepted", "poll", "settle", "guard"}
Holds(r, k, n) == r.pc \in Holding /\ r.key = k /\ r.no = n

\* What a run r knows of the journal.
Sound(r) ==
  /\ r.pc \in Holding \cup {"begin", "create"} => r.key \in Provider
  /\ r.pc \in Holding => r.no \in 1 .. Len(journal[r.key])
  /\ r.pc = "begin" => r.no = 0
  /\ r.pc = "create" =>
       /\ r.no \in 1 .. Len(journal[r.key]) + 1
       /\ Len(journal[r.key]) < r.no => \A n \in 1 .. Len(journal[r.key]) : journal[r.key][n].status = "FAILED"
  /\ r.pc = "post" => journal[r.key][r.no] = NewAttempt
  /\ r.pc = "guard" /\ r.sure => journal[r.key][r.no].job = "none" \/ journal[r.key][r.no].known

\* Two runs hold one attempt only when its vendor's id is known.
Exclusive ==
  \A v, w \in Worker : \A k \in Provider : \A n \in 1 .. Len(journal[k]) :
    v # w /\ Holds(run[v], k, n) /\ Holds(run[w], k, n) => journal[k][n].known

CallsInv == CallsTypeOK /\ JournalOK /\ (\A w \in Worker : Sound(run[w])) /\ Exclusive

-----------------------------------------------------------------------------
LEMMA OffRow == Off \in Run /\ Off.pc = "idle" /\ Off.cands = {} /\ Sound(Off)
BY DEF Off, Run, Pcs, Sound, Holding

LEMMA InitCalls == Init => CallsInv
<1> SUFFICES ASSUME Init PROVE CallsInv
  OBVIOUS
<1> USE DEF Init
<1>1. /\ journal \in [Provider -> Seq(Attempt)] /\ \A k \in Provider : Len(journal[k]) = 0
      /\ run \in [Worker -> Run] /\ \A w \in Worker : run[w] = Off
  BY OffRow
<1>2. CallsTypeOK
  BY <1>1, CallsAssumption DEF CallsTypeOK
<1>3. JournalOK /\ Exclusive
  BY <1>1 DEF JournalOK, Exclusive
<1> QED
  BY <1>1, <1>2, <1>3, OffRow DEF CallsInv

\* A run moves, and the journal is left alone.
LEMMA RunMoves ==
  ASSUME CallsInv, NEW w \in Worker, NEW r \in Run, run' = [run EXCEPT ![w] = r],
         UNCHANGED journal, op' \in {"open", "over"}, runs' \in 0 .. MaxRuns, overlaps' \in Nat, mishaps' \in Nat,
         Sound(r),
         r.pc \in Holding => Holds(run[w], r.key, r.no) \/ journal[r.key][r.no].known
  PROVE  CallsInv'
<1> USE DEF CallsInv, CallsTypeOK
<1>1. run' \in [Worker -> Run] /\ run'[w] = r /\ \A v \in Worker : v # w => run'[v] = run[v]
  OBVIOUS
<1>2. CallsTypeOK' /\ JournalOK'
  BY <1>1 DEF JournalOK
<1>3. \A v \in Worker : Sound(run[v])'
  BY <1>1 DEF Sound
<1>4. Exclusive'
  <2> SUFFICES ASSUME NEW u \in Worker, NEW v \in Worker, NEW k \in Provider, NEW n \in 1 .. Len(journal[k]),
                      u # v, Holds(run'[u], k, n), Holds(run'[v], k, n)
               PROVE  journal[k][n].known
    BY DEF Exclusive, Holds
  <2>1. \A x \in Worker : Holds(run'[x], k, n) => Holds(run[x], k, n) \/ journal[k][n].known
    BY <1>1 DEF Holds
  <2> QED
    BY <2>1 DEF Exclusive
<1> QED
  BY <1>2, <1>3, <1>4

\* What SetMine does to the journal.
LEMMA MineIsSet ==
  ASSUME CallsInv, NEW w \in Worker, run[w].pc \in Holding, NEW a \in Attempt, SetMine(w, a)
  PROVE  /\ run[w].key \in Provider /\ run[w].no \in 1 .. Len(journal[run[w].key])
         /\ journal' \in [Provider -> Seq(Attempt)]
         /\ \A k \in Provider : Len(journal'[k]) = Len(journal[k])
         /\ \A k \in Provider : \A n \in 1 .. Len(journal[k]) :
              journal'[k][n] = IF k = run[w].key /\ n = run[w].no THEN a ELSE journal[k][n]
<1> DEFINE k0 == run[w].key
           n0 == run[w].no
<1>1. k0 \in Provider /\ n0 \in 1 .. Len(journal[k0]) /\ journal \in [Provider -> Seq(Attempt)]
  BY DEF CallsInv, CallsTypeOK, Sound
<1>2. journal' = [journal EXCEPT ![k0] = [journal[k0] EXCEPT ![n0] = a]]
  BY DEF SetMine
<1> HIDE DEF k0, n0
<1>3. journal[k0] \in Seq(Attempt) /\ Len(journal[k0]) \in Nat
  BY <1>1
<1>4. /\ [journal[k0] EXCEPT ![n0] = a] \in Seq(Attempt)
      /\ Len([journal[k0] EXCEPT ![n0] = a]) = Len(journal[k0])
      /\ \A n \in 1 .. Len(journal[k0]) : [journal[k0] EXCEPT ![n0] = a][n] = IF n = n0 THEN a ELSE journal[k0][n]
  BY <1>1, <1>3
<1>5. journal' \in [Provider -> Seq(Attempt)] /\ journal'[k0] = [journal[k0] EXCEPT ![n0] = a]
      /\ \A k \in Provider : k # k0 => journal'[k] = journal[k]
  BY <1>1, <1>2, <1>4
<1>6. /\ \A k \in Provider : Len(journal'[k]) = Len(journal[k])
      /\ \A k \in Provider : \A n \in 1 .. Len(journal[k]) :
           journal'[k][n] = IF k = k0 /\ n = n0 THEN a ELSE journal[k][n]
  BY <1>4, <1>5
<1> QED
  BY <1>1, <1>5, <1>6 DEF k0, n0

\* A run writes its attempt: what was known stays known, and a failure stays a failure.
LEMMA AttemptMoves ==
  ASSUME CallsInv, NEW w \in Worker, run[w].pc \in Holding, NEW a \in Attempt, SetMine(w, a),
         NEW r \in Run, run' = [run EXCEPT ![w] = r],
         op' \in {"open", "over"}, mishaps' \in Nat, UNCHANGED <<runs, overlaps>>,
         Sound(r)', r.pc \in Holding => Holds(run[w], r.key, r.no),
         a.status = "FAILED" => a.job \in {"none", "failed"},
         a.known => a.status # "SUBMITTING",
         Mine(w).known => a.known,
         Mine(w).status = "FAILED" => a.status = "FAILED"
  PROVE  CallsInv'
<1> DEFINE k0 == run[w].key
           n0 == run[w].no
<1>1. /\ k0 \in Provider /\ n0 \in 1 .. Len(journal[k0]) /\ Holds(run[w], k0, n0)
      /\ journal' \in [Provider -> Seq(Attempt)]
      /\ \A k \in Provider : Len(journal'[k]) = Len(journal[k])
      /\ \A k \in Provider : \A n \in 1 .. Len(journal[k]) :
           journal'[k][n] = IF k = k0 /\ n = n0 THEN a ELSE journal[k][n]
  BY MineIsSet DEF Holds
<1>2. Mine(w) = journal[k0][n0]
  BY DEF Mine
<1>3. run \in [Worker -> Run] /\ run' \in [Worker -> Run] /\ run'[w] = r /\ \A v \in Worker : v # w => run'[v] = run[v]
  BY DEF CallsInv, CallsTypeOK
<1> HIDE DEF k0, n0
<1>4. CallsTypeOK'
  BY <1>1, <1>3 DEF CallsInv, CallsTypeOK
<1>5. JournalOK'
  BY <1>1, <1>2 DEF CallsInv, JournalOK
<1>6. ASSUME NEW v \in Worker, v # w PROVE Sound(run[v])'
  <2> DEFINE s == run[v]
  <2>1. Sound(s) /\ run'[v] = s
    BY <1>3, <1>6 DEF CallsInv
  <2>2. Holds(s, k0, n0) => journal[k0][n0].known
    BY <1>1, <1>6 DEF CallsInv, Exclusive
  <2>3. journal[k0][n0].known => journal[k0][n0] # NewAttempt
    BY DEF NewAttempt
  <2> HIDE DEF s
  <2>4. /\ s.pc \in Holding \cup {"begin", "create"} => s.key \in Provider
        /\ s.pc \in Holding => s.no \in 1 .. Len(journal'[s.key])
        /\ s.pc = "begin" => s.no = 0
    BY <1>1, <2>1 DEF Sound, Holding
  <2>5. s.pc = "create" =>
          /\ s.no \in 1 .. Len(journal'[s.key]) + 1
          /\ Len(journal'[s.key]) < s.no => \A n \in 1 .. Len(journal'[s.key]) : journal'[s.key][n].status = "FAILED"
    BY <1>1, <1>2, <2>1 DEF Sound
  <2>6. s.pc = "post" => journal'[s.key][s.no] = NewAttempt
    BY <1>1, <2>1, <2>2, <2>3 DEF Sound, Holds, Holding
  <2>7. s.pc = "guard" /\ s.sure => journal'[s.key][s.no].job = "none" \/ journal'[s.key][s.no].known
    BY <1>1, <1>2, <2>1, <2>2 DEF Sound, Holds, Holding
  <2> QED
    BY <2>1, <2>4, <2>5, <2>6, <2>7 DEF Sound
<1>7. Sound(run[w])'
  BY <1>3
<1>8. Exclusive'
  <2> SUFFICES ASSUME NEW u \in Worker, NEW v \in Worker, NEW k \in Provider, NEW n \in 1 .. Len(journal[k]),
                      u # v, Holds(run'[u], k, n), Holds(run'[v], k, n)
               PROVE  journal'[k][n].known
    BY <1>1 DEF Exclusive, Holds
  <2>1. \A x \in Worker : Holds(run'[x], k, n) => Holds(run[x], k, n)
    BY <1>3 DEF Holds
  <2>2. journal[k][n].known
    BY <2>1 DEF CallsInv, Exclusive
  <2> QED
    BY <1>1, <1>2, <2>2
<1> QED
  BY <1>4, <1>5, <1>6, <1>7, <1>8 DEF CallsInv

\* What EndRun and Throw leave of a run.
LEMMA EndsRun ==
  ASSUME CallsInv, NEW w \in Worker, NEW kind, EndRun(w, kind)
  PROVE  run' = [run EXCEPT ![w] = Off] /\ op' \in {"open", "over"}
BY DEF EndRun, CallsInv, CallsTypeOK

LEMMA Thrown ==
  ASSUME CallsInv, NEW w \in Worker, NEW kind \in ErrorKinds, NEW sure \in BOOLEAN, Throw(w, kind, sure)
  PROVE  \E r \in Run :
           /\ run' = [run EXCEPT ![w] = r]
           /\ r.pc = (IF run[w].no = 0 THEN "decide" ELSE "guard") /\ r.sure = sure /\ r.err = kind
           /\ r.key = run[w].key /\ r.no = run[w].no /\ r.cands = run[w].cands
<1>1. run[w] \in Run
  BY DEF CallsInv, CallsTypeOK
<1> DEFINE pc == IF run[w].no = 0 THEN "decide" ELSE "guard"
           r == [run[w] EXCEPT !.pc = pc, !.err = kind, !.sure = sure]
<1>2. pc \in Pcs
  BY DEF Pcs
<1>3. run' = [run EXCEPT ![w] = r]
  BY DEF Throw
<1> HIDE DEF pc
<1>4. /\ r \in Run /\ r.pc = pc /\ r.sure = sure /\ r.err = kind
      /\ r.key = run[w].key /\ r.no = run[w].no /\ r.cands = run[w].cands
  BY <1>1, <1>2 DEF Run
<1> QED
  BY <1>3, <1>4 DEF pc

LEMMA Gone ==
  ASSUME CallsInv, NEW w \in Worker, NEW pc \in Pcs, Goto(w, pc)
  PROVE  \E r \in Run :
           /\ run' = [run EXCEPT ![w] = r] /\ r.pc = pc /\ r.sure = run[w].sure /\ r.err = run[w].err
           /\ r.key = run[w].key /\ r.no = run[w].no /\ r.cands = run[w].cands
<1> DEFINE r == [run[w] EXCEPT !.pc = pc]
<1>1. run[w] \in Run
  BY DEF CallsInv, CallsTypeOK
<1>2. run' = [run EXCEPT ![w] = r]
  BY DEF Goto
<1>3. r \in Run /\ r.pc = pc /\ r.sure = run[w].sure /\ r.err = run[w].err
      /\ r.key = run[w].key /\ r.no = run[w].no /\ r.cands = run[w].cands
  BY <1>1 DEF Run
<1> QED
  BY <1>2, <1>3

\* Steps of a run that holds no attempt afterwards, and writes none.
LEMMA FreeSteps ==
  ASSUME CallsInv, NEW w \in Worker,
         StartRun(w) \/ Route(w) \/ Outstanding(w) \/ Candidate(w) \/ Decide(w) \/ Finish(w) \/ Crash(w)
  PROVE  CallsInv'
<1> USE DEF CallsTypeOK
<1>0. /\ run[w] \in Run /\ runs \in 0 .. MaxRuns /\ overlaps \in Nat /\ mishaps \in Nat /\ op \in {"open", "over"}
      /\ MaxRuns \in Nat /\ runs \in Nat
  BY CallsAssumption DEF CallsInv
<1>1. UNCHANGED journal /\ runs' \in 0 .. MaxRuns /\ overlaps' \in Nat /\ mishaps' \in Nat
  <2>1. CASE StartRun(w)
    BY <1>0, <2>1 DEF StartRun
  <2>2. CASE Route(w) \/ Outstanding(w) \/ Candidate(w) \/ Decide(w) \/ Finish(w)
    <3>1. UNCHANGED <<journal, runs, overlaps, mishaps>>
      BY <2>2 DEF Route, Outstanding, Candidate, Decide, Finish
    <3> QED
      BY <1>0, <3>1
  <2>3. CASE Crash(w)
    BY <1>0, <2>3 DEF Crash, Mishap
  <2> QED
    BY <2>1, <2>2, <2>3
<1>2. ASSUME NEW r \in Run, run' = [run EXCEPT ![w] = r], op' \in {"open", "over"},
             r.pc \notin Holding \cup {"begin", "create"}
      PROVE  CallsInv'
  <2>1. Sound(r) /\ r.pc \notin Holding
    BY <1>2 DEF Sound, Holding
  <2> QED
    BY <1>1, <1>2, <2>1, RunMoves
<1>3. ASSUME NEW kind, EndRun(w, kind) PROVE CallsInv'
  <2>1. run' = [run EXCEPT ![w] = Off] /\ op' \in {"open", "over"}
    BY <1>3, EndsRun
  <2>2. Off.pc \notin Holding \cup {"begin", "create"}
    BY OffRow DEF Holding
  <2> QED
    BY <1>2, <2>1, <2>2, OffRow
<1>4. ASSUME NEW pc \in {"route", "next"}, Goto(w, pc), UNCHANGED op PROVE CallsInv'
  <2>1. pc \in Pcs
    BY DEF Pcs
  <2>2. PICK r \in Run : run' = [run EXCEPT ![w] = r] /\ r.pc = pc
    BY <1>4, <2>1, Gone
  <2> QED
    BY <1>0, <1>2, <1>4, <2>2 DEF Holding
<1>5. CASE StartRun(w)
  BY <1>4, <1>5 DEF StartRun
<1>6. CASE Route(w)
  <2>1. PICK found \in SUBSET Provider : run' = [run EXCEPT ![w] = [run[w] EXCEPT !.pc = "outstanding", !.cands = found]]
    BY <1>6 DEF Route
  <2>2. /\ [run[w] EXCEPT !.pc = "outstanding", !.cands = found] \in Run
        /\ [run[w] EXCEPT !.pc = "outstanding", !.cands = found].pc = "outstanding"
    BY <1>0 DEF Run, Pcs
  <2> QED
    BY <1>0, <1>2, <1>6, <2>1, <2>2 DEF Holding, Route
<1>7. CASE Outstanding(w)
  <2>1. CASE Goto(w, "next") /\ UNCHANGED op
    BY <1>4, <2>1
  <2>2. ASSUME NEW a \in Unsettled, UNCHANGED op,
               run' = [run EXCEPT ![w].pc = "next", ![w].cands = {a[1]}]
        PROVE  CallsInv'
    <3> DEFINE r == [run[w] EXCEPT !.pc = "next", !.cands = {a[1]}]
    <3>1. a[1] \in Provider
      BY DEF Unsettled
    <3>2. r \in Run /\ r.pc = "next"
      BY <1>0, <3>1 DEF Run, Pcs
    <3>3. run' = [run EXCEPT ![w] = r]
      BY <2>2
    <3> HIDE DEF r
    <3> QED
      BY <1>0, <1>2, <2>2, <3>2, <3>3 DEF Holding
  <2> QED
    BY <1>3, <1>7, <2>1, <2>2 DEF Outstanding
<1>8. CASE Candidate(w)
  <2>1. ASSUME NEW k \in run[w].cands, UNCHANGED op,
               run' = [run EXCEPT ![w].pc = "begin", ![w].key = k, ![w].cands = @ \ {k},
                                  ![w].no = 0, ![w].err = "none", ![w].sure = FALSE]
        PROVE  CallsInv'
    <3> DEFINE r == [run[w] EXCEPT !.pc = "begin", !.key = k, !.cands = @ \ {k},
                                   !.no = 0, !.err = "none", !.sure = FALSE]
    <3>1. r \in Run /\ r.pc = "begin" /\ r.no = 0 /\ r.key = k /\ k \in Provider
      BY <1>0 DEF Run, Pcs
    <3>2. run' = [run EXCEPT ![w] = r]
      BY <2>1
    <3> HIDE DEF r
    <3>3. Sound(r) /\ r.pc \notin Holding
      BY <3>1 DEF Sound, Holding
    <3> QED
      BY <1>0, <1>1, <2>1, <3>1, <3>2, <3>3, RunMoves
  <2> QED
    BY <1>3, <1>8, <2>1 DEF Candidate
<1>9. CASE Decide(w)
  BY <1>3, <1>4, <1>9 DEF Decide
<1>10. CASE Finish(w)
  <2>1. CASE run' = [run EXCEPT ![w] = Off] /\ op' = "over"
    BY <1>2, <2>1, OffRow DEF Holding
  <2> QED
    BY <1>3, <1>10, <2>1 DEF Finish
<1>11. CASE Crash(w)
  <2>1. run' = [run EXCEPT ![w] = Off] /\ op' \in {"open", "over"}
    BY <1>0, <1>11 DEF Crash
  <2> QED
    BY <1>2, <2>1, OffRow DEF Holding
<1> QED
  BY <1>5, <1>6, <1>7, <1>8, <1>9, <1>10, <1>11

\* begin and create: a new submission is only made after a failure.
LEMMA BeginStep ==
  ASSUME CallsInv, NEW w \in Worker, Begin(w)
  PROVE  CallsInv'
<1> DEFINE k == run[w].key
           n == Len(journal[k])
<1>0. /\ run[w] \in Run /\ k \in Provider /\ n \in Nat /\ journal[k] \in Seq(Attempt) /\ run[w].no = 0
      /\ UNCHANGED <<journal, op, runs, overlaps, mishaps>>
      /\ op \in {"open", "over"} /\ runs \in 0 .. MaxRuns /\ overlaps \in Nat /\ mishaps \in Nat
  <2>1. /\ journal \in [Provider -> Seq(Attempt)] /\ run[w] \in Run
        /\ op \in {"open", "over"} /\ runs \in 0 .. MaxRuns /\ overlaps \in Nat /\ mishaps \in Nat
    BY DEF CallsInv, CallsTypeOK
  <2>2. run[w].pc = "begin" /\ UNCHANGED <<journal, op, runs, overlaps, mishaps>>
    BY DEF Begin, At
  <2>3. k \in Provider /\ run[w].no = 0
    BY <2>2 DEF CallsInv, Sound
  <2>4. journal[k] \in Seq(Attempt) /\ n \in Nat
    BY <2>1, <2>3
  <2> QED
    BY <2>1, <2>2, <2>3, <2>4
<1>1. ASSUME NEW r \in Run, run' = [run EXCEPT ![w] = r], Sound(r),
             r.pc \in Holding => journal[r.key][r.no].known
      PROVE  CallsInv'
  BY <1>0, <1>1, RunMoves
<1> HIDE DEF n
<1>2. CASE n > 0 /\ Open(journal[k][n]) /\ journal[k][n].known /\ run' = [run EXCEPT ![w].pc = "poll", ![w].no = n]
  <2> DEFINE r == [run[w] EXCEPT !.pc = "poll", !.no = n]
  <2>1. r \in Run /\ r.pc = "poll" /\ r.key = k /\ r.no = n
    BY <1>0 DEF Run, Pcs
  <2>2. run' = [run EXCEPT ![w] = r]
    BY <1>2
  <2> HIDE DEF r
  <2>3. Sound(r) /\ journal[r.key][r.no].known
    BY <1>0, <1>2, <2>1 DEF Sound, Holding, n
  <2> QED
    BY <1>1, <2>1, <2>2, <2>3
<1>3. CASE Throw(w, "UNKNOWN", FALSE)
  <2>0. "UNKNOWN" \in ErrorKinds /\ FALSE \in BOOLEAN
    BY DEF ErrorKinds
  <2>1. PICK r \in Run : run' = [run EXCEPT ![w] = r] /\ r.pc = (IF run[w].no = 0 THEN "decide" ELSE "guard")
    BY <1>3, <2>0, Thrown
  <2>2. Sound(r) /\ r.pc \notin Holding
    BY <1>0, <2>1 DEF Sound, Holding
  <2> QED
    BY <1>1, <2>1, <2>2
<1>4. CASE (n > 0 => ~Open(journal[k][n])) /\ run' = [run EXCEPT ![w].pc = "create", ![w].no = n + 1]
  <2> DEFINE r == [run[w] EXCEPT !.pc = "create", !.no = n + 1]
  <2>0. n + 1 \in Nat /\ "create" \in Pcs
    BY <1>0 DEF Pcs
  <2>1. r \in Run /\ r.pc = "create" /\ r.key = k /\ r.no = n + 1
    BY <1>0, <2>0 DEF Run
  <2>2. run' = [run EXCEPT ![w] = r]
    BY <1>4
  <2> HIDE DEF r
  <2>3. \A m \in 1 .. n : journal[k][m].status = "FAILED"
    BY <1>0, <1>4 DEF CallsInv, JournalOK, Open, n
  <2>4. Sound(r) /\ r.pc \notin Holding
    BY <1>0, <2>1, <2>3 DEF Sound, Holding, n
  <2> QED
    BY <1>1, <2>1, <2>2, <2>4
<1> QED
  BY <1>2, <1>3, <1>4 DEF Begin, n

\* A row of the journal is appended by w; nobody else can hold it.
LEMMA RowAppended ==
  ASSUME CallsInv, NEW w \in Worker, run[w].pc = "create", Len(journal[run[w].key]) < run[w].no,
         journal' = [journal EXCEPT ![run[w].key] = Append(@, NewAttempt)],
         NEW r \in Run, run' = [run EXCEPT ![w] = r],
         r.pc = "decide" \/ (r.pc = "post" /\ r.key = run[w].key /\ r.no = run[w].no),
         op' \in {"open", "over"}, mishaps' \in Nat, UNCHANGED <<runs, overlaps>>
  PROVE  CallsInv'
<1> DEFINE k0 == run[w].key
           n0 == Len(journal[k0])
<1>0. /\ k0 \in Provider /\ journal[k0] \in Seq(Attempt) /\ n0 \in Nat /\ run[w].no = n0 + 1
      /\ \A n \in 1 .. n0 : journal[k0][n].status = "FAILED"
      /\ \A k \in Provider : journal[k] \in Seq(Attempt) /\ Len(journal[k]) \in Nat
      /\ run \in [Worker -> Run] /\ journal \in [Provider -> Seq(Attempt)]
  BY DEF CallsInv, CallsTypeOK, Sound
<1>1. NewAttempt \in Attempt /\ NewAttempt.status = "SUBMITTING" /\ ~NewAttempt.known /\ NewAttempt.job = "none"
  BY DEF NewAttempt, Attempt
<1>2. /\ journal' \in [Provider -> Seq(Attempt)] /\ Len(journal'[k0]) = n0 + 1 /\ journal'[k0][n0 + 1] = NewAttempt
      /\ \A k \in Provider : k # k0 => journal'[k] = journal[k]
      /\ \A k \in Provider : \A n \in 1 .. Len(journal[k]) : journal'[k][n] = journal[k][n]
  <2>1. /\ Append(journal[k0], NewAttempt) \in Seq(Attempt) /\ Len(Append(journal[k0], NewAttempt)) = n0 + 1
        /\ Append(journal[k0], NewAttempt)[n0 + 1] = NewAttempt
        /\ \A n \in 1 .. n0 : Append(journal[k0], NewAttempt)[n] = journal[k0][n]
    BY <1>0, <1>1
  <2>2. journal'[k0] = Append(journal[k0], NewAttempt) /\ \A k \in Provider : k # k0 => journal'[k] = journal[k]
    BY <1>0
  <2>3. journal' \in [Provider -> Seq(Attempt)]
    BY <1>0, <2>1
  <2> HIDE DEF k0, n0
  <2>4. \A n \in 1 .. n0 : journal'[k0][n] = journal[k0][n]
    BY <2>1, <2>2
  <2> QED
    BY <2>1, <2>2, <2>3, <2>4 DEF n0
<1>3. \A k \in Provider : Len(journal'[k]) >= Len(journal[k]) /\ (k # k0 => Len(journal'[k]) = Len(journal[k]))
  BY <1>0, <1>2
<1>4. run' \in [Worker -> Run] /\ run'[w] = r /\ \A v \in Worker : v # w => run'[v] = run[v]
  BY <1>0
<1>5. CallsTypeOK'
  BY <1>2, <1>4 DEF CallsInv, CallsTypeOK
<1>6. JournalOK'
  <2> SUFFICES ASSUME NEW k \in Provider, NEW n \in 1 .. Len(journal'[k])
               PROVE  /\ journal'[k][n].status = "FAILED" => journal'[k][n].job \in {"none", "failed"}
                      /\ journal'[k][n].known => journal'[k][n].status # "SUBMITTING"
                      /\ n < Len(journal'[k]) => journal'[k][n].status = "FAILED"
    BY DEF JournalOK
  <2>1. CASE k = k0 /\ n = n0 + 1
    BY <1>0, <1>1, <1>2, <2>1
  <2>2. CASE ~(k = k0 /\ n = n0 + 1)
    <3>1. n \in 1 .. Len(journal[k]) /\ journal'[k][n] = journal[k][n]
      BY <1>0, <1>2, <2>2
    <3>2. n < Len(journal'[k]) => journal[k][n].status = "FAILED"
      BY <1>0, <1>2, <3>1 DEF CallsInv, JournalOK
    <3> QED
      BY <3>1, <3>2 DEF CallsInv, JournalOK
  <2> QED
    BY <2>1, <2>2
<1>7. ASSUME NEW v \in Worker, v # w PROVE Sound(run[v])'
  <2> DEFINE s == run[v]
  <2>1. Sound(s) /\ run'[v] = s
    BY <1>4, <1>7 DEF CallsInv
  <2> HIDE DEF s, k0, n0
  <2>2. s.pc \in Holding => /\ s.key \in Provider /\ s.no \in 1 .. Len(journal[s.key])
                            /\ s.no \in 1 .. Len(journal'[s.key]) /\ journal'[s.key][s.no] = journal[s.key][s.no]
    BY <1>0, <1>2, <1>3, <2>1 DEF Sound
  <2>3. s.pc = "create" =>
          /\ s.no \in 1 .. Len(journal'[s.key]) + 1
          /\ Len(journal'[s.key]) < s.no => \A n \in 1 .. Len(journal'[s.key]) : journal'[s.key][n].status = "FAILED"
    <3>1. ASSUME s.pc = "create" PROVE s.key \in Provider /\ s.no \in 1 .. Len(journal[s.key]) + 1
      BY <2>1, <3>1 DEF Sound
    <3>2. CASE s.key = k0
      BY <1>0, <1>2, <3>1, <3>2 DEF n0
    <3>3. CASE s.key # k0
      BY <1>2, <2>1, <3>1, <3>3 DEF Sound
    <3> QED
      BY <3>2, <3>3
  <2> QED
    BY <2>1, <2>2, <2>3 DEF Sound, Holding
<1>8. Sound(run[w])'
  <2>1. CASE r.pc = "decide"
    BY <1>4, <2>1 DEF Sound, Holding
  <2>2. CASE r.pc = "post" /\ r.key = run[w].key /\ r.no = run[w].no
    <3> HIDE DEF k0, n0
    <3>1. r.key = k0 /\ r.no = n0 + 1
      BY <1>0, <2>2 DEF k0
    <3>2. n0 + 1 \in 1 .. Len(journal'[k0]) /\ journal'[k0][n0 + 1] = NewAttempt
      BY <1>0, <1>2
    <3>3. /\ r.key \in Provider /\ r.no \in 1 .. Len(journal'[r.key])
          /\ journal'[r.key][r.no] = NewAttempt
      BY <1>0, <3>1, <3>2
    <3> QED
      BY <1>4, <2>2, <3>3 DEF Sound
  <2> QED
    BY <2>1, <2>2
<1>9. Exclusive'
  <2> SUFFICES ASSUME NEW u \in Worker, NEW v \in Worker, NEW k \in Provider, NEW n \in 1 .. Len(journal'[k]),
                      u # v, Holds(run'[u], k, n), Holds(run'[v], k, n)
               PROVE  journal'[k][n].known
    BY DEF Exclusive, Holds
  <2> HIDE DEF n0
  <2>1. \A x \in Worker : x # w /\ Holds(run'[x], k, n) => Holds(run[x], k, n) /\ n \in 1 .. Len(journal[k])
    BY <1>4 DEF Holds, CallsInv, Sound
  <2>2. Holds(run'[w], k, n) => k = k0 /\ n = n0 + 1
    BY <1>0, <1>4 DEF Holds, Holding
  <2>3. u # w /\ v # w
    BY <1>0, <2>1, <2>2 DEF n0
  <2> QED
    BY <1>2, <2>1, <2>3 DEF CallsInv, Exclusive
<1> QED
  BY <1>5, <1>6, <1>7, <1>8, <1>9 DEF CallsInv

LEMMA CreateStep ==
  ASSUME CallsInv, NEW w \in Worker, Create(w)
  PROVE  CallsInv'
<1> DEFINE k == run[w].key
<1>1. /\ run[w] \in Run /\ run[w].pc = "create" /\ UNCHANGED <<op, runs, overlaps>>
      /\ op' \in {"open", "over"} /\ runs' \in 0 .. MaxRuns /\ overlaps' \in Nat /\ mishaps \in Nat
  BY DEF CallsInv, CallsTypeOK, Create, At
<1>2. mishaps' \in Nat
  BY <1>1 DEF Create, Mishap
<1>3. CASE /\ Len(journal[k]) < run[w].no
           /\ journal' = [journal EXCEPT ![k] = Append(@, NewAttempt)]
           /\ Goto(w, "post")
  <2>1. "post" \in Pcs
    BY DEF Pcs
  <2>2. PICK r \in Run : run' = [run EXCEPT ![w] = r] /\ r.pc = "post" /\ r.key = k /\ r.no = run[w].no
    BY <1>3, <2>1, Gone
  <2> QED
    BY <1>1, <1>2, <1>3, <2>2, RowAppended
<1>4. ASSUME run' = [run EXCEPT ![w].pc = "decide", ![w].err = "RETRYABLE", ![w].no = 0],
             \/ UNCHANGED journal
             \/ /\ Len(journal[k]) < run[w].no
                /\ journal' = [journal EXCEPT ![k] = Append(@, NewAttempt)]
      PROVE  CallsInv'
  <2> DEFINE r == [run[w] EXCEPT !.pc = "decide", !.err = "RETRYABLE", !.no = 0]
  <2>1. r \in Run /\ r.pc = "decide"
    BY <1>1 DEF Run, Pcs, ErrorKinds
  <2>2. run' = [run EXCEPT ![w] = r]
    BY <1>4
  <2> HIDE DEF r
  <2>3. Sound(r) /\ r.pc \notin Holding
    BY <2>1 DEF Sound, Holding
  <2>4. CASE UNCHANGED journal
    BY <1>1, <1>2, <2>1, <2>2, <2>3, <2>4, RunMoves
  <2>5. CASE /\ Len(journal[k]) < run[w].no
             /\ journal' = [journal EXCEPT ![k] = Append(@, NewAttempt)]
    BY <1>1, <1>2, <2>1, <2>2, <2>5, RowAppended
  <2> QED
    BY <1>4, <2>4, <2>5
<1> QED
  BY <1>3, <1>4 DEF Create

\* A run that holds an attempt throws, with a proof that there is no job or without one.
LEMMA HolderThrows ==
  ASSUME CallsInv, NEW w \in Worker, run[w].pc \in Holding, NEW kind \in ErrorKinds, NEW sure \in BOOLEAN,
         Throw(w, kind, sure), UNCHANGED <<journal, op, runs, overlaps>>, mishaps' \in Nat,
         sure => Mine(w).job = "none"
  PROVE  CallsInv'
<1>1. /\ run[w].key \in Provider /\ run[w].no \in 1 .. Len(journal[run[w].key]) /\ run[w].no # 0
      /\ op' \in {"open", "over"} /\ runs' \in 0 .. MaxRuns /\ overlaps' \in Nat
  BY DEF CallsInv, CallsTypeOK, Sound
<1>2. PICK r \in Run : /\ run' = [run EXCEPT ![w] = r]
                       /\ r.pc = "guard" /\ r.sure = sure /\ r.key = run[w].key /\ r.no = run[w].no
  BY <1>1, Thrown
<1>3. Sound(r)
  BY <1>1, <1>2 DEF Sound, Holding, Mine
<1>4. Holds(run[w], r.key, r.no)
  BY <1>2 DEF Holds
<1> QED
  BY <1>1, <1>2, <1>3, <1>4, RunMoves

\* A run writes its attempt and goes on, or throws without a proof.
LEMMA HolderWrites ==
  ASSUME CallsInv, NEW w \in Worker, run[w].pc \in Holding, NEW a \in Attempt, SetMine(w, a),
         \/ \E pc \in {"accepted", "poll", "settle", "done", "decide"} : Goto(w, pc)
         \/ \E kind \in ErrorKinds : Throw(w, kind, FALSE),
         UNCHANGED <<op, runs, overlaps>>, mishaps' \in Nat,
         a.status = "FAILED" => a.job \in {"none", "failed"},
         a.known => a.status # "SUBMITTING",
         Mine(w).known => a.known,
         Mine(w).status = "FAILED" => a.status = "FAILED"
  PROVE  CallsInv'
<1>1. /\ run[w].key \in Provider /\ run[w].no \in 1 .. Len(journal[run[w].key]) /\ run[w].no # 0
      /\ run[w].no \in 1 .. Len(journal'[run[w].key])
      /\ op' \in {"open", "over"}
  BY MineIsSet DEF CallsInv, CallsTypeOK, Sound
<1>2. PICK r \in Run : /\ run' = [run EXCEPT ![w] = r] /\ r.key = run[w].key /\ r.no = run[w].no
                       /\ r.pc \in {"accepted", "poll", "settle", "done", "decide"} \/ (r.pc = "guard" /\ ~r.sure)
  <2>1. CASE \E pc \in {"accepted", "poll", "settle", "done", "decide"} : Goto(w, pc)
    <3>1. {"accepted", "poll", "settle", "done", "decide"} \subseteq Pcs
      BY DEF Pcs
    <3>2. PICK pc \in {"accepted", "poll", "settle", "done", "decide"} : Goto(w, pc)
      BY <2>1
    <3>3. pc \in Pcs
      BY <3>1, <3>2
    <3> QED
      BY <3>2, <3>3, Gone
  <2>2. CASE \E kind \in ErrorKinds : Throw(w, kind, FALSE)
    <3>1. PICK kind \in ErrorKinds : Throw(w, kind, FALSE)
      BY <2>2
    <3>2. FALSE \in BOOLEAN
      OBVIOUS
    <3>3. PICK r \in Run :
            /\ run' = [run EXCEPT ![w] = r]
            /\ r.pc = (IF run[w].no = 0 THEN "decide" ELSE "guard") /\ r.sure = FALSE /\ r.err = kind
            /\ r.key = run[w].key /\ r.no = run[w].no /\ r.cands = run[w].cands
      BY <3>1, <3>2, Thrown
    <3>4. r.pc = "guard" /\ ~r.sure
      BY <1>1, <3>3
    <3> QED
      BY <3>3, <3>4
  <2> QED
    BY <2>1, <2>2
<1>3. Sound(r)'
  BY <1>1, <1>2 DEF Sound, Holding
<1>4. Holds(run[w], r.key, r.no)
  BY <1>2 DEF Holds
<1> QED
  BY <1>1, <1>2, <1>3, <1>4, AttemptMoves

LEMMA MineKnown ==
  ASSUME CallsInv, NEW w \in Worker, run[w].pc \in Holding
  PROVE  /\ Mine(w) \in Attempt
         /\ Mine(w).status = "FAILED" => Mine(w).job \in {"none", "failed"}
         /\ Mine(w).known => Mine(w).status # "SUBMITTING"
         /\ op \in {"open", "over"} /\ runs \in 0 .. MaxRuns /\ overlaps \in Nat /\ mishaps \in Nat
<1>1. /\ run[w].key \in Provider /\ run[w].no \in 1 .. Len(journal[run[w].key])
      /\ journal[run[w].key] \in Seq(Attempt)
  BY DEF CallsInv, CallsTypeOK, Sound
<1>2. journal[run[w].key][run[w].no] \in Attempt
  BY <1>1
<1>3. Mine(w) = journal[run[w].key][run[w].no]
  BY DEF Mine
<1> QED
  BY <1>1, <1>2, <1>3 DEF CallsInv, CallsTypeOK, JournalOK

\* The adapter's POST, the id it reports, the wait and the record of the end.
LEMMA VendorSteps ==
  ASSUME CallsInv, NEW w \in Worker, Post(w) \/ Submitted(w) \/ Poll(w) \/ Settle(w)
  PROVE  CallsInv'
<1> DEFINE a == Mine(w)
<1>1. run[w].pc \in Holding /\ UNCHANGED <<op, runs, overlaps>>
  BY DEF Post, Submitted, Poll, Settle, At, Holding
<1>2. /\ a \in Attempt /\ mishaps \in Nat
      /\ a.status = "FAILED" => a.job \in {"none", "failed"}
      /\ a.known => a.status # "SUBMITTING"
  BY <1>1, MineKnown
<1>3. mishaps' \in Nat
  <2>1. \/ UNCHANGED mishaps
        \/ mishaps' = mishaps + 1
    BY DEF Post, Submitted, Poll, Settle, Mishap
  <2> QED
    BY <1>2, <2>1
<1>4. {"DOWN", "RETRYABLE", "REFUSED", "UNKNOWN", "INVALID"} \subseteq ErrorKinds /\ {TRUE, FALSE} \subseteq BOOLEAN
  BY DEF ErrorKinds
<1>5. ASSUME NEW kind \in {"DOWN", "RETRYABLE", "REFUSED", "UNKNOWN"}, Throw(w, kind, FALSE), UNCHANGED journal
      PROVE  CallsInv'
  BY <1>1, <1>3, <1>4, <1>5, HolderThrows
<1>6. ASSUME NEW b \in Attempt, SetMine(w, b),
             \/ \E pc \in {"accepted", "poll", "settle", "done"} : Goto(w, pc)
             \/ \E kind \in {"DOWN", "RETRYABLE", "REFUSED"} : Throw(w, kind, FALSE),
             b.status = "FAILED" => b.job \in {"none", "failed"},
             b.known => b.status # "SUBMITTING",
             a.known => b.known,
             a.status = "FAILED" => b.status = "FAILED"
      PROVE  CallsInv'
  <2>1. \/ \E pc \in {"accepted", "poll", "settle", "done", "decide"} : Goto(w, pc)
        \/ \E kind \in ErrorKinds : Throw(w, kind, FALSE)
    BY <1>4, <1>6
  <2> HIDE DEF a
  <2>2. (Mine(w).known => b.known) /\ (Mine(w).status = "FAILED" => b.status = "FAILED")
    BY <1>6 DEF a
  <2> QED
    BY <1>1, <1>3, <1>6, <2>1, <2>2, HolderWrites
<1>7. CASE Post(w)
  <2>1. a = NewAttempt
    <3>1. run[w].pc = "post"
      BY <1>7 DEF Post, At
    <3> QED
      BY <3>1 DEF CallsInv, Sound, Mine
  <2>2. a.job = "none" /\ a.status = "SUBMITTING" /\ ~a.known
    BY <2>1 DEF NewAttempt
  <2>3. ASSUME NEW kind \in {"DOWN", "RETRYABLE", "REFUSED", "INVALID"}, Throw(w, kind, TRUE), UNCHANGED journal
        PROVE  CallsInv'
    BY <1>1, <1>3, <1>4, <2>2, <2>3, HolderThrows
  <2>4. ASSUME NEW job \in {"none", "live", "made"}
        PROVE  LET b == [a EXCEPT !.job = job] IN
               /\ b \in Attempt /\ b.status = "SUBMITTING" /\ ~b.known
    BY <1>2, <2>2 DEF Attempt
  <2> HIDE DEF a
  <2>5. ASSUME NEW job \in {"none", "live", "made"}, SetMine(w, [a EXCEPT !.job = job]),
               Goto(w, "accepted") \/ Goto(w, "settle") \/ Throw(w, "RETRYABLE", FALSE)
        PROVE  CallsInv'
    <3> DEFINE b == [a EXCEPT !.job = job]
    <3>1. b \in Attempt /\ b.status = "SUBMITTING" /\ ~b.known
      BY <2>4
    <3>2. SetMine(w, b)
      BY <2>5
    <3> HIDE DEF b
    <3> QED
      BY <1>6, <2>2, <2>5, <3>1, <3>2
  <2> QED
    BY <1>7, <2>3, <2>5 DEF Post, a
<1>8. CASE Submitted(w)
  <2> HIDE DEF a
  <2>1. CASE a.status = "SUBMITTING" /\ SetMine(w, [a EXCEPT !.status = "SUBMITTED", !.known = TRUE]) /\ Goto(w, "poll")
    <3> DEFINE b == [a EXCEPT !.status = "SUBMITTED", !.known = TRUE]
    <3>1. b \in Attempt /\ b.status = "SUBMITTED" /\ b.known
      BY <1>2 DEF Attempt
    <3>2. SetMine(w, b)
      BY <2>1
    <3> HIDE DEF b
    <3> QED
      BY <1>6, <2>1, <3>1, <3>2
  <2> QED
    BY <1>5, <1>8, <2>1 DEF Submitted, a
<1>9. CASE Poll(w)
  <2> HIDE DEF a
  <2>1. CASE a.job \in {"live", "made"} /\ SetMine(w, [a EXCEPT !.job = "made"]) /\ Goto(w, "settle")
    <3> DEFINE b == [a EXCEPT !.job = "made"]
    <3>1. b \in Attempt /\ b.status = a.status /\ b.known = a.known /\ a.status # "FAILED"
      BY <1>2, <2>1 DEF Attempt
    <3>2. SetMine(w, b)
      BY <2>1
    <3> HIDE DEF b
    <3> QED
      BY <1>2, <1>6, <2>1, <3>1, <3>2
  <2>2. ASSUME NEW kind \in {"RETRYABLE", "REFUSED"}, Throw(w, kind, FALSE),
               SetMine(w, [Settled(a, "FAILED") EXCEPT !.job = "failed"])
        PROVE  CallsInv'
    <3> DEFINE b == [Settled(a, "FAILED") EXCEPT !.job = "failed"]
    <3>0. Settled(a, "FAILED") \in Attempt /\ Settled(a, "FAILED").known = a.known
          /\ (a.status \in {"SUBMITTING", "FAILED"} => Settled(a, "FAILED").status = "FAILED")
          /\ (Settled(a, "FAILED").status # "SUBMITTING")
      BY <1>2 DEF Settled, Attempt
    <3>1. b \in Attempt /\ b.known = a.known /\ b.job = "failed"
          /\ (a.status \in {"SUBMITTING", "FAILED"} => b.status = "FAILED") /\ b.status # "SUBMITTING"
      BY <3>0 DEF Attempt
    <3>2. SetMine(w, b)
      BY <2>2
    <3> HIDE DEF b
    <3> QED
      BY <1>6, <2>2, <3>1, <3>2
  <2> QED
    BY <1>5, <1>9, <2>1, <2>2 DEF Poll, a
<1>10. CASE Settle(w)
  <2> HIDE DEF a
  <2>1. CASE SetMine(w, Settled(a, "SUCCEEDED")) /\ Goto(w, "done")
    <3> DEFINE b == Settled(a, "SUCCEEDED")
    <3>1. b \in Attempt /\ b.known = a.known /\ b.job = a.job /\ b.status # "SUBMITTING"
          /\ (b.status = "FAILED" <=> a.status = "FAILED")
      BY <1>2 DEF Settled, Attempt
    <3>2. SetMine(w, b)
      BY <2>1
    <3> HIDE DEF b
    <3> QED
      BY <1>2, <1>6, <2>1, <3>1, <3>2
  <2> QED
    BY <1>5, <1>10, <2>1 DEF Settle, a
<1> QED
  BY <1>7, <1>8, <1>9, <1>10

\* The fallback goes on after a failure the row records, or one that proves there is no job.
LEMMA GuardStep ==
  ASSUME CallsInv, NEW w \in Worker, GuardFailure(w)
  PROVE  CallsInv'
<1> DEFINE a == Mine(w)
<1>1. run[w].pc = "guard" /\ run[w].pc \in Holding /\ UNCHANGED <<runs, overlaps, mishaps>>
  BY DEF GuardFailure, At, Holding
<1>2. /\ a \in Attempt /\ op \in {"open", "over"} /\ runs \in 0 .. MaxRuns /\ overlaps \in Nat /\ mishaps \in Nat
      /\ a.status = "FAILED" => a.job \in {"none", "failed"}
      /\ a.known => a.status # "SUBMITTING"
  BY <1>1, MineKnown
<1>3. run[w].sure => a.job = "none" \/ a.known
  BY <1>1 DEF CallsInv, Sound, Mine
<1>4. CASE Goto(w, "decide") /\ UNCHANGED <<journal, op>>
  <2>1. "decide" \in Pcs
    BY DEF Pcs
  <2>2. PICK r \in Run : run' = [run EXCEPT ![w] = r] /\ r.pc = "decide"
    BY <1>4, <2>1, Gone
  <2>3. Sound(r) /\ r.pc \notin Holding
    BY <2>2 DEF Sound, Holding
  <2> QED
    BY <1>1, <1>2, <1>4, <2>2, <2>3, RunMoves
<1>5. ASSUME NEW kind, EndRun(w, kind), UNCHANGED journal PROVE CallsInv'
  <2>1. run' = [run EXCEPT ![w] = Off] /\ op' \in {"open", "over"}
    BY <1>5, EndsRun
  <2>2. Off \in Run /\ Sound(Off) /\ Off.pc \notin Holding
    BY OffRow DEF Holding
  <2> QED
    BY <1>1, <1>2, <1>5, <2>1, <2>2, RunMoves
<1>6. CASE Rejected(a, run[w].err, run[w].sure) /\ SetMine(w, Settled(a, "FAILED")) /\ Goto(w, "decide") /\ UNCHANGED op
  <2> DEFINE b == Settled(a, "FAILED")
  <2> HIDE DEF a
  <2>1. a.status = "SUBMITTING" /\ a.job = "none"
    BY <1>2, <1>3, <1>6 DEF Rejected
  <2>2. b \in Attempt /\ b.status = "FAILED" /\ b.job = "none" /\ b.known = a.known
    BY <1>2, <2>1 DEF Settled, Attempt
  <2>3. SetMine(w, b)
    BY <1>6
  <2> HIDE DEF b
  <2>4. (Mine(w).known => b.known) /\ (Mine(w).status = "FAILED" => b.status = "FAILED")
    BY <2>2 DEF a
  <2>5. \E pc \in {"accepted", "poll", "settle", "done", "decide"} : Goto(w, pc)
    BY <1>6
  <2>6. /\ mishaps' \in Nat /\ UNCHANGED <<op, runs, overlaps>>
        /\ b.status = "FAILED" => b.job \in {"none", "failed"}
        /\ b.known => b.status # "SUBMITTING"
    BY <1>1, <1>2, <1>6, <2>2
  <2> QED
    BY <1>1, <2>2, <2>3, <2>4, <2>5, <2>6, HolderWrites
<1> QED
  BY <1>4, <1>5, <1>6 DEF GuardFailure

LEMMA CallsStep == CallsInv /\ [Next]_vars => CallsInv'
<1> SUFFICES ASSUME CallsInv, [Next]_vars PROVE CallsInv'
  OBVIOUS
<1>1. ASSUME NEW w \in Worker, \/ StartRun(w) \/ Route(w) \/ Outstanding(w) \/ Candidate(w)
                               \/ Decide(w) \/ Finish(w) \/ Crash(w)
      PROVE  CallsInv'
  BY <1>1, FreeSteps
<1>2. ASSUME NEW w \in Worker, Post(w) \/ Submitted(w) \/ Poll(w) \/ Settle(w) PROVE CallsInv'
  BY <1>2, VendorSteps
<1>3. ASSUME NEW w \in Worker, Begin(w) \/ Create(w) \/ GuardFailure(w) PROVE CallsInv'
  BY <1>3, BeginStep, CreateStep, GuardStep
<1>4. CASE UNCHANGED vars
  BY <1>4 DEF vars, CallsInv, CallsTypeOK, JournalOK, Sound, Exclusive, Holds
<1> QED
  BY <1>1, <1>2, <1>3, <1>4 DEF Next

\* The inductive invariant of the attempt journal (provider.attempts.ts).
THEOREM Invariance == Spec => []CallsInv
<1>1. Init => CallsInv
  BY InitCalls
<1>2. CallsInv /\ [Next]_vars => CallsInv'
  BY CallsStep
<1> QED
  BY <1>1, <1>2, PTL DEF Spec

\* Every row, run and counter has its type.
THEOREM CallsTypeCorrect == Spec => []CallsTypeOK
<1>1. CallsInv => CallsTypeOK
  BY DEF CallsInv
<1> QED
  BY <1>1, Invariance, PTL

\* provider.attempts.ts, begin: a new call follows a definite failure of the one before it,
\* for any number of workers and beside any other run.
THEOREM NewCallCorrect == Spec => []NewCallAfterFailure
<1>1. CallsInv => NewCallAfterFailure
  <2> SUFFICES ASSUME CallsInv, NEW k \in Provider, NEW n \in DOMAIN journal[k], n < Len(journal[k])
               PROVE  journal[k][n].status = "FAILED" /\ journal[k][n].job \in {"none", "failed"}
    BY DEF NewCallAfterFailure
  <2>1. journal[k] \in Seq(Attempt)
    BY DEF CallsInv, CallsTypeOK
  <2>2. n \in 1 .. Len(journal[k])
    BY <2>1
  <2> QED
    BY <2>2 DEF CallsInv, JournalOK
<1> QED
  BY <1>1, Invariance, PTL

-----------------------------------------------------------------------------
(* One operation is never with two vendors, as long as runs follow each     *)
(* other.                                                                   *)

\* The vendor works on attempt n at k, or has made what it asks for.
Live(k, n) == journal[k][n].job \in {"live", "made"}

\* A run sends one submission to a provider at the most: there is room for it.
Room(r) ==
  /\ r.pc \in {"route", "outstanding"} => \A k \in Provider : Len(journal[k]) < runs
  /\ r.pc # "idle" => \A k \in r.cands : Len(journal[k]) < runs
  /\ r.pc \in {"begin", "create"} => Len(journal[r.key]) < runs /\ r.key \notin r.cands

\* A run that has found a live job, or made one, is about that job and no other.
Faithful(r) ==
  \A k \in Provider : \A n \in 1 .. Len(journal[k]) : Live(k, n) =>
    /\ r.pc \notin {"create", "post"}
    /\ r.pc \in {"next", "decide"} => r.cands \subseteq {k}
    /\ r.pc = "begin" => r.cands = {} /\ r.key = k
    /\ r.pc \in {"accepted", "poll", "settle", "guard"} => r.key = k /\ r.no = n

Solo == \A v, w \in Worker : v # w => run[v].pc = "idle" \/ run[w].pc = "idle"

OneLive ==
  \A k, j \in Provider : \A n \in 1 .. Len(journal[k]), m \in 1 .. Len(journal[j]) :
    Live(k, n) /\ Live(j, m) => k = j /\ n = m

OneInv ==
  overlaps = 0 =>
    /\ Solo
    /\ \A k \in Provider : Len(journal[k]) <= runs
    /\ \A w \in Worker : Room(run[w]) /\ Faithful(run[w])
    /\ OneLive

-----------------------------------------------------------------------------
LEMMA IdleIsFine == ASSUME NEW r, r.pc = "idle" PROVE Room(r) /\ Faithful(r)
BY DEF Room, Faithful

LEMMA InitOne == Init => OneInv
<1> SUFFICES ASSUME Init PROVE OneInv
  OBVIOUS
<1>1. \A w \in Worker : run[w] = Off
  BY DEF Init
<1>2. \A w \in Worker : run[w].pc = "idle"
  BY <1>1, OffRow
<1>3. \A k \in Provider : Len(journal[k]) = 0
  BY DEF Init
<1>4. Solo /\ OneLive /\ \A k \in Provider : Len(journal[k]) <= runs
  BY <1>2, <1>3 DEF Solo, OneLive, Init
<1> QED
  BY <1>2, <1>4, IdleIsFine DEF OneInv

\* The run of w moves to r while every other is idle.
LEMMA LoneMove ==
  ASSUME CallsInv, NEW w \in Worker, NEW r \in Run, run' = [run EXCEPT ![w] = r],
         \A v \in Worker : v # w => run[v].pc = "idle",
         Room(r)', Faithful(r)', OneLive', \A k \in Provider : Len(journal'[k]) <= runs'
  PROVE  OneInv'
<1>1. run'[w] = r /\ \A v \in Worker : v # w => run'[v] = run[v]
  BY DEF CallsInv, CallsTypeOK
<1>2. Solo'
  BY <1>1 DEF Solo
<1>3. ASSUME NEW v \in Worker PROVE (Room(run[v]) /\ Faithful(run[v]))'
  <2>1. CASE v = w
    BY <1>1, <2>1 DEF Room, Faithful
  <2>2. CASE v # w
    BY <1>1, <2>2 DEF Room, Faithful
  <2> QED
    BY <2>1, <2>2
<1> QED
  BY <1>2, <1>3 DEF OneInv

\* The same, when the journal is left alone.
LEMMA LoneRead ==
  ASSUME CallsInv, OneInv, overlaps = 0, NEW w \in Worker, NEW r \in Run, run' = [run EXCEPT ![w] = r],
         \A v \in Worker : v # w => run[v].pc = "idle",
         UNCHANGED journal, runs' = runs \/ runs' = runs + 1, Room(r)', Faithful(r)
  PROVE  OneInv'
<1>1. OneLive' /\ Faithful(r)'
  BY DEF OneInv, OneLive, Live, Faithful
<1>2. runs \in Nat /\ \A k \in Provider : Len(journal[k]) \in Nat
  BY CallsAssumption DEF CallsInv, CallsTypeOK
<1>3. \A k \in Provider : Len(journal'[k]) <= runs'
  BY <1>2 DEF OneInv
<1> QED
  BY <1>1, <1>3, LoneMove

\* Whoever is not idle is the only one.
LEMMA OthersIdle ==
  ASSUME OneInv, overlaps = 0, NEW w \in Worker, run[w].pc # "idle"
  PROVE  /\ \A v \in Worker : v # w => run[v].pc = "idle"
         /\ Room(run[w]) /\ Faithful(run[w])
BY DEF OneInv, Solo

\* A run that holds an attempt goes on with it, whatever it writes there.
LEMMA HolderIsOne ==
  ASSUME CallsInv, OneInv, overlaps = 0, NEW w \in Worker, run[w].pc \in Holding,
         NEW a \in Attempt,
         \A k \in Provider : Len(journal'[k]) = Len(journal[k]),
         \A k \in Provider : \A n \in 1 .. Len(journal[k]) :
           journal'[k][n] = IF k = run[w].key /\ n = run[w].no THEN a ELSE journal[k][n],
         NEW r \in Run, run' = [run EXCEPT ![w] = r], UNCHANGED runs,
         r.cands = run[w].cands, r.key = run[w].key, r.no = run[w].no,
         \/ r.pc \in {"accepted", "poll", "settle", "guard", "done"}
         \/ r.pc = "decide" /\ a.job \notin {"live", "made"}
  PROVE  OneInv'
<1>1. run[w].pc # "idle" /\ run[w].pc \in {"post", "accepted", "poll", "settle", "guard"}
  BY DEF Holding
<1>2. Room(run[w]) /\ Faithful(run[w]) /\ \A v \in Worker : v # w => run[v].pc = "idle"
  BY <1>1, OthersIdle
<1>3. \A k \in Provider : \A n \in 1 .. Len(journal[k]) :
        Live(k, n)' => k = run[w].key /\ n = run[w].no /\ a.job \in {"live", "made"}
  BY <1>1, <1>2 DEF Faithful, Live
<1>4. OneLive'
  BY <1>3 DEF OneLive
<1>5. Faithful(r)'
  BY <1>3 DEF Faithful
<1>6. Room(r)'
  BY <1>1, <1>2 DEF Room, CallsInv, CallsTypeOK, Run
<1> QED
  BY <1>2, <1>4, <1>5, <1>6, LoneMove DEF OneInv

\* The run ends: nobody is left.
LEMMA LoneEnd ==
  ASSUME CallsInv, OneInv, overlaps = 0, NEW w \in Worker, run[w].pc # "idle",
         run' = [run EXCEPT ![w] = Off], UNCHANGED <<journal, runs>>
  PROVE  OneInv'
<1>1. (Room(Off) /\ Faithful(Off))' /\ Faithful(Off) /\ Off \in Run
  BY OffRow DEF Room, Faithful
<1> QED
  BY <1>1, OthersIdle, LoneRead

LEMMA EndsOne ==
  ASSUME CallsInv, OneInv, overlaps = 0, NEW w \in Worker, run[w].pc # "idle", NEW kind, EndRun(w, kind),
         UNCHANGED <<journal, runs>>
  PROVE  OneInv'
BY EndsRun, LoneEnd

\* A live job's row is open, and among those outstanding looks at.
LEMMA LiveIsUnsettled ==
  ASSUME CallsInv, OneInv, overlaps = 0, NEW k \in Provider, NEW n \in 1 .. Len(journal[k]), Live(k, n)
  PROVE  <<k, n>> \in Unsettled /\ Open(journal[k][n]) /\ n = Len(journal[k])
<1>1. runs \in 0 .. MaxRuns /\ MaxRuns \in Nat /\ journal[k] \in Seq(Attempt) /\ Len(journal[k]) <= runs
  BY CallsAssumption DEF CallsInv, CallsTypeOK, OneInv
<1>2. journal[k][n].status # "FAILED"
  BY DEF CallsInv, JournalOK, Live
<1>3. n = Len(journal[k])
  BY <1>1, <1>2 DEF CallsInv, JournalOK
<1>4. n \in DOMAIN journal[k] /\ n \in 1 .. MaxRuns
  BY <1>1
<1> QED
  BY <1>2, <1>3, <1>4 DEF Unsettled, Open

\* A run reaches its operation: no other is on its way.
LEMMA OneStart ==
  ASSUME CallsInv, OneInv, NEW w \in Worker, overlaps' = 0,
         StartRun(w)
  PROVE  OneInv'
<1>1. overlaps \in Nat /\ runs \in 0 .. MaxRuns /\ MaxRuns \in Nat /\ run[w] \in Run /\ runs \in Nat
      /\ \A k \in Provider : Len(journal[k]) \in Nat
  BY CallsAssumption DEF CallsInv, CallsTypeOK
<1>2. overlaps = 0 /\ (\A v \in Worker : run[v].pc = "idle") /\ runs' = runs + 1 /\ UNCHANGED journal /\ Goto(w, "route")
  BY <1>1 DEF StartRun, At
<1>3. "route" \in Pcs
  BY DEF Pcs
<1>4. PICK r \in Run : run' = [run EXCEPT ![w] = r] /\ r.pc = "route"
  BY <1>2, <1>3, Gone
<1>5. \A k \in Provider : Len(journal'[k]) < runs'
  BY <1>1, <1>2 DEF OneInv
<1>6. Faithful(r) /\ Room(r)'
  BY <1>4, <1>5 DEF Faithful, Room, Run
<1> QED
  BY <1>2, <1>4, <1>6, LoneRead

\* The router's answer, the search for an accepted job and the choice of a candidate.
LEMMA OneRoute ==
  ASSUME CallsInv, OneInv, overlaps = 0, NEW w \in Worker, Route(w)
  PROVE  OneInv'
<1>1. /\ run[w].pc = "route" /\ run[w] \in Run /\ UNCHANGED <<journal, runs>>
      /\ Room(run[w]) /\ \A v \in Worker : v # w => run[v].pc = "idle"
  <2>1. run[w].pc = "route" /\ run[w].pc # "idle"
    BY DEF Route, At
  <2> QED
    BY <2>1, OthersIdle DEF Route, CallsInv, CallsTypeOK
<1>2. PICK found \in SUBSET Provider : run' = [run EXCEPT ![w] = [run[w] EXCEPT !.pc = "outstanding", !.cands = found]]
  BY DEF Route
<1> DEFINE r == [run[w] EXCEPT !.pc = "outstanding", !.cands = found]
<1>3. r \in Run /\ r.pc = "outstanding"
  BY <1>1 DEF Run, Pcs
<1>4. run' = [run EXCEPT ![w] = r]
  BY <1>2
<1> HIDE DEF r
<1>5. PICK q \in Run : q = r
  BY <1>3
<1>6. Faithful(q) /\ Room(q)'
  BY <1>1, <1>3, <1>5 DEF Faithful, Room, Run
<1> QED
  BY <1>1, <1>4, <1>5, <1>6, LoneRead

LEMMA OneOutstanding ==
  ASSUME CallsInv, OneInv, overlaps = 0, NEW w \in Worker, Outstanding(w)
  PROVE  OneInv'
<1>1. /\ run[w].pc = "outstanding" /\ run[w].pc # "idle" /\ run[w] \in Run /\ UNCHANGED <<journal, runs>>
      /\ Room(run[w]) /\ \A v \in Worker : v # w => run[v].pc = "idle"
  <2>1. run[w].pc = "outstanding" /\ run[w].pc # "idle"
    BY DEF Outstanding, At
  <2> QED
    BY <2>1, OthersIdle DEF Outstanding, CallsInv, CallsTypeOK
<1>2. CASE Unsettled = {} /\ Goto(w, "next")
  <2>0. "next" \in Pcs
    BY DEF Pcs
  <2>1. PICK r \in Run : run' = [run EXCEPT ![w] = r] /\ r.pc = "next" /\ r.cands = run[w].cands
    BY <1>2, <2>0, Gone
  <2>2. Faithful(r)
    BY <1>2, LiveIsUnsettled DEF Faithful
  <2>3. Room(r)'
    BY <1>1, <2>1 DEF Room
  <2> QED
    BY <1>1, <2>1, <2>2, <2>3, LoneRead
<1>3. ASSUME NEW a \in Unsettled, Unsettled = {a}, run' = [run EXCEPT ![w].pc = "next", ![w].cands = {a[1]}]
      PROVE  OneInv'
  <2> DEFINE r == [run[w] EXCEPT !.pc = "next", !.cands = {a[1]}]
  <2>1. a[1] \in Provider
    BY DEF Unsettled
  <2>2. r \in Run /\ r.pc = "next" /\ r.cands = {a[1]}
    BY <1>1, <2>1 DEF Run, Pcs
  <2>3. run' = [run EXCEPT ![w] = r]
    BY <1>3
  <2> HIDE DEF r
  <2>4. PICK q \in Run : q = r
    BY <2>2
  <2>5. \A k \in Provider : \A n \in 1 .. Len(journal[k]) : Live(k, n) => k = a[1]
    BY <1>3, LiveIsUnsettled
  <2>6. Faithful(q)
    BY <2>2, <2>4, <2>5 DEF Faithful
  <2>7. Room(q)'
    BY <1>1, <2>1, <2>2, <2>4 DEF Room
  <2> QED
    BY <1>1, <2>3, <2>4, <2>6, <2>7, LoneRead
<1> QED
  BY <1>1, <1>2, <1>3, EndsOne DEF Outstanding

LEMMA OneCandidate ==
  ASSUME CallsInv, OneInv, overlaps = 0, NEW w \in Worker, Candidate(w)
  PROVE  OneInv'
<1>1. /\ run[w].pc = "next" /\ run[w].pc # "idle" /\ run[w] \in Run /\ UNCHANGED <<journal, runs>>
      /\ Room(run[w]) /\ Faithful(run[w]) /\ \A v \in Worker : v # w => run[v].pc = "idle"
  <2>1. run[w].pc = "next" /\ run[w].pc # "idle"
    BY DEF Candidate, At
  <2> QED
    BY <2>1, OthersIdle DEF Candidate, CallsInv, CallsTypeOK
<1>2. ASSUME NEW k \in run[w].cands,
             run' = [run EXCEPT ![w].pc = "begin", ![w].key = k, ![w].cands = @ \ {k},
                                ![w].no = 0, ![w].err = "none", ![w].sure = FALSE]
      PROVE  OneInv'
  <2> DEFINE r == [run[w] EXCEPT !.pc = "begin", !.key = k, !.cands = @ \ {k},
                                 !.no = 0, !.err = "none", !.sure = FALSE]
  <2>1. r \in Run /\ r.pc = "begin" /\ r.key = k /\ r.cands = run[w].cands \ {k} /\ k \in Provider
    BY <1>1 DEF Run, Pcs
  <2>2. run' = [run EXCEPT ![w] = r]
    BY <1>2
  <2> HIDE DEF r
  <2>3. PICK q \in Run : q = r
    BY <2>1
  <2>4. Faithful(q)
    BY <1>1, <2>1, <2>3 DEF Faithful
  <2>5. Room(q)'
    BY <1>1, <2>1, <2>3 DEF Room
  <2> QED
    BY <1>1, <2>2, <2>3, <2>4, <2>5, LoneRead
<1> QED
  BY <1>1, <1>2, EndsOne DEF Candidate

-----------------------------------------------------------------------------
(* One candidate's turn.                                                   *)

\* begin resumes the live job when there is one, and only then makes no new row.
LEMMA OneBegin ==
  ASSUME CallsInv, OneInv, overlaps = 0, NEW w \in Worker, Begin(w)
  PROVE  OneInv'
<1> DEFINE k == run[w].key
           n == Len(journal[k])
<1>1. /\ run[w].pc = "begin" /\ run[w].pc # "idle" /\ run[w] \in Run /\ UNCHANGED <<journal, runs>>
      /\ Room(run[w]) /\ Faithful(run[w]) /\ \A v \in Worker : v # w => run[v].pc = "idle"
      /\ run[w].no = 0 /\ k \in Provider /\ journal[k] \in Seq(Attempt) /\ n \in Nat
  <2>1. run[w].pc = "begin" /\ run[w].pc # "idle"
    BY DEF Begin, At
  <2>2. run[w].no = 0 /\ k \in Provider
    BY <2>1 DEF CallsInv, Sound
  <2>3. run[w] \in Run /\ journal \in [Provider -> Seq(Attempt)]
    BY DEF CallsInv, CallsTypeOK
  <2>4. journal[k] \in Seq(Attempt) /\ n \in Nat
    BY <2>2, <2>3
  <2> QED
    BY <2>1, <2>2, <2>3, <2>4, OthersIdle DEF Begin
<1>2. \A j \in Provider : \A m \in 1 .. Len(journal[j]) :
        Live(j, m) => j = k /\ m = n /\ Open(journal[k][n]) /\ run[w].cands = {}
  BY <1>1, LiveIsUnsettled DEF Faithful
<1> HIDE DEF n
<1>3. CASE run' = [run EXCEPT ![w].pc = "poll", ![w].no = n]
  <2> DEFINE r == [run[w] EXCEPT !.pc = "poll", !.no = n]
  <2>1. r \in Run /\ r.pc = "poll" /\ r.key = k /\ r.no = n /\ r.cands = run[w].cands
    BY <1>1 DEF Run, Pcs
  <2>2. run' = [run EXCEPT ![w] = r]
    BY <1>3
  <2> HIDE DEF r
  <2>3. PICK q \in Run : q = r
    BY <2>1
  <2>4. Faithful(q) /\ Room(q)'
    BY <1>1, <1>2, <2>1, <2>3 DEF Faithful, Room
  <2> QED
    BY <1>1, <2>2, <2>3, <2>4, LoneRead
<1>4. CASE Throw(w, "UNKNOWN", FALSE)
  <2>0. "UNKNOWN" \in ErrorKinds /\ FALSE \in BOOLEAN
    BY DEF ErrorKinds
  <2>1. PICK r \in Run : /\ run' = [run EXCEPT ![w] = r] /\ r.pc = (IF run[w].no = 0 THEN "decide" ELSE "guard")
                         /\ r.cands = run[w].cands
    BY <1>4, <2>0, Thrown
  <2>2. r.pc = "decide"
    BY <1>1, <2>1
  <2>3. Faithful(r) /\ Room(r)'
    BY <1>1, <1>2, <2>1, <2>2 DEF Faithful, Room
  <2> QED
    BY <1>1, <2>1, <2>3, LoneRead
<1>5. CASE (n > 0 => ~Open(journal[k][n])) /\ run' = [run EXCEPT ![w].pc = "create", ![w].no = n + 1]
  <2> DEFINE r == [run[w] EXCEPT !.pc = "create", !.no = n + 1]
  <2>0. n + 1 \in Nat /\ "create" \in Pcs
    BY <1>1 DEF Pcs
  <2>1. r \in Run /\ r.pc = "create" /\ r.key = k /\ r.cands = run[w].cands
    BY <1>1, <2>0 DEF Run
  <2>2. run' = [run EXCEPT ![w] = r]
    BY <1>5
  <2> HIDE DEF r
  <2>3. PICK q \in Run : q = r
    BY <2>1
  <2>4. \A j \in Provider : \A m \in 1 .. Len(journal[j]) : ~Live(j, m)
    BY <1>1, <1>2, <1>5
  <2>5. Faithful(q) /\ Room(q)'
    BY <1>1, <2>1, <2>3, <2>4 DEF Faithful, Room
  <2> QED
    BY <1>1, <2>2, <2>3, <2>5, LoneRead
<1> QED
  BY <1>3, <1>4, <1>5 DEF Begin, n

\* What an append does to the journal.
LEMMA AppendIsSet ==
  ASSUME journal \in [Provider -> Seq(Attempt)], NEW k0 \in Provider,
         journal' = [journal EXCEPT ![k0] = Append(@, NewAttempt)]
  PROVE  \A k \in Provider :
           /\ Len(journal'[k]) = IF k = k0 THEN Len(journal[k]) + 1 ELSE Len(journal[k])
           /\ \A n \in 1 .. Len(journal'[k]) :
                journal'[k][n] = IF k = k0 /\ n = Len(journal[k]) + 1 THEN NewAttempt ELSE journal[k][n]
<1>1. NewAttempt \in Attempt
  BY DEF NewAttempt, Attempt
<1>2. /\ Len(Append(journal[k0], NewAttempt)) = Len(journal[k0]) + 1
      /\ \A n \in 1 .. Len(journal[k0]) + 1 :
           Append(journal[k0], NewAttempt)[n] = IF n = Len(journal[k0]) + 1 THEN NewAttempt ELSE journal[k0][n]
  <2>1. journal[k0] \in Seq(Attempt)
    OBVIOUS
  <2> QED
    BY <1>1, <2>1
<1>3. journal'[k0] = Append(journal[k0], NewAttempt) /\ \A k \in Provider : k # k0 => journal'[k] = journal[k]
  OBVIOUS
<1>4. \A k \in Provider : journal[k] \in Seq(Attempt) /\ Len(journal[k]) \in Nat
  OBVIOUS
<1> QED
  BY <1>2, <1>3, <1>4

\* The row of a new submission stands for no job yet.
LEMMA OneCreate ==
  ASSUME CallsInv, OneInv, overlaps = 0, NEW w \in Worker, Create(w)
  PROVE  OneInv'
<1> DEFINE k == run[w].key
<1>1. /\ run[w].pc = "create" /\ run[w].pc # "idle" /\ run[w] \in Run /\ UNCHANGED runs /\ runs \in Nat
      /\ Room(run[w]) /\ Faithful(run[w]) /\ \A v \in Worker : v # w => run[v].pc = "idle"
      /\ k \in Provider /\ journal \in [Provider -> Seq(Attempt)]
      /\ \A j \in Provider : Len(journal[j]) \in Nat /\ Len(journal[j]) <= runs
  <2>1. run[w].pc = "create" /\ run[w].pc # "idle" /\ UNCHANGED runs
    BY DEF Create, At
  <2>2. k \in Provider
    BY <2>1 DEF CallsInv, Sound
  <2>3. run[w] \in Run /\ journal \in [Provider -> Seq(Attempt)] /\ runs \in Nat
    BY CallsAssumption DEF CallsInv, CallsTypeOK
  <2>4. \A j \in Provider : Len(journal[j]) \in Nat /\ Len(journal[j]) <= runs
    BY <2>3 DEF OneInv
  <2> QED
    BY <2>1, <2>2, <2>3, <2>4, OthersIdle
<1>2. \A j \in Provider : \A n \in 1 .. Len(journal[j]) : ~Live(j, n)
  BY <1>1 DEF Faithful
<1>3. ASSUME NEW r \in Run, run' = [run EXCEPT ![w] = r], r.cands = run[w].cands, r.pc \in {"post", "decide"},
             UNCHANGED journal \/ journal' = [journal EXCEPT ![k] = Append(@, NewAttempt)]
      PROVE  OneInv'
  <2>1. CASE UNCHANGED journal
    <3>1. Faithful(r) /\ Room(r)'
      BY <1>1, <1>2, <1>3, <2>1 DEF Faithful, Room
    <3> QED
      BY <1>1, <1>3, <2>1, <3>1, LoneRead
  <2>2. CASE journal' = [journal EXCEPT ![k] = Append(@, NewAttempt)]
    <3> HIDE DEF k
    <3>1. \A j \in Provider :
            /\ Len(journal'[j]) = IF j = k THEN Len(journal[j]) + 1 ELSE Len(journal[j])
            /\ \A n \in 1 .. Len(journal'[j]) :
                 journal'[j][n] = IF j = k /\ n = Len(journal[j]) + 1 THEN NewAttempt ELSE journal[j][n]
      BY <1>1, <2>2, AppendIsSet
    <3>2. Len(journal[k]) < runs /\ k \notin run[w].cands /\ \A j \in run[w].cands : Len(journal[j]) < runs
      BY <1>1 DEF Room, k
    <3>3. NewAttempt.job = "none"
      BY DEF NewAttempt
    <3>4. ASSUME NEW j \in Provider, NEW n \in 1 .. Len(journal'[j]) PROVE ~Live(j, n)'
      <4>1. CASE j = k /\ n = Len(journal[j]) + 1
        BY <3>1, <3>3, <4>1 DEF Live
      <4>2. CASE ~(j = k /\ n = Len(journal[j]) + 1)
        <5>1. n \in 1 .. Len(journal[j]) /\ journal'[j][n] = journal[j][n]
          BY <1>1, <3>1, <4>2
        <5> QED
          BY <1>2, <5>1 DEF Live
      <4> QED
        BY <4>1, <4>2
    <3>5. Faithful(r)' /\ OneLive'
      BY <3>4 DEF Faithful, OneLive
    <3>6. \A j \in Provider : Len(journal'[j]) <= runs'
      BY <1>1, <3>1, <3>2
    <3>7. run[w].cands \subseteq Provider
      BY <1>1 DEF Run
    <3>8. Room(r)'
      BY <1>1, <1>3, <3>1, <3>2, <3>7 DEF Room
    <3> QED
      BY <1>1, <1>3, <3>5, <3>6, <3>8, LoneMove
  <2> QED
    BY <1>3, <2>1, <2>2
<1>4. CASE Goto(w, "post") /\ journal' = [journal EXCEPT ![k] = Append(@, NewAttempt)]
  <2>1. "post" \in Pcs
    BY DEF Pcs
  <2> QED
    BY <1>3, <1>4, <2>1, Gone
<1>5. CASE /\ run' = [run EXCEPT ![w].pc = "decide", ![w].err = "RETRYABLE", ![w].no = 0]
           /\ UNCHANGED journal \/ journal' = [journal EXCEPT ![k] = Append(@, NewAttempt)]
  <2> DEFINE r == [run[w] EXCEPT !.pc = "decide", !.err = "RETRYABLE", !.no = 0]
  <2>1. r \in Run /\ r.pc = "decide" /\ r.cands = run[w].cands
    BY <1>1 DEF Run, Pcs, ErrorKinds
  <2>2. run' = [run EXCEPT ![w] = r]
    BY <1>5
  <2> HIDE DEF r
  <2> QED
    BY <1>3, <1>5, <2>1, <2>2
<1> QED
  BY <1>4, <1>5 DEF Create

\* A run that holds an attempt writes it, or not, and goes on or throws.
LEMMA HolderGoesOn ==
  ASSUME CallsInv, OneInv, overlaps = 0, NEW w \in Worker, run[w].pc \in Holding, UNCHANGED runs,
         NEW a \in Attempt,
         SetMine(w, a) \/ (UNCHANGED journal /\ a = Mine(w)),
         \/ \E pc \in {"accepted", "poll", "settle", "done"} : Goto(w, pc)
         \/ \E kind \in ErrorKinds, sure \in BOOLEAN : Throw(w, kind, sure)
         \/ Goto(w, "decide") /\ a.job \notin {"live", "made"}
  PROVE  OneInv'
<1>1. /\ \A k \in Provider : Len(journal'[k]) = Len(journal[k])
      /\ \A k \in Provider : \A n \in 1 .. Len(journal[k]) :
           journal'[k][n] = IF k = run[w].key /\ n = run[w].no THEN a ELSE journal[k][n]
  <2>1. CASE SetMine(w, a)
    BY <2>1, MineIsSet
  <2>2. CASE UNCHANGED journal /\ a = Mine(w)
    BY <2>2 DEF Mine
  <2> QED
    BY <2>1, <2>2
<1>2. run[w].no # 0
  BY DEF CallsInv, CallsTypeOK, Sound
<1>3. {"accepted", "poll", "settle", "done", "decide"} \subseteq Pcs
  BY DEF Pcs
<1>4. PICK r \in Run : /\ run' = [run EXCEPT ![w] = r]
                       /\ r.cands = run[w].cands /\ r.key = run[w].key /\ r.no = run[w].no
                       /\ \/ r.pc \in {"accepted", "poll", "settle", "guard", "done"}
                          \/ r.pc = "decide" /\ a.job \notin {"live", "made"}
  <2>1. ASSUME NEW pc \in {"accepted", "poll", "settle", "done", "decide"}, Goto(w, pc)
        PROVE  \E r \in Run : /\ run' = [run EXCEPT ![w] = r] /\ r.pc = pc
                              /\ r.cands = run[w].cands /\ r.key = run[w].key /\ r.no = run[w].no
    <3>1. pc \in Pcs
      BY <1>3
    <3> QED
      BY <2>1, <3>1, Gone
  <2>2. ASSUME NEW kind \in ErrorKinds, NEW sure \in BOOLEAN, Throw(w, kind, sure)
        PROVE  \E r \in Run : /\ run' = [run EXCEPT ![w] = r] /\ r.pc = "guard"
                              /\ r.cands = run[w].cands /\ r.key = run[w].key /\ r.no = run[w].no
    BY <1>2, <2>2, Thrown
  <2>3. CASE \E pc \in {"accepted", "poll", "settle", "done"} : Goto(w, pc)
    BY <2>1, <2>3
  <2>4. CASE \E kind \in ErrorKinds, sure \in BOOLEAN : Throw(w, kind, sure)
    BY <2>2, <2>4
  <2>5. CASE Goto(w, "decide") /\ a.job \notin {"live", "made"}
    BY <2>1, <2>5
  <2> QED
    BY <2>3, <2>4, <2>5
<1> QED
  BY <1>1, <1>4, HolderIsOne

LEMMA OneAtVendor ==
  ASSUME CallsInv, OneInv, overlaps = 0, NEW w \in Worker, Post(w) \/ Submitted(w) \/ Poll(w) \/ Settle(w)
  PROVE  OneInv'
<1> DEFINE a == Mine(w)
<1>1. run[w].pc \in Holding /\ UNCHANGED runs
  BY DEF Post, Submitted, Poll, Settle, At, Holding
<1>2. a \in Attempt
  BY <1>1, MineKnown
<1>3. {"DOWN", "RETRYABLE", "REFUSED", "UNKNOWN", "INVALID"} \subseteq ErrorKinds /\ {TRUE, FALSE} \subseteq BOOLEAN
  BY DEF ErrorKinds
<1>4. ASSUME NEW kind \in {"DOWN", "RETRYABLE", "REFUSED", "UNKNOWN", "INVALID"}, NEW sure \in {TRUE, FALSE},
             Throw(w, kind, sure), UNCHANGED journal
      PROVE  OneInv'
  <2>1. \E e \in ErrorKinds, s \in BOOLEAN : Throw(w, e, s)
    BY <1>3, <1>4
  <2> QED
    BY <1>1, <1>2, <1>4, <2>1, HolderGoesOn
<1>5. ASSUME NEW b \in Attempt, SetMine(w, b),
             \/ \E pc \in {"accepted", "poll", "settle", "done"} : Goto(w, pc)
             \/ \E kind \in {"DOWN", "RETRYABLE", "REFUSED", "UNKNOWN", "INVALID"}, sure \in {TRUE, FALSE} :
                  Throw(w, kind, sure)
      PROVE  OneInv'
  <2>1. \/ \E pc \in {"accepted", "poll", "settle", "done"} : Goto(w, pc)
        \/ \E e \in ErrorKinds, s \in BOOLEAN : Throw(w, e, s)
    BY <1>3, <1>5
  <2> QED
    BY <1>1, <1>5, <2>1, HolderGoesOn
<1> HIDE DEF a
<1>6. CASE Post(w)
  <2>1. ASSUME NEW job \in {"none", "live", "made"} PROVE [a EXCEPT !.job = job] \in Attempt
    BY <1>2 DEF Attempt
  <2>2. ASSUME NEW job \in {"none", "live", "made"}, SetMine(w, [a EXCEPT !.job = job]),
               Goto(w, "accepted") \/ Goto(w, "settle") \/ Throw(w, "RETRYABLE", FALSE)
        PROVE  OneInv'
    BY <1>5, <2>1, <2>2
  <2> QED
    BY <1>4, <1>6, <2>2 DEF Post, a
<1>7. CASE Submitted(w)
  <2>1. [a EXCEPT !.status = "SUBMITTED", !.known = TRUE] \in Attempt
    BY <1>2 DEF Attempt
  <2> QED
    BY <1>4, <1>5, <1>7, <2>1 DEF Submitted, a
<1>8. CASE Poll(w)
  <2>1. [a EXCEPT !.job = "made"] \in Attempt
    BY <1>2 DEF Attempt
  <2>2. [Settled(a, "FAILED") EXCEPT !.job = "failed"] \in Attempt
    <3>1. Settled(a, "FAILED") \in Attempt
      BY <1>2 DEF Settled, Attempt
    <3> QED
      BY <3>1 DEF Attempt
  <2> QED
    BY <1>4, <1>5, <1>8, <2>1, <2>2 DEF Poll, a
<1>9. CASE Settle(w)
  <2>1. Settled(a, "SUCCEEDED") \in Attempt
    BY <1>2 DEF Settled, Attempt
  <2> QED
    BY <1>4, <1>5, <1>9, <2>1 DEF Settle, a
<1> QED
  BY <1>6, <1>7, <1>8, <1>9

\* The fallback goes on only when the vendor has nothing.
LEMMA OneGuard ==
  ASSUME CallsInv, OneInv, overlaps = 0, NEW w \in Worker, GuardFailure(w)
  PROVE  OneInv'
<1> DEFINE a == Mine(w)
<1>1. run[w].pc = "guard" /\ run[w].pc # "idle" /\ run[w].pc \in Holding /\ UNCHANGED runs
  BY DEF GuardFailure, At, Holding
<1>2. /\ a \in Attempt
      /\ a.status = "FAILED" => a.job \in {"none", "failed"}
      /\ a.known => a.status # "SUBMITTING"
  BY <1>1, MineKnown
<1>3. run[w].sure => a.job = "none" \/ a.known
  BY <1>1 DEF CallsInv, Sound, Mine
<1> HIDE DEF a
<1>4. CASE a.status = "FAILED" /\ Goto(w, "decide") /\ UNCHANGED journal
  BY <1>1, <1>2, <1>4, HolderGoesOn DEF a
<1>5. CASE Rejected(a, run[w].err, run[w].sure) /\ SetMine(w, Settled(a, "FAILED")) /\ Goto(w, "decide")
  <2> DEFINE b == Settled(a, "FAILED")
  <2>1. a.status = "SUBMITTING" /\ a.job = "none"
    BY <1>2, <1>3, <1>5 DEF Rejected
  <2>2. b \in Attempt /\ b.job = "none" /\ SetMine(w, b)
    BY <1>2, <1>5, <2>1 DEF Settled, Attempt
  <2> HIDE DEF b
  <2> QED
    BY <1>1, <1>5, <2>2, HolderGoesOn
<1>6. ASSUME NEW kind, EndRun(w, kind), UNCHANGED journal PROVE OneInv'
  BY <1>1, <1>6, EndsOne
<1> QED
  BY <1>4, <1>5, <1>6 DEF GuardFailure, a

LEMMA OneDecide ==
  ASSUME CallsInv, OneInv, overlaps = 0, NEW w \in Worker, Decide(w)
  PROVE  OneInv'
<1>1. /\ run[w].pc = "decide" /\ run[w].pc # "idle" /\ UNCHANGED <<journal, runs>>
      /\ Room(run[w]) /\ Faithful(run[w]) /\ \A v \in Worker : v # w => run[v].pc = "idle"
  <2>1. run[w].pc = "decide" /\ run[w].pc # "idle"
    BY DEF Decide, At
  <2> QED
    BY <2>1, OthersIdle DEF Decide
<1>2. CASE Goto(w, "next")
  <2>0. "next" \in Pcs
    BY DEF Pcs
  <2>1. PICK r \in Run : run' = [run EXCEPT ![w] = r] /\ r.pc = "next" /\ r.cands = run[w].cands
    BY <1>2, <2>0, Gone
  <2>2. Faithful(r) /\ Room(r)'
    BY <1>1, <2>1 DEF Faithful, Room
  <2> QED
    BY <1>1, <2>1, <2>2, LoneRead
<1> QED
  BY <1>1, <1>2, EndsOne DEF Decide

LEMMA OneEnd ==
  ASSUME CallsInv, OneInv, overlaps = 0, NEW w \in Worker, Finish(w) \/ Crash(w)
  PROVE  OneInv'
<1>1. run[w].pc # "idle" /\ UNCHANGED <<journal, runs>>
  BY DEF Finish, Crash, At
<1> QED
  BY <1>1, LoneEnd, EndsOne DEF Finish, Crash

LEMMA OneStep == CallsInv /\ OneInv /\ [Next]_vars => OneInv'
<1> SUFFICES ASSUME CallsInv, OneInv, [Next]_vars, overlaps' = 0 PROVE OneInv'
  BY DEF OneInv
<1>1. ASSUME NEW w \in Worker, StartRun(w) PROVE OneInv'
  BY <1>1, OneStart
<1>2. ASSUME NEW w \in Worker,
             \/ Route(w) \/ Outstanding(w) \/ Candidate(w) \/ Begin(w) \/ Create(w) \/ Post(w) \/ Submitted(w)
             \/ Poll(w) \/ Settle(w) \/ GuardFailure(w) \/ Decide(w) \/ Finish(w) \/ Crash(w)
      PROVE  OneInv'
  <2>1. overlaps = 0
    BY <1>2 DEF Route, Outstanding, Candidate, Begin, Create, Post, Submitted, Poll, Settle, GuardFailure, Decide,
                Finish, Crash
  <2> QED
    BY <1>2, <2>1, OneRoute, OneOutstanding, OneCandidate, OneBegin, OneCreate, OneAtVendor, OneGuard, OneDecide,
       OneEnd
<1>3. CASE UNCHANGED vars
  BY <1>3 DEF vars, OneInv, Solo, Room, Faithful, OneLive, Live
<1> QED
  BY <1>1, <1>2, <1>3 DEF Next

\* provider.service.ts, callWithFallback with the journal: the same operation is never with two
\* vendors, nor twice with one, as long as no run starts beside another.
THEOREM OneVendorCorrect == Spec => []OneVendorJob
<1>1. CallsInv /\ OneInv => OneVendorJob
  <2> SUFFICES ASSUME CallsInv, OneInv, overlaps = 0
               PROVE  \A k, j \in Provider : \A n \in DOMAIN journal[k], m \in DOMAIN journal[j] :
                        Live(k, n) /\ Live(j, m) => k = j /\ n = m
    BY DEF OneVendorJob, Live
  <2>1. \A k \in Provider : DOMAIN journal[k] = 1 .. Len(journal[k])
    <3>1. \A k \in Provider : journal[k] \in Seq(Attempt)
      BY DEF CallsInv, CallsTypeOK
    <3> QED
      BY <3>1
  <2> QED
    BY <2>1 DEF OneInv, OneLive
<1>2. Init => CallsInv /\ OneInv
  BY InitCalls, InitOne
<1>3. CallsInv /\ OneInv /\ [Next]_vars => CallsInv' /\ OneInv'
  BY CallsStep, OneStep
<1> QED
  BY <1>1, <1>2, <1>3, PTL DEF Spec

=============================================================================
