--------------------------- MODULE PublishingProofs ---------------------------
(***************************************************************************)
(* What holds of Publishing for any number of posts and of processes, any  *)
(* number of tries, deaths and requests.                                   *)
(***************************************************************************)
EXTENDS Publishing, FiniteSetTheorems, TLAPS

-----------------------------------------------------------------------------
(* The invariant.                                                          *)

\* The passes that may still have the post taken, and those that just had.
Pending(p) ==
    {w \in Workers :
        run[w].post = p /\ run[w].at \in {"read", "call", "later", "never", "reauth"}}
Takers(p) == {w \in Workers : run[w].post = p /\ run[w].at = "taken"}
Held(p) == \E w \in Workers : InHand(w, p)

\* A row that somebody may yet take up, now or after a "try again".
Loose(p) ==
    IF job[p].status = "PUBLISHED" \/ (job[p].status = "PUBLISHING" /\ Held(p)) THEN 0 ELSE 1

\* There is one go at a post, wherever it is: used up, in the hands of a pass, or in
\* the row; a "try again" over a row that moved on adds another.
OneGo == \A p \in Posts : known[p] + Cardinality(Pending(p)) + Loose(p) <= raced[p] + 1

\* The database never misses an answer that was not given.
MissesAreKnown == \A p \in Posts : Cardinality(Takers(p)) <= known[p]

\* A row in the hands of a pass does not look abandoned.
LateIsLoose ==
    \A p \in Posts : job[p].status = "PUBLISHING" /\ job[p].late => ~Held(p)

\* One pass has a row, and the row says so, unless a "try again" was written over it.
Sole ==
    \A p \in Posts : raced[p] = 0 =>
        /\ Held(p) => job[p].status = "PUBLISHING"
        /\ \A v, w \in Workers : InHand(v, p) /\ InHand(w, p) => v = w

\* create() writes a row that is not there; a retry() and a pass have one that is.
Fresh == \A p \in Posts : /\ asked["create"][p] <= 1
                          /\ asked["create"][p] > 0 => job[p].status = "NONE"
                          /\ asked["retry"][p] > 0 \/ Held(p) => job[p].status # "NONE"

\* Connected means that the customer connected it.
Consented == account = "CONNECTED" => consent

IInv == /\ PublishingTypeOK
        /\ OneGo /\ MissesAreKnown /\ LateIsLoose /\ Sole
        /\ Fresh /\ Consented /\ NothingGoesOutWithdrawn

-----------------------------------------------------------------------------
(* Counting.                                                               *)

Has(x, S) == IF x \in S THEN 1 ELSE 0

\* A set that changes in one element changes its size by that element.
LEMMA OneElementMoves ==
  ASSUME NEW S, NEW T, NEW x, IsFiniteSet(S), S \ {x} = T \ {x}
  PROVE  /\ IsFiniteSet(T) /\ Cardinality(S) \in Nat /\ Cardinality(T) \in Nat
         /\ Cardinality(T) + Has(x, S) = Cardinality(S) + Has(x, T)
<1> DEFINE R == S \ {x}
<1>1. IsFiniteSet(R) /\ Cardinality(R) \in Nat
  BY FS_RemoveElement, FS_CardinalityType
<1>2. S = (IF x \in S THEN R \cup {x} ELSE R) /\ T = (IF x \in T THEN R \cup {x} ELSE R)
  OBVIOUS
<1>3. IsFiniteSet(R \cup {x}) /\ Cardinality(R \cup {x}) = Cardinality(R) + 1
  BY <1>1, FS_AddElement
<1>4. Cardinality(S) = Cardinality(R) + Has(x, S)
  BY <1>1, <1>2, <1>3 DEF Has
<1>5. CASE x \in T
  <2>1. T = R \cup {x}
    BY <1>2, <1>5
  <2> QED
    BY <1>1, <1>3, <1>4, <1>5, <2>1 DEF Has
<1>6. CASE x \notin T
  <2>1. T = R
    BY <1>2, <1>6
  <2> QED
    BY <1>1, <1>3, <1>4, <1>6, <2>1 DEF Has
<1> QED
  BY <1>5, <1>6

\* The passes that hold a post are finitely many.
LEMMA HoldersAreFinite ==
  ASSUME NEW p
  PROVE  /\ IsFiniteSet(Pending(p)) /\ IsFiniteSet(Takers(p))
         /\ Cardinality(Pending(p)) \in Nat /\ Cardinality(Takers(p)) \in Nat
<1>1. Pending(p) \subseteq Workers /\ Takers(p) \subseteq Workers
  BY DEF Pending, Takers
<1>2. IsFiniteSet(Workers)
  BY PublishingAssumption
<1>3. IsFiniteSet(Pending(p)) /\ IsFiniteSet(Takers(p))
  BY <1>1, <1>2, FS_Subset
<1> QED
  BY <1>3, FS_CardinalityType

\* A pass holds a post before or after the platform took it.
LEMMA HeldIsPendingOrTaken ==
  ASSUME NEW p
  PROVE  Held(p) <=> Pending(p) \cup Takers(p) # {}
BY DEF Held, InHand, Pending, Takers

\* A step of one process changes the holders of a post by that process.
LEMMA OneProcessMoves ==
  ASSUME NEW w \in Workers, NEW p, \A v \in Workers \ {w} : run'[v] = run[v]
  PROVE  /\ Cardinality(Pending(p)') \in Nat /\ Cardinality(Takers(p)') \in Nat
         /\ Cardinality(Pending(p)') + Has(w, Pending(p))
              = Cardinality(Pending(p)) + Has(w, Pending(p)')
         /\ Cardinality(Takers(p)') + Has(w, Takers(p))
              = Cardinality(Takers(p)) + Has(w, Takers(p)')
<1>1. Pending(p) \ {w} = Pending(p)' \ {w} /\ Takers(p) \ {w} = Takers(p)' \ {w}
  BY DEF Pending, Takers
<1>2. IsFiniteSet(Pending(p)) /\ IsFiniteSet(Takers(p))
  BY HoldersAreFinite
<1>3. /\ Cardinality(Pending(p)') \in Nat
      /\ Cardinality(Pending(p)') + Has(w, Pending(p))
           = Cardinality(Pending(p)) + Has(w, Pending(p)')
  BY <1>1, <1>2, OneElementMoves
<1>4. /\ Cardinality(Takers(p)') \in Nat
      /\ Cardinality(Takers(p)') + Has(w, Takers(p))
           = Cardinality(Takers(p)) + Has(w, Takers(p)')
  BY <1>1, <1>2, OneElementMoves
<1> QED
  BY <1>3, <1>4

-----------------------------------------------------------------------------
(* Types.                                                                  *)

JobRow == [status : Status, attempts : Nat, late : BOOLEAN]
RunRow == [at : Steps, batch : SUBSET Posts, post : Posts \cup {NoPost}, tries : Nat,
           consent : BOOLEAN]
AtRest == {"idle", "sweep", "select", "batch"}

\* What a request, a timer or time writes.
LEMMA RequestTypes ==
  ASSUME IInv, NEW p \in Posts,
         \/ CreateReads(p) \/ CreateWrites(p) \/ PatchReads(p) \/ PatchWrites(p)
         \/ Cancel(p) \/ RetryReads(p) \/ RetryWrites(p) \/ ComesDue(p) \/ GrowsOld(p)
  PROVE  PublishingTypeOK'
<1> USE DEF IInv, PublishingTypeOK
<1>1. ASSUME NEW q \in Requests, Asks(q, p) \/ Served(q, p)
      PROVE  asked' \in [Requests -> [Posts -> Nat]]
  <2>1. asked \in [Requests -> [Posts -> Nat]] /\ asked[q][p] \in Nat
    BY <1>1
  <2>2. CASE Asks(q, p)
    <3>1. asked[q][p] + 1 \in Nat /\ asked' = [asked EXCEPT ![q][p] = asked[q][p] + 1]
      BY <2>1, <2>2 DEF Asks
    <3> QED
      BY <2>1, <3>1, q \in Requests, p \in Posts
  <2>3. CASE Served(q, p)
    <3>1. asked[q][p] - 1 \in Nat /\ asked' = [asked EXCEPT ![q][p] = asked[q][p] - 1]
      BY <2>1, <2>3 DEF Served
    <3> QED
      BY <2>1, <3>1, q \in Requests, p \in Posts
  <2> QED
    BY <1>1, <2>2, <2>3
<1>2. {"create", "patch", "retry"} \subseteq Requests
  BY DEF Requests
<1>3. ASSUME used.requests < MaxRequests, used' = [used EXCEPT !.requests = @ + 1]
      PROVE  used' \in [deaths : 0..MaxDeaths, requests : 0..MaxRequests]
  <2>1. MaxRequests \in Nat /\ used.requests + 1 \in 0..MaxRequests
    BY <1>3, PublishingAssumption
  <2> QED
    BY <1>3, <2>1
<1>4. {"SCHEDULED", "CANCELLED"} \subseteq Status
  BY DEF Status
<1>5. CASE CreateReads(p)
  BY <1>1, <1>2, <1>5 DEF CreateReads, rowVars, ghosts
<1>6. CASE CreateWrites(p)
  BY <1>1, <1>2, <1>4, <1>6 DEF CreateWrites, ghosts
<1>7. CASE PatchReads(p)
  <2>1. asked' \in [Requests -> [Posts -> Nat]]
    BY <1>1, <1>2, <1>7 DEF PatchReads
  <2> QED
    BY <1>3, <1>7, <2>1 DEF PatchReads, rowVars, ghosts
<1>8. CASE PatchWrites(p)
  <2>1. asked' \in [Requests -> [Posts -> Nat]]
    BY <1>1, <1>2, <1>8 DEF PatchWrites
  <2>2. PICK late \in BOOLEAN : job' = [job EXCEPT ![p].late = late]
    BY <1>8 DEF PatchWrites
  <2>3. job' \in [Posts -> [status : Status, attempts : Nat, late : BOOLEAN]]
    BY <2>2
  <2> QED
    BY <1>8, <2>1, <2>3 DEF PatchWrites, ghosts
<1>9. CASE Cancel(p)
  BY <1>4, <1>9 DEF Cancel, ghosts
<1>10. CASE RetryReads(p)
  <2>1. asked' \in [Requests -> [Posts -> Nat]]
    BY <1>1, <1>2, <1>10 DEF RetryReads
  <2> QED
    BY <1>3, <1>10, <2>1 DEF RetryReads, rowVars, ghosts
<1>11. CASE RetryWrites(p)
  BY <1>1, <1>2, <1>4, <1>11 DEF RetryWrites
<1>12. CASE ComesDue(p) \/ GrowsOld(p)
  <2>1. job' = [job EXCEPT ![p].late = TRUE]
    BY <1>12 DEF ComesDue, GrowsOld
  <2>2. job' \in [Posts -> [status : Status, attempts : Nat, late : BOOLEAN]]
    BY <2>1
  <2> QED
    BY <1>12, <2>2 DEF ComesDue, GrowsOld, ghosts
<1> QED
  BY <1>5, <1>6, <1>7, <1>8, <1>9, <1>10, <1>11, <1>12

LEMMA AccountTypes ==
  ASSUME IInv,
         \/ Connect \/ Disconnect \/ RefreshReads \/ MetricsReads \/ Refreshes
         \/ \E t \in {"refresh", "metrics"} : TokenRefused(t) \/ TimerEnds(t)
  PROVE  PublishingTypeOK'
<1> USE DEF IInv, PublishingTypeOK, rowVars, ghosts
<1>1. AccountStatus = {"CONNECTED", "NEEDS_REAUTH", "DISCONNECTED"} /\ "CANCELLED" \in Status
  BY DEF AccountStatus, Status
<1>2. CASE Connect
  BY <1>1, <1>2 DEF Connect
<1>3. CASE Disconnect
  BY <1>1, <1>3 DEF Disconnect
<1>4. CASE RefreshReads \/ MetricsReads \/ Refreshes
  BY <1>1, <1>4 DEF RefreshReads, MetricsReads, Refreshes, Refreshed
<1>5. CASE \E t \in {"refresh", "metrics"} : TokenRefused(t) \/ TimerEnds(t)
  BY <1>1, <1>5 DEF TokenRefused, TimerEnds
<1> QED
  BY <1>2, <1>3, <1>4, <1>5

\* Going from one step to another with or without a row in hand.
LEMMA GoesIsTyped ==
  ASSUME PublishingTypeOK, NEW w \in Workers, NEW at \in Steps, Goes(w, at),
         at \in AtRest <=> run[w].at \in AtRest
  PROVE  /\ run' \in [Workers -> RunRow]
         /\ \A v \in Workers : run'[v].post = NoPost <=> run'[v].at \in AtRest
BY DEF Goes, PublishingTypeOK, RunRow, AtRest

LEMMA RowIsTyped ==
  ASSUME PublishingTypeOK, NEW w \in Workers, NEW row \in RunRow,
         row.post = NoPost <=> row.at \in AtRest, run' = [run EXCEPT ![w] = row]
  PROVE  /\ run' \in [Workers -> RunRow]
         /\ \A v \in Workers : run'[v].post = NoPost <=> run'[v].at \in AtRest
<1>1. run \in [Workers -> RunRow]
      /\ \A v \in Workers : run[v].post = NoPost <=> run[v].at \in AtRest
  BY DEF PublishingTypeOK, RunRow, AtRest
<1> QED
  BY <1>1

LEMMA LeavesIsTyped ==
  ASSUME PublishingTypeOK, NEW w \in Workers, Leaves(w) \/ Returns(w)
  PROVE  /\ run' \in [Workers -> RunRow]
         /\ \A v \in Workers : run'[v].post = NoPost <=> run'[v].at \in AtRest
         /\ run'[w].post = NoPost /\ run'[w].at \in AtRest
<1> DEFINE back == [Idle EXCEPT !.at = "batch", !.batch = run[w].batch]
<1>1. Idle \in RunRow /\ Idle.post = NoPost /\ Idle.at = "idle"
  BY DEF Idle, RunRow, Steps
<1>2. back \in RunRow /\ back.post = NoPost /\ back.at = "batch"
  BY <1>1 DEF RunRow, Steps, PublishingTypeOK
<1>3. run' = [run EXCEPT ![w] = Idle] \/ run' = [run EXCEPT ![w] = back]
  BY DEF Leaves, Returns
<1>4. PICK row \in {Idle, back} : run' = [run EXCEPT ![w] = row]
  BY <1>3
<1>5. row \in RunRow /\ row.post = NoPost /\ row.at \in AtRest
  BY <1>1, <1>2, <1>4 DEF AtRest
<1>6. run \in [Workers -> RunRow]
      /\ \A v \in Workers : run[v].post = NoPost <=> run[v].at \in AtRest
  BY DEF PublishingTypeOK, RunRow, AtRest
<1> HIDE DEF back
<1> QED
  BY <1>4, <1>5, <1>6

\* A pass that is not at rest holds a post.
LEMMA HolderHasPost ==
  ASSUME PublishingTypeOK, NEW w \in Workers, run[w].at \notin AtRest
  PROVE  run[w].post \in Posts
BY DEF PublishingTypeOK, AtRest

\* An answer that gets lost was one the platform gave.
LEMMA TakenIsKnown ==
  ASSUME IInv, NEW w \in Workers, run[w].at = "taken"
  PROVE  run[w].post \in Posts /\ known[run[w].post] >= 1
<1> DEFINE p == run[w].post
<1>1. p \in Posts
  BY HolderHasPost DEF IInv, AtRest
<1>2. w \in Takers(p)
  BY DEF Takers
<1>3. Cardinality(Takers(p)) \in Nat /\ Cardinality(Takers(p)) # 0
  BY <1>2, HoldersAreFinite, FS_EmptySet
<1>4. Cardinality(Takers(p)) <= known[p] /\ known[p] \in Nat
  BY <1>1 DEF IInv, MissesAreKnown, PublishingTypeOK
<1> QED
  BY <1>1, <1>3, <1>4

LEMMA PassTypes ==
  ASSUME IInv, NEW w \in Workers, Begin(w) \/ Pass(w) \/ Lapse(w) \/ Die(w)
  PROVE  PublishingTypeOK'
<1>0. PublishingTypeOK
  BY DEF IInv
<1>1. /\ run \in [Workers -> RunRow]
      /\ \A v \in Workers : run[v].post = NoPost <=> run[v].at \in AtRest
      /\ job \in [Posts -> JobRow]
      /\ known \in [Posts -> Nat] /\ abandoned \in [Posts -> Nat]
  BY <1>0 DEF PublishingTypeOK, RunRow, JobRow, AtRest
<1>2. NoWorker \notin Workers /\ NoPost \notin Posts
  BY NoOneAssumption
\* The variables that need an argument of their own in some step of a pass.
<1>3. SUFFICES
        /\ run' \in [Workers -> RunRow]
        /\ \A v \in Workers : run'[v].post = NoPost <=> run'[v].at \in AtRest
        /\ job' \in [Posts -> JobRow] /\ account' \in AccountStatus
        /\ lock' \in Workers \cup {NoWorker} /\ known' \in [Posts -> Nat]
        /\ abandoned' \in [Posts -> Nat]
        /\ used' \in [deaths : 0..MaxDeaths, requests : 0..MaxRequests]
  <2>1. UNCHANGED <<asked, timers, raced, consent>>
    BY DEF Begin, Pass, Lapse, Die, Sweep, Select, Claim, Read, Take, Refuse, AnswerLost,
           Record, Fail, Mark, Finish, ghosts
  <2> QED
    BY <1>0, <1>3, <2>1 DEF PublishingTypeOK, RunRow, JobRow, AtRest
<1> USE DEF rowVars, ghosts
<1>4. account \in AccountStatus /\ "NEEDS_REAUTH" \in AccountStatus
      /\ lock \in Workers \cup {NoWorker} /\ Unlocked(w) \in Workers \cup {NoWorker}
      /\ used \in [deaths : 0..MaxDeaths, requests : 0..MaxRequests]
  BY <1>0 DEF PublishingTypeOK, AccountStatus, Unlocked
<1>5. CASE Begin(w)
  <2>1. Goes(w, "sweep") /\ "sweep" \in Steps /\ "sweep" \in AtRest /\ run[w].at \in AtRest
    BY <1>5 DEF Begin, Steps, AtRest
  <2> QED
    BY <1>0, <1>1, <1>4, <1>5, <2>1, GoesIsTyped DEF Begin
<1>6. CASE Lapse(w)
  BY <1>1, <1>4, <1>6 DEF Lapse
<1>7. CASE Sweep(w)
  <2>1. Goes(w, "select") /\ "select" \in Steps /\ "select" \in AtRest /\ run[w].at \in AtRest
    BY <1>7 DEF Sweep, Steps, AtRest
  <2>2. job' \in [Posts -> JobRow] /\ abandoned' \in [Posts -> Nat]
    BY <1>1, <1>7 DEF Sweep, JobRow, Status
  <2> QED
    BY <1>0, <1>1, <1>4, <1>7, <2>1, <2>2, GoesIsTyped DEF Sweep
<1>8. CASE Select(w)
  <2>1. run' \in [Workers -> RunRow]
        /\ \A v \in Workers : run'[v].post = NoPost <=> run'[v].at \in AtRest
    <3> DEFINE due == {p \in Posts : job[p].status = "SCHEDULED" /\ job[p].late}
               row == [run[w] EXCEPT !.at = "batch", !.batch = due]
    <3>1. run' = [run EXCEPT ![w] = row] /\ run[w].at = "select"
      BY <1>1, <1>8 DEF Select
    <3>2. row \in RunRow /\ row.at = "batch" /\ row.post = NoPost
      BY <1>1, <3>1 DEF RunRow, Steps, AtRest
    <3> HIDE DEF row
    <3> QED
      BY <1>0, <3>1, <3>2, RowIsTyped DEF AtRest
  <2> QED
    BY <1>1, <1>4, <1>8, <2>1 DEF Select
<1>9. ASSUME NEW p \in Posts, Claim(w, p)
      PROVE  /\ run' \in [Workers -> RunRow]
             /\ \A v \in Workers : run'[v].post = NoPost <=> run'[v].at \in AtRest
             /\ job' \in [Posts -> JobRow]
  <2>1. CASE Claimable(p)
    <3>1. job' = [job EXCEPT ![p].status = "PUBLISHING", ![p].attempts = @ + 1,
                             ![p].late = FALSE]
          /\ run' = [run EXCEPT ![w].batch = @ \ {p}, ![w].post = p, ![w].at = "read"]
      BY <1>9, <2>1 DEF Claim
    <3>2. job' \in [Posts -> JobRow]
      BY <1>1, <3>1 DEF JobRow, Status
    <3>3. run' \in [Workers -> RunRow]
          /\ \A v \in Workers : run'[v].post = NoPost <=> run'[v].at \in AtRest
      <4> DEFINE row == [run[w] EXCEPT !.batch = @ \ {p}, !.post = p, !.at = "read"]
      <4>1. run' = [run EXCEPT ![w] = row]
        BY <1>1, <3>1
      <4>2. row \in RunRow /\ row.at = "read" /\ row.post # NoPost
        BY <1>1, <1>2 DEF RunRow, Steps
      <4> HIDE DEF row
      <4> QED
        BY <1>0, <4>1, <4>2, RowIsTyped DEF AtRest
    <3> QED
      BY <3>2, <3>3
  <2>2. CASE ~Claimable(p)
    <3>1. job' = job /\ run' = [run EXCEPT ![w].batch = @ \ {p}]
      BY <1>9, <2>2 DEF Claim
    <3> QED
      BY <1>1, <3>1 DEF RunRow
  <2> QED
    BY <2>1, <2>2
<1>10. CASE \E p \in Posts : Claim(w, p)
  BY <1>1, <1>4, <1>9, <1>10 DEF Claim
<1>11. CASE Read(w)
  <2>1. run[w].at = "read" /\ run[w].post \in Posts
    BY <1>0, <1>11, HolderHasPost DEF Read, AtRest
  <2>2. job[run[w].post].attempts \in Nat /\ consent \in BOOLEAN
    BY <1>0, <1>1, <2>1 DEF PublishingTypeOK, JobRow
  <2>3. PICK at \in {"call", "never"} :
          run' = [run EXCEPT ![w].tries = job[run[w].post].attempts, ![w].consent = consent,
                             ![w].at = at]
    BY <1>11 DEF Read
  <2>4. run' \in [Workers -> RunRow]
        /\ \A v \in Workers : run'[v].post = NoPost <=> run'[v].at \in AtRest
    <3> DEFINE row == [run[w] EXCEPT !.tries = job[run[w].post].attempts,
                                     !.consent = consent, !.at = at]
    <3>1. run' = [run EXCEPT ![w] = row]
      BY <1>1, <2>3
    <3>2. row \in RunRow /\ row.at \in {"call", "never"} /\ row.post # NoPost
      BY <1>1, <1>2, <2>1, <2>2 DEF RunRow, Steps
    <3> HIDE DEF row
    <3> QED
      BY <1>0, <3>1, <3>2, RowIsTyped DEF AtRest
  <2> QED
    BY <1>1, <1>4, <1>11, <2>4 DEF Read
<1>12. CASE Take(w)
  <2>1. Goes(w, "taken") /\ "taken" \in Steps /\ "taken" \notin AtRest
        /\ run[w].at \notin AtRest
    BY <1>12 DEF Take, Steps, AtRest
  <2>2. known' \in [Posts -> Nat]
    <3>1. run[w].post \in Posts /\ known[run[w].post] + 1 \in Nat
      BY <1>0, <1>1, <2>1, HolderHasPost
    <3> QED
      BY <1>1, <1>12, <3>1 DEF Take
  <2> QED
    BY <1>0, <1>1, <1>4, <1>12, <2>1, <2>2, GoesIsTyped DEF Take
<1>13. ASSUME NEW kind \in {"later", "never", "reauth"}, Refuse(w, kind)
       PROVE  /\ run' \in [Workers -> RunRow]
              /\ \A v \in Workers : run'[v].post = NoPost <=> run'[v].at \in AtRest
  <2>1. Goes(w, kind) /\ kind \in Steps /\ kind \notin AtRest /\ run[w].at \notin AtRest
    BY <1>13 DEF Refuse, Steps, AtRest
  <2> QED
    BY <1>0, <2>1, GoesIsTyped
<1>14. CASE \E kind \in {"later", "never", "reauth"} : Refuse(w, kind)
  BY <1>1, <1>4, <1>13, <1>14 DEF Refuse
<1>15. ASSUME run[w].at = "taken", Misses(w)
       PROVE  known' \in [Posts -> Nat]
  BY <1>1, <1>15, TakenIsKnown DEF Misses
<1>16. CASE AnswerLost(w)
  <2>1. Goes(w, "later") /\ "later" \in Steps /\ "later" \notin AtRest
        /\ run[w].at \notin AtRest
    BY <1>16 DEF AnswerLost, Steps, AtRest
  <2>2. known' \in [Posts -> Nat]
    BY <1>15, <1>16 DEF AnswerLost
  <2> QED
    BY <1>0, <1>1, <1>4, <1>16, <2>1, <2>2, GoesIsTyped DEF AnswerLost
<1>17. CASE Record(w)
  <2>1. job' \in [Posts -> JobRow]
    BY <1>1, <1>17 DEF Record, JobRow, Status
  <2> QED
    BY <1>0, <1>1, <1>4, <1>17, <2>1, LeavesIsTyped DEF Record
<1>18. CASE Fail(w)
  <2>1. run[w].at \notin AtRest /\ "mark" \in Steps /\ "mark" \notin AtRest
    BY <1>18 DEF Fail, AtRest, Steps
  <2>2. Goes(w, "mark") \/ Returns(w)
    BY <1>18 DEF Fail
  <2>3. job' \in [Posts -> JobRow]
    BY <1>1, <1>18 DEF Fail, JobRow, Status
  <2> QED
    BY <1>0, <1>1, <1>4, <1>18, <2>1, <2>2, <2>3, GoesIsTyped, LeavesIsTyped DEF Fail
<1>19. CASE Mark(w)
  BY <1>0, <1>1, <1>4, <1>19, LeavesIsTyped DEF Mark
<1>20. CASE Finish(w)
  BY <1>0, <1>1, <1>4, <1>20, LeavesIsTyped DEF Finish
<1>21. CASE Die(w)
  <2>1. used' \in [deaths : 0..MaxDeaths, requests : 0..MaxRequests]
    <3>1. MaxDeaths \in Nat /\ used.deaths + 1 \in 0..MaxDeaths
      BY <1>4, <1>21, PublishingAssumption DEF Die
    <3> QED
      BY <1>4, <1>21, <3>1 DEF Die
  <2>2. known' \in [Posts -> Nat]
    BY <1>1, <1>15, <1>21 DEF Die
  <2> QED
    BY <1>0, <1>1, <1>4, <1>21, <2>1, <2>2, LeavesIsTyped DEF Die
<1> QED
  BY <1>5, <1>6, <1>7, <1>8, <1>10, <1>11, <1>12, <1>14, <1>16, <1>17, <1>18, <1>19,
     <1>20, <1>21 DEF Pass

-----------------------------------------------------------------------------
(* What a step has to show, row by row.                                    *)

\* A step that writes rows and moves no pass.
LEMMA RowsMove ==
  ASSUME IInv, PublishingTypeOK', run' = run, known' = known, Consented', Fresh',
         \A q \in Posts :
            /\ raced'[q] \in {raced[q], raced[q] + 1}
            /\ Loose(q)' + raced[q] <= Loose(q) + raced'[q]
            /\ job'[q].status = "PUBLISHING" /\ job'[q].late => ~Held(q)
            /\ raced'[q] = 0 /\ Held(q) => job'[q].status = "PUBLISHING"
  PROVE  IInv'
<1>1. \A q \in Posts : /\ Pending(q)' = Pending(q) /\ Takers(q)' = Takers(q)
                       /\ Held(q)' = Held(q) /\ \A v \in Workers : InHand(v, q)' = InHand(v, q)
  BY DEF Pending, Takers, Held, InHand
<1>2. /\ known \in [Posts -> Nat] /\ raced \in [Posts -> Nat] /\ raced' \in [Posts -> Nat]
  BY DEF IInv, PublishingTypeOK
<1>3. OneGo'
  <2> SUFFICES ASSUME NEW q \in Posts
               PROVE  known[q] + Cardinality(Pending(q)) + Loose(q)' <= raced'[q] + 1
    BY <1>1 DEF OneGo
  <2>1. known[q] + Cardinality(Pending(q)) + Loose(q) <= raced[q] + 1
    BY DEF IInv, OneGo
  <2>2. Loose(q) \in {0, 1} /\ Loose(q)' \in {0, 1}
    BY DEF Loose
  <2>3. Cardinality(Pending(q)) \in Nat /\ known[q] \in Nat /\ raced[q] \in Nat
        /\ raced'[q] \in Nat
    BY <1>2, HoldersAreFinite
  <2>4. Loose(q)' + raced[q] <= Loose(q) + raced'[q]
    OBVIOUS
  <2> QED
    BY <2>1, <2>2, <2>3, <2>4
<1>4. MissesAreKnown'
  BY <1>1 DEF IInv, MissesAreKnown
<1>5. LateIsLoose'
  BY <1>1 DEF LateIsLoose
<1>6. Sole'
  <2> SUFFICES ASSUME NEW q \in Posts, raced'[q] = 0
               PROVE  /\ Held(q)' => job'[q].status = "PUBLISHING"
                      /\ \A v, w \in Workers : InHand(v, q)' /\ InHand(w, q)' => v = w
    BY DEF Sole
  <2>1. raced[q] = 0
    BY <1>2
  <2> QED
    BY <1>1, <2>1 DEF IInv, Sole
<1>7. NothingGoesOutWithdrawn'
  BY DEF IInv, NothingGoesOutWithdrawn
<1> QED
  BY <1>3, <1>4, <1>5, <1>6, <1>7 DEF IInv

\* A step of one pass.
LEMMA HandsMove ==
  ASSUME IInv, PublishingTypeOK', NEW w \in Workers,
         \A v \in Workers \ {w} : run'[v] = run[v],
         UNCHANGED <<raced, asked>>, Consented',
         run'[w].at \in {"call", "taken"} => run'[w].consent,
         \A q \in Posts :
            /\ known'[q] + Has(w, Pending(q)') + Loose(q)'
                 <= known[q] + Has(w, Pending(q)) + Loose(q)
            /\ known[q] + Has(w, Takers(q)') <= known'[q] + Has(w, Takers(q))
            /\ job'[q].status = "PUBLISHING" /\ job'[q].late => ~Held(q)'
            /\ raced[q] = 0 => /\ Held(q)' => job'[q].status = "PUBLISHING"
                               /\ InHand(w, q)' => InHand(w, q) \/ ~Held(q)
            /\ job'[q].status = "NONE" <=> job[q].status = "NONE"
            /\ InHand(w, q)' => InHand(w, q) \/ job[q].status # "NONE"
  PROVE  IInv'
<1>1. \A q \in Posts : known[q] \in Nat /\ known'[q] \in Nat /\ raced[q] \in Nat
  BY DEF IInv, PublishingTypeOK
<1>2. OneGo'
  <2> SUFFICES ASSUME NEW q \in Posts
               PROVE  known'[q] + Cardinality(Pending(q)') + Loose(q)' <= raced[q] + 1
    BY DEF OneGo
  <2>1. known[q] + Cardinality(Pending(q)) + Loose(q) <= raced[q] + 1
    BY DEF IInv, OneGo
  <2>2. /\ Loose(q) \in {0, 1} /\ Loose(q)' \in {0, 1}
        /\ Has(w, Pending(q)) \in {0, 1} /\ Has(w, Pending(q)') \in {0, 1}
    BY DEF Loose, Has
  <2>3. /\ Cardinality(Pending(q)) \in Nat /\ Cardinality(Pending(q)') \in Nat
        /\ Cardinality(Pending(q)') + Has(w, Pending(q))
             = Cardinality(Pending(q)) + Has(w, Pending(q)')
    BY HoldersAreFinite, OneProcessMoves
  <2>4. known'[q] + Has(w, Pending(q)') + Loose(q)'
          <= known[q] + Has(w, Pending(q)) + Loose(q)
    OBVIOUS
  <2> QED
    BY <1>1, <2>1, <2>2, <2>3, <2>4
<1>3. MissesAreKnown'
  <2> SUFFICES ASSUME NEW q \in Posts
               PROVE  Cardinality(Takers(q)') <= known'[q]
    BY DEF MissesAreKnown
  <2>1. Cardinality(Takers(q)) <= known[q]
    BY DEF IInv, MissesAreKnown
  <2>2. Has(w, Takers(q)) \in {0, 1} /\ Has(w, Takers(q)') \in {0, 1}
    BY DEF Has
  <2>3. /\ Cardinality(Takers(q)) \in Nat /\ Cardinality(Takers(q)') \in Nat
        /\ Cardinality(Takers(q)') + Has(w, Takers(q))
             = Cardinality(Takers(q)) + Has(w, Takers(q)')
    BY HoldersAreFinite, OneProcessMoves
  <2>4. known[q] + Has(w, Takers(q)') <= known'[q] + Has(w, Takers(q))
    OBVIOUS
  <2> QED
    BY <1>1, <2>1, <2>2, <2>3, <2>4
<1>4. LateIsLoose'
  BY DEF LateIsLoose
<1>5. Sole'
  <2> SUFFICES ASSUME NEW q \in Posts, raced[q] = 0
               PROVE  /\ Held(q)' => job'[q].status = "PUBLISHING"
                      /\ \A u, v \in Workers : InHand(u, q)' /\ InHand(v, q)' => u = v
    BY DEF Sole
  <2>1. \A u, v \in Workers : InHand(u, q) /\ InHand(v, q) => u = v
    BY DEF IInv, Sole
  <2>2. \A v \in Workers \ {w} : InHand(v, q)' <=> InHand(v, q)
    BY DEF InHand
  <2>3. InHand(w, q)' => InHand(w, q) \/ \A v \in Workers : ~InHand(v, q)
    BY DEF Held
  <2> QED
    BY <2>1, <2>2, <2>3
<1>6. Fresh'
  <2>1. \A v \in Workers \ {w} : \A q : InHand(v, q)' <=> InHand(v, q)
    BY DEF InHand
  <2>2. \A q \in Posts : Held(q)' => Held(q) \/ job[q].status # "NONE"
    BY <2>1 DEF Held
  <2> QED
    BY <2>2 DEF IInv, Fresh
<1>7. NothingGoesOutWithdrawn'
  BY DEF IInv, NothingGoesOutWithdrawn
<1> QED
  BY <1>2, <1>3, <1>4, <1>5, <1>6, <1>7 DEF IInv

\* A step of one pass that leaves every row and every hold as they are.
LEMMA QuietStep ==
  ASSUME IInv, PublishingTypeOK', NEW w \in Workers,
         \A v \in Workers \ {w} : run'[v] = run[v],
         UNCHANGED <<job, known, raced, asked>>, Consented',
         run'[w].at \in {"call", "taken"} => run'[w].consent,
         \A q \in Posts : /\ w \in Pending(q)' <=> w \in Pending(q)
                          /\ w \in Takers(q)' <=> w \in Takers(q)
  PROVE  IInv'
<1>1. ASSUME NEW q \in Posts
      PROVE  /\ \A v \in Workers : InHand(v, q)' <=> InHand(v, q)
             /\ Held(q)' <=> Held(q)
             /\ Loose(q)' = Loose(q)
             /\ Has(w, Pending(q)') = Has(w, Pending(q))
             /\ Has(w, Takers(q)') = Has(w, Takers(q))
  <2>1. \A v \in Workers : v \in Pending(q) \cup Takers(q) <=> InHand(v, q)
    BY DEF Pending, Takers, InHand
  <2>2. \A v \in Workers : v \in Pending(q)' \cup Takers(q)' <=> InHand(v, q)'
    BY DEF Pending, Takers, InHand
  <2>3. \A v \in Workers \ {w} : InHand(v, q)' <=> InHand(v, q)
    BY DEF InHand
  <2>4. \A v \in Workers : InHand(v, q)' <=> InHand(v, q)
    BY <2>1, <2>2, <2>3
  <2>5. Held(q)' <=> Held(q)
    BY <2>4 DEF Held
  <2>6. Loose(q)' = Loose(q)
    BY <2>5 DEF Loose
  <2> QED
    BY <2>4, <2>5, <2>6 DEF Has
<1>2. ASSUME NEW q \in Posts
      PROVE  /\ known[q] \in Nat /\ Loose(q) \in Nat
             /\ Has(w, Pending(q)) \in Nat /\ Has(w, Takers(q)) \in Nat
  BY DEF IInv, PublishingTypeOK, Loose, Has
<1>3. \A q \in Posts :
         /\ known'[q] + Has(w, Pending(q)') + Loose(q)'
              <= known[q] + Has(w, Pending(q)) + Loose(q)
         /\ known[q] + Has(w, Takers(q)') <= known'[q] + Has(w, Takers(q))
  BY <1>1, <1>2
<1>4. \A q \in Posts :
         /\ InHand(w, q)' => InHand(w, q) \/ job[q].status # "NONE"
         /\ job'[q].status = "PUBLISHING" /\ job'[q].late => ~Held(q)'
         /\ raced[q] = 0 => /\ Held(q)' => job'[q].status = "PUBLISHING"
                            /\ InHand(w, q)' => InHand(w, q) \/ ~Held(q)
  BY <1>1 DEF IInv, LateIsLoose, Sole
<1> QED
  BY <1>3, <1>4, HandsMove

-----------------------------------------------------------------------------
(* The steps.                                                              *)

LEMMA InitHolds == Init => IInv
<1> SUFFICES ASSUME Init PROVE IInv
  OBVIOUS
<1>1. PublishingTypeOK
  BY PublishingAssumption DEF Init, PublishingTypeOK, Idle, Steps, Status, AccountStatus,
     Requests
<1>2. \A p : ~Held(p) /\ Pending(p) = {} /\ Takers(p) = {}
  BY DEF Init, Held, InHand, Pending, Takers, Idle
<1>3. \A p \in Posts : Loose(p) = 1
  BY <1>2 DEF Init, Loose
<1>4. OneGo /\ MissesAreKnown
  <2>1. \A p \in Posts : /\ Cardinality(Pending(p)) = 0 /\ Cardinality(Takers(p)) = 0
                         /\ known[p] = 0 /\ raced[p] = 0
    BY <1>2, FS_EmptySet DEF Init
  <2> QED
    BY <1>3, <2>1 DEF OneGo, MissesAreKnown
<1>5. LateIsLoose /\ Sole
  BY <1>2 DEF LateIsLoose, Sole, Held
<1>6. Fresh /\ Consented /\ NothingGoesOutWithdrawn
  BY <1>2 DEF Init, Fresh, Consented, NothingGoesOutWithdrawn, Idle, Requests
<1> QED
  BY <1>1, <1>4, <1>5, <1>6 DEF IInv

\* A row that is not held, or keeps its status, is as loose as before.
LEMMA RequestSteps ==
  ASSUME IInv, ~Slow, NEW p \in Posts,
         \/ CreateReads(p) \/ CreateWrites(p) \/ PatchReads(p) \/ PatchWrites(p)
         \/ Cancel(p) \/ RetryReads(p) \/ RetryWrites(p) \/ ComesDue(p) \/ GrowsOld(p)
  PROVE  IInv'
<1>1. PublishingTypeOK'
  BY RequestTypes
<1>2. /\ run' = run /\ known' = known /\ account' = account /\ consent' = consent
      /\ \A q \in Posts \ {p} : job'[q] = job[q] /\ raced'[q] = raced[q]
      /\ raced'[p] = IF RetryWrites(p) /\ job[p].status # "FAILED"
                     THEN raced[p] + 1 ELSE raced[p]
  BY DEF IInv, PublishingTypeOK, CreateReads, CreateWrites, PatchReads, PatchWrites, Cancel,
     RetryReads, RetryWrites, ComesDue, GrowsOld, rowVars, ghosts
<1>3. /\ Fresh /\ Sole /\ LateIsLoose /\ Consented
      /\ raced \in [Posts -> Nat]
      /\ job \in [Posts -> JobRow] /\ asked \in [Requests -> [Posts -> Nat]]
  BY DEF IInv, PublishingTypeOK, JobRow
<1>4. Consented'
  BY <1>2, <1>3 DEF Consented
<1>5. Fresh'
  <2> DEFINE Kept(q) == asked'[q] = asked[q]
             OnlyHere(q) == \A r \in Posts \ {p} : asked'[q][r] = asked[q][r]
  <2>1. {"create", "patch", "retry"} \subseteq Requests
    BY DEF Requests
  <2>0. \A q \in Posts : Held(q)' => job'[q].status # "NONE"
    <3>1. \A q \in Posts : Held(q)' <=> Held(q)
      BY <1>2 DEF Held, InHand
    <3>2. job'[p].status = "NONE" => job[p].status = "NONE"
      BY <1>3 DEF CreateReads, CreateWrites, PatchReads, PatchWrites, Cancel, RetryReads,
         RetryWrites, ComesDue, GrowsOld, rowVars, JobRow
    <3> QED
      BY <1>2, <1>3, <3>1, <3>2 DEF Fresh
  <2>2. SUFFICES /\ OnlyHere("create") /\ OnlyHere("retry")
                 /\ asked'["create"][p] <= 1
                 /\ asked'["create"][p] > 0 => job'[p].status = "NONE"
                 /\ asked'["retry"][p] > 0 => job'[p].status # "NONE"
    BY <1>2, <1>3, <2>0 DEF Fresh
  <2>3. ASSUME NEW q \in Requests, NEW n \in Nat, asked' = [asked EXCEPT ![q][p] = n]
        PROVE  /\ \A r \in Requests : OnlyHere(r)
               /\ \A r \in Requests \ {q} : Kept(r)
               /\ asked'[q][p] = n
    BY <1>3, <2>3
  <2>4. /\ asked["create"][p] \in Nat /\ asked["retry"][p] \in Nat /\ asked["patch"][p] \in Nat
        /\ asked["create"][p] <= 1
        /\ asked["create"][p] > 0 => job[p].status = "NONE"
        /\ asked["retry"][p] > 0 => job[p].status # "NONE"
    BY <1>3, <2>1 DEF Fresh
  <2>5. CASE CreateReads(p)
    <3>1. /\ asked' = [asked EXCEPT !["create"][p] = asked["create"][p] + 1]
          /\ asked["create"][p] = 0 /\ job[p].status = "NONE" /\ job' = job
      BY <2>5 DEF CreateReads, Asks, rowVars
    <3> QED
      BY <2>1, <2>3, <2>4, <3>1
  <2>6. CASE CreateWrites(p)
    <3>1. /\ asked' = [asked EXCEPT !["create"][p] = asked["create"][p] - 1]
          /\ asked["create"][p] > 0
      BY <2>6 DEF CreateWrites, Served
    <3>2. job'[p].status = "SCHEDULED"
      BY <1>3, <2>6 DEF CreateWrites
    <3>3. asked["create"][p] - 1 = 0
      BY <2>4, <3>1
    <3>4. asked' = [asked EXCEPT !["create"][p] = 0]
      BY <3>1, <3>3
    <3>5. (\A r \in Requests : OnlyHere(r)) /\ Kept("retry") /\ asked'["create"][p] = 0
      BY <2>1, <2>3, <3>4
    <3> QED
      BY <2>1, <2>4, <3>2, <3>5
  <2>7. CASE RetryReads(p)
    <3>1. /\ asked' = [asked EXCEPT !["retry"][p] = asked["retry"][p] + 1]
          /\ job[p].status = "FAILED" /\ job' = job
      BY <2>7 DEF RetryReads, Asks, rowVars
    <3>2. asked["retry"][p] + 1 \in Nat
      BY <2>4
    <3>3. /\ \A r \in Requests : OnlyHere(r)
          /\ Kept("create")
      BY <2>1, <2>3, <3>1, <3>2
    <3> QED
      BY <2>1, <2>4, <3>1, <3>3
  <2>8. CASE RetryWrites(p)
    <3>1. /\ asked' = [asked EXCEPT !["retry"][p] = asked["retry"][p] - 1]
          /\ asked["retry"][p] > 0
      BY <2>8 DEF RetryWrites, Served
    <3>2. job'[p].status = "SCHEDULED"
      BY <1>3, <2>8 DEF RetryWrites
    <3>3. asked["retry"][p] - 1 \in Nat
      BY <2>4, <3>1
    <3> QED
      BY <2>1, <2>3, <2>4, <3>1, <3>2, <3>3
  <2>9. CASE PatchReads(p) \/ PatchWrites(p)
    <3>1. PICK n \in Nat : asked' = [asked EXCEPT !["patch"][p] = n]
      <4>1. asked["patch"][p] + 1 \in Nat
            /\ (asked["patch"][p] > 0 => asked["patch"][p] - 1 \in Nat)
        BY <2>4
      <4> QED
        BY <2>9, <4>1 DEF PatchReads, PatchWrites, Asks, Served
    <3>2. job'[p].status = job[p].status
      BY <1>3, <2>9 DEF PatchReads, PatchWrites, rowVars, JobRow
    <3> QED
      BY <2>1, <2>3, <2>4, <3>1, <3>2
  <2>10. CASE Cancel(p) \/ ComesDue(p) \/ GrowsOld(p)
    <3>1. /\ asked' = asked
          /\ job'[p].status = "NONE" <=> job[p].status = "NONE"
      BY <1>3, <2>10 DEF Cancel, Cancellable, ComesDue, GrowsOld, JobRow
    <3> QED
      BY <2>4, <3>1
  <2> QED
    BY <2>5, <2>6, <2>7, <2>8, <2>9, <2>10
\* The row is not held, or keeps its status and is not made to look abandoned.
<1>6. /\ job[p].status \in {"NONE", "SCHEDULED", "FAILED"} => Loose(p) = 1
      /\ Loose(p) \in {0, 1} /\ Loose(p)' \in {0, 1}
      /\ Held(p)' <=> Held(p)
      /\ raced[p] \in Nat
  BY <1>2, <1>3 DEF Loose, Held, InHand
<1>7. ASSUME job'[p].status = job[p].status
      PROVE  /\ raced'[p] \in {raced[p], raced[p] + 1}
             /\ Loose(p)' + raced[p] <= Loose(p) + raced'[p]
             /\ job'[p].status = "PUBLISHING" /\ job'[p].late => ~Held(p)
             /\ raced'[p] = 0 /\ Held(p) => job'[p].status = "PUBLISHING"
  <2>1. raced'[p] \in {raced[p], raced[p] + 1} /\ raced'[p] >= raced[p]
    BY <1>2, <1>6
  <2>2. Loose(p)' = Loose(p)
    BY <1>6, <1>7 DEF Loose
  <2>3. job'[p].status = "PUBLISHING" /\ job'[p].late => ~Held(p)
    <3>1. CASE GrowsOld(p)
      BY <3>1 DEF GrowsOld, Held
    <3>2. CASE ~GrowsOld(p)
      <4>1. job'[p].status = "PUBLISHING" /\ job'[p].late => job[p].late
        BY <1>3, <1>7, <3>2 DEF CreateReads, CreateWrites, PatchReads, PatchWrites, Cancel,
           RetryReads, RetryWrites, ComesDue, rowVars, JobRow
      <4> QED
        BY <1>3, <1>7, <4>1 DEF LateIsLoose
    <3> QED
      BY <3>1, <3>2
  <2>4. raced'[p] = 0 /\ Held(p) => job'[p].status = "PUBLISHING"
    BY <1>3, <1>6, <1>7, <2>1 DEF Sole
  <2>5. Loose(p)' + raced[p] <= Loose(p) + raced'[p]
    BY <1>6, <2>1, <2>2
  <2> QED
    BY <2>1, <2>3, <2>4, <2>5
<1>8. ASSUME job'[p].status # job[p].status
      PROVE  /\ raced'[p] \in {raced[p], raced[p] + 1}
             /\ Loose(p)' + raced[p] <= Loose(p) + raced'[p]
             /\ job'[p].status = "PUBLISHING" /\ job'[p].late => ~Held(p)
             /\ raced'[p] = 0 /\ Held(p) => job'[p].status = "PUBLISHING"
  <2>1. /\ CreateWrites(p) \/ Cancel(p) \/ RetryWrites(p)
        /\ job'[p].status \in {"SCHEDULED", "CANCELLED"}
    BY <1>3, <1>8 DEF CreateReads, CreateWrites, PatchReads, PatchWrites, Cancel, RetryReads,
       RetryWrites, ComesDue, GrowsOld, rowVars, JobRow
  <2>2. \/ job[p].status \in {"NONE", "SCHEDULED", "FAILED"} /\ raced'[p] = raced[p]
        \/ raced'[p] = raced[p] + 1
    <3>1. CASE CreateWrites(p)
      <4>1. job[p].status = "NONE"
        BY <1>3, <3>1 DEF CreateWrites, Served, Fresh
      <4>2. raced'[p] = raced[p]
        BY <3>1 DEF CreateWrites, ghosts
      <4> QED
        BY <4>1, <4>2
    <3>2. CASE Cancel(p)
      BY <3>2 DEF Cancel, Cancellable, ghosts
    <3>3. CASE RetryWrites(p)
      BY <1>2, <3>3
    <3> QED
      BY <2>1, <3>1, <3>2, <3>3
  <2>3. Loose(p)' = 1
    BY <2>1 DEF Loose
  <2>4. Loose(p)' + raced[p] <= Loose(p) + raced'[p]
    BY <1>6, <2>2, <2>3
  <2>5. raced'[p] = 0 => ~Held(p)
    BY <1>3, <1>6, <2>2 DEF Sole
  <2> QED
    BY <1>6, <2>1, <2>2, <2>4, <2>5
<1>9. ASSUME NEW q \in Posts, q # p
      PROVE  /\ raced'[q] \in {raced[q], raced[q] + 1}
             /\ Loose(q)' + raced[q] <= Loose(q) + raced'[q]
             /\ job'[q].status = "PUBLISHING" /\ job'[q].late => ~Held(q)
             /\ raced'[q] = 0 /\ Held(q) => job'[q].status = "PUBLISHING"
  <2>1. job'[q] = job[q] /\ raced'[q] = raced[q] /\ raced[q] \in Nat
        /\ (Held(q)' <=> Held(q)) /\ Loose(q)' \in {0, 1} /\ Loose(q) \in {0, 1}
    BY <1>2, <1>3, <1>9 DEF Held, InHand, Loose
  <2>2. Loose(q)' = Loose(q)
    BY <2>1 DEF Loose
  <2> QED
    BY <1>3, <1>9, <2>1, <2>2 DEF LateIsLoose, Sole
<1> QED
  BY <1>1, <1>2, <1>4, <1>5, <1>7, <1>8, <1>9, RowsMove

\* A disconnect turns what waits into what is cancelled; both are as loose.
LEMMA AccountSteps ==
  ASSUME IInv,
         \/ Connect \/ Disconnect \/ RefreshReads \/ MetricsReads \/ Refreshes
         \/ \E t \in {"refresh", "metrics"} : TokenRefused(t) \/ TimerEnds(t)
  PROVE  IInv'
<1>1. PublishingTypeOK'
  BY AccountTypes
<1>2. /\ run' = run /\ known' = known /\ raced' = raced /\ asked' = asked
      /\ Consented'
  BY DEF IInv, Connect, Disconnect, RefreshReads, MetricsReads, Refreshes, Refreshed,
     TokenRefused, TimerEnds, rowVars, ghosts, Consented
<1>3. ASSUME NEW q \in Posts
      PROVE  \/ job'[q] = job[q]
             \/ /\ job[q].status = "SCHEDULED" /\ job'[q].status = "CANCELLED"
  <2>1. CASE Disconnect
    <3>1. job[q] \in JobRow
      BY DEF IInv, PublishingTypeOK, JobRow
    <3>2. job'[q] = IF job[q].status = "SCHEDULED"
                    THEN [job[q] EXCEPT !.status = "CANCELLED", !.late = FALSE]
                    ELSE job[q]
      BY <2>1 DEF Disconnect
    <3> QED
      BY <3>1, <3>2 DEF JobRow
  <2>2. CASE ~Disconnect
    BY <2>2 DEF Connect, RefreshReads, MetricsReads, Refreshes, TokenRefused, TimerEnds, rowVars
  <2> QED
    BY <2>1, <2>2
<1>4. Fresh'
  <2>1. \A q \in Posts : Held(q)' <=> Held(q)
    BY <1>2 DEF Held, InHand
  <2> QED
    BY <1>2, <1>3, <2>1 DEF IInv, Fresh
<1>5. ASSUME NEW q \in Posts
      PROVE  /\ raced'[q] \in {raced[q], raced[q] + 1}
             /\ Loose(q)' + raced[q] <= Loose(q) + raced'[q]
             /\ job'[q].status = "PUBLISHING" /\ job'[q].late => ~Held(q)
             /\ raced'[q] = 0 /\ Held(q) => job'[q].status = "PUBLISHING"
  <2>1. raced[q] \in Nat /\ Loose(q) \in {0, 1} /\ (Held(q)' <=> Held(q))
    BY <1>2 DEF IInv, PublishingTypeOK, Loose, Held, InHand
  <2>2. Loose(q)' = Loose(q)
    BY <1>3, <2>1 DEF Loose
  <2> QED
    BY <1>2, <1>3, <2>1, <2>2 DEF IInv, LateIsLoose, Sole
<1> QED
  BY <1>1, <1>2, <1>4, <1>5, RowsMove

\* Where a pass is decides what it holds.
LEMMA WhereItIs ==
  ASSUME NEW w \in Workers, NEW q
  PROVE  /\ w \in Pending(q) <=>
              run[w].post = q /\ run[w].at \in {"read", "call", "later", "never", "reauth"}
         /\ w \in Takers(q) <=> run[w].post = q /\ run[w].at = "taken"
         /\ InHand(w, q) <=> w \in Pending(q) \/ w \in Takers(q)
         /\ w \in Pending(q)' <=>
              run'[w].post = q /\ run'[w].at \in {"read", "call", "later", "never", "reauth"}
         /\ w \in Takers(q)' <=> run'[w].post = q /\ run'[w].at = "taken"
         /\ InHand(w, q)' <=> w \in Pending(q)' \/ w \in Takers(q)'
BY DEF Pending, Takers, InHand

\* A claim that misses, and every step that writes no row and neither takes up nor
\* lets go of one.
LEMMA QuietSteps ==
  ASSUME IInv, NEW w \in Workers,
         \/ Begin(w) \/ Lapse(w) \/ Select(w) \/ Read(w) \/ Mark(w) \/ Finish(w)
         \/ \E p \in Posts : Claim(w, p) /\ ~Claimable(p)
         \/ \E kind \in {"later", "never", "reauth"} : Refuse(w, kind)
  PROVE  IInv'
<1>1. PublishingTypeOK'
  BY PassTypes DEF Pass
<1>2. run \in [Workers -> RunRow] /\ NoPost \notin Posts
  BY NoOneAssumption DEF IInv, PublishingTypeOK, RunRow
<1>3. /\ UNCHANGED <<job, known, raced, asked, consent>>
      /\ account' = account \/ account' = "NEEDS_REAUTH"
  BY DEF Begin, Lapse, Select, Read, Mark, Finish, Claim, Refuse, rowVars, ghosts
<1>4. Consented'
  BY <1>3 DEF IInv, Consented
<1>5. PICK row : run' = [run EXCEPT ![w] = row]
  BY <1>2 DEF Begin, Lapse, Select, Read, Mark, Finish, Claim, Refuse, Goes, Leaves, Returns
<1>6. /\ \A v \in Workers \ {w} : run'[v] = run[v]
  BY <1>2, <1>5
<1>7. /\ run'[w].at \in {"call", "taken"} => run'[w].consent
      /\ \A q \in Posts : /\ w \in Pending(q)' <=> w \in Pending(q)
                          /\ w \in Takers(q)' <=> w \in Takers(q)
  <2>1. CASE Begin(w)
    BY <1>2, <2>1, WhereItIs DEF Begin, Goes, RunRow
  <2>2. CASE Lapse(w)
    BY <2>2, WhereItIs DEF Lapse, IInv, NothingGoesOutWithdrawn
  <2>3. CASE Select(w)
    BY <1>2, <2>3, WhereItIs DEF Select, RunRow
  <2>4. CASE Read(w)
    BY <1>2, <2>4, WhereItIs DEF Read, RunRow, IInv, Consented
  <2>5. CASE Mark(w)
    BY <1>2, <2>5, WhereItIs DEF Mark, Returns, Idle, RunRow
  <2>6. CASE Finish(w)
    BY <1>2, <2>6, WhereItIs DEF Finish, Leaves, Idle, RunRow
  <2>7. CASE \E p \in Posts : Claim(w, p) /\ ~Claimable(p)
    <3>1. PICK p \in Posts : Claim(w, p) /\ ~Claimable(p)
      BY <2>7
    <3>2. run[w].at = "batch" /\ run' = [run EXCEPT ![w].batch = @ \ {p}]
      BY <3>1 DEF Claim
    <3>3. run'[w].at = "batch" /\ run'[w].post = run[w].post
      BY <1>2, <3>2 DEF RunRow
    <3> QED
      BY <3>2, <3>3, WhereItIs
  <2>8. CASE \E kind \in {"later", "never", "reauth"} : Refuse(w, kind)
    <3>1. PICK kind \in {"later", "never", "reauth"} : Refuse(w, kind)
      BY <2>8
    <3>2. /\ run[w].at = "call" /\ run' = [run EXCEPT ![w].at = kind]
      BY <3>1 DEF Refuse, Goes
    <3>3. run'[w].at = kind /\ run'[w].post = run[w].post
      BY <1>2, <3>2 DEF RunRow
    <3> QED
      BY <3>2, <3>3, WhereItIs
  <2> QED
    BY <2>1, <2>2, <2>3, <2>4, <2>5, <2>6, <2>7, <2>8
<1> QED
  BY <1>1, <1>3, <1>4, <1>6, <1>7, QuietStep

\* A step that takes up a row, lets go of one or writes the one in hand: what it does
\* to that row, the others being left alone.
LEMMA HeldRowMoves ==
  ASSUME IInv, PublishingTypeOK', NEW w \in Workers, NEW p \in Posts,
         \A v \in Workers \ {w} : run'[v] = run[v],
         UNCHANGED <<raced, asked, account, consent>>,
         run'[w].at \in {"call", "taken"} => run'[w].consent,
         \A q \in Posts \ {p} : /\ job'[q] = job[q] /\ known'[q] = known[q]
                                /\ run[w].post # q /\ run'[w].post # q,
         known'[p] + Has(w, Pending(p)') + Loose(p)'
           <= known[p] + Has(w, Pending(p)) + Loose(p),
         known[p] + Has(w, Takers(p)') <= known'[p] + Has(w, Takers(p)),
         job'[p].status = "PUBLISHING" /\ job'[p].late => ~Held(p)',
         raced[p] = 0 => /\ Held(p)' => job'[p].status = "PUBLISHING"
                         /\ InHand(w, p)' => InHand(w, p) \/ ~Held(p),
         job'[p].status = "NONE" <=> job[p].status = "NONE",
         InHand(w, p)' => InHand(w, p) \/ job[p].status # "NONE"
  PROVE  IInv'
<1>1. Consented'
  BY DEF IInv, Consented
<1>2. ASSUME NEW q \in Posts \ {p}
      PROVE  /\ known'[q] + Has(w, Pending(q)') + Loose(q)'
                  <= known[q] + Has(w, Pending(q)) + Loose(q)
             /\ known[q] + Has(w, Takers(q)') <= known'[q] + Has(w, Takers(q))
             /\ job'[q].status = "PUBLISHING" /\ job'[q].late => ~Held(q)'
             /\ raced[q] = 0 => /\ Held(q)' => job'[q].status = "PUBLISHING"
                                /\ InHand(w, q)' => InHand(w, q) \/ ~Held(q)
             /\ job'[q].status = "NONE" <=> job[q].status = "NONE"
             /\ InHand(w, q)' => InHand(w, q) \/ job[q].status # "NONE"
  <2>1. /\ w \notin Pending(q) /\ w \notin Pending(q)'
        /\ w \notin Takers(q) /\ w \notin Takers(q)'
        /\ ~InHand(w, q) /\ ~InHand(w, q)'
    BY WhereItIs
  <2>2. \A v \in Workers : InHand(v, q)' <=> InHand(v, q)
    BY <2>1 DEF InHand
  <2>3. Held(q)' <=> Held(q)
    BY <2>2 DEF Held
  <2>4. Loose(q)' = Loose(q) /\ Loose(q) \in {0, 1} /\ known[q] \in Nat
    BY <2>3 DEF Loose, IInv, PublishingTypeOK
  <2>5. Has(w, Pending(q)) = 0 /\ Has(w, Pending(q)') = 0
        /\ Has(w, Takers(q)) = 0 /\ Has(w, Takers(q)') = 0
    BY <2>1 DEF Has
  <2> QED
    BY <2>1, <2>3, <2>4, <2>5 DEF IInv, LateIsLoose, Sole
<1> QED
  BY <1>1, <1>2, HandsMove

\* The go that lay in the row is now with the pass.
LEMMA ClaimSteps ==
  ASSUME IInv, NEW w \in Workers, NEW p \in Posts, Claim(w, p), Claimable(p)
  PROVE  IInv'
<1>1. PublishingTypeOK'
  BY PassTypes DEF Pass
<1>2. /\ run \in [Workers -> RunRow] /\ NoPost \notin Posts /\ job \in [Posts -> JobRow]
      /\ known \in [Posts -> Nat]
      /\ run[w].post = NoPost <=> run[w].at \in AtRest
  BY NoOneAssumption DEF IInv, PublishingTypeOK, RunRow, JobRow, AtRest
<1>3. /\ job[p].status = "SCHEDULED" /\ run[w].at = "batch"
      /\ job' = [job EXCEPT ![p].status = "PUBLISHING", ![p].attempts = @ + 1,
                            ![p].late = FALSE]
      /\ run' = [run EXCEPT ![w].batch = @ \ {p}, ![w].post = p, ![w].at = "read"]
      /\ UNCHANGED <<known, raced, asked, account, consent>>
  BY DEF Claim, Claimable, ghosts
<1>4. /\ run[w].post = NoPost /\ run'[w].post = p /\ run'[w].at = "read"
      /\ \A v \in Workers \ {w} : run'[v] = run[v]
      /\ \A q \in Posts \ {p} : job'[q] = job[q]
      /\ job'[p].status = "PUBLISHING" /\ job'[p].late = FALSE
  BY <1>2, <1>3 DEF RunRow, JobRow, AtRest
<1>5. /\ w \notin Pending(p) /\ w \in Pending(p)' /\ InHand(w, p)'
      /\ w \notin Takers(p) /\ w \notin Takers(p)'
  BY <1>2, <1>4, WhereItIs
<1>6. Loose(p) = 1 /\ Loose(p)' = 0
  BY <1>3, <1>4, <1>5 DEF Loose, Held
<1>7. raced[p] = 0 => ~Held(p)
  BY <1>3 DEF IInv, Sole
<1>8. /\ known'[p] + Has(w, Pending(p)') + Loose(p)'
           <= known[p] + Has(w, Pending(p)) + Loose(p)
      /\ known[p] + Has(w, Takers(p)') <= known'[p] + Has(w, Takers(p))
  <2>1. Has(w, Pending(p)') = 1 /\ Has(w, Pending(p)) = 0
        /\ Has(w, Takers(p)') = 0 /\ Has(w, Takers(p)) = 0
    BY <1>5 DEF Has
  <2>2. known[p] \in Nat /\ known'[p] = known[p]
    BY <1>2, <1>3
  <2> QED
    BY <1>6, <2>1, <2>2
<1> QED
  BY <1>1, <1>2, <1>3, <1>4, <1>7, <1>8, HeldRowMoves

\* A row that looks abandoned is in nobody's hands.
LEMMA SweepSteps ==
  ASSUME IInv, NEW w \in Workers, Sweep(w)
  PROVE  IInv'
<1>1. PublishingTypeOK'
  BY PassTypes DEF Pass
<1>2. /\ run \in [Workers -> RunRow] /\ job \in [Posts -> JobRow]
      /\ known \in [Posts -> Nat]
  BY DEF IInv, PublishingTypeOK, RunRow, JobRow
<1>3. /\ run[w].at = "sweep" /\ run' = [run EXCEPT ![w].at = "select"]
      /\ UNCHANGED <<known, raced, asked, account, consent>>
  BY DEF Sweep, Goes, ghosts
<1>4. /\ \A v \in Workers \ {w} : run'[v] = run[v]
      /\ run'[w].at = "select" /\ run'[w].post = run[w].post
  BY <1>2, <1>3 DEF RunRow
<1>5. Consented'
  BY <1>3 DEF IInv, Consented
<1>6. ASSUME NEW q \in Posts
      PROVE  /\ known'[q] + Has(w, Pending(q)') + Loose(q)'
                  <= known[q] + Has(w, Pending(q)) + Loose(q)
             /\ known[q] + Has(w, Takers(q)') <= known'[q] + Has(w, Takers(q))
             /\ job'[q].status = "PUBLISHING" /\ job'[q].late => ~Held(q)'
             /\ raced[q] = 0 => /\ Held(q)' => job'[q].status = "PUBLISHING"
                                /\ InHand(w, q)' => InHand(w, q) \/ ~Held(q)
             /\ job'[q].status = "NONE" <=> job[q].status = "NONE"
             /\ InHand(w, q)' => InHand(w, q) \/ job[q].status # "NONE"
  <2>1. /\ w \notin Pending(q) /\ w \notin Pending(q)'
        /\ w \notin Takers(q) /\ w \notin Takers(q)'
        /\ ~InHand(w, q) /\ ~InHand(w, q)'
    BY <1>3, <1>4, WhereItIs
  <2>2. \A v \in Workers : InHand(v, q)' <=> InHand(v, q)
    BY <1>4, <2>1 DEF InHand
  <2>3. Held(q)' <=> Held(q)
    BY <2>2 DEF Held
  <2>4. job'[q] = IF Stuck(q) THEN [job[q] EXCEPT !.status = "SCHEDULED"] ELSE job[q]
    BY DEF Sweep
  <2>5. CASE Stuck(q)
    <3>1. job'[q].status = "SCHEDULED" /\ job[q].status = "PUBLISHING" /\ ~Held(q)
      BY <1>2, <2>4, <2>5 DEF Stuck, IInv, LateIsLoose, JobRow
    <3>2. Loose(q) = 1 /\ Loose(q)' = 1
      BY <2>3, <3>1 DEF Loose
    <3> QED
      BY <1>2, <1>3, <2>1, <2>3, <3>1, <3>2 DEF Has
  <2>6. CASE ~Stuck(q)
    <3>1. job'[q] = job[q]
      BY <2>4, <2>6
    <3>2. Loose(q)' = Loose(q) /\ Loose(q) \in {0, 1}
      BY <2>3, <3>1 DEF Loose
    <3>3. known'[q] = known[q] /\ known[q] \in Nat
      BY <1>2, <1>3
    <3>4. Has(w, Pending(q)) = 0 /\ Has(w, Pending(q)') = 0
          /\ Has(w, Takers(q)) = 0 /\ Has(w, Takers(q)') = 0
      BY <2>1 DEF Has
    <3> QED
      BY <2>1, <2>3, <3>1, <3>2, <3>3, <3>4 DEF IInv, LateIsLoose, Sole
  <2> QED
    BY <2>5, <2>6
<1> QED
  BY <1>1, <1>3, <1>4, <1>5, <1>6, HandsMove

\* The go is used up, or comes back when the answer is lost.
LEMMA TakeSteps ==
  ASSUME IInv, NEW w \in Workers, Take(w) \/ AnswerLost(w)
  PROVE  IInv'
<1>1. PublishingTypeOK'
  BY PassTypes DEF Pass
<1>2. /\ run \in [Workers -> RunRow] /\ known \in [Posts -> Nat] /\ NoPost \notin Posts
  BY NoOneAssumption DEF IInv, PublishingTypeOK, RunRow
<1>3. PICK p \in Posts : p = run[w].post
  BY HolderHasPost DEF IInv, Take, AnswerLost, AtRest
<1>4. /\ UNCHANGED <<job, raced, asked, account, consent>>
      /\ \A q \in Posts \ {p} : job'[q] = job[q] /\ known'[q] = known[q]
  BY <1>2, <1>3 DEF Take, AnswerLost, Misses, rowVars
<1>5. PICK at \in {"taken", "later"} : run' = [run EXCEPT ![w].at = at]
  BY DEF Take, AnswerLost, Goes
<1>6. /\ \A v \in Workers \ {w} : run'[v] = run[v]
      /\ run'[w].post = p /\ run'[w].at = at /\ run'[w].consent = run[w].consent
  BY <1>2, <1>3, <1>5 DEF RunRow
<1>7. InHand(w, p) /\ InHand(w, p)'
  BY <1>3, <1>6, WhereItIs DEF Take, AnswerLost
<1>8. Held(p) /\ Held(p)' /\ Loose(p)' = Loose(p) /\ Loose(p) \in {0, 1}
  <2>1. Held(p) /\ Held(p)'
    BY <1>7 DEF Held
  <2>2. job'[p] = job[p]
    BY <1>4
  <2> QED
    BY <2>1, <2>2 DEF Loose
<1>9. /\ known'[p] + Has(w, Pending(p)') + Loose(p)'
           <= known[p] + Has(w, Pending(p)) + Loose(p)
      /\ known[p] + Has(w, Takers(p)') <= known'[p] + Has(w, Takers(p))
      /\ run'[w].at \in {"call", "taken"} => run'[w].consent
  <2>1. CASE Take(w)
    <3>1. run[w].at = "call" /\ run'[w].at = "taken" /\ known'[p] = known[p] + 1
      BY <1>2, <1>3, <2>1 DEF Take, Goes, RunRow
    <3>2. Has(w, Pending(p)) = 1 /\ Has(w, Pending(p)') = 0
          /\ Has(w, Takers(p)) = 0 /\ Has(w, Takers(p)') = 1
      BY <1>3, <1>6, <3>1, WhereItIs DEF Has
    <3>3. run[w].consent
      BY <3>1 DEF IInv, NothingGoesOutWithdrawn
    <3>4. known[p] \in Nat
      BY <1>2, <1>3
    <3> QED
      BY <1>6, <1>8, <3>1, <3>2, <3>3, <3>4
  <2>2. CASE AnswerLost(w)
    <3>1. run[w].at = "taken" /\ run'[w].at = "later" /\ known'[p] = known[p] - 1
      BY <1>2, <1>3, <2>2 DEF AnswerLost, Misses, Goes, RunRow
    <3>2. Has(w, Pending(p)) = 0 /\ Has(w, Pending(p)') = 1
          /\ Has(w, Takers(p)) = 1 /\ Has(w, Takers(p)') = 0
      BY <1>3, <1>6, <3>1, WhereItIs DEF Has
    <3>3. known[p] \in Nat
      BY <1>2, <1>3
    <3> QED
      BY <1>8, <3>1, <3>2, <3>3
  <2> QED
    BY <2>1, <2>2
<1>10. /\ job'[p].status = "PUBLISHING" /\ job'[p].late => ~Held(p)'
       /\ raced[p] = 0 => job'[p].status = "PUBLISHING"
  BY <1>3, <1>4, <1>8 DEF IInv, LateIsLoose, Sole
<1>11. /\ \A q \in Posts \ {p} : /\ job'[q] = job[q] /\ known'[q] = known[q]
                                  /\ run[w].post # q /\ run'[w].post # q
       /\ raced[p] = 0 => /\ Held(p)' => job'[p].status = "PUBLISHING"
                          /\ InHand(w, p)' => InHand(w, p) \/ ~Held(p)
       /\ job'[p].status = "NONE" <=> job[p].status = "NONE"
       /\ InHand(w, p)' => InHand(w, p) \/ job[p].status # "NONE"
  BY <1>3, <1>4, <1>6, <1>7, <1>10
<1> QED
  BY <1>1, <1>3, <1>4, <1>6, <1>9, <1>10, <1>11, HeldRowMoves

\* Whoever lets go of a row leaves it to nobody, unless a "try again" was written over it.
LEMMA LetGo ==
  ASSUME IInv, NEW w \in Workers, NEW p \in Posts, InHand(w, p), ~InHand(w, p)',
         \A v \in Workers \ {w} : run'[v] = run[v]
  PROVE  /\ raced[p] = 0 => ~Held(p)'
         /\ job[p].status = "PUBLISHING" => ~job[p].late
         /\ job[p].status # "NONE"
<1>1. \A v \in Workers \ {w} : InHand(v, p)' <=> InHand(v, p)
  BY DEF InHand
<1>2. raced[p] = 0 => \A v \in Workers \ {w} : ~InHand(v, p)
  BY DEF IInv, Sole
<1>3. raced[p] = 0 => ~Held(p)'
  BY <1>1, <1>2 DEF Held
<1>4. Held(p)
  BY DEF Held
<1> QED
  BY <1>3, <1>4 DEF IInv, LateIsLoose, Fresh

\* The pass ends its attempt: the row says PUBLISHED, or is loose again.
LEMMA EndSteps ==
  ASSUME IInv, NEW w \in Workers, Record(w) \/ Fail(w)
  PROVE  IInv'
<1>1. PublishingTypeOK'
  BY PassTypes DEF Pass
<1>2. /\ run \in [Workers -> RunRow] /\ job \in [Posts -> JobRow]
      /\ known \in [Posts -> Nat] /\ NoPost \notin Posts
  BY NoOneAssumption DEF IInv, PublishingTypeOK, RunRow, JobRow
<1>3. PICK p \in Posts : p = run[w].post
  BY HolderHasPost DEF IInv, Record, Fail, AtRest
<1>4. /\ UNCHANGED <<known, raced, asked, account, consent>>
      /\ \A q \in Posts \ {p} : job'[q] = job[q]
      /\ job'[p].status \in {"PUBLISHED", "SCHEDULED", "FAILED"}
      /\ run[w].at = "taken" => job'[p].status = "PUBLISHED"
  BY <1>2, <1>3 DEF Record, Fail, ghosts, JobRow
<1>5. PICK row : /\ run' = [run EXCEPT ![w] = row]
                 /\ row.at \in {"mark", "batch"}
                 /\ row.post \in {p, NoPost}
  <2>1. CASE Goes(w, "mark")
    <3> DEFINE marks == [run[w] EXCEPT !.at = "mark"]
    <3>1. run' = [run EXCEPT ![w] = marks] /\ marks.at = "mark" /\ marks.post = p
      BY <1>2, <1>3, <2>1 DEF Goes, RunRow
    <3> HIDE DEF marks
    <3> QED
      BY <3>1
  <2>2. CASE Returns(w)
    <3> DEFINE back == [Idle EXCEPT !.at = "batch", !.batch = run[w].batch]
    <3>1. run' = [run EXCEPT ![w] = back] /\ back.at = "batch" /\ back.post = NoPost
      BY <2>2 DEF Returns, Idle
    <3> HIDE DEF back
    <3> QED
      BY <3>1
  <2> QED
    BY <2>1, <2>2 DEF Record, Fail
<1>6. /\ \A v \in Workers \ {w} : run'[v] = run[v]
      /\ run'[w].at \in {"mark", "batch"} /\ run'[w].post \in {p, NoPost}
  BY <1>2, <1>5
<1>7. /\ run[w].at \in {"taken", "later", "never", "reauth"}
      /\ InHand(w, p) /\ ~InHand(w, p)'
      /\ w \notin Pending(p)' /\ w \notin Takers(p)'
      /\ w \in Takers(p) <=> run[w].at = "taken"
      /\ w \in Pending(p) <=> run[w].at # "taken"
  BY <1>3, <1>6, WhereItIs DEF Record, Fail
<1>8. /\ Has(w, Pending(p)') = 0 /\ Has(w, Takers(p)') = 0
      /\ Has(w, Takers(p)) \in {0, 1}
      /\ Has(w, Pending(p)) = IF run[w].at = "taken" THEN 0 ELSE 1
  BY <1>7 DEF Has
<1>9. /\ Loose(p) \in {0, 1} /\ Loose(p)' \in {0, 1}
      /\ run[w].at = "taken" => Loose(p)' = 0
  BY <1>4 DEF Loose
<1>10. /\ known'[p] + Has(w, Pending(p)') + Loose(p)'
            <= known[p] + Has(w, Pending(p)) + Loose(p)
       /\ known[p] + Has(w, Takers(p)') <= known'[p] + Has(w, Takers(p))
  BY <1>2, <1>4, <1>8, <1>9
<1>11. /\ raced[p] = 0 => ~Held(p)'
       /\ job[p].status # "NONE"
  BY <1>6, <1>7, LetGo
<1>12. \A q \in Posts \ {p} : /\ job'[q] = job[q] /\ known'[q] = known[q]
                              /\ run[w].post # q /\ run'[w].post # q
  BY <1>2, <1>3, <1>4, <1>6
<1> QED
  BY <1>1, <1>4, <1>6, <1>7, <1>10, <1>11, <1>12, HeldRowMoves

\* A pass that ends in the middle leaves its row loose, with the answer if it had one.
LEMMA DeathSteps ==
  ASSUME IInv, NEW w \in Workers, Die(w)
  PROVE  IInv'
<1>1. PublishingTypeOK'
  BY PassTypes
<1>2. /\ run \in [Workers -> RunRow] /\ job \in [Posts -> JobRow]
      /\ known \in [Posts -> Nat] /\ NoPost \notin Posts
      /\ UNCHANGED <<job, raced, asked, account, consent>>
  BY NoOneAssumption DEF IInv, PublishingTypeOK, RunRow, JobRow, Die, rowVars
<1>3. /\ \A v \in Workers \ {w} : run'[v] = run[v]
      /\ run'[w].at = "idle" /\ run'[w].post = NoPost
  BY <1>2 DEF Die, Leaves, Idle
<1>4. Consented'
  BY <1>2 DEF IInv, Consented
<1>5. CASE run[w].at \in AtRest \cup {"mark"}
  <2>1. known' = known
    BY <1>5 DEF Die, AtRest
  <2>2. \A q \in Posts : /\ w \in Pending(q)' <=> w \in Pending(q)
                         /\ w \in Takers(q)' <=> w \in Takers(q)
    BY <1>3, <1>5, WhereItIs DEF AtRest
  <2> QED
    BY <1>1, <1>2, <1>3, <1>4, <2>1, <2>2, QuietStep
<1>6. CASE run[w].at \notin AtRest \cup {"mark"}
  <2>1. PICK p \in Posts : p = run[w].post
    BY <1>6, HolderHasPost DEF IInv
  <2>2. run[w].at \in {"read", "call", "taken", "later", "never", "reauth"}
    BY <1>2, <1>6 DEF RunRow, Steps, AtRest
  <2>3. /\ InHand(w, p) /\ ~InHand(w, p)'
        /\ w \notin Pending(p)' /\ w \notin Takers(p)'
        /\ w \in Takers(p) <=> run[w].at = "taken"
        /\ w \in Pending(p) <=> run[w].at # "taken"
    BY <1>2, <1>3, <2>1, <2>2, WhereItIs
  <2>4. /\ raced[p] = 0 => ~Held(p)'
        /\ job[p].status = "PUBLISHING" => ~job[p].late
        /\ job[p].status # "NONE"
    BY <1>3, <2>3, LetGo
  <2>5. /\ \A q \in Posts \ {p} : /\ job'[q] = job[q] /\ known'[q] = known[q]
                                  /\ run[w].post # q /\ run'[w].post # q
        /\ known'[p] = IF run[w].at = "taken" THEN known[p] - 1 ELSE known[p]
    BY <1>2, <1>3, <2>1 DEF Die, Misses
  <2>6. Loose(p) \in {0, 1} /\ Loose(p)' \in {0, 1} /\ Loose(p)' <= Loose(p) + 1
    BY DEF Loose
  <2>7. /\ Has(w, Pending(p)') = 0 /\ Has(w, Takers(p)') = 0
        /\ Has(w, Takers(p)) = IF run[w].at = "taken" THEN 1 ELSE 0
        /\ Has(w, Pending(p)) = IF run[w].at = "taken" THEN 0 ELSE 1
    BY <2>3 DEF Has
  <2>8. /\ known'[p] + Has(w, Pending(p)') + Loose(p)'
             <= known[p] + Has(w, Pending(p)) + Loose(p)
        /\ known[p] + Has(w, Takers(p)') <= known'[p] + Has(w, Takers(p))
    <3>1. known[p] \in Nat
      BY <1>2
    <3> QED
      BY <2>5, <2>6, <2>7, <3>1
  <2>9. /\ job'[p].status = "PUBLISHING" /\ job'[p].late => ~Held(p)'
        /\ raced[p] = 0 => /\ Held(p)' => job'[p].status = "PUBLISHING"
                           /\ InHand(w, p)' => InHand(w, p) \/ ~Held(p)
        /\ job'[p].status = "NONE" <=> job[p].status = "NONE"
        /\ InHand(w, p)' => InHand(w, p) \/ job[p].status # "NONE"
        /\ run'[w].at \in {"call", "taken"} => run'[w].consent
    BY <1>2, <1>3, <2>3, <2>4
  <2> QED
    BY <1>1, <1>2, <1>3, <2>5, <2>8, <2>9, HeldRowMoves
<1> QED
  BY <1>5, <1>6

-----------------------------------------------------------------------------
(* The theorems.  No attempt outlasts STUCK_AFTER_MS: else a row in the     *)
(* hands of one pass is given to another, and there are two goes at it.     *)

LEMMA NextHolds ==
  ASSUME IInv, ~Slow, [Next]_vars
  PROVE  IInv'
<1>1. ASSUME NEW w \in Workers, Begin(w) \/ Pass(w) \/ Lapse(w) \/ Die(w)
      PROVE  IInv'
  <2>1. CASE \E p \in Posts : Claim(w, p) /\ Claimable(p)
    BY <2>1, ClaimSteps
  <2>2. CASE ~\E p \in Posts : Claim(w, p) /\ Claimable(p)
    BY <1>1, <2>2, QuietSteps, SweepSteps, TakeSteps, EndSteps, DeathSteps DEF Pass
  <2> QED
    BY <2>1, <2>2
<1>2. CASE UNCHANGED vars
  <2>1. \A q : Pending(q)' = Pending(q) /\ Takers(q)' = Takers(q) /\ (Held(q)' <=> Held(q))
               /\ \A w : InHand(w, q)' <=> InHand(w, q)
    BY <1>2 DEF vars, Pending, Takers, Held, InHand
  <2>2. \A q : Loose(q)' = Loose(q)
    BY <1>2, <2>1 DEF vars, Loose
  <2>3. PublishingTypeOK' /\ Consented' /\ NothingGoesOutWithdrawn'
    BY <1>2 DEF vars, IInv, PublishingTypeOK, Consented, NothingGoesOutWithdrawn
  <2>4. OneGo' /\ MissesAreKnown'
    BY <1>2, <2>1, <2>2 DEF vars, IInv, OneGo, MissesAreKnown
  <2>5. LateIsLoose' /\ Sole' /\ Fresh'
    BY <1>2, <2>1 DEF vars, IInv, LateIsLoose, Sole, Fresh
  <2> QED
    BY <2>3, <2>4, <2>5 DEF IInv
<1> QED
  BY <1>1, <1>2, RequestSteps, AccountSteps DEF Next

THEOREM Invariance == ASSUME ~Slow PROVE Spec => []IInv
<1>1. IInv /\ [Next]_vars => IInv'
  BY NextHolds
<1> QED
  BY <1>1, InitHolds, PTL DEF Spec

\* Types of the row, the account, the passes and the bookkeeping of runDue().
THEOREM PublishingTypeCorrect == ASSUME ~Slow PROVE Spec => []PublishingTypeOK
<1>1. IInv => PublishingTypeOK
  BY DEF IInv
<1> QED
  BY <1>1, Invariance, PTL

\* A post is on the platform at most once, and only when its row says so, but for the
\* answers that never arrived and the "try again" that were written over a row that had
\* moved on: any number of passes that overlap, and of deaths, adds nothing.
THEOREM TakenCorrect == ASSUME ~Slow PROVE Spec => []TakenIsOnTheRow
<1>1. ASSUME IInv PROVE TakenIsOnTheRow
  <2> SUFFICES ASSUME NEW p \in Posts
               PROVE  known[p] <= raced[p]
                        + IF \/ job[p].status = "PUBLISHED"
                             \/ \E w \in Workers : InHand(w, p) /\ run[w].at = "taken"
                          THEN 1 ELSE 0
    BY DEF TakenIsOnTheRow
  <2>1. known[p] + Cardinality(Pending(p)) + Loose(p) <= raced[p] + 1
    BY <1>1 DEF IInv, OneGo
  <2>2. /\ known[p] \in Nat /\ raced[p] \in Nat /\ Cardinality(Pending(p)) \in Nat
        /\ IsFiniteSet(Pending(p))
    BY <1>1, HoldersAreFinite DEF IInv, PublishingTypeOK
  <2>3. CASE \/ job[p].status = "PUBLISHED"
             \/ \E w \in Workers : InHand(w, p) /\ run[w].at = "taken"
    <3>1. Loose(p) \in {0, 1}
      BY DEF Loose
    <3> QED
      BY <2>1, <2>2, <2>3, <3>1
  <2>4. CASE ~ \/ job[p].status = "PUBLISHED"
               \/ \E w \in Workers : InHand(w, p) /\ run[w].at = "taken"
    <3>1. Cardinality(Pending(p)) + Loose(p) >= 1
      <4>1. CASE Held(p)
        <5>1. Pending(p) # {}
          BY <2>4, <4>1 DEF Held, InHand, Pending
        <5>2. Cardinality(Pending(p)) # 0
          BY <2>2, <5>1, FS_EmptySet
        <5>3. Loose(p) \in {0, 1}
          BY DEF Loose
        <5> QED
          BY <2>2, <5>2, <5>3
      <4>2. CASE ~Held(p)
        <5>1. Loose(p) = 1
          BY <2>4, <4>2 DEF Loose
        <5> QED
          BY <2>2, <5>1
      <4> QED
        BY <4>1, <4>2
    <3>2. Loose(p) \in {0, 1}
      BY DEF Loose
    <3>3. known[p] <= raced[p]
      BY <2>1, <2>2, <3>1, <3>2
    <3> QED
      BY <2>2, <2>4, <3>3
  <2> QED
    BY <2>3, <2>4
<1> QED
  BY <1>1, Invariance, PTL

\* Once the customer has disconnected the account, no attempt that had not read it
\* before sends anything through it, until the customer connects it again.
THEOREM WithdrawnCorrect == ASSUME ~Slow PROVE Spec => []NothingGoesOutWithdrawn
<1>1. IInv => NothingGoesOutWithdrawn
  BY DEF IInv
<1> QED
  BY <1>1, Invariance, PTL

\* No pass, timer or disconnect brings back a post the customer cancelled, unless a
\* "try again" was written over it.
THEOREM CancelledCorrect == ASSUME ~Slow PROVE Spec => CancelledStaysCancelled
<1>1. ASSUME IInv, [Next]_vars, NEW p \in Posts, job[p].status = "CANCELLED"
      PROVE  job'[p].status = "CANCELLED" \/ raced'[p] > 0
  <2>1. /\ job \in [Posts -> JobRow] /\ raced \in [Posts -> Nat]
        /\ asked["create"][p] > 0 => job[p].status = "NONE"
        /\ raced[p] = 0 => \A w \in Workers : ~InHand(w, p)
    BY <1>1 DEF IInv, PublishingTypeOK, JobRow, Fresh, Sole, Held
  <2>2. CASE UNCHANGED job
    BY <1>1, <2>2
  <2>3. ASSUME NEW q \in Posts,
               \/ CreateWrites(q) \/ PatchWrites(q) \/ Cancel(q) \/ RetryWrites(q)
               \/ ComesDue(q) \/ GrowsOld(q)
        PROVE  job'[p].status = "CANCELLED" \/ raced'[p] > 0
    <3>1. CASE q # p
      BY <1>1, <2>1, <2>3, <3>1 DEF CreateWrites, PatchWrites, Cancel, RetryWrites, ComesDue,
         GrowsOld, JobRow
    <3>2. CASE q = p /\ RetryWrites(p)
      <4>1. raced'[p] = raced[p] + 1 /\ raced[p] \in Nat
        BY <1>1, <2>1, <3>2 DEF RetryWrites
      <4> QED
        BY <4>1
    <3>3. CASE q = p /\ ~RetryWrites(p)
      BY <1>1, <2>1, <2>3, <3>3 DEF CreateWrites, Served, PatchWrites, Cancel, ComesDue,
         GrowsOld, JobRow
    <3> QED
      BY <3>1, <3>2, <3>3
  <2>4. CASE Disconnect
    BY <1>1, <2>1, <2>4 DEF Disconnect
  <2>5. ASSUME NEW w \in Workers, Sweep(w) \/ \E q \in Posts : Claim(w, q)
        PROVE  job'[p].status = "CANCELLED"
    <3>1. CASE Sweep(w)
      BY <1>1, <2>1, <3>1 DEF Sweep, Stuck
    <3>2. CASE \E q \in Posts : Claim(w, q)
      <4>1. PICK q \in Posts : Claim(w, q)
        BY <3>2
      <4>2. job' = job \/ (q # p /\ job' = [job EXCEPT ![q].status = "PUBLISHING",
                                              ![q].attempts = @ + 1, ![q].late = FALSE])
        BY <1>1, <4>1 DEF Claim, Claimable
      <4> QED
        BY <1>1, <2>1, <4>2
    <3> QED
      BY <2>5, <3>1, <3>2
  <2>6. ASSUME NEW w \in Workers, Record(w) \/ Fail(w)
        PROVE  job'[p].status = "CANCELLED" \/ raced'[p] > 0
    <3>1. raced' = raced /\ run[w].at \in {"taken", "later", "never", "reauth"}
      BY <2>6 DEF Record, Fail, ghosts
    <3>2. CASE run[w].post = p
      <4>1. InHand(w, p)
        BY <3>1, <3>2 DEF InHand
      <4>2. raced[p] # 0 /\ raced[p] \in Nat
        BY <2>1, <4>1
      <4> QED
        BY <3>1, <4>2
    <3>3. CASE run[w].post # p
      <4>1. job'[p] = job[p]
        BY <2>1, <2>6, <3>3 DEF Record, Fail
      <4> QED
        BY <1>1, <4>1
    <3> QED
      BY <3>2, <3>3
  <2>7. \/ UNCHANGED job \/ Disconnect
        \/ \E w \in Workers : \/ Sweep(w) \/ (\E q \in Posts : Claim(w, q))
                              \/ Record(w) \/ Fail(w)
        \/ \E q \in Posts : \/ CreateWrites(q) \/ PatchWrites(q) \/ Cancel(q)
                            \/ RetryWrites(q) \/ ComesDue(q) \/ GrowsOld(q)
    BY <1>1 DEF Next, Pass, vars, rowVars, Begin, Lapse, Die, Select, Read, Take, Refuse,
       AnswerLost, Mark, Finish, CreateReads, PatchReads, RetryReads, Connect, RefreshReads,
       MetricsReads, Refreshes, TokenRefused, TimerEnds
  <2> QED
    BY <2>2, <2>3, <2>4, <2>5, <2>6, <2>7
<1>2. IInv /\ [Next]_vars
        => [\A p \in Posts : job[p].status = "CANCELLED" =>
               job'[p].status = "CANCELLED" \/ raced'[p] > 0]_vars
  BY <1>1
<1> QED
  BY <1>2, Invariance, PTL DEF Spec, CancelledStaysCancelled

-----------------------------------------------------------------------------
(* How often a post is tried.  Once a row has used up its tries, only what  *)
(* is still under way can put it back in the queue: a pass that read it     *)
(* when it had tries left, and the row itself while it waits.               *)

\* The passes that would put the row back in the queue.
Eager(p) ==
    {w \in Workers :
        InHand(w, p)
        /\ (IF run[w].at = "read" THEN job[p].attempts ELSE run[w].tries) < MaxAttempts}
Waits(p) == IF job[p].status = "SCHEDULED" THEN 1 ELSE 0

Counted(p) ==
    job[p].attempts >= MaxAttempts =>
        job[p].attempts + Cardinality(Eager(p)) + Waits(p)
          <= MaxAttempts + abandoned[p] + raced[p]
Tries == \A p \in Posts : Counted(p)

LEMMA EagerAreFinite ==
  ASSUME NEW p
  PROVE  IsFiniteSet(Eager(p)) /\ Cardinality(Eager(p)) \in Nat /\ Waits(p) \in {0, 1}
<1>1. Eager(p) \subseteq Workers /\ IsFiniteSet(Workers)
  BY PublishingAssumption DEF Eager
<1>2. IsFiniteSet(Eager(p))
  BY <1>1, FS_Subset
<1> QED
  BY <1>2, FS_CardinalityType DEF Waits

\* The holders and the wait of a row, before and after: what is lost on one side may
\* be gained on the other.
LEMMA Balance ==
  ASSUME NEW tries \in Nat, NEW most \in Nat, NEW more \in Nat,
         NEW eager \in Nat, NEW eager1 \in Nat, NEW here \in Nat, NEW here1 \in Nat,
         NEW waits \in Nat, NEW waits1 \in Nat, NEW lost \in Nat, NEW lost1 \in Nat,
         eager1 + here = eager + here1,
         here1 + waits1 + lost <= here + waits + lost1,
         tries + eager + waits <= most + lost + more
  PROVE  tries + eager1 + waits1 <= most + lost1 + more
OBVIOUS

\* A step of one pass that leaves the count of the row alone.
LEMMA EagerMoves ==
  ASSUME IInv, IInv', NEW w \in Workers, NEW p \in Posts, Counted(p),
         \A v \in Workers \ {w} : run'[v] = run[v],
         job'[p].attempts = job[p].attempts, raced'[p] = raced[p],
         Has(w, Eager(p)') + Waits(p)' + abandoned[p]
           <= Has(w, Eager(p)) + Waits(p) + abandoned'[p]
  PROVE  Counted(p)'
<1>1. Eager(p) \ {w} = Eager(p)' \ {w}
  <2>1. \A v \in Workers \ {w} : v \in Eager(p)' <=> v \in Eager(p)
    BY DEF Eager, InHand
  <2>2. Eager(p) \subseteq Workers /\ Eager(p)' \subseteq Workers
    BY DEF Eager
  <2> QED
    BY <2>1, <2>2
<1>2. IsFiniteSet(Eager(p)) /\ Cardinality(Eager(p)) \in Nat /\ Waits(p) \in {0, 1}
  BY EagerAreFinite
<1>3. /\ Cardinality(Eager(p)') \in Nat
      /\ Cardinality(Eager(p)') + Has(w, Eager(p))
           = Cardinality(Eager(p)) + Has(w, Eager(p)')
  BY <1>1, <1>2, OneElementMoves
<1>4. /\ Waits(p)' \in {0, 1} /\ Has(w, Eager(p)) \in {0, 1} /\ Has(w, Eager(p)') \in {0, 1}
      /\ abandoned[p] \in Nat /\ abandoned'[p] \in Nat /\ raced[p] \in Nat
      /\ job[p].attempts \in Nat /\ MaxAttempts \in Nat
  BY PublishingAssumption DEF Waits, Has, IInv, PublishingTypeOK
<1> SUFFICES ASSUME job[p].attempts >= MaxAttempts
             PROVE  job[p].attempts + Cardinality(Eager(p)') + Waits(p)'
                      <= MaxAttempts + abandoned'[p] + raced[p]
  BY DEF Counted
<1>6. job[p].attempts + Cardinality(Eager(p)) + Waits(p)
        <= MaxAttempts + abandoned[p] + raced[p]
  BY DEF Counted
<1> QED
  BY <1>2, <1>3, <1>4, <1>6, Balance

\* The tries that a pass has in hand.
LEMMA EagerIs ==
  ASSUME NEW w \in Workers, NEW p
  PROVE  /\ w \in Eager(p) <=>
              InHand(w, p)
              /\ (IF run[w].at = "read" THEN job[p].attempts ELSE run[w].tries) < MaxAttempts
         /\ w \in Eager(p)' <=>
              InHand(w, p)'
              /\ (IF run'[w].at = "read" THEN job'[p].attempts ELSE run'[w].tries) < MaxAttempts
BY DEF Eager

LEMMA RequestsCount ==
  ASSUME IInv, IInv', Tries, NEW q \in Posts, NEW p \in Posts,
         \/ CreateReads(q) \/ CreateWrites(q) \/ PatchReads(q) \/ PatchWrites(q)
         \/ Cancel(q) \/ RetryReads(q) \/ RetryWrites(q) \/ ComesDue(q) \/ GrowsOld(q)
  PROVE  Counted(p)'
<1>1. /\ job \in [Posts -> JobRow] /\ run' = run /\ Counted(p)
      /\ raced \in [Posts -> Nat] /\ abandoned \in [Posts -> Nat]
      /\ MaxAttempts \in Nat \ {0}
  BY PublishingAssumption DEF IInv, PublishingTypeOK, JobRow, Tries, CreateReads, CreateWrites,
     PatchReads, PatchWrites, Cancel, RetryReads, RetryWrites, ComesDue, GrowsOld
<1>2. CASE q = p /\ (CreateWrites(q) \/ RetryWrites(q))
  <2>1. job'[p].attempts = 0
    BY <1>1, <1>2 DEF CreateWrites, RetryWrites
  <2> QED
    BY <1>1, <2>1 DEF Counted
<1>3. CASE ~(q = p /\ (CreateWrites(q) \/ RetryWrites(q)))
  <2>1. /\ raced'[p] = raced[p] /\ abandoned'[p] = abandoned[p]
        /\ job'[p].attempts = job[p].attempts
        /\ job'[p].status = "SCHEDULED" => job[p].status = "SCHEDULED"
    BY <1>1, <1>3 DEF CreateReads, CreateWrites, PatchReads, PatchWrites, Cancel, RetryReads,
       RetryWrites, ComesDue, GrowsOld, rowVars, ghosts, JobRow
  <2>2. Eager(p)' = Eager(p)
    BY <1>1, <2>1 DEF Eager, InHand
  <2>3. Waits(p)' <= Waits(p) /\ Waits(p)' \in {0, 1}
    BY <2>1 DEF Waits
  <2>4. Cardinality(Eager(p)) \in Nat /\ Waits(p) \in {0, 1}
    BY EagerAreFinite
  <2>5. job[p].attempts \in Nat /\ raced[p] \in Nat /\ abandoned[p] \in Nat
    BY <1>1 DEF JobRow
  <2> QED
    BY <1>1, <2>1, <2>2, <2>3, <2>4, <2>5 DEF Counted
<1> QED
  BY <1>2, <1>3

LEMMA AccountsCount ==
  ASSUME IInv, IInv', Tries, NEW p \in Posts,
         \/ Connect \/ Disconnect \/ RefreshReads \/ MetricsReads \/ Refreshes
         \/ \E t \in {"refresh", "metrics"} : TokenRefused(t) \/ TimerEnds(t)
  PROVE  Counted(p)'
<1>1. /\ job \in [Posts -> JobRow] /\ run' = run /\ Counted(p)
      /\ raced \in [Posts -> Nat] /\ abandoned \in [Posts -> Nat]
      /\ raced' = raced /\ abandoned' = abandoned
      /\ MaxAttempts \in Nat \ {0}
  BY PublishingAssumption DEF IInv, PublishingTypeOK, JobRow, Tries, Connect, Disconnect,
     RefreshReads, MetricsReads, Refreshes, TokenRefused, TimerEnds, rowVars, ghosts
<1>2. job[p] \in JobRow
  BY <1>1
<1>3. /\ job'[p].attempts = job[p].attempts
      /\ job'[p].status = "SCHEDULED" => job[p].status = "SCHEDULED"
  <2>1. CASE Disconnect
    <3>1. job'[p] = IF job[p].status = "SCHEDULED"
                    THEN [job[p] EXCEPT !.status = "CANCELLED", !.late = FALSE]
                    ELSE job[p]
      BY <2>1 DEF Disconnect
    <3> QED
      BY <1>2, <3>1 DEF JobRow
  <2>2. CASE ~Disconnect
    BY <2>2 DEF Connect, RefreshReads, MetricsReads, Refreshes, TokenRefused, TimerEnds, rowVars
  <2> QED
    BY <2>1, <2>2
<1>4. Eager(p)' = Eager(p)
  BY <1>1, <1>3 DEF Eager, InHand
<1>5. Waits(p)' <= Waits(p) /\ Waits(p)' \in {0, 1}
  BY <1>3 DEF Waits
<1>6. Cardinality(Eager(p)) \in Nat /\ Waits(p) \in {0, 1}
  BY EagerAreFinite
<1>7. job[p].attempts \in Nat /\ raced[p] \in Nat /\ abandoned[p] \in Nat
  BY <1>1 DEF JobRow
<1> QED
  BY <1>1, <1>3, <1>4, <1>5, <1>6, <1>7 DEF Counted

\* A step of a pass that writes no row: its tries stay what they were, or it lets go.
LEMMA QuietCounts ==
  ASSUME IInv, IInv', Tries, NEW w \in Workers, NEW p \in Posts,
         \/ Begin(w) \/ Lapse(w) \/ Select(w) \/ Read(w) \/ Mark(w) \/ Finish(w)
         \/ Take(w) \/ AnswerLost(w) \/ Die(w)
         \/ \E q \in Posts : Claim(w, q) /\ ~Claimable(q)
         \/ \E kind \in {"later", "never", "reauth"} : Refuse(w, kind)
  PROVE  Counted(p)'
<1>1. /\ run \in [Workers -> RunRow] /\ NoPost \notin Posts
      /\ UNCHANGED <<job, raced, abandoned>> /\ Counted(p)
  BY NoOneAssumption DEF IInv, PublishingTypeOK, RunRow, Tries, Begin, Lapse, Select, Read,
     Mark, Finish, Take, AnswerLost, Die, Claim, Refuse, rowVars, ghosts
<1>2. \A v \in Workers \ {w} : run'[v] = run[v]
  BY <1>1 DEF Begin, Lapse, Select, Read, Mark, Finish, Take, AnswerLost, Die, Claim, Refuse,
     Goes, Leaves, Returns
<1>3. w \in Eager(p)' => w \in Eager(p)
  <2>1. CASE Begin(w)
    BY <1>1, <2>1, EagerIs DEF Begin, Goes, RunRow, InHand
  <2>2. CASE Lapse(w)
    BY <1>1, <2>2, EagerIs DEF Lapse, InHand
  <2>3. CASE Select(w)
    BY <1>1, <2>3, EagerIs DEF Select, RunRow, InHand
  <2>4. CASE Read(w)
    <3> DEFINE row == [run[w] EXCEPT !.tries = job[run[w].post].attempts,
                          !.consent = consent,
                          !.at = IF account = "CONNECTED" THEN "call" ELSE "never"]
    <3>1. run'[w] = row /\ run[w].at = "read"
      BY <1>1, <2>4 DEF Read
    <3>2. row.tries = job[run[w].post].attempts /\ row.at # "read" /\ row.post = run[w].post
      BY <1>1 DEF RunRow
    <3> HIDE DEF row
    <3>3. /\ run'[w].tries = job[run[w].post].attempts /\ run'[w].at # "read"
          /\ run'[w].post = run[w].post
      BY <3>1, <3>2
    <3> QED
      BY <3>1, <3>3, EagerIs DEF InHand
  <2>5. CASE Mark(w)
    BY <1>1, <2>5, EagerIs DEF Mark, Returns, Idle, RunRow, InHand
  <2>6. CASE Finish(w) \/ Die(w)
    BY <1>1, <2>6, EagerIs DEF Finish, Die, Leaves, Idle, RunRow, InHand
  <2>7. CASE Take(w) \/ AnswerLost(w)
    <3>1. PICK at \in {"taken", "later"} : run' = [run EXCEPT ![w].at = at]
      BY <2>7 DEF Take, AnswerLost, Goes
    <3>2. run'[w].at = at /\ run'[w].post = run[w].post /\ run'[w].tries = run[w].tries
          /\ run[w].at \in {"call", "taken"}
      BY <1>1, <2>7, <3>1 DEF RunRow, Take, AnswerLost
    <3> QED
      BY <3>2, EagerIs DEF InHand
  <2>8. CASE \E q \in Posts : Claim(w, q) /\ ~Claimable(q)
    <3>1. PICK q \in Posts : Claim(w, q) /\ ~Claimable(q)
      BY <2>8
    <3>2. run[w].at = "batch" /\ run' = [run EXCEPT ![w].batch = @ \ {q}]
      BY <3>1 DEF Claim
    <3>3. run'[w].at = "batch"
      BY <1>1, <3>2 DEF RunRow
    <3> QED
      BY <3>3, EagerIs DEF InHand
  <2>9. CASE \E kind \in {"later", "never", "reauth"} : Refuse(w, kind)
    <3>1. PICK kind \in {"later", "never", "reauth"} : Refuse(w, kind)
      BY <2>9
    <3>2. /\ run[w].at = "call" /\ run' = [run EXCEPT ![w].at = kind]
      BY <3>1 DEF Refuse, Goes
    <3>3. run'[w].at = kind /\ run'[w].post = run[w].post /\ run'[w].tries = run[w].tries
      BY <1>1, <3>2 DEF RunRow
    <3> QED
      BY <3>2, <3>3, EagerIs DEF InHand
  <2> QED
    BY <2>1, <2>2, <2>3, <2>4, <2>5, <2>6, <2>7, <2>8, <2>9
<1>4. /\ Has(w, Eager(p)') <= Has(w, Eager(p)) /\ Has(w, Eager(p)) \in {0, 1}
      /\ Has(w, Eager(p)') \in {0, 1}
  BY <1>3 DEF Has
<1>5. Waits(p)' = Waits(p) /\ Waits(p) \in {0, 1} /\ abandoned[p] \in Nat
      /\ abandoned'[p] = abandoned[p] /\ job'[p].attempts = job[p].attempts
      /\ raced'[p] = raced[p]
  BY <1>1 DEF Waits, IInv, PublishingTypeOK
<1>6. Has(w, Eager(p)') + Waits(p)' + abandoned[p]
        <= Has(w, Eager(p)) + Waits(p) + abandoned'[p]
  BY <1>4, <1>5
<1> QED
  BY <1>1, <1>2, <1>5, <1>6, EagerMoves

\* The end of an attempt: only a pass that had tries left puts the row back.
LEMMA EndCounts ==
  ASSUME IInv, IInv', Tries, NEW w \in Workers, NEW p \in Posts, Record(w) \/ Fail(w)
  PROVE  Counted(p)'
<1>1. /\ run \in [Workers -> RunRow] /\ NoPost \notin Posts /\ job \in [Posts -> JobRow]
      /\ UNCHANGED <<raced, abandoned>> /\ Counted(p) /\ abandoned[p] \in Nat
  BY NoOneAssumption DEF IInv, PublishingTypeOK, RunRow, JobRow, Tries, Record, Fail, ghosts
<1>2. /\ \A v \in Workers \ {w} : run'[v] = run[v]
      /\ run'[w].at \in {"mark", "batch"}
  <2>1. CASE Goes(w, "mark")
    BY <1>1, <2>1 DEF Goes, RunRow
  <2>2. CASE Returns(w)
    <3> DEFINE back == [Idle EXCEPT !.at = "batch", !.batch = run[w].batch]
    <3>1. run' = [run EXCEPT ![w] = back] /\ back.at = "batch"
      BY <2>2 DEF Returns, Idle
    <3> HIDE DEF back
    <3> QED
      BY <1>1, <3>1
  <2> QED
    BY <2>1, <2>2 DEF Record, Fail
<1>3. w \notin Eager(p)'
  BY <1>2, EagerIs DEF InHand
<1>4. CASE run[w].post # p
  <2>1. job'[p] = job[p]
    BY <1>1, <1>4 DEF Record, Fail
  <2>2. Waits(p)' = Waits(p) /\ Waits(p) \in {0, 1}
    BY <2>1 DEF Waits
  <2>3. Has(w, Eager(p)') = 0 /\ Has(w, Eager(p)) \in {0, 1}
    BY <1>3 DEF Has
  <2>4. Has(w, Eager(p)') + Waits(p)' + abandoned[p]
          <= Has(w, Eager(p)) + Waits(p) + abandoned'[p]
    BY <1>1, <2>2, <2>3
  <2> QED
    BY <1>1, <1>2, <2>1, <2>4, EagerMoves
<1>5. CASE run[w].post = p
  <2>1. /\ job'[p].attempts = job[p].attempts
        /\ job'[p].status = "SCHEDULED" => Fail(w) /\ CanRetry(w)
    <3>1. job[p] \in JobRow
      BY <1>1
    <3>2. CASE Record(w)
      BY <1>1, <1>5, <3>1, <3>2 DEF Record, JobRow
    <3>3. CASE Fail(w)
      <4>1. job'[p] = IF CanRetry(w)
                      THEN [job[p] EXCEPT !.status = "SCHEDULED", !.late = FALSE]
                      ELSE [job[p] EXCEPT !.status = "FAILED", !.late = FALSE]
        BY <1>1, <1>5, <3>3 DEF Fail
      <4> QED
        BY <3>1, <3>3, <4>1 DEF JobRow
    <3> QED
      BY <3>2, <3>3
  <2>2. Fail(w) /\ CanRetry(w) => w \in Eager(p)
    BY <1>5, EagerIs DEF CanRetry, InHand
  <2>3. Has(w, Eager(p)') = 0 /\ Has(w, Eager(p)) \in {0, 1}
        /\ (w \in Eager(p) => Has(w, Eager(p)) = 1)
    BY <1>3 DEF Has
  <2>4. Waits(p)' \in {0, 1} /\ Waits(p) \in {0, 1}
        /\ (job'[p].status # "SCHEDULED" => Waits(p)' = 0)
    BY DEF Waits
  <2>5. Waits(p)' <= Has(w, Eager(p))
    BY <2>1, <2>2, <2>3, <2>4
  <2>6. Has(w, Eager(p)') + Waits(p)' + abandoned[p]
          <= Has(w, Eager(p)) + Waits(p) + abandoned'[p]
    BY <1>1, <2>3, <2>4, <2>5
  <2> QED
    BY <1>1, <1>2, <2>1, <2>6, EagerMoves
<1> QED
  BY <1>4, <1>5

\* What a pass finds abandoned is in nobody's hands.
LEMMA SweepCounts ==
  ASSUME IInv, IInv', Tries, NEW w \in Workers, NEW p \in Posts, Sweep(w)
  PROVE  Counted(p)'
<1>1. /\ run \in [Workers -> RunRow] /\ job \in [Posts -> JobRow]
      /\ raced' = raced /\ Counted(p) /\ abandoned[p] \in Nat
      /\ run[w].at = "sweep" /\ run' = [run EXCEPT ![w].at = "select"]
  BY DEF IInv, PublishingTypeOK, RunRow, JobRow, Tries, Sweep, Goes, ghosts
<1>2. /\ \A v \in Workers \ {w} : run'[v] = run[v]
      /\ run'[w].at = "select"
  BY <1>1 DEF RunRow
<1>3. w \notin Eager(p)' /\ w \notin Eager(p)
  BY <1>1, <1>2, EagerIs DEF InHand
<1>4. Has(w, Eager(p)') = 0 /\ Has(w, Eager(p)) = 0
  BY <1>3 DEF Has
<1>5. /\ job[p] \in JobRow
      /\ job'[p] = IF Stuck(p) THEN [job[p] EXCEPT !.status = "SCHEDULED"] ELSE job[p]
      /\ abandoned'[p] = IF Stuck(p) THEN abandoned[p] + 1 ELSE abandoned[p]
  BY <1>1 DEF Sweep
<1>6. /\ job'[p].attempts = job[p].attempts
      /\ Waits(p)' + abandoned[p] <= Waits(p) + abandoned'[p]
      /\ Waits(p)' \in {0, 1} /\ Waits(p) \in {0, 1}
  <2>1. CASE Stuck(p)
    <3>1. job'[p].status = "SCHEDULED" /\ job'[p].attempts = job[p].attempts
          /\ job[p].status = "PUBLISHING" /\ abandoned'[p] = abandoned[p] + 1
      BY <1>5, <2>1 DEF Stuck, JobRow
    <3>2. Waits(p)' = 1 /\ Waits(p) = 0
      BY <3>1 DEF Waits
    <3> QED
      BY <1>1, <3>1, <3>2
  <2>2. CASE ~Stuck(p)
    <3>1. job'[p] = job[p] /\ abandoned'[p] = abandoned[p]
      BY <1>5, <2>2
    <3>2. Waits(p)' = Waits(p) /\ Waits(p) \in {0, 1}
      BY <3>1 DEF Waits
    <3> QED
      BY <1>1, <3>1, <3>2
  <2> QED
    BY <2>1, <2>2
<1>7. abandoned'[p] \in Nat
  BY <1>1, <1>5
<1>8. Has(w, Eager(p)') + Waits(p)' + abandoned[p]
        <= Has(w, Eager(p)) + Waits(p) + abandoned'[p]
  BY <1>1, <1>4, <1>6, <1>7
<1>9. raced'[p] = raced[p]
  BY <1>1
<1> QED
  BY <1>1, <1>2, <1>6, <1>8, <1>9, EagerMoves

\* A claim uses up a try.  If it is the last one, whoever else has the row in hand is
\* one of those that a "try again" over a row that had moved on let in.
LEMMA ClaimCounts ==
  ASSUME IInv, IInv', Tries, NEW w \in Workers, NEW p \in Posts, NEW q \in Posts,
         Claim(w, q), Claimable(q)
  PROVE  Counted(p)'
<1>1. /\ run \in [Workers -> RunRow] /\ job \in [Posts -> JobRow] /\ NoPost \notin Posts
      /\ UNCHANGED <<raced, abandoned, known>> /\ Counted(p)
      /\ abandoned[p] \in Nat /\ raced[p] \in Nat /\ MaxAttempts \in Nat /\ known[p] \in Nat
  BY NoOneAssumption, PublishingAssumption DEF IInv, PublishingTypeOK, RunRow, JobRow, Tries,
     Claim, ghosts
<1>2. /\ job[q].status = "SCHEDULED" /\ run[w].at = "batch"
      /\ job' = [job EXCEPT ![q].status = "PUBLISHING", ![q].attempts = @ + 1,
                            ![q].late = FALSE]
      /\ run' = [run EXCEPT ![w].batch = @ \ {q}, ![w].post = q, ![w].at = "read"]
  BY DEF Claim, Claimable
<1>3. /\ run'[w].post = q /\ run'[w].at = "read"
      /\ \A v \in Workers \ {w} : run'[v] = run[v]
      /\ \A r \in Posts \ {q} : job'[r] = job[r]
      /\ job'[q].status = "PUBLISHING" /\ job'[q].attempts = job[q].attempts + 1
      /\ job[q].attempts \in Nat
  BY <1>1, <1>2 DEF RunRow, JobRow
<1>4. w \notin Eager(p) /\ (p # q => w \notin Eager(p)')
  <2>1. ~InHand(w, p) /\ (p # q => ~InHand(w, p)')
    BY <1>2, <1>3 DEF InHand
  <2> QED
    BY <2>1, EagerIs
<1>5. CASE p # q
  <2>1. Waits(p)' = Waits(p) /\ Waits(p) \in {0, 1} /\ job'[p].attempts = job[p].attempts
    BY <1>3, <1>5 DEF Waits
  <2>2. Has(w, Eager(p)') = 0 /\ Has(w, Eager(p)) = 0
    BY <1>4, <1>5 DEF Has
  <2>3. Has(w, Eager(p)') + Waits(p)' + abandoned[p]
          <= Has(w, Eager(p)) + Waits(p) + abandoned'[p]
    BY <1>1, <2>1, <2>2
  <2>4. raced'[p] = raced[p]
    BY <1>1
  <2> QED
    BY <1>1, <1>3, <2>1, <2>3, <2>4, EagerMoves
<1>6. CASE p = q /\ job[p].attempts >= MaxAttempts
  <2>1. job'[p].attempts = job[p].attempts + 1 /\ job[p].attempts \in Nat
    BY <1>3, <1>6
  <2>2. \A v \in Workers : v \in Eager(p)' <=> v \in Eager(p)
    <3>1. w \notin Eager(p)'
      BY <1>1, <1>3, <1>6, <2>1, EagerIs
    <3>2. ASSUME NEW v \in Workers \ {w}
          PROVE  v \in Eager(p)' <=> v \in Eager(p)
      <4>1. run'[v] = run[v]
        BY <1>3
      <4>2. ~(job[p].attempts < MaxAttempts) /\ ~(job'[p].attempts < MaxAttempts)
        BY <1>1, <1>6, <2>1
      <4> QED
        BY <4>1, <4>2, EagerIs DEF InHand
    <3> QED
      BY <1>4, <3>1, <3>2
  <2>3. Eager(p)' = Eager(p)
    BY <2>2 DEF Eager
  <2>4. Waits(p) = 1 /\ Waits(p)' = 0
    BY <1>2, <1>3, <1>6 DEF Waits
  <2>5. Cardinality(Eager(p)) \in Nat
    BY EagerAreFinite
  <2> QED
    BY <1>1, <1>6, <2>1, <2>3, <2>4, <2>5 DEF Counted
<1>7. CASE p = q /\ job[p].attempts < MaxAttempts
  <2> SUFFICES ASSUME job'[p].attempts >= MaxAttempts
               PROVE  job'[p].attempts + Cardinality(Eager(p)') + Waits(p)'
                        <= MaxAttempts + abandoned'[p] + raced'[p]
    BY DEF Counted
  <2>1. job'[p].attempts = MaxAttempts
    BY <1>1, <1>3, <1>7
  <2>2. w \notin Eager(p)'
    BY <1>1, <1>3, <1>7, <2>1, EagerIs
  <2>3. w \in Pending(p)'
    BY <1>3, <1>7 DEF Pending
  <2>4. Eager(p)' \cup {w} \subseteq Pending(p)' \cup Takers(p)'
    BY <2>3 DEF Eager, InHand, Pending, Takers
  <2>5. /\ IsFiniteSet(Pending(p)') /\ IsFiniteSet(Takers(p)') /\ IsFiniteSet(Eager(p)')
    <3>1. Pending(p)' \subseteq Workers /\ Takers(p)' \subseteq Workers
          /\ Eager(p)' \subseteq Workers
      BY DEF Pending, Takers, Eager
    <3> QED
      BY <3>1, PublishingAssumption, FS_Subset
  <2> DEFINE both == Pending(p)' \cup Takers(p)'
  <2>6. /\ IsFiniteSet(both)
        /\ Cardinality(both) <= Cardinality(Pending(p)') + Cardinality(Takers(p)')
        /\ Cardinality(Pending(p)') \in Nat /\ Cardinality(Takers(p)') \in Nat
        /\ Cardinality(both) \in Nat /\ Cardinality(Eager(p)') \in Nat
    <3>1. /\ Cardinality(Pending(p)') \in Nat /\ Cardinality(Takers(p)') \in Nat
          /\ Cardinality(Eager(p)') \in Nat
      BY <2>5, FS_CardinalityType
    <3>2. /\ IsFiniteSet(both)
          /\ Cardinality(both) = Cardinality(Pending(p)') + Cardinality(Takers(p)')
                                   - Cardinality(Pending(p)' \cap Takers(p)')
      BY <2>5, FS_Union
    <3>3. Cardinality(both) \in Nat /\ Cardinality(Pending(p)' \cap Takers(p)') \in Nat
      BY <2>5, <3>2, FS_CardinalityType, FS_Intersection
    <3> QED
      BY <3>1, <3>2, <3>3
  <2>7. Cardinality(Eager(p)') + 1 <= Cardinality(both)
    <3>1. Cardinality(Eager(p)' \cup {w}) = Cardinality(Eager(p)') + 1
      BY <2>2, <2>5, FS_AddElement
    <3>2. Cardinality(Eager(p)' \cup {w}) <= Cardinality(both)
      BY <2>4, <2>6, FS_Subset
    <3> QED
      BY <3>1, <3>2
  <2>8. /\ known'[p] + Cardinality(Pending(p)') + Loose(p)' <= raced'[p] + 1
        /\ Cardinality(Takers(p)') <= known'[p]
    BY DEF IInv, OneGo, MissesAreKnown
  <2>9. Loose(p)' = 0
    <3>1. InHand(w, p)' /\ job'[p].status = "PUBLISHING"
      BY <1>3, <1>7 DEF InHand
    <3> QED
      BY <3>1 DEF Loose, Held
  <2>10. Waits(p)' = 0
    BY <1>3, <1>7 DEF Waits
  <2> HIDE DEF both
  <2>11. Cardinality(Eager(p)') <= raced[p]
    BY <1>1, <2>6, <2>7, <2>8, <2>9
  <2> QED
    BY <1>1, <2>1, <2>6, <2>10, <2>11
<1>8. job[p].attempts \in Nat
  BY <1>1 DEF JobRow
<1> QED
  BY <1>1, <1>5, <1>6, <1>7, <1>8

\* A post is tried MaxAttempts times, and once more for each time the row was handed
\* back as abandoned or a "try again" was written over it: passes that overlap, and
\* answers that come late, add no try of their own.
THEOREM TriesCorrect == ASSUME ~Slow PROVE Spec => []TriesAreCounted
<1>1. Init => Tries
  BY PublishingAssumption DEF Init, Tries, Counted
<1>2. ASSUME IInv, IInv', Tries, [Next]_vars PROVE Tries'
  <2> SUFFICES ASSUME NEW p \in Posts PROVE Counted(p)'
    BY DEF Tries
  <2>1. CASE UNCHANGED vars
    <3>1. Eager(p)' = Eager(p) /\ Waits(p)' = Waits(p)
      BY <2>1 DEF vars, Eager, Waits, InHand
    <3> QED
      BY <1>2, <2>1, <3>1 DEF Tries, Counted, vars
  <2>2. ASSUME NEW w \in Workers, Begin(w) \/ Pass(w) \/ Lapse(w) \/ Die(w)
        PROVE  Counted(p)'
    <3>1. CASE \E q \in Posts : Claim(w, q) /\ Claimable(q)
      BY <1>2, <3>1, ClaimCounts
    <3>2. CASE ~\E q \in Posts : Claim(w, q) /\ Claimable(q)
      BY <1>2, <2>2, <3>2, QuietCounts, EndCounts, SweepCounts DEF Pass
    <3> QED
      BY <3>1, <3>2
  <2> QED
    BY <1>2, <2>1, <2>2, RequestsCount, AccountsCount DEF Next
<1>3. ASSUME IInv, Tries PROVE TriesAreCounted
  <2> SUFFICES ASSUME NEW p \in Posts
               PROVE  job[p].attempts <= MaxAttempts + abandoned[p] + raced[p]
    BY DEF TriesAreCounted
  <2>1. /\ job[p].attempts \in Nat /\ abandoned[p] \in Nat /\ raced[p] \in Nat
        /\ MaxAttempts \in Nat
    BY <1>3, PublishingAssumption DEF IInv, PublishingTypeOK
  <2>2. Cardinality(Eager(p)) \in Nat /\ Waits(p) \in {0, 1}
    BY EagerAreFinite
  <2> QED
    BY <1>3, <2>1, <2>2 DEF Tries, Counted
<1>4. IInv /\ IInv' /\ Tries /\ [Next]_vars => Tries'
  BY <1>2
<1>5. IInv /\ Tries => TriesAreCounted
  BY <1>3
<1> QED
  BY <1>1, <1>4, <1>5, Invariance, PTL DEF Spec

=============================================================================
