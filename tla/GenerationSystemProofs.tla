----------------------- MODULE GenerationSystemProofs -----------------------
(***************************************************************************)
(* What holds of GenerationSystem for any set of rows and of workers, any   *)
(* prices, any number of attempts and any faults.                          *)
(*                                                                         *)
(* The money never depends on where the workers, the queue or the sweep     *)
(* are: every step of the system changes the table and the ledger in one    *)
(* of six ways (RowStep), and that alone decides PaidMatchesRow,            *)
(* TerminalIsFinal and the refinement of CreditHold.  Who works on a row    *)
(* does depend on where the runs are: every step moves at most one of them  *)
(* (RunsMove) and leaves the rows that are worked on alone (RowsSpared).    *)
(***************************************************************************)
EXTENDS GenerationSystem, FiniteSetTheorems, TLAPS

-----------------------------------------------------------------------------
(* The invariant.                                                          *)

\* What a run's fields mean where it is.
RunOK(run) ==
  /\ run.pc # "idle" => run.gen \in Gen
  /\ run.pc = "share" => Kind[run.gen] = "BATCH"
  /\ run.pc \in {"wakeStage", "wake"} => Kind[run.gen] = "CHILD"

WorkerInv == \A w \in Worker : RunOK(worker[w])

\* What a row's status says about its entries.
MoneyOK(row, e, g) ==
  /\ row.status = "ABSENT" => e.debit = 0 /\ e.refund = 0 /\ e.downgrade = 0
  /\ row.status \in {"QUEUED", "RUNNING"} =>
       e.debit = Price[g] /\ e.refund = 0 /\ e.downgrade = 0 /\ row.credits = Price[g]
  /\ row.status = "SUCCEEDED" =>
       e.debit = Price[g] /\ e.refund = 0 /\ row.credits = Price[g] - e.downgrade
  /\ row.status \in {"FAILED", "CANCELLED"} =>
       e.debit = Price[g] /\ e.refund = Price[g] /\ e.downgrade = 0
  /\ Kind[g] # "BATCH" => e.share = 0
  /\ e.downgrade <= Price[g]

MoneyInv == \A g \in Gen : MoneyOK(rows[g], ledger[g], g)

TableOK == rows \in [Gen -> Row] /\ ledger \in [Gen -> Entries]

\* Where the workers, the queue and the sweep are.
WorkersOK == worker \in [Worker -> Run] /\ WorkerInv

JobsOK == jobs \in [Queue -> [Gen -> JobState]]

ControlOK ==
  /\ JobsOK
  /\ redis \in BOOLEAN
  /\ WorkersOK
  /\ paused \subseteq Worker
  /\ reports \subseteq Gen
  /\ faults \in Nat
  /\ pauses \in Nat
  /\ swept \in [Gen -> {"no", "RUNNING", "QUEUED"}]

IInv == TableOK /\ MoneyInv /\ ControlOK

-----------------------------------------------------------------------------
(* The six ways a step changes the table and the ledger.                   *)

\* No row is created or ends; no credit moves.
Keeps ==
  /\ rows' \in [Gen -> Row]
  /\ ledger' = ledger
  /\ \A g \in Gen :
       /\ rows'[g].credits = rows[g].credits
       /\ \/ rows'[g].status = rows[g].status
          \/ rows[g].status \in {"QUEUED", "RUNNING"} /\ rows'[g].status \in {"QUEUED", "RUNNING"}

Creates(g) == ~Exists(g) /\ CreateRow(g)
Succeeds(g, d) ==
  /\ CanEnd(g) /\ SucceedRow(g, d)
  /\ \E w \in Worker : worker[w].pc = "succeed" /\ worker[w].gen = g
Fails(g) == CanEnd(g) /\ FailRow(g)
Cancels(g) == CanEnd(g) /\ CancelRow(g)
Shares(g, n) ==
  /\ Kind[g] = "BATCH" /\ ShareRow(g, n)
  /\ \E w \in Worker : worker[w].pc = "share" /\ worker[w].gen = g /\ worker[w].share = n

RowStep ==
  \/ Keeps
  \/ \E g \in Gen : Creates(g) \/ Fails(g) \/ Cancels(g)
  \/ \E g \in Gen : \E d \in {0, Premium[g]} : Succeeds(g, d)
  \/ \E g \in Gen : \E n \in Nat : Shares(g, n)

\* Posting an amount keeps an entry record well typed and touches one key only.
LEMMA PostType ==
  ASSUME NEW e \in Entries, NEW n \in Nat
  PROVE  /\ Post(e, "debit", n) \in Entries
         /\ Post(e, "refund", n) \in Entries
         /\ Post(e, "share", n) \in Entries
         /\ Post(e, "downgrade", n) \in Entries
  BY DEF Post, Entries

\* Posting to one key sets that key, if it was unused, and no other.
LEMMA PostValue ==
  ASSUME NEW e \in Entries, NEW n \in Nat
  PROVE  /\ Post(e, "debit", n).debit = (IF e.debit = 0 THEN n ELSE e.debit)
         /\ Post(e, "debit", n).refund = e.refund
         /\ Post(e, "debit", n).share = e.share
         /\ Post(e, "debit", n).downgrade = e.downgrade
         /\ Post(e, "refund", n).refund = (IF e.refund = 0 THEN n ELSE e.refund)
         /\ Post(e, "refund", n).debit = e.debit
         /\ Post(e, "refund", n).share = e.share
         /\ Post(e, "refund", n).downgrade = e.downgrade
         /\ Post(e, "downgrade", n).downgrade = (IF e.downgrade = 0 THEN n ELSE e.downgrade)
         /\ Post(e, "downgrade", n).debit = e.debit
         /\ Post(e, "downgrade", n).share = e.share
         /\ Post(e, "downgrade", n).refund = e.refund
         /\ Post(e, "share", n).debit = e.debit
         /\ Post(e, "share", n).refund = e.refund
         /\ Post(e, "share", n).downgrade = e.downgrade
  BY DEF Post, Entries

\* An amount posted to one row leaves every entry record well typed.
LEMMA LedgerType ==
  ASSUME ledger \in [Gen -> Entries], NEW g \in Gen, NEW n \in Nat,
         NEW key \in {"debit", "refund", "share", "downgrade"},
         ledger' = [ledger EXCEPT ![g] = Post(@, key, n)]
  PROVE  ledger' \in [Gen -> Entries]
<1> ledger[g] \in Entries
  OBVIOUS
<1> Post(ledger[g], key, n) \in Entries
  BY PostType
<1> QED
  OBVIOUS

\* A row that has not ended still carries the price of its request.
LEMMA ActivePrice ==
  ASSUME TableOK, MoneyInv, NEW g \in Gen, CanEnd(g)
  PROVE  /\ rows[g].status \in {"QUEUED", "RUNNING"}
         /\ rows[g].credits = Price[g]
         /\ Price[g] \in Nat
  BY GenAssumption DEF TableOK, MoneyInv, MoneyOK, CanEnd, Exists, Terminal, TERMINAL_STATUSES, Row, Statuses

\* Ending a row with credits in Nat leaves the table well typed.
LEMMA SucceedType ==
  ASSUME rows \in [Gen -> Row], NEW g \in Gen, NEW d \in Nat, rows[g].credits - d \in Nat,
         SucceedRow(g, d)
  PROVE  rows' \in [Gen -> Row]
<1> DEFINE row == [rows[g] EXCEPT !.status = "SUCCEEDED", !.stage = "done", !.credits = @ - d]
<1>1. row \in Row
  <2> rows[g] \in Row
    OBVIOUS
  <2> QED
    BY DEF Row, Statuses, Stages
<1>2. rows' = [rows EXCEPT ![g] = row]
  BY DEF SucceedRow
<1> HIDE DEF row
<1> QED
  BY <1>1, <1>2

\* What a premium leaves of the price.
LEMMA PremiumLeaves ==
  ASSUME NEW g \in Gen, NEW d \in {0, Premium[g]}
  PROVE  d \in Nat /\ d <= Price[g] /\ Price[g] - d \in Nat
  BY GenAssumption, PriceAssumption

\* A step keeps the table and the entries well typed.
LEMMA RowStepTypes ==
  ASSUME TableOK, MoneyInv, RowStep
  PROVE  TableOK'
<1> USE DEF TableOK
<1>1. CASE Keeps
  BY <1>1 DEF Keeps
<1>2. ASSUME NEW g \in Gen, Creates(g) PROVE TableOK'
  <2>1. rows' \in [Gen -> Row]
    BY <1>2, GenAssumption DEF Creates, CreateRow, NewRow, Row, Statuses, Stages
  <2>2. ledger' \in [Gen -> Entries]
    BY <1>2, GenAssumption, LedgerType DEF Creates, CreateRow
  <2> QED
    BY <2>1, <2>2
<1>3. ASSUME NEW g \in Gen, Fails(g) PROVE TableOK'
  <2>1. rows' \in [Gen -> Row]
    BY <1>3 DEF Fails, FailRow, Row, Statuses, Stages
  <2>2. ledger' \in [Gen -> Entries]
    BY <1>3, LedgerType, ActivePrice DEF Fails, FailRow
  <2> QED
    BY <2>1, <2>2
<1>4. ASSUME NEW g \in Gen, Cancels(g) PROVE TableOK'
  <2>1. rows' \in [Gen -> Row]
    BY <1>4 DEF Cancels, CancelRow, Row, Statuses, Stages
  <2>2. ledger' \in [Gen -> Entries]
    BY <1>4, LedgerType, ActivePrice DEF Cancels, CancelRow
  <2> QED
    BY <2>1, <2>2
<1>5. ASSUME NEW g \in Gen, NEW d \in {0, Premium[g]}, Succeeds(g, d) PROVE TableOK'
  <2>1. d \in Nat /\ rows[g].credits - d \in Nat
    BY <1>5, ActivePrice, PremiumLeaves DEF Succeeds
  <2>2. rows' \in [Gen -> Row]
    BY <1>5, <2>1, SucceedType DEF Succeeds
  <2>3. ledger' \in [Gen -> Entries]
    BY <1>5, <2>1, LedgerType DEF Succeeds, SucceedRow
  <2> QED
    BY <2>2, <2>3
<1>6. ASSUME NEW g \in Gen, NEW n \in Nat, Shares(g, n) PROVE TableOK'
  <2>1. (IF n < rows[g].credits THEN n ELSE rows[g].credits) \in Nat
    BY DEF Row
  <2>2. ledger' \in [Gen -> Entries]
    BY <1>6, <2>1, LedgerType DEF Shares, ShareRow
  <2> QED
    BY <1>6, <2>2 DEF Shares, ShareRow
<1> QED
  BY <1>1, <1>2, <1>3, <1>4, <1>5, <1>6 DEF RowStep

\* A step that touches one row keeps the money of every row if it keeps the money of that one.
LEMMA OneRowMoney ==
  ASSUME TableOK, MoneyInv, NEW g \in Gen,
         \A h \in Gen : h # g => rows'[h] = rows[h] /\ ledger'[h] = ledger[h],
         MoneyOK(rows'[g], ledger'[g], g)
  PROVE  MoneyInv'
  BY DEF MoneyInv, MoneyOK

\* A step keeps what a row's status says about its entries.
LEMMA RowStepMoney ==
  ASSUME TableOK, MoneyInv, RowStep
  PROVE  MoneyInv'
<1> USE DEF TableOK
<1>1. CASE Keeps
  <2> SUFFICES ASSUME NEW g \in Gen PROVE MoneyOK(rows'[g], ledger'[g], g)
    BY DEF MoneyInv, MoneyOK
  <2>1. MoneyOK(rows[g], ledger[g], g)
    BY DEF MoneyInv
  <2>2. /\ rows'[g].credits = rows[g].credits /\ ledger'[g] = ledger[g]
        /\ \/ rows'[g].status = rows[g].status
           \/ rows[g].status \in {"QUEUED", "RUNNING"} /\ rows'[g].status \in {"QUEUED", "RUNNING"}
    BY <1>1 DEF Keeps
  <2> QED
    BY <2>1, <2>2 DEF MoneyOK
<1>2. ASSUME NEW g \in Gen, Creates(g) PROVE MoneyInv'
  <2>1. /\ rows' = [rows EXCEPT ![g] = NewRow(g)]
        /\ ledger' = [ledger EXCEPT ![g] = Post(@, "debit", Price[g])]
        /\ rows[g].status = "ABSENT"
        /\ ledger[g] \in Entries
        /\ Price[g] \in Nat
    BY <1>2, GenAssumption DEF Creates, CreateRow, Exists
  <2>2. MoneyOK(rows[g], ledger[g], g)
    BY DEF MoneyInv
  <2>3. MoneyOK(NewRow(g), Post(ledger[g], "debit", Price[g]), g)
    BY <2>1, <2>2, PostValue DEF MoneyOK, NewRow
  <2> QED
    BY <2>1, <2>3, OneRowMoney
<1>3. ASSUME NEW g \in Gen, Fails(g) \/ Cancels(g) PROVE MoneyInv'
  <2>1. /\ rows[g].status \in {"QUEUED", "RUNNING"} /\ rows[g].credits = Price[g] /\ Price[g] \in Nat
        /\ ledger[g] \in Entries
    BY <1>3, ActivePrice DEF Fails, Cancels
  <2>2. /\ ledger' = [ledger EXCEPT ![g] = Post(@, "refund", Price[g])]
        /\ \A h \in Gen : h # g => rows'[h] = rows[h]
        /\ rows'[g].status \in {"FAILED", "CANCELLED"}
    BY <1>3, <2>1 DEF Fails, Cancels, FailRow, CancelRow, Row
  <2>3. MoneyOK(rows[g], ledger[g], g)
    BY DEF MoneyInv
  <2>4. MoneyOK(rows'[g], Post(ledger[g], "refund", Price[g]), g)
    BY <2>1, <2>2, <2>3, PostValue DEF MoneyOK
  <2> QED
    BY <2>2, <2>4, OneRowMoney
<1>4. ASSUME NEW g \in Gen, NEW d \in {0, Premium[g]}, Succeeds(g, d) PROVE MoneyInv'
  <2>1. /\ rows[g].status \in {"QUEUED", "RUNNING"} /\ rows[g].credits = Price[g] /\ Price[g] \in Nat
        /\ ledger[g] \in Entries
    BY <1>4, ActivePrice DEF Succeeds
  <2>2. d \in Nat /\ d <= Price[g]
    BY PremiumLeaves
  <2>3. /\ ledger' = [ledger EXCEPT ![g] = Post(@, "downgrade", d)]
        /\ \A h \in Gen : h # g => rows'[h] = rows[h]
        /\ rows'[g].status = "SUCCEEDED"
        /\ rows'[g].credits = Price[g] - d
    BY <1>4, <2>1 DEF Succeeds, SucceedRow, Row
  <2>4. MoneyOK(rows[g], ledger[g], g)
    BY DEF MoneyInv
  <2>5. MoneyOK(rows'[g], Post(ledger[g], "downgrade", d), g)
    BY <2>1, <2>2, <2>3, <2>4, PostValue DEF MoneyOK
  <2> QED
    BY <2>3, <2>5, OneRowMoney
<1>5. ASSUME NEW g \in Gen, NEW n \in Nat, Shares(g, n) PROVE MoneyInv'
  <2> DEFINE m == IF n < rows[g].credits THEN n ELSE rows[g].credits
  <2>1. m \in Nat /\ ledger[g] \in Entries
    BY DEF Row
  <2>2. /\ ledger' = [ledger EXCEPT ![g] = Post(@, "share", m)]
        /\ rows' = rows
        /\ Kind[g] = "BATCH"
    BY <1>5 DEF Shares, ShareRow
  <2> HIDE DEF m
  <2>3. MoneyOK(rows[g], ledger[g], g)
    BY DEF MoneyInv
  <2>4. MoneyOK(rows[g], Post(ledger[g], "share", m), g)
    BY <2>1, <2>2, <2>3, PostValue DEF MoneyOK
  <2> QED
    BY <2>2, <2>4, OneRowMoney
<1> QED
  BY <1>1, <1>2, <1>3, <1>4, <1>5 DEF RowStep

\* The entries of a row that is not a batch add up to what its status says it cost.
LEMMA EntriesAddUp ==
  ASSUME NEW g \in Gen, Kind[g] # "BATCH", NEW row, NEW e \in Entries, MoneyOK(row, e, g),
         NEW paid, paid = e.debit - e.refund - e.share - e.downgrade
  PROVE  /\ row.status = "ABSENT" => paid = 0
         /\ row.status \in {"QUEUED", "RUNNING"} => paid = Price[g] /\ row.credits = Price[g]
         /\ row.status = "SUCCEEDED" => paid = row.credits /\ paid \in 0..Price[g]
         /\ row.status \in {"FAILED", "CANCELLED"} => paid = 0
<1>0. Price[g] \in Nat
  BY GenAssumption
<1>1. e.debit \in Nat /\ e.refund \in Nat /\ e.downgrade \in Nat /\ e.share = 0
  BY DEF Entries, MoneyOK
<1>2. ASSUME row.status = "ABSENT" PROVE paid = 0
  BY <1>1, <1>2 DEF MoneyOK
<1>3. ASSUME row.status \in {"QUEUED", "RUNNING"} PROVE paid = Price[g] /\ row.credits = Price[g]
  <2>1. e.debit = Price[g] /\ e.refund = 0 /\ e.downgrade = 0 /\ row.credits = Price[g]
    BY <1>3 DEF MoneyOK
  <2> QED
    BY <1>0, <1>1, <2>1
<1>4. ASSUME row.status = "SUCCEEDED" PROVE paid = row.credits /\ paid \in 0..Price[g]
  <2>1. e.debit = Price[g] /\ e.refund = 0 /\ e.downgrade <= Price[g] /\ row.credits = Price[g] - e.downgrade
    BY <1>4 DEF MoneyOK
  <2> QED
    BY <1>0, <1>1, <2>1
<1>5. ASSUME row.status \in {"FAILED", "CANCELLED"} PROVE paid = 0
  <2>1. e.debit = e.refund /\ e.downgrade = 0
    BY <1>5 DEF MoneyOK
  <2> QED
    BY <1>1, <2>1
<1> QED
  BY <1>2, <1>3, <1>4, <1>5

\* The invariant gives what the runs check.
LEMMA MoneyGivesPaid ==
  ASSUME TableOK, MoneyInv
  PROVE  PaidMatchesRow
<1> SUFFICES ASSUME NEW g \in Gen, Kind[g] # "BATCH"
             PROVE  Paid(g) = CASE rows[g].status \in {"ABSENT", "FAILED", "CANCELLED"} -> 0
                                [] rows[g].status \in {"QUEUED", "RUNNING", "SUCCEEDED"} -> rows[g].credits
  BY DEF PaidMatchesRow
<1>1. rows[g].status \in Statuses /\ ledger[g] \in Entries /\ MoneyOK(rows[g], ledger[g], g)
  BY DEF TableOK, Row, MoneyInv
<1>2. /\ rows[g].status \in {"ABSENT", "FAILED", "CANCELLED"} => Paid(g) = 0
      /\ rows[g].status \in {"QUEUED", "RUNNING", "SUCCEEDED"} => Paid(g) = rows[g].credits
  BY <1>1, EntriesAddUp DEF Paid
<1> QED
  BY <1>1, <1>2 DEF Statuses

\* A step never changes the status of a row that ended.
LEMMA RowStepTerminal ==
  ASSUME TableOK, RowStep, NEW h \in Gen, Terminal(h)
  PROVE  rows'[h].status = rows[h].status
<1> USE DEF TableOK, Terminal, TERMINAL_STATUSES
<1>1. CASE Keeps
  BY <1>1 DEF Keeps
<1>2. ASSUME NEW g \in Gen, Creates(g) PROVE rows'[h].status = rows[h].status
  BY <1>2 DEF Creates, CreateRow, Exists
<1>3. ASSUME NEW g \in Gen, Fails(g) \/ Cancels(g) PROVE rows'[h].status = rows[h].status
  <2>1. g # h
    BY <1>3 DEF Fails, Cancels, CanEnd
  <2> QED
    BY <1>3, <2>1 DEF Fails, Cancels, FailRow, CancelRow
<1>4. ASSUME NEW g \in Gen, NEW d \in {0, Premium[g]}, Succeeds(g, d)
      PROVE  rows'[h].status = rows[h].status
  <2>1. g # h
    BY <1>4 DEF Succeeds, CanEnd
  <2> QED
    BY <1>4, <2>1 DEF Succeeds, SucceedRow
<1>5. ASSUME NEW g \in Gen, NEW n \in Nat, Shares(g, n) PROVE rows'[h].status = rows[h].status
  BY <1>5 DEF Shares, ShareRow
<1> QED
  BY <1>1, <1>2, <1>3, <1>4, <1>5 DEF RowStep

-----------------------------------------------------------------------------
(* The statements on the table that neither create nor end a row.          *)

\* A step that writes neither table keeps both.
LEMMA KeepsSame ==
  ASSUME TableOK, UNCHANGED rowVars
  PROVE  Keeps
  BY DEF TableOK, Keeps, rowVars

\* A table in which one row changed, in fields that are neither status nor credits.
LEMMA KeepsField ==
  ASSUME TableOK, UNCHANGED ledger, NEW g \in Gen, NEW row \in Row,
         row.credits = rows[g].credits,
         \/ row.status = rows[g].status
         \/ rows[g].status \in {"QUEUED", "RUNNING"} /\ row.status \in {"QUEUED", "RUNNING"},
         rows' = [rows EXCEPT ![g] = row]
  PROVE  Keeps
  BY DEF TableOK, Keeps

\* Typed values in the columns a statement writes leave a row well typed.
LEMMA RowFields ==
  ASSUME NEW r \in Row, NEW st \in Statuses, NEW sg \in Stages,
         NEW h \in {"null", "fresh", "stale"}, NEW n \in Nat
  PROVE  /\ [r EXCEPT !.status = st, !.hb = h, !.stage = sg] \in Row
         /\ [r EXCEPT !.stage = sg, !.hb = h, !.attempts = @ + n] \in Row
         /\ [r EXCEPT !.status = st, !.hb = h, !.attempts = @ + n] \in Row
<1>1. [r EXCEPT !.status = st, !.hb = h, !.stage = sg] \in Row
  BY DEF Row
<1>2. r.attempts + n \in Nat
  BY DEF Row
<1>3. [r EXCEPT !.stage = sg, !.hb = h, !.attempts = @ + n] \in Row
  BY <1>2 DEF Row
<1>4. [r EXCEPT !.status = st, !.hb = h, !.attempts = @ + n] \in Row
  BY <1>2 DEF Row
<1> QED
  BY <1>1, <1>3, <1>4

\* start() keeps the money: a QUEUED row becomes RUNNING.
LEMMA KeepsStart ==
  ASSUME TableOK, UNCHANGED ledger, NEW g \in Gen, CanStart(g), StartRow(g)
  PROVE  Keeps
<1> DEFINE row == [rows[g] EXCEPT !.status = "RUNNING", !.hb = "fresh", !.attempts = @ + 1]
<1>0. rows[g] \in Row
  BY DEF TableOK
<1>1. row \in Row
  BY <1>0, RowFields DEF Statuses, Stages
<1>3. row.credits = rows[g].credits /\ row.status = "RUNNING"
  BY <1>0 DEF Row
<1>2. rows' = [rows EXCEPT ![g] = row] /\ rows[g].status = "QUEUED"
  BY DEF StartRow, CanStart, TableOK
<1> HIDE DEF row
<1> QED
  BY <1>1, <1>2, <1>3, KeepsField

\* resume() keeps the money: a waiting parent is claimed for assembly.
LEMMA KeepsResume ==
  ASSUME TableOK, UNCHANGED ledger, NEW g \in Gen, ResumeRow(g)
  PROVE  Keeps
<1> DEFINE row == [rows[g] EXCEPT !.stage = "composing", !.hb = "fresh", !.attempts = @ + 1]
<1>0. rows[g] \in Row
  BY DEF TableOK
<1>1. row \in Row
  BY <1>0, RowFields DEF Statuses, Stages
<1>3. row.credits = rows[g].credits /\ row.status = rows[g].status
  BY <1>0 DEF Row
<1>2. rows' = [rows EXCEPT ![g] = row]
  BY DEF ResumeRow, TableOK
<1> HIDE DEF row
<1> QED
  BY <1>1, <1>2, <1>3, KeepsField

\* A hand-back keeps the money: a RUNNING row becomes QUEUED.
LEMMA KeepsRequeue ==
  ASSUME TableOK, UNCHANGED ledger, NEW g \in Gen, rows[g].status = "RUNNING", RequeueRow(g)
  PROVE  Keeps
<1> DEFINE row == [rows[g] EXCEPT !.status = "QUEUED", !.hb = "null", !.stage = "queued"]
<1>0. rows[g] \in Row
  BY DEF TableOK
<1>1. row \in Row
  BY <1>0, RowFields DEF Statuses, Stages
<1>3. row.credits = rows[g].credits /\ row.status = "QUEUED"
  BY <1>0 DEF Row
<1>2. rows' = [rows EXCEPT ![g] = row]
  BY DEF RequeueRow, TableOK
<1> HIDE DEF row
<1> QED
  BY <1>1, <1>2, <1>3, KeepsField

\* wait, the retry of an assembly, and a progress report's heartbeat.
LEMMA KeepsWaiting ==
  ASSUME TableOK, UNCHANGED ledger, NEW g \in Gen,
         rows' = [rows EXCEPT ![g].stage = "waiting", ![g].hb = "fresh"]
  PROVE  Keeps
<1> DEFINE row == [rows[g] EXCEPT !.stage = "waiting", !.hb = "fresh"]
<1>0. rows[g] \in Row
  BY DEF TableOK
<1>1. row \in Row
  BY <1>0 DEF Row, Statuses, Stages
<1>3. row.credits = rows[g].credits /\ row.status = rows[g].status
  BY <1>0 DEF Row
<1>2. rows' = [rows EXCEPT ![g] = row]
  BY DEF TableOK
<1> HIDE DEF row
<1> QED
  BY <1>1, <1>2, <1>3, KeepsField

\* Narrating a stage keeps the money.
LEMMA KeepsStage ==
  ASSUME TableOK, UNCHANGED ledger, NEW g \in Gen, NEW s \in Stages, SetStage(g, s)
  PROVE  Keeps
  BY DEF TableOK, Keeps, SetStage, Staged, Row

\* A heartbeat keeps the money.
LEMMA KeepsBeat ==
  ASSUME TableOK, UNCHANGED ledger, NEW S, Beat(S)
  PROVE  Keeps
<1> SUFFICES ASSUME NEW g \in Gen
             PROVE  /\ rows'[g] \in Row /\ rows'[g].credits = rows[g].credits
                    /\ rows'[g].status = rows[g].status
  BY DEF Keeps, Beat
<1> rows[g] \in Row
  BY DEF TableOK
<1> QED
  BY DEF Beat, Row

\* A heartbeat growing old keeps the money.
LEMMA KeepsStale ==
  ASSUME TableOK, UNCHANGED ledger, NEW g \in Gen, rows' = [rows EXCEPT ![g].hb = "stale"]
  PROVE  Keeps
<1>1. rows' \in [Gen -> Row]
  BY DEF TableOK, Row
<1> QED
  BY <1>1 DEF TableOK, Keeps

\* A row growing old keeps the money.
LEMMA KeepsOld ==
  ASSUME TableOK, UNCHANGED ledger, NEW g \in Gen, rows' = [rows EXCEPT ![g].old = TRUE]
  PROVE  Keeps
<1>1. rows' \in [Gen -> Row]
  BY DEF TableOK, Row
<1> QED
  BY <1>1 DEF TableOK, Keeps

\* The shot that createChild adds to the table owes nothing: no entry is needed.
LEMMA UpsertStep ==
  ASSUME TableOK, MoneyInv, NEW c \in Gen, Kind[c] = "CHILD", UpsertChild(c)
  PROVE  RowStep
<1>1. CASE Exists(c)
  BY <1>1, KeepsSame DEF UpsertChild, RowStep, rowVars
<1>2. CASE ~Exists(c)
  <2>1. Price[c] = 0 /\ ledger[c].debit = 0 /\ ledger[c] \in Entries
    BY <1>2, PriceAssumption DEF TableOK, MoneyInv, MoneyOK, Exists
  <2>2. Post(ledger[c], "debit", Price[c]) = ledger[c]
    BY <2>1 DEF Post, Entries
  <2>3. ledger' = [ledger EXCEPT ![c] = Post(@, "debit", Price[c])]
    BY <2>2 DEF UpsertChild, TableOK
  <2>4. Creates(c)
    BY <1>2, <2>3 DEF Creates, CreateRow, UpsertChild
  <2> QED
    BY <2>4 DEF RowStep
<1> QED
  BY <1>1, <1>2

-----------------------------------------------------------------------------
(* The queue and the workers, one statement at a time.                     *)

\* An add, taken or swallowed, keeps the queues well typed.
LEMMA EnqueueOK ==
  ASSUME JobsOK, NEW q \in Queue, NEW g \in Gen, Enqueue(q, g)
  PROVE  JobsOK'
  BY DEF JobsOK, Enqueue, JobState

\* A parent is resumed on one of its queues.
LEMMA ResumeQueueOK ==
  ASSUME NEW g \in Gen
  PROVE  ResumeQueue(g) \in Queue
  BY DEF ResumeQueue, Queue

\* A stalled job keeps the queues well typed.
LEMMA StallOK ==
  ASSUME JobsOK, NEW q, NEW g \in Gen, StallJob(q, g)
  PROVE  JobsOK'
  BY DEF JobsOK, StallJob, JobState

\* A completed job keeps the queues well typed.
LEMMA CompleteOK ==
  ASSUME JobsOK, NEW q, NEW g \in Gen, CompleteJob(q, g)
  PROVE  JobsOK'
  BY DEF JobsOK, CompleteJob, JobState

\* A free slot is well typed.
LEMMA IdleOK == Idle \in Run /\ RunOK(Idle)
<1>1. Idle \in Run
  BY DEF Idle, Run, Pcs
<1>2. RunOK(Idle)
  BY DEF Idle, RunOK
<1> QED
  BY <1>1, <1>2

\* One run moves to a state it may be in.
LEMMA OneRun ==
  ASSUME WorkersOK, NEW w \in Worker, NEW run \in Run, RunOK(run),
         worker' = [worker EXCEPT ![w] = run]
  PROVE  WorkersOK'
<1>1. worker' \in [Worker -> Run]
  BY DEF WorkersOK
<1>2. ASSUME NEW v \in Worker PROVE RunOK(worker'[v])
  BY DEF WorkersOK, WorkerInv, RunOK
<1> QED
  BY <1>1, <1>2 DEF WorkersOK, WorkerInv, RunOK

\* A run moves on.
LEMMA GotoOK ==
  ASSUME WorkersOK, NEW w \in Worker, worker[w].gen \in Gen,
         NEW pc \in Pcs \ {"share", "wakeStage", "wake"}, Goto(w, pc)
  PROVE  WorkersOK'
<1> DEFINE run == [worker[w] EXCEPT !.pc = pc]
<1>1. worker[w] \in Run
  BY DEF WorkersOK
<1>2. run \in Run
  BY <1>1 DEF Run
<1>3. RunOK(run)
  BY <1>1 DEF RunOK, Run
<1>4. worker' = [worker EXCEPT ![w] = run]
  BY DEF Goto, WorkersOK
<1> HIDE DEF run
<1> QED
  BY <1>2, <1>3, <1>4, OneRun

\* A run throws.
LEMMA ThrowOK ==
  ASSUME WorkersOK, NEW w \in Worker, worker[w].gen \in Gen,
         NEW k \in {"retry", "final"}, Throw(w, k)
  PROVE  WorkersOK'
<1> DEFINE run == [worker[w] EXCEPT !.pc = "failed", !.err = k]
<1>1. worker[w] \in Run
  BY DEF WorkersOK
<1>2. run \in Run
  <2> "failed" \in Pcs
    BY DEF Pcs
  <2> QED
    BY <1>1 DEF Run
<1>3. RunOK(run)
  BY <1>1 DEF RunOK, Run
<1>4. worker' = [worker EXCEPT ![w] = run]
  BY DEF Throw, WorkersOK
<1> HIDE DEF run
<1> QED
  BY <1>2, <1>3, <1>4, OneRun

\* A run returns.
LEMMA ReleaseOK ==
  ASSUME WorkersOK, JobsOK, NEW w \in Worker, worker[w].gen \in Gen, Release(w)
  PROVE  WorkersOK' /\ JobsOK'
  BY OneRun, IdleOK, CompleteOK DEF Release

\* Math.round of a share is a number of credits.
LEMMA ShareNat ==
  ASSUME NEW c \in Nat, NEW f \in Nat, NEW n \in Nat \ {0}
  PROVE  Share(c, f, n) \in Nat
<1>1. c * f \in Nat
  OBVIOUS
<1>2. ASSUME NEW a \in Nat, NEW b \in Nat \ {0} PROVE a \div b \in Nat
  BY <1>2
<1>3. 2 * c * f + n \in Nat /\ 2 * n \in Nat \ {0}
  BY <1>1
<1> QED
  BY <1>2, <1>3 DEF Share

-----------------------------------------------------------------------------
(* Every action is one of the six steps of the table and keeps the rest     *)
(* well formed.                                                            *)

\* The steps of a run up to the work itself.
LEMMA ClaimSteps ==
  ASSUME IInv, NEW w \in Worker, UNCHANGED swept,
         Start(w) \/ Resume(w) \/ Prepare(w) \/ Enter(w)
  PROVE  RowStep /\ ControlOK'
<1> DEFINE g == worker[w].gen
<1> USE DEF IInv
<1>0. g \in Gen /\ worker[w] \in Run /\ RunOK(worker[w])
  BY DEF ControlOK, WorkersOK, WorkerInv, RunOK, Start, Resume, Prepare, Enter, At
<1>1. CASE Start(w)
  <2>1. CASE CanStart(g)
    <3> DEFINE run == [worker[w] EXCEPT !.pc = "prepare", !.attempt = rows[g].attempts + 1,
                                        !.composing = (rows[g].stage = "composing")]
    <3>1. Keeps
      BY <1>0, <1>1, <2>1, KeepsStart DEF Start
    <3>2. rows[g].attempts + 1 \in Nat /\ "prepare" \in Pcs
      BY <1>0 DEF TableOK, Row, Pcs
    <3>3. run \in Run
      BY <1>0, <3>2 DEF Run
    <3>4. RunOK(run)
      BY <1>0 DEF RunOK, Run
    <3>5. worker' = [worker EXCEPT ![w] = run]
      BY <1>1, <2>1 DEF Start, ControlOK, WorkersOK
    <3> HIDE DEF run
    <3>6. WorkersOK'
      BY <3>3, <3>4, <3>5, OneRun DEF ControlOK
    <3> QED
      BY <1>1, <3>1, <3>6 DEF Start, ControlOK, JobsOK, queueVars, RowStep
  <2>2. CASE ~CanStart(g)
    <3>1. Keeps
      BY <1>1, <2>2, KeepsSame DEF Start, rowVars
    <3>2. WorkersOK'
      BY <1>0, <1>1, <2>2, GotoOK DEF Start, ControlOK, Pcs
    <3> QED
      BY <1>1, <3>1, <3>2 DEF Start, ControlOK, JobsOK, queueVars, RowStep
  <2> QED
    BY <2>1, <2>2
<1>2. CASE Resume(w)
  <2>1. CASE CanResume(g)
    <3> DEFINE run == [worker[w] EXCEPT !.pc = "prepare", !.attempt = rows[g].attempts + 1,
                                        !.composing = TRUE, !.resumed = TRUE]
    <3>1. Keeps
      BY <1>0, <1>2, <2>1, KeepsResume DEF Resume
    <3>2. rows[g].attempts + 1 \in Nat /\ "prepare" \in Pcs
      BY <1>0 DEF TableOK, Row, Pcs
    <3>3. run \in Run
      BY <1>0, <3>2 DEF Run
    <3>4. RunOK(run)
      BY <1>0 DEF RunOK, Run
    <3>5. worker' = [worker EXCEPT ![w] = run]
      BY <1>2, <2>1 DEF Resume, ControlOK, WorkersOK
    <3> HIDE DEF run
    <3>6. WorkersOK'
      BY <3>3, <3>4, <3>5, OneRun DEF ControlOK
    <3> QED
      BY <1>2, <2>1, <3>1, <3>6 DEF Resume, ControlOK, JobsOK, RowStep
  <2>2. CASE ~CanResume(g)
    <3>1. Keeps
      BY <1>2, <2>2, KeepsSame DEF Resume, rowVars
    <3>2. WorkersOK' /\ JobsOK'
      BY <1>0, <1>2, <2>2, ReleaseOK DEF Resume, ControlOK
    <3> QED
      BY <1>2, <3>1, <3>2 DEF Resume, ControlOK, RowStep
  <2> QED
    BY <2>1, <2>2
<1>3. CASE Prepare(w)
  <2>1. Keeps
    BY <1>0, <1>3, KeepsStage DEF Prepare, Stages
  <2>2. WorkersOK'
    BY <1>0, <1>3, GotoOK, ThrowOK DEF Prepare, ControlOK, Pcs
  <2> QED
    BY <1>3, <2>1, <2>2 DEF Prepare, ControlOK, JobsOK, queueVars, RowStep
<1>4. CASE Enter(w)
  <2>1. Keeps
    BY <1>0, <1>4, KeepsStage DEF Enter, Stages
  <2>2. WorkersOK'
    BY <1>0, <1>4, GotoOK DEF Enter, ControlOK, Pcs
  <2> QED
    BY <1>4, <2>1, <2>2 DEF Enter, ControlOK, JobsOK, queueVars, RowStep
<1> QED
  BY <1>1, <1>2, <1>3, <1>4

\* The work: the pipeline, the shots of a plan, the assembly.
LEMMA WorkSteps ==
  ASSUME IInv, NEW w \in Worker, UNCHANGED swept,
         Produce(w) \/ PipelineFails(w) \/ DispatchShot(w) \/ Wait(w) \/ StageWait(w) \/ AssembleAd(w)
  PROVE  RowStep /\ ControlOK'
<1> DEFINE g == worker[w].gen
<1> USE DEF IInv
<1>0. g \in Gen /\ worker[w] \in Run /\ RunOK(worker[w])
  BY DEF ControlOK, WorkersOK, WorkerInv, RunOK, Produce, PipelineFails, DispatchShot, Wait,
         StageWait, AssembleAd, At
<1>1. CASE Produce(w)
  <2>1. Keeps
    BY <1>1, KeepsSame DEF Produce
  <2>2. WorkersOK'
    BY <1>0, <1>1, GotoOK DEF Produce, ControlOK, Pcs
  <2> QED
    BY <1>1, <2>1, <2>2 DEF Produce, ControlOK, JobsOK, queueVars, RowStep
<1>2. CASE PipelineFails(w)
  <2>1. Keeps
    BY <1>2, KeepsSame DEF PipelineFails
  <2>2. WorkersOK'
    BY <1>0, <1>2, ThrowOK DEF PipelineFails, ControlOK
  <2> QED
    BY <1>2, <2>1, <2>2 DEF PipelineFails, ControlOK, JobsOK, queueVars, RowStep
<1>3. CASE DispatchShot(w)
  <2>1. PICK c \in Shots(g) :
          /\ UpsertChild(c)
          /\ IF ~Exists(c) \/ rows[c].status = "QUEUED" THEN Enqueue("own", c) ELSE UNCHANGED jobs
          /\ worker' = [worker EXCEPT ![w].made = @ \cup {c}]
    BY <1>3 DEF DispatchShot
  <2>2. c \in Gen /\ ParentOf[c] = g /\ None \notin Gen
    BY GenAssumption DEF Shots
  <2>3. Kind[c] = "CHILD"
    BY <1>0, <2>2, PriceAssumption
  <2>4. RowStep
    BY <2>1, <2>2, <2>3, UpsertStep
  <2>5. JobsOK'
    BY <2>1, <2>2, EnqueueOK DEF Queue, ControlOK, JobsOK
  <2> DEFINE run == [worker[w] EXCEPT !.made = @ \cup {c}]
  <2>6. run \in Run
    BY <1>0, <2>2 DEF Run
  <2>7. RunOK(run)
    BY <1>0 DEF RunOK, Run
  <2>8. worker' = [worker EXCEPT ![w] = run]
    BY <2>1 DEF ControlOK, WorkersOK
  <2> HIDE DEF run
  <2>9. WorkersOK'
    BY <2>6, <2>7, <2>8, OneRun DEF ControlOK
  <2> QED
    BY <1>3, <2>4, <2>5, <2>9 DEF DispatchShot, ControlOK
<1>4. CASE Wait(w)
  <2>1. Keeps
    BY <1>0, <1>4, KeepsWaiting, KeepsSame DEF Wait, WaitRow, rowVars
  <2>2. WorkersOK'
    BY <1>0, <1>4, GotoOK DEF Wait, ControlOK, Pcs
  <2> QED
    BY <1>4, <2>1, <2>2 DEF Wait, ControlOK, JobsOK, queueVars, RowStep
<1>5. CASE StageWait(w)
  <2>1. Keeps
    BY <1>0, <1>5, KeepsStage DEF StageWait, Stages
  <2>2. WorkersOK' /\ JobsOK'
    BY <1>0, <1>5, ReleaseOK DEF StageWait, ControlOK
  <2> QED
    BY <1>5, <2>1, <2>2 DEF StageWait, ControlOK, RowStep
<1>6. CASE AssembleAd(w)
  <2>1. Keeps
    BY <1>6, KeepsSame DEF AssembleAd
  <2>2. WorkersOK'
    <3>1. CASE ShotsComplete(g) /\ ShotsRendered(g)
      BY <1>0, <1>6, <3>1, GotoOK DEF AssembleAd, ControlOK, Pcs
    <3>2. CASE ~(ShotsComplete(g) /\ ShotsRendered(g))
      BY <1>0, <1>6, <3>2, ThrowOK DEF AssembleAd, ControlOK
    <3> QED
      BY <3>1, <3>2
  <2> QED
    BY <1>6, <2>1, <2>2 DEF AssembleAd, ControlOK, JobsOK, queueVars, RowStep
<1> QED
  BY <1>1, <1>2, <1>3, <1>4, <1>5, <1>6

\* The end of a batch's assembly.
LEMMA BatchSteps ==
  ASSUME IInv, NEW w \in Worker, UNCHANGED swept, GatherBatch(w) \/ RefundShare(w)
  PROVE  RowStep /\ ControlOK'
<1> DEFINE g == worker[w].gen
<1> USE DEF IInv
<1>0. g \in Gen /\ worker[w] \in Run /\ RunOK(worker[w])
  BY DEF ControlOK, WorkersOK, WorkerInv, RunOK, GatherBatch, RefundShare, At
<1>1. CASE GatherBatch(w)
  <2> DEFINE done == {c \in Children(g) : rows[c].status = "SUCCEEDED"}
             failed == Children(g) \ done
             n == Share(Price[g], Cardinality(failed), Cardinality(Children(g)))
             run == [worker[w] EXCEPT !.pc = "share", !.share = n]
  <2>1. Keeps
    BY <1>1, KeepsSame DEF GatherBatch
  <2>2. ASSUME done = {} /\ Throw(w, "retry") PROVE WorkersOK'
    BY <1>0, <2>2, ThrowOK DEF ControlOK
  <2>3. ASSUME Goto(w, "store") PROVE WorkersOK'
    BY <1>0, <2>3, GotoOK DEF ControlOK, Pcs
  <2>4. ASSUME done # {} /\ worker' = [worker EXCEPT ![w].pc = "share", ![w].share = n]
        PROVE  WorkersOK'
    <3>1. IsFiniteSet(Gen) /\ Price[g] \in Nat
      BY <1>0, GenAssumption
    <3>2. Children(g) \subseteq Gen /\ Children(g) # {} /\ failed \subseteq Gen
      BY <2>4 DEF Children, Shots
    <3>3. IsFiniteSet(Children(g)) /\ IsFiniteSet(failed)
      BY <3>1, <3>2, FS_Subset
    <3>4. Cardinality(Children(g)) \in Nat \ {0} /\ Cardinality(failed) \in Nat
      BY <3>2, <3>3, FS_CardinalityType, FS_EmptySet
    <3> HIDE DEF failed
    <3>5. n \in Nat
      BY <3>1, <3>4, ShareNat
    <3> HIDE DEF n
    <3>6. run \in Run
      <4> "share" \in Pcs
        BY DEF Pcs
      <4> QED
        BY <1>0, <3>5 DEF Run
    <3>7. RunOK(run)
      BY <1>0, <1>1 DEF RunOK, Run, GatherBatch
    <3>8. worker' = [worker EXCEPT ![w] = run]
      BY <2>4 DEF ControlOK, WorkersOK
    <3> HIDE DEF run
    <3> QED
      BY <3>6, <3>7, <3>8, OneRun DEF ControlOK
  <2>5. WorkersOK'
    BY <1>1, <2>2, <2>3, <2>4 DEF GatherBatch
  <2> QED
    BY <1>1, <2>1, <2>5 DEF GatherBatch, ControlOK, JobsOK, queueVars, RowStep
<1>2. CASE RefundShare(w)
  <2>1. Shares(g, worker[w].share) /\ worker[w].share \in Nat
    BY <1>0, <1>2 DEF RefundShare, At, RunOK, Shares, Run
  <2>2. WorkersOK'
    BY <1>0, <1>2, GotoOK DEF RefundShare, ControlOK, Pcs
  <2> QED
    BY <1>0, <1>2, <2>1, <2>2 DEF RefundShare, ControlOK, JobsOK, queueVars, RowStep
<1> QED
  BY <1>1, <1>2

\* How a run ends: stored and paid for, retried, or failed and refunded.
LEMMA EndSteps ==
  ASSUME IInv, NEW w \in Worker, UNCHANGED swept,
         Store(w) \/ Succeed(w) \/ Retry(w) \/ EnqueueRetry(w) \/ Fail(w)
  PROVE  RowStep /\ ControlOK'
<1> DEFINE g == worker[w].gen
<1> USE DEF IInv
<1>0. g \in Gen /\ worker[w] \in Run /\ RunOK(worker[w])
  BY DEF ControlOK, WorkersOK, WorkerInv, RunOK, Store, Succeed, Retry, EnqueueRetry, Fail, At
<1>1. CASE Store(w)
  <2>1. Keeps
    BY <1>0, <1>1, KeepsStage DEF Store, Stages
  <2>2. WorkersOK'
    BY <1>0, <1>1, GotoOK, ThrowOK DEF Store, ControlOK, Pcs
  <2>3. reports' \subseteq Gen
    <3>1. Kind[g] = "CHILD" => ParentOf[g] \in Gen
      BY <1>0, PriceAssumption
    <3> QED
      BY <1>1, <3>1 DEF Store, ControlOK
  <2>4. faults' \in Nat
    BY <1>1 DEF Store, ControlOK, Fault
  <2> QED
    BY <1>1, <2>1, <2>2, <2>3, <2>4 DEF Store, ControlOK, JobsOK, queueVars, RowStep
<1>2. CASE Succeed(w)
  <2>1. RowStep
    <3>1. CASE UNCHANGED rowVars
      BY <3>1, KeepsSame DEF RowStep
    <3>2. CASE CanEnd(g) /\ \E d \in {0, Premium[g]} : SucceedRow(g, d)
      BY <1>0, <1>2, <3>2 DEF RowStep, Succeeds, Succeed, At
    <3> QED
      BY <1>2, <3>1, <3>2 DEF Succeed
  <2>2. WorkersOK'
    BY <1>0, <1>2, GotoOK, ThrowOK DEF Succeed, ControlOK, Pcs
  <2>3. faults' \in Nat
    BY <1>2 DEF Succeed, ControlOK, Fault
  <2> QED
    BY <1>2, <2>1, <2>2, <2>3 DEF Succeed, ControlOK, JobsOK, queueVars
<1>3. CASE Retry(w)
  <2>1. Keeps
    <3>1. CASE CanRetryAssembly(g) /\ RetryAssemblyRow(g)
      BY <1>0, <1>3, <3>1, KeepsWaiting DEF Retry, RetryAssemblyRow
    <3>2. CASE CanRequeue(g) /\ RequeueRow(g)
      BY <1>0, <1>3, <3>2, KeepsRequeue DEF Retry, CanRequeue
    <3>3. CASE UNCHANGED rows
      BY <1>3, <3>3, KeepsSame DEF Retry, rowVars
    <3> QED
      BY <1>3, <3>1, <3>2, <3>3 DEF Retry
  <2>2. WorkersOK'
    BY <1>0, <1>3, GotoOK DEF Retry, ControlOK, Pcs
  <2> QED
    BY <1>3, <2>1, <2>2 DEF Retry, ControlOK, JobsOK, queueVars, RowStep
<1>4. CASE EnqueueRetry(w)
  <2>1. Keeps
    BY <1>4, KeepsSame DEF EnqueueRetry
  <2>2. WorkersOK'
    BY <1>0, <1>4, GotoOK DEF EnqueueRetry, ControlOK, Pcs
  <2>3. JobsOK'
    <3>1. PICK q \in Queue : Enqueue(q, g)
      BY <1>0, <1>4, ResumeQueueOK DEF EnqueueRetry, Queue
    <3> QED
      BY <1>0, <3>1, EnqueueOK DEF ControlOK
  <2> QED
    BY <1>4, <2>1, <2>2, <2>3 DEF EnqueueRetry, ControlOK, RowStep
<1>5. CASE Fail(w)
  <2>1. RowStep
    <3>1. CASE UNCHANGED rowVars
      BY <3>1, KeepsSame DEF RowStep
    <3>2. CASE CanEnd(g) /\ FailRow(g)
      BY <1>0, <3>2 DEF RowStep, Fails
    <3> QED
      BY <1>5, <3>1, <3>2 DEF Fail
  <2>2. WorkersOK'
    BY <1>0, <1>5, GotoOK DEF Fail, ControlOK, Pcs
  <2> QED
    BY <1>5, <2>1, <2>2 DEF Fail, ControlOK, JobsOK, queueVars
<1> QED
  BY <1>1, <1>2, <1>3, <1>4, <1>5

\* The finally block: a shot tells its parent, and the slot is free.
LEMMA FinallySteps ==
  ASSUME IInv, NEW w \in Worker, UNCHANGED swept,
         Finally(w) \/ WakeStage(w) \/ Wake(w) \/ Return(w)
  PROVE  RowStep /\ ControlOK'
<1> DEFINE g == worker[w].gen
           p == ParentOf[g]
<1> USE DEF IInv
<1>0. g \in Gen /\ worker[w] \in Run /\ RunOK(worker[w])
  BY DEF ControlOK, WorkersOK, WorkerInv, RunOK, Finally, WakeStage, Wake, Return, At
<1>1. CASE Finally(w)
  <2>1. Keeps
    BY <1>1, KeepsSame DEF Finally
  <2>2. WorkersOK' /\ JobsOK'
    <3>1. CASE Kind[g] = "CHILD"
      <4> DEFINE b == \A c \in Children(p) : Terminal(c)
                 run == [worker[w] EXCEPT !.pc = "wakeStage", !.allDone = b]
      <4>1. worker' = [worker EXCEPT ![w] = run] /\ jobs' = jobs
        BY <1>1, <3>1 DEF Finally, ControlOK, WorkersOK
      <4>2. b \in BOOLEAN /\ "wakeStage" \in Pcs
        BY DEF Pcs
      <4> HIDE DEF b
      <4>3. run \in Run
        BY <1>0, <4>2 DEF Run
      <4>4. RunOK(run)
        BY <1>0, <3>1 DEF RunOK, Run
      <4> HIDE DEF run
      <4> QED
        BY <4>1, <4>3, <4>4, OneRun DEF ControlOK, JobsOK
    <3>2. CASE Kind[g] # "CHILD"
      BY <1>0, <1>1, <3>2, ReleaseOK DEF Finally, ControlOK
    <3> QED
      BY <3>1, <3>2
  <2> QED
    BY <1>1, <2>1, <2>2 DEF Finally, ControlOK, RowStep
<1>2. CASE WakeStage(w)
  <2>0. Kind[g] = "CHILD" /\ p \in Gen
    BY <1>0, <1>2, PriceAssumption DEF RunOK, WakeStage, At
  <2>1. Keeps
    BY <1>2, <2>0, KeepsStage DEF WakeStage, Stages
  <2>2. WorkersOK' /\ JobsOK'
    <3>1. CASE Goto(w, "wake") /\ UNCHANGED jobs
      <4> DEFINE run == [worker[w] EXCEPT !.pc = "wake"]
      <4>1. worker' = [worker EXCEPT ![w] = run] /\ "wake" \in Pcs
        BY <3>1 DEF Goto, ControlOK, WorkersOK, Pcs
      <4>2. run \in Run
        BY <1>0, <4>1 DEF Run
      <4>3. RunOK(run)
        BY <1>0, <2>0 DEF RunOK, Run
      <4> HIDE DEF run
      <4> QED
        BY <3>1, <4>1, <4>2, <4>3, OneRun DEF ControlOK, JobsOK
    <3>2. CASE Release(w)
      BY <1>0, <3>2, ReleaseOK DEF ControlOK
    <3> QED
      BY <1>2, <3>1, <3>2 DEF WakeStage
  <2> QED
    BY <1>2, <2>1, <2>2 DEF WakeStage, ControlOK, RowStep
<1>3. CASE Wake(w)
  <2>0. Kind[g] = "CHILD" /\ p \in Gen
    BY <1>0, <1>3, PriceAssumption DEF RunOK, Wake, At
  <2>1. Keeps
    BY <1>3, KeepsSame DEF Wake
  <2>2. WorkersOK'
    BY <1>0, <1>3, GotoOK DEF Wake, ControlOK, Pcs
  <2>3. JobsOK'
    BY <1>3, <2>0, ResumeQueueOK, EnqueueOK DEF Wake, ControlOK, JobsOK
  <2> QED
    BY <1>3, <2>1, <2>2, <2>3 DEF Wake, ControlOK, RowStep
<1>4. CASE Return(w)
  <2>1. Keeps
    BY <1>4, KeepsSame DEF Return
  <2>2. WorkersOK' /\ JobsOK'
    BY <1>0, <1>4, ReleaseOK DEF Return, ControlOK
  <2> QED
    BY <1>4, <2>1, <2>2 DEF Return, ControlOK, RowStep
<1> QED
  BY <1>1, <1>2, <1>3, <1>4

\* Taking a job or a row, the heartbeat timer, and a shot's report.
LEMMA WorkerSteps ==
  ASSUME IInv, WorkerStep, UNCHANGED swept
  PROVE  RowStep /\ ControlOK'
<1> USE DEF IInv
<1>1. ASSUME NEW w \in Worker, NEW q \in Queue, NEW g \in Gen, Take(w, q, g)
      PROVE  RowStep /\ ControlOK'
  <2> DEFINE run == [Idle EXCEPT !.pc = "claim", !.gen = g, !.via = q]
  <2>1. run \in Run
    BY DEF Idle, Run, Pcs
  <2>2. RunOK(run)
    BY DEF Idle, RunOK
  <2>3. worker' = [worker EXCEPT ![w] = run]
    BY <1>1 DEF Take
  <2> HIDE DEF run
  <2>4. WorkersOK'
    BY <2>1, <2>2, <2>3, OneRun DEF ControlOK
  <2>5. JobsOK'
    BY <1>1 DEF Take, TakeJob, ControlOK, JobsOK, JobState
  <2>6. Keeps
    BY <1>1, KeepsSame DEF Take
  <2> QED
    BY <1>1, <2>4, <2>5, <2>6 DEF Take, ControlOK, RowStep
<1>2. ASSUME NEW w \in Worker, NEW g \in Gen, TakeDirect(w, g)
      PROVE  RowStep /\ ControlOK'
  <2> DEFINE run == [Idle EXCEPT !.pc = "claim", !.gen = g, !.via = "direct"]
  <2>1. run \in Run
    BY DEF Idle, Run, Pcs
  <2>2. RunOK(run)
    BY DEF Idle, RunOK
  <2>3. worker' = [worker EXCEPT ![w] = run]
    BY <1>2 DEF TakeDirect
  <2> HIDE DEF run
  <2>4. WorkersOK'
    BY <2>1, <2>2, <2>3, OneRun DEF ControlOK
  <2>5. Keeps
    BY <1>2, KeepsSame DEF TakeDirect
  <2> QED
    BY <1>2, <2>4, <2>5 DEF TakeDirect, ControlOK, JobsOK, queueVars, RowStep
<1>3. ASSUME NEW w \in Worker, RunStep(w) PROVE RowStep /\ ControlOK'
  BY <1>3, ClaimSteps, WorkSteps, BatchSteps, EndSteps, FinallySteps DEF RunStep
<1>4. ASSUME NEW w \in Worker, Heartbeat(w) PROVE RowStep /\ ControlOK'
  <2>1. Keeps
    BY <1>4, KeepsBeat DEF Heartbeat
  <2> QED
    BY <1>4, <2>1 DEF Heartbeat, ControlOK, WorkersOK, WorkerInv, JobsOK, queueVars, workerVars, RowStep
<1>5. ASSUME NEW p \in Gen, Report(p) PROVE RowStep /\ ControlOK'
  <2>1. Keeps
    <3> DEFINE h    == IF rows[p].status = "RUNNING" THEN "fresh" ELSE rows[p].hb
               mid  == [rows[p] EXCEPT !.hb = h]
               row  == IF mid.status \in {"QUEUED", "RUNNING"} THEN [mid EXCEPT !.stage = "waiting"] ELSE mid
    <3>1. rows[p] \in Row
      BY DEF TableOK
    <3>2. mid \in Row /\ mid.credits = rows[p].credits /\ mid.status = rows[p].status
      BY <3>1 DEF Row
    <3>3. rows' = [rows EXCEPT ![p] = row]
      BY <1>5 DEF Report, Staged, TableOK
    <3> HIDE DEF mid
    <3>4. row \in Row /\ row.credits = rows[p].credits /\ row.status = rows[p].status
      BY <3>2 DEF Row, Stages
    <3> HIDE DEF row
    <3> QED
      BY <1>5, <3>3, <3>4, KeepsField DEF Report
  <2> QED
    BY <1>5, <2>1 DEF Report, ControlOK, WorkersOK, WorkerInv, JobsOK, queueVars, RowStep
<1> QED
  BY <1>1, <1>2, <1>3, <1>4, <1>5 DEF WorkerStep

\* The API.
LEMMA ApiSteps ==
  ASSUME IInv, NEW g \in Gen, Api(g)
  PROVE  RowStep /\ ControlOK'
<1> USE DEF IInv
<1>1. CASE Request(g)
  <2>1. RowStep
    BY <1>1 DEF Request, Creates, RowStep
  <2>2. JobsOK'
    BY <1>1, EnqueueOK DEF Request, Queue, ControlOK
  <2> QED
    BY <1>1, <2>1, <2>2 DEF Request, ControlOK, WorkersOK, WorkerInv, workerVars
<1>2. CASE Cancel(g)
  <2>1. RowStep
    BY <1>2 DEF Cancel, CanCancel, CanEnd, Exists, Terminal, TERMINAL_STATUSES, Cancels, RowStep
  <2> QED
    BY <1>2, <2>1 DEF Cancel, ControlOK, JobsOK, WorkersOK, WorkerInv, workerVars, queueVars
<1> QED
  BY <1>1, <1>2 DEF Api

\* The sweep and the dispatcher.
LEMMA SchedulerSteps ==
  ASSUME IInv, SweepSelect \/ \E g \in Gen : Sweep(g) \/ Dispatch(g)
  PROVE  RowStep /\ ControlOK'
<1> USE DEF IInv
<1>1. CASE SweepSelect
  <2>1. Keeps
    BY <1>1, KeepsSame DEF SweepSelect
  <2> QED
    BY <1>1, <2>1 DEF SweepSelect, ControlOK, JobsOK, WorkersOK, WorkerInv, workerVars, queueVars, RowStep
<1>2. ASSUME NEW g \in Gen, SweepRequeue(g) PROVE RowStep /\ ControlOK'
  <2>1. Keeps
    BY <1>2, KeepsRequeue DEF SweepRequeue, StaleGuard
  <2>2. JobsOK'
    BY <1>2, EnqueueOK DEF SweepRequeue, Queue, ControlOK
  <2> QED
    BY <1>2, <2>1, <2>2 DEF SweepRequeue, Swept, ControlOK, WorkersOK, WorkerInv, workerVars, RowStep
<1>3. ASSUME NEW g \in Gen, SweepReassemble(g) PROVE RowStep /\ ControlOK'
  <2>1. Keeps
    BY <1>3, KeepsWaiting DEF SweepReassemble, RetryAssemblyRow
  <2>2. JobsOK'
    BY <1>3, ResumeQueueOK, EnqueueOK DEF SweepReassemble, ControlOK
  <2> QED
    BY <1>3, <2>1, <2>2 DEF SweepReassemble, Swept, ControlOK, WorkersOK, WorkerInv, workerVars, RowStep
<1>4. ASSUME NEW g \in Gen, SweepFail(g) PROVE RowStep /\ ControlOK'
  <2>1. rows[g].status \in {"QUEUED", "RUNNING"}
    BY <1>4 DEF SweepFail, StaleGuard
  <2>2. Fails(g)
    BY <1>4, <2>1 DEF SweepFail, Fails, CanEnd, Exists, Terminal, TERMINAL_STATUSES
  <2> QED
    BY <1>4, <2>2 DEF SweepFail, Swept, ControlOK, JobsOK, WorkersOK, WorkerInv, workerVars,
                      queueVars, RowStep
<1>5. ASSUME NEW g \in Gen, SweepSkip(g) PROVE RowStep /\ ControlOK'
  <2>1. Keeps
    BY <1>5, KeepsSame DEF SweepSkip
  <2> QED
    BY <1>5, <2>1 DEF SweepSkip, Swept, ControlOK, JobsOK, WorkersOK, WorkerInv, workerVars,
                      queueVars, RowStep
<1>6. ASSUME NEW g \in Gen, Dispatch(g) PROVE RowStep /\ ControlOK'
  <2>1. Keeps
    BY <1>6, KeepsSame DEF Dispatch, RedispatchOrphan, WakeReadyParent
  <2>2. JobsOK'
    BY <1>6, EnqueueOK, ResumeQueueOK DEF Dispatch, RedispatchOrphan, WakeReadyParent, Queue, ControlOK
  <2> QED
    BY <1>6, <2>1, <2>2 DEF Dispatch, RedispatchOrphan, WakeReadyParent, ControlOK, WorkersOK,
                            WorkerInv, workerVars, RowStep
<1> QED
  BY <1>1, <1>2, <1>3, <1>4, <1>5, <1>6 DEF Sweep

\* Time, crashes, pauses and the state of Redis.
LEMMA EnvironmentSteps ==
  ASSUME IInv, Environment
  PROVE  RowStep /\ ControlOK'
<1> USE DEF IInv
<1>1. ASSUME NEW g \in Gen, Lapse(g) \/ Age(g) PROVE RowStep /\ ControlOK'
  <2>1. Keeps
    BY <1>1, KeepsStale, KeepsOld DEF Lapse, Age
  <2> QED
    BY <1>1, <2>1 DEF Lapse, Age, ControlOK, JobsOK, WorkersOK, WorkerInv, workerVars, queueVars, RowStep
<1>2. ASSUME NEW w \in Worker, Crash(w), UNCHANGED swept PROVE RowStep /\ ControlOK'
  <2>1. Keeps
    BY <1>2, KeepsSame DEF Crash
  <2>2. WorkersOK'
    BY <1>2, IdleOK, OneRun DEF Crash, ControlOK
  <2>3. worker[w].gen \in Gen
    BY <1>2 DEF Crash, ControlOK, WorkersOK, WorkerInv, RunOK
  <2>4. JobsOK'
    BY <1>2, <2>3, StallOK DEF Crash, ControlOK
  <2> QED
    BY <1>2, <2>1, <2>2, <2>4 DEF Crash, Fault, ControlOK, RowStep
<1>3. ASSUME NEW w \in Worker, Pause(w), UNCHANGED swept PROVE RowStep /\ ControlOK'
  <2>1. Keeps
    BY <1>3, KeepsSame DEF Pause
  <2> DEFINE run == [worker[w] EXCEPT !.via = "direct"]
  <2>2. worker[w] \in Run /\ RunOK(worker[w])
    BY DEF ControlOK, WorkersOK, WorkerInv
  <2>3. run \in Run
    BY <2>2 DEF Run
  <2>4. RunOK(run)
    BY <2>2 DEF RunOK, Run
  <2>5. worker' = [worker EXCEPT ![w] = run]
    BY <1>3 DEF Pause, ControlOK, WorkersOK
  <2> HIDE DEF run
  <2>6. WorkersOK'
    BY <2>3, <2>4, <2>5, OneRun DEF ControlOK
  <2>7. worker[w].gen \in Gen
    BY <1>3, <2>2 DEF Pause, RunOK
  <2>8. JobsOK'
    BY <1>3, <2>7, StallOK DEF Pause, ControlOK
  <2> QED
    BY <1>3, <2>1, <2>6, <2>8 DEF Pause, Fault, ControlOK, RowStep
<1>4. ASSUME NEW w \in Worker, Unpause(w), UNCHANGED swept PROVE RowStep /\ ControlOK'
  <2>1. Keeps
    BY <1>4, KeepsSame DEF Unpause
  <2> QED
    BY <1>4, <2>1 DEF Unpause, ControlOK, JobsOK, WorkersOK, WorkerInv, queueVars, RowStep
<1>5. ASSUME SweepDies PROVE RowStep /\ ControlOK'
  <2>1. Keeps
    BY <1>5, KeepsSame DEF SweepDies
  <2> QED
    BY <1>5, <2>1 DEF SweepDies, Fault, ControlOK, JobsOK, WorkersOK, WorkerInv, queueVars, RowStep
<1>6. ASSUME RedisDown \/ RedisUp PROVE RowStep /\ ControlOK'
  <2>1. Keeps
    BY <1>6, KeepsSame DEF RedisDown, RedisUp
  <2>2. redis' \in BOOLEAN
    BY <1>6 DEF RedisDown, RedisUp
  <2>4. faults' \in Nat /\ pauses' \in Nat
    BY <1>6 DEF RedisDown, RedisUp, Fault, workerVars, ControlOK
  <2>3. UNCHANGED <<jobs, worker, paused, reports, swept>>
    BY <1>6 DEF RedisDown, RedisUp, workerVars
  <2> QED
    BY <2>1, <2>2, <2>3, <2>4 DEF ControlOK, JobsOK, WorkersOK, WorkerInv, RowStep
<1>7. ASSUME NEW q \in Queue, NEW g \in Gen, LoseJob(q, g) PROVE RowStep /\ ControlOK'
  <2>1. Keeps
    BY <1>7, KeepsSame DEF LoseJob
  <2>2. JobsOK'
    BY <1>7 DEF LoseJob, ControlOK, JobsOK, JobState
  <2> QED
    BY <1>7, <2>1, <2>2 DEF LoseJob, Fault, ControlOK, WorkersOK, WorkerInv, RowStep
<1> QED
  BY <1>1, <1>2, <1>3, <1>4, <1>5, <1>6, <1>7 DEF Environment

\* Every step of the system is one of the six steps of the table.
LEMMA SystemStep ==
  ASSUME IInv, [Next]_vars
  PROVE  RowStep /\ ControlOK'
<1>1. CASE Next
  BY <1>1, ApiSteps, WorkerSteps, SchedulerSteps, EnvironmentSteps DEF Next
<1>2. CASE UNCHANGED vars
  <2>1. Keeps
    BY <1>2, KeepsSame DEF IInv, vars, rowVars
  <2> QED
    BY <1>2, <2>1 DEF IInv, vars, ControlOK, JobsOK, WorkersOK, WorkerInv, RowStep
<1> QED
  BY <1>1, <1>2

-----------------------------------------------------------------------------
(* The invariant is inductive.                                             *)

\* The empty table satisfies the invariant.
LEMMA InitIInv == Init => IInv
<1> SUFFICES ASSUME Init PROVE IInv
  OBVIOUS
<1>1. rows \in [Gen -> Row] /\ \A g \in Gen : rows[g].status = "ABSENT"
  <2> SUFFICES ASSUME NEW g \in Gen
               PROVE  [NewRow(g) EXCEPT !.status = "ABSENT"] \in Row
    BY DEF Init, RowsInit, NewRow
  <2> Price[g] \in Nat
    BY GenAssumption
  <2> QED
    BY DEF NewRow, Row, Statuses, Stages
<1>2. ledger \in [Gen -> Entries]
  BY DEF Init, RowsInit, Entries
<1>3. MoneyInv
  BY <1>1, GenAssumption DEF Init, RowsInit, MoneyInv, MoneyOK
<1>4. WorkersOK
  BY IdleOK DEF Init, WorkerInit, WorkersOK, WorkerInv
<1>5. JobsOK
  BY DEF Init, QueueInit, JobsOK, JobState
<1>6. ControlOK
  BY <1>4, <1>5 DEF Init, QueueInit, WorkerInit, SchedulerInit, ControlOK
<1> QED
  BY <1>1, <1>2, <1>3, <1>6 DEF IInv, TableOK

\* Every step preserves the invariant.
LEMMA NextIInv == IInv /\ [Next]_vars => IInv'
<1> SUFFICES ASSUME IInv, [Next]_vars PROVE IInv'
  OBVIOUS
<1>1. RowStep /\ ControlOK'
  BY SystemStep
<1>2. TableOK' /\ MoneyInv'
  BY <1>1, RowStepTypes, RowStepMoney DEF IInv
<1> QED
  BY <1>1, <1>2 DEF IInv

\* The invariant holds of every execution: types, where the runs are, and what each status owes.
THEOREM Invariance == Spec => []IInv
  BY InitIInv, NextIInv, PTL DEF Spec

-----------------------------------------------------------------------------
(* What follows for every execution.                                       *)

\* Every variable of the system keeps its type, for any rows, workers, prices and faults.
THEOREM TypeCorrect == Spec => []TypeOK
<1>1. IInv => TypeOK
  BY DEF IInv, TableOK, ControlOK, JobsOK, WorkersOK, TypeOK
<1> QED
  BY <1>1, Invariance, PTL

\* What the wallet paid for a standalone row, a shot or an ad is always what the row's status
\* says it costs, whoever raced for the row and however often.
THEOREM MoneyCorrect == Spec => []PaidMatchesRow
<1>1. IInv => PaidMatchesRow
  BY MoneyGivesPaid DEF IInv
<1> QED
  BY <1>1, Invariance, PTL

\* A row that ended never changes its status again.
THEOREM EndsAreFinal == Spec => TerminalIsFinal
<1>1. IInv /\ [Next]_vars => [\A g \in Gen : Terminal(g) => rows'[g].status = rows[g].status]_vars
  BY SystemStep, RowStepTerminal DEF IInv
<1> QED
  BY <1>1, Invariance, PTL DEF Spec, TerminalIsFinal

-----------------------------------------------------------------------------
(* The arithmetic of a share.                                              *)

\* Multiplying both sides keeps an order, and can be undone.
LEMMA TimesOrder ==
  ASSUME NEW a \in Nat, NEW b \in Nat, NEW m \in Nat \ {0}
  PROVE  a <= b <=> a * m <= b * m
  OBVIOUS

\* What a quotient is.
LEMMA DivBounds ==
  ASSUME NEW a \in Nat, NEW b \in Nat \ {0}
  PROVE  a \div b \in Nat /\ (a \div b) * b <= a /\ a < (a \div b + 1) * b
  OBVIOUS

\* A larger fraction has a larger quotient.
LEMMA DivMonotone ==
  ASSUME NEW a \in Nat, NEW b \in Nat \ {0}, NEW c \in Nat, NEW d \in Nat \ {0}, a * d <= c * b
  PROVE  a \div b <= c \div d
<1> DEFINE p == a \div b
           q == c \div d
<1>1. p \in Nat /\ p * b <= a /\ q \in Nat /\ c < (q + 1) * d
  BY DivBounds
<1> HIDE DEF p, q
<1> SUFFICES ASSUME q + 1 <= p PROVE FALSE
  BY <1>1 DEF p, q
<1>2. (q + 1) * d <= p * d
  BY <1>1, TimesOrder
<1>3. c < p * d
  BY <1>1, <1>2
<1>4. c + 1 <= p * d /\ p * d \in Nat
  BY <1>1, <1>3
<1>5. (c + 1) * b <= (p * d) * b
  BY <1>4, TimesOrder
<1>6. (p * b) * d <= a * d
  <2> p * b \in Nat
    BY <1>1
  <2> QED
    BY <1>1, TimesOrder
<1>7. (p * d) * b = (p * b) * d
  BY <1>1
<1>8. (c + 1) * b = c * b + b
  OBVIOUS
<1> QED
  <2>1. a * d \in Nat /\ c * b \in Nat /\ (p * b) * d \in Nat
    BY <1>1
  <2> QED
    BY <1>5, <1>6, <1>7, <1>8, <2>1

\* Of n photos, or of the k that were made, at least one worked: the share is at most what
\* comes back when one of the n did.
LEMMA ShareBound ==
  ASSUME NEW c \in Nat, NEW n \in Nat, NEW k \in 1..n, NEW f \in 0..(k - 1)
  PROVE  Share(c, f, k) <= Share(c, n - 1, n)
<1>1. f * n <= (n - 1) * k
  <2>1. f * n <= (k - 1) * n
    BY TimesOrder
  <2>2. (k - 1) * n = k * n - n /\ (n - 1) * k = k * n - k
    OBVIOUS
  <2> QED
    BY <2>1, <2>2
<1> DEFINE x == f * n
           y == (n - 1) * k
<1>2. x \in Nat /\ y \in Nat /\ c * x <= c * y
  <2>1. x \in Nat /\ y \in Nat
    OBVIOUS
  <2>2. CASE c = 0
    BY <2>1, <2>2
  <2>3. CASE c # 0
    BY <1>1, <2>1, <2>3, TimesOrder
  <2> QED
    BY <2>2, <2>3
<1>3. (2 * c * f + k) * (2 * n) = 4 * (c * x) + 2 * (k * n)
  OBVIOUS
<1>4. (2 * c * (n - 1) + n) * (2 * k) = 4 * (c * y) + 2 * (k * n)
  OBVIOUS
<1>5. 2 * c * f + k \in Nat /\ 2 * k \in Nat \ {0} /\ 2 * c * (n - 1) + n \in Nat /\ 2 * n \in Nat \ {0}
  OBVIOUS
<1>6. (2 * c * f + k) * (2 * n) <= (2 * c * (n - 1) + n) * (2 * k)
  <2> c * x \in Nat /\ c * y \in Nat /\ k * n \in Nat
    BY <1>2
  <2> HIDE DEF x, y
  <2> QED
    BY <1>2, <1>3, <1>4
<1> QED
  BY <1>5, <1>6, DivMonotone DEF Share

-----------------------------------------------------------------------------
(* How a step moves the runs: at most one of them, which keeps its row; it  *)
(* comes to own the row by claiming it, and to have work to store by        *)
(* producing it or by finding every shot rendered.                         *)

\* The steps of a run between its claim and the moment it ends the row or hands it back.
Owning == Working \cup {"failed"}

Owns(w, g) == worker[w].pc \in Owning /\ worker[w].gen = g /\ ~IsParent(g)

\* start()'s conditional update: the row was QUEUED, and is RUNNING and heard from.
Claims(g) ==
  /\ rows[g].status = "QUEUED"
  /\ rows'[g].status = "RUNNING" /\ rows'[g].hb = "fresh"

\* What an ad must have before its run stores it.
Rendered(g) == Kind[g] = "AD" => \A c \in Shots(g) : rows[c].status = "SUCCEEDED"

\* The most that a batch of which one photo worked can give back.
MostShare(g) == LET n == Cardinality(Shots(g)) IN Share(Price[g], n - 1, n)

\* The run of w becomes run.
Moves(w, run) ==
  /\ run.pc \in Owning =>
       /\ run.gen = worker[w].gen
       /\ worker[w].pc \in Owning \/ IsParent(run.gen) \/ Claims(run.gen)
  /\ run.pc \in {"store", "succeed"} =>
       worker[w].pc \in {"store", "succeed"} \/ Rendered(run.gen)
  /\ run.pc = "share" =>
       run.share <= MostShare(run.gen) \/ (worker[w].pc = "share" /\ run.share = worker[w].share)

RunsMove ==
  \/ worker' = worker
  \/ \E w \in Worker : \E run \in Run : worker' = [worker EXCEPT ![w] = run] /\ Moves(w, run)

\* A RUNNING row that was heard from stays so, unless its run has just let it go, or nobody works on it.
Spared(g) ==
  rows[g].status = "RUNNING" /\ rows[g].hb = "fresh" => rows'[g].status = "RUNNING" /\ rows'[g].hb = "fresh"

LetGo(g) == \E w \in Worker : Owns(w, g) /\ worker'[w].pc \notin Owning

RowsSpared ==
  \A g \in Gen : IsParent(g) \/ Spared(g) \/ LetGo(g) \/ \A w \in Worker : ~Owns(w, g)

\* A run that goes on owns nothing it did not own.
LEMMA GotoMoves ==
  ASSUME WorkersOK, NEW w \in Worker, NEW pc \in Pcs \ {"share"}, Goto(w, pc),
         pc \in Owning => worker[w].pc \in Owning,
         pc \in {"store", "succeed"} => worker[w].pc \in {"store", "succeed"} \/ Rendered(worker[w].gen)
  PROVE  RunsMove
<1> DEFINE run == [worker[w] EXCEPT !.pc = pc]
<1>1. worker[w] \in Run
  BY DEF WorkersOK
<1>2. run \in Run /\ run.pc = pc /\ run.gen = worker[w].gen
  BY <1>1 DEF Run
<1>3. worker' = [worker EXCEPT ![w] = run]
  BY DEF Goto, WorkersOK
<1> HIDE DEF run
<1>4. Moves(w, run)
  BY <1>2 DEF Moves
<1> QED
  BY <1>2, <1>3, <1>4 DEF RunsMove

\* A run that throws keeps its row.
LEMMA ThrowMoves ==
  ASSUME WorkersOK, NEW w \in Worker, NEW k \in {"retry", "final"}, Throw(w, k),
         worker[w].pc \in Owning
  PROVE  RunsMove
<1> DEFINE run == [worker[w] EXCEPT !.pc = "failed", !.err = k]
<1>1. worker[w] \in Run
  BY DEF WorkersOK
<1>2. run \in Run /\ run.pc = "failed" /\ run.gen = worker[w].gen
  <2> "failed" \in Pcs
    BY DEF Pcs
  <2> QED
    BY <1>1 DEF Run
<1>3. worker' = [worker EXCEPT ![w] = run]
  BY DEF Throw, WorkersOK
<1> HIDE DEF run
<1>4. Moves(w, run)
  BY <1>2 DEF Moves
<1> QED
  BY <1>2, <1>3, <1>4 DEF RunsMove

\* A run that leaves, or a slot that picks up a job, owns nothing.
LEMMA OtherMoves ==
  ASSUME WorkersOK, NEW w \in Worker, NEW run \in Run, run.pc \notin Owning,
         worker' = [worker EXCEPT ![w] = run]
  PROVE  RunsMove
  BY DEF RunsMove, Moves, Owning, Working

\* A slot that is free owns nothing.
LEMMA ReleaseMoves ==
  ASSUME WorkersOK, NEW w \in Worker, Release(w)
  PROVE  RunsMove
<1>1. Idle \in Run /\ Idle.pc \notin Owning
  BY IdleOK DEF Idle, Owning, Working
<1> QED
  BY <1>1, OtherMoves DEF Release

\* Narrating a stage spares every row.
LEMMA StageSpares ==
  ASSUME TableOK, NEW g \in Gen, NEW s \in Stages, SetStage(g, s)
  PROVE  \A h \in Gen : Spared(h)
<1>1. ASSUME NEW h \in Gen PROVE rows'[h].status = rows[h].status /\ rows'[h].hb = rows[h].hb
  BY DEF SetStage, Staged, TableOK, Row
<1> QED
  BY <1>1 DEF Spared

\* A step that writes no row spares them all.
LEMMA SameSpares ==
  ASSUME UNCHANGED rows
  PROVE  \A h \in Gen : Spared(h)
  BY DEF Spared

\* wait, and the retry of an assembly, are a sign of life.
LEMMA WaitingSpares ==
  ASSUME TableOK, NEW g \in Gen, rows' = [rows EXCEPT ![g].stage = "waiting", ![g].hb = "fresh"]
  PROVE  \A h \in Gen : Spared(h)
<1> DEFINE row == [rows[g] EXCEPT !.stage = "waiting", !.hb = "fresh"]
<1>1. rows' = [rows EXCEPT ![g] = row] /\ rows[g] \in Row
  BY DEF TableOK
<1>2. row.status = rows[g].status /\ row.hb = "fresh"
  BY <1>1 DEF Row
<1> HIDE DEF row
<1>3. ASSUME NEW h \in Gen PROVE Spared(h)
  BY <1>1, <1>2 DEF Spared, TableOK
<1> QED
  BY <1>3

\* A write to one row spares the others.
LEMMA OthersSpared ==
  ASSUME NEW g \in Gen, NEW h \in Gen, g # h, rows'[h] = rows[h]
  PROVE  Spared(h)
  BY DEF Spared

\* Claiming a row and getting to work.
LEMMA ClaimMoves ==
  ASSUME IInv, NEW w \in Worker, Start(w) \/ Resume(w) \/ Prepare(w) \/ Enter(w)
  PROVE  RunsMove /\ RowsSpared
<1> DEFINE g == worker[w].gen
<1> USE DEF IInv
<1>0. g \in Gen /\ worker[w] \in Run /\ WorkersOK /\ TableOK
  BY DEF ControlOK, WorkersOK, WorkerInv, RunOK, Start, Resume, Prepare, Enter, At
<1>1. CASE Start(w) /\ CanStart(g)
  <2> DEFINE run == [worker[w] EXCEPT !.pc = "prepare", !.attempt = rows[g].attempts + 1,
                                      !.composing = (rows[g].stage = "composing")]
             row == [rows[g] EXCEPT !.status = "RUNNING", !.hb = "fresh", !.attempts = @ + 1]
  <2>1. rows[g] \in Row /\ rows[g].status = "QUEUED" /\ rows' = [rows EXCEPT ![g] = row]
    BY <1>0, <1>1 DEF Start, StartRow, CanStart, TableOK
  <2>2. row.status = "RUNNING" /\ row.hb = "fresh"
    BY <2>1 DEF Row
  <2> HIDE DEF row
  <2>3. Claims(g)
    BY <1>0, <2>1, <2>2 DEF Claims, TableOK
  <2>4. rows[g].attempts + 1 \in Nat /\ "prepare" \in Pcs
    BY <2>1 DEF Row, Pcs
  <2>5. run \in Run /\ run.pc = "prepare" /\ run.gen = g
    BY <1>0, <2>4 DEF Run
  <2>6. worker' = [worker EXCEPT ![w] = run]
    BY <1>0, <1>1 DEF Start, WorkersOK
  <2> HIDE DEF run
  <2>7. Moves(w, run)
    BY <2>3, <2>5 DEF Moves
  <2>8. RunsMove
    BY <2>5, <2>6, <2>7 DEF RunsMove
  <2>9. RowsSpared
    BY <2>1 DEF RowsSpared, Spared
  <2> QED
    BY <2>8, <2>9
<1>2. CASE Start(w) /\ ~CanStart(g)
  <2>1. RunsMove
    BY <1>0, <1>2, GotoMoves DEF Start, Pcs, Owning, Working
  <2>2. RowsSpared
    BY <1>2, SameSpares DEF Start, RowsSpared
  <2> QED
    BY <2>1, <2>2
<1>3. CASE Resume(w) /\ CanResume(g)
  <2> DEFINE run == [worker[w] EXCEPT !.pc = "prepare", !.attempt = rows[g].attempts + 1,
                                      !.composing = TRUE, !.resumed = TRUE]
  <2>1. rows[g].attempts + 1 \in Nat /\ "prepare" \in Pcs
    BY <1>0 DEF TableOK, Row, Pcs
  <2>2. run \in Run /\ run.pc = "prepare" /\ run.gen = g
    BY <1>0, <2>1 DEF Run
  <2>3. worker' = [worker EXCEPT ![w] = run]
    BY <1>0, <1>3 DEF Resume, WorkersOK
  <2> HIDE DEF run
  <2>4. Moves(w, run)
    BY <1>3, <2>2 DEF Moves, CanResume
  <2>5. RunsMove
    BY <2>2, <2>3, <2>4 DEF RunsMove
  <2>6. RowsSpared
    BY <1>0, <1>3, OthersSpared DEF Resume, CanResume, ResumeRow, RowsSpared, TableOK
  <2> QED
    BY <2>5, <2>6
<1>4. CASE Resume(w) /\ ~CanResume(g)
  <2>1. RunsMove
    BY <1>0, <1>4, ReleaseMoves DEF Resume
  <2>2. RowsSpared
    BY <1>4, SameSpares DEF Resume, RowsSpared
  <2> QED
    BY <2>1, <2>2
<1>5. CASE Prepare(w)
  <2>1. RunsMove
    BY <1>0, <1>5, GotoMoves, ThrowMoves DEF Prepare, At, Pcs, Owning, Working
  <2>2. RowsSpared
    BY <1>0, <1>5, StageSpares DEF Prepare, RowsSpared, Stages
  <2> QED
    BY <2>1, <2>2
<1>6. CASE Enter(w)
  <2>1. RunsMove
    BY <1>0, <1>6, GotoMoves DEF Enter, At, Pcs, Owning, Working
  <2>2. RowsSpared
    BY <1>0, <1>6, StageSpares DEF Enter, RowsSpared, Stages
  <2> QED
    BY <2>1, <2>2
<1> QED
  BY <1>1, <1>2, <1>3, <1>4, <1>5, <1>6

\* The work: only an ad whose shots are all rendered gets something to store.
LEMMA WorkMoves ==
  ASSUME IInv, NEW w \in Worker,
         Produce(w) \/ PipelineFails(w) \/ DispatchShot(w) \/ Wait(w) \/ StageWait(w) \/ AssembleAd(w)
  PROVE  RunsMove /\ RowsSpared
<1> DEFINE g == worker[w].gen
<1> USE DEF IInv
<1>0. g \in Gen /\ worker[w] \in Run /\ WorkersOK /\ TableOK
  BY DEF ControlOK, WorkersOK, WorkerInv, RunOK, Produce, PipelineFails, DispatchShot, Wait,
         StageWait, AssembleAd, At
<1>1. CASE Produce(w)
  <2>1. RunsMove
    BY <1>0, <1>1, GotoMoves DEF Produce, At, Pcs, Owning, Working, Rendered, IsParent
  <2>2. RowsSpared
    BY <1>1, SameSpares DEF Produce, RowsSpared, rowVars
  <2> QED
    BY <2>1, <2>2
<1>2. CASE PipelineFails(w)
  <2>1. RunsMove
    BY <1>0, <1>2, ThrowMoves DEF PipelineFails, At, Owning, Working
  <2>2. RowsSpared
    BY <1>2, SameSpares DEF PipelineFails, RowsSpared, rowVars
  <2> QED
    BY <2>1, <2>2
<1>3. CASE DispatchShot(w)
  <2>1. PICK c \in Shots(g) :
          /\ UpsertChild(c)
          /\ worker' = [worker EXCEPT ![w].made = @ \cup {c}]
    BY <1>3 DEF DispatchShot
  <2>2. c \in Gen
    BY DEF Shots
  <2> DEFINE run == [worker[w] EXCEPT !.made = @ \cup {c}]
  <2>3. run \in Run /\ run.pc = "dispatch" /\ run.gen = g
    BY <1>0, <1>3, <2>2 DEF Run, DispatchShot, At
  <2>4. worker' = [worker EXCEPT ![w] = run]
    BY <1>0, <2>1 DEF WorkersOK
  <2> HIDE DEF run
  <2>5. Moves(w, run)
    BY <1>3, <2>3 DEF Moves, DispatchShot, At, Owning, Working
  <2>6. RunsMove
    BY <2>3, <2>4, <2>5 DEF RunsMove
  <2>7. RowsSpared
    BY <1>0, <2>1, <2>2 DEF RowsSpared, Spared, UpsertChild, Exists, TableOK
  <2> QED
    BY <2>6, <2>7
<1>4. CASE Wait(w)
  <2>1. RunsMove
    BY <1>0, <1>4, GotoMoves DEF Wait, At, Pcs, Owning, Working
  <2>2. RowsSpared
    BY <1>0, <1>4, WaitingSpares, SameSpares DEF Wait, WaitRow, RowsSpared
  <2> QED
    BY <2>1, <2>2
<1>5. CASE StageWait(w)
  <2>1. RunsMove
    BY <1>0, <1>5, ReleaseMoves DEF StageWait
  <2>2. RowsSpared
    BY <1>0, <1>5, StageSpares DEF StageWait, RowsSpared, Stages
  <2> QED
    BY <2>1, <2>2
<1>6. CASE AssembleAd(w)
  <2>1. ASSUME ShotsComplete(g), ShotsRendered(g) PROVE RunsMove
    <3>1. Rendered(g)
      BY <2>1 DEF ShotsComplete, ShotsRendered, Rendered
    <3> QED
      BY <1>0, <1>6, <2>1, <3>1, GotoMoves DEF AssembleAd, At, Pcs, Owning, Working
  <2>2. ASSUME ~(ShotsComplete(g) /\ ShotsRendered(g)) PROVE RunsMove
    BY <1>0, <1>6, <2>2, ThrowMoves DEF AssembleAd, At, Owning, Working
  <2>3. RowsSpared
    BY <1>6, SameSpares DEF AssembleAd, RowsSpared, rowVars
  <2> QED
    BY <2>1, <2>2, <2>3
<1> QED
  BY <1>1, <1>2, <1>3, <1>4, <1>5, <1>6

\* The assembly of a batch: what it is about to give back leaves the price of one photo at least.
LEMMA BatchMoves ==
  ASSUME IInv, NEW w \in Worker, GatherBatch(w) \/ RefundShare(w)
  PROVE  RunsMove /\ RowsSpared
<1> DEFINE g == worker[w].gen
<1> USE DEF IInv
<1>0. g \in Gen /\ worker[w] \in Run /\ RunOK(worker[w]) /\ WorkersOK /\ TableOK
  BY DEF ControlOK, WorkersOK, WorkerInv, RunOK, GatherBatch, RefundShare, At
<1>1. CASE GatherBatch(w)
  <2> DEFINE done == {c \in Children(g) : rows[c].status = "SUCCEEDED"}
             failed == Children(g) \ done
             n == Share(Price[g], Cardinality(failed), Cardinality(Children(g)))
             run == [worker[w] EXCEPT !.pc = "share", !.share = n]
  <2>0. worker[w].pc \in Owning /\ Rendered(g)
    BY <1>1 DEF GatherBatch, At, Owning, Working, Rendered
  <2>1. ASSUME done = {} /\ Throw(w, "retry") PROVE RunsMove
    BY <1>0, <2>0, <2>1, ThrowMoves
  <2>2. ASSUME Goto(w, "store") PROVE RunsMove
    BY <1>0, <2>0, <2>2, GotoMoves DEF Pcs
  <2>3. ASSUME done # {}, worker' = [worker EXCEPT ![w].pc = "share", ![w].share = n]
        PROVE  RunsMove
    <3>1. IsFiniteSet(Gen) /\ Price[g] \in Nat
      BY <1>0, GenAssumption
    <3>2. Shots(g) \subseteq Gen /\ Children(g) \subseteq Shots(g) /\ done \subseteq Children(g)
      BY DEF Children, Shots
    <3>3. IsFiniteSet(Shots(g)) /\ IsFiniteSet(Children(g)) /\ IsFiniteSet(done)
      BY <3>1, <3>2, FS_Subset
    <3> DEFINE cs == Cardinality(Shots(g))
               cc == Cardinality(Children(g))
               cf == Cardinality(failed)
               cd == Cardinality(done)
    <3>4. cs \in Nat /\ cc \in Nat /\ cd \in Nat /\ cd # 0 /\ cc <= cs
      BY <2>3, <3>2, <3>3, FS_CardinalityType, FS_EmptySet, FS_Subset
    <3>5. cf = cc - cd
      <4>1. failed = Children(g) \ done /\ Children(g) \cap done = done
        BY <3>2
      <4>2. cf = cc - Cardinality(Children(g) \cap done)
        BY <3>3, FS_Difference
      <4> QED
        BY <4>1, <4>2
    <3>6. cf \in Nat
      BY <3>2, <3>3, FS_Subset, FS_CardinalityType
    <3> HIDE DEF done, failed, cs, cc, cf, cd
    <3>7. cc \in 1..cs /\ cc \in Nat \ {0} /\ cf \in 0..(cc - 1)
      BY <3>4, <3>5, <3>6
    <3>8. n \in Nat /\ n <= MostShare(g)
      <4>1. n = Share(Price[g], cf, cc) /\ MostShare(g) = Share(Price[g], cs - 1, cs)
        BY DEF MostShare, cs, cc, cf
      <4>2. Share(Price[g], cf, cc) <= Share(Price[g], cs - 1, cs)
        BY <3>1, <3>4, <3>7, ShareBound
      <4>3. Share(Price[g], cf, cc) \in Nat
        BY <3>1, <3>4, <3>6, <3>7, ShareNat
      <4> QED
        BY <4>1, <4>2, <4>3
    <3> HIDE DEF n
    <3>9. run \in Run /\ run.pc = "share" /\ run.gen = g /\ run.share = n
      <4> "share" \in Pcs
        BY DEF Pcs
      <4> QED
        BY <1>0, <3>8 DEF Run
    <3>10. worker' = [worker EXCEPT ![w] = run]
      BY <1>0, <2>3 DEF WorkersOK
    <3> HIDE DEF run
    <3>11. Moves(w, run)
      BY <2>0, <3>8, <3>9 DEF Moves
    <3> QED
      BY <3>9, <3>10, <3>11 DEF RunsMove
  <2>4. RunsMove
    BY <1>1, <2>1, <2>2, <2>3 DEF GatherBatch
  <2>5. RowsSpared
    BY <1>1, SameSpares DEF GatherBatch, RowsSpared, rowVars
  <2> QED
    BY <2>4, <2>5
<1>2. CASE RefundShare(w)
  <2>1. Rendered(g) /\ worker[w].pc \in Owning
    BY <1>0, <1>2 DEF RefundShare, At, RunOK, Rendered, Owning, Working
  <2>2. RunsMove
    BY <1>0, <1>2, <2>1, GotoMoves DEF RefundShare, Pcs
  <2>3. RowsSpared
    BY <1>2, SameSpares DEF RefundShare, ShareRow, RowsSpared
  <2> QED
    BY <2>2, <2>3
<1> QED
  BY <1>1, <1>2

\* The end of a run: whoever ends the row or hands it back lets it go in the same step.
LEMMA EndMoves ==
  ASSUME IInv, NEW w \in Worker,
         Store(w) \/ Succeed(w) \/ Retry(w) \/ EnqueueRetry(w) \/ Fail(w)
  PROVE  RunsMove /\ RowsSpared
<1> DEFINE g == worker[w].gen
<1> USE DEF IInv
<1>0. g \in Gen /\ worker[w] \in Run /\ WorkersOK /\ TableOK
  BY DEF ControlOK, WorkersOK, WorkerInv, RunOK, Store, Succeed, Retry, EnqueueRetry, Fail, At
\* The run leaves pc for one that owns nothing, having written no row but its own.
<1> DEFINE Leaves(pc) == Goto(w, pc) /\ worker[w].pc \in Owning
                         /\ \A h \in Gen : h # g => rows'[h] = rows[h]
<1>a. ASSUME NEW pc \in {"enqueue", "finally"}, Leaves(pc) PROVE RowsSpared
  <2>1. worker'[w].pc \notin Owning
    BY <1>0, <1>a DEF Goto, WorkersOK, Owning, Working, Run
  <2>2. IsParent(g) \/ LetGo(g)
    BY <1>a, <2>1 DEF LetGo, Owns
  <2>3. \A h \in Gen : h = g \/ Spared(h)
    BY <1>0, <1>a, OthersSpared
  <2> QED
    BY <2>2, <2>3 DEF RowsSpared
<1>1. CASE Store(w)
  <2>1. RunsMove
    BY <1>0, <1>1, GotoMoves, ThrowMoves DEF Store, At, Pcs, Owning, Working
  <2>2. RowsSpared
    BY <1>0, <1>1, StageSpares DEF Store, RowsSpared, Stages
  <2> QED
    BY <2>1, <2>2
<1>2. CASE Succeed(w)
  <2>1. RunsMove
    BY <1>0, <1>2, GotoMoves, ThrowMoves DEF Succeed, At, Pcs, Owning, Working
  <2>2. ASSUME rows' = rows PROVE RowsSpared
    BY <2>2, SameSpares DEF RowsSpared
  <2>3. ASSUME NEW d \in {0, Premium[g]}, SucceedRow(g, d), Goto(w, "finally") PROVE RowsSpared
    <3>1. worker[w].pc \in Owning
      BY <1>2 DEF Succeed, At, Owning, Working
    <3>2. \A h \in Gen : h # g => rows'[h] = rows[h]
      BY <1>0, <2>3 DEF SucceedRow, TableOK
    <3>3. Leaves("finally")
      BY <2>3, <3>1, <3>2
    <3> QED
      BY <1>a, <3>3
  <2> QED
    BY <1>2, <2>1, <2>2, <2>3 DEF Succeed, rowVars
<1>3. CASE Retry(w)
  <2>1. RunsMove
    BY <1>0, <1>3, GotoMoves DEF Retry, At, Pcs, Owning, Working
  <2>2. worker[w].pc \in Owning
    BY <1>3 DEF Retry, At, Owning, Working
  <2>3. \A h \in Gen : h # g => rows'[h] = rows[h]
    BY <1>0, <1>3 DEF Retry, RetryAssemblyRow, RequeueRow, TableOK
  <2>4. \E pc \in {"enqueue", "finally"} : Leaves(pc)
    BY <1>3, <2>2, <2>3 DEF Retry
  <2> QED
    BY <1>a, <2>1, <2>4
<1>4. CASE EnqueueRetry(w)
  <2>1. RunsMove
    BY <1>0, <1>4, GotoMoves DEF EnqueueRetry, Pcs, Owning, Working
  <2>2. RowsSpared
    BY <1>4, SameSpares DEF EnqueueRetry, RowsSpared, rowVars
  <2> QED
    BY <2>1, <2>2
<1>5. CASE Fail(w)
  <2>1. RunsMove
    BY <1>0, <1>5, GotoMoves DEF Fail, Pcs, Owning, Working
  <2>2. worker[w].pc \in Owning
    BY <1>5 DEF Fail, At, Owning, Working
  <2>3. \A h \in Gen : h # g => rows'[h] = rows[h]
    BY <1>0, <1>5 DEF Fail, FailRow, rowVars, TableOK
  <2>4. Leaves("finally")
    BY <1>5, <2>2, <2>3 DEF Fail
  <2> QED
    BY <1>a, <2>1, <2>4
<1> QED
  BY <1>1, <1>2, <1>3, <1>4, <1>5

\* The finally block owns nothing.
LEMMA FinallyMoves ==
  ASSUME IInv, NEW w \in Worker, Finally(w) \/ WakeStage(w) \/ Wake(w) \/ Return(w)
  PROVE  RunsMove /\ RowsSpared
<1> DEFINE g == worker[w].gen
           p == ParentOf[g]
<1> USE DEF IInv
<1>0. g \in Gen /\ worker[w] \in Run /\ RunOK(worker[w]) /\ WorkersOK /\ TableOK
  BY DEF ControlOK, WorkersOK, WorkerInv, RunOK, Finally, WakeStage, Wake, Return, At
<1>1. CASE Finally(w)
  <2>1. CASE Kind[g] = "CHILD"
    <3> DEFINE b == \A c \in Children(p) : Terminal(c)
               run == [worker[w] EXCEPT !.pc = "wakeStage", !.allDone = b]
    <3>1. worker' = [worker EXCEPT ![w] = run]
      BY <1>0, <1>1, <2>1 DEF Finally, WorkersOK
    <3>2. b \in BOOLEAN /\ "wakeStage" \in Pcs
      BY DEF Pcs
    <3> HIDE DEF b
    <3>3. run \in Run /\ run.pc = "wakeStage"
      BY <1>0, <3>2 DEF Run
    <3> HIDE DEF run
    <3> QED
      BY <1>0, <1>1, <3>1, <3>3, OtherMoves, SameSpares DEF Finally, RowsSpared, rowVars, Owning, Working
  <2>2. CASE Kind[g] # "CHILD"
    BY <1>0, <1>1, <2>2, ReleaseMoves, SameSpares DEF Finally, RowsSpared, rowVars
  <2> QED
    BY <2>1, <2>2
<1>2. CASE WakeStage(w)
  <2>0. p \in Gen
    BY <1>0, <1>2, PriceAssumption DEF RunOK, WakeStage, At
  <2>1. RunsMove
    BY <1>0, <1>2, GotoMoves, ReleaseMoves DEF WakeStage, Pcs, Owning, Working
  <2>2. RowsSpared
    BY <1>0, <1>2, <2>0, StageSpares DEF WakeStage, RowsSpared, Stages
  <2> QED
    BY <2>1, <2>2
<1>3. CASE Wake(w)
  BY <1>0, <1>3, GotoMoves, SameSpares DEF Wake, RowsSpared, rowVars, Pcs, Owning, Working
<1>4. CASE Return(w)
  BY <1>0, <1>4, ReleaseMoves, SameSpares DEF Return, RowsSpared, rowVars
<1> QED
  BY <1>1, <1>2, <1>3, <1>4

\* A slot that takes a job owns nothing yet; the heartbeat and a report are signs of life.
LEMMA WorkerMoves ==
  ASSUME IInv, WorkerStep
  PROVE  RunsMove /\ RowsSpared
<1> USE DEF IInv
<1>0. WorkersOK /\ TableOK
  BY DEF ControlOK
<1>1. ASSUME NEW w \in Worker, NEW g \in Gen, NEW via \in Queue \cup {"direct"},
             worker' = [worker EXCEPT ![w] = [Idle EXCEPT !.pc = "claim", !.gen = g, !.via = via]],
             UNCHANGED rowVars
      PROVE  RunsMove /\ RowsSpared
  <2> DEFINE run == [Idle EXCEPT !.pc = "claim", !.gen = g, !.via = via]
  <2>1. run \in Run /\ run.pc = "claim"
    BY DEF Idle, Run, Pcs
  <2>2. worker' = [worker EXCEPT ![w] = run]
    BY <1>1
  <2> HIDE DEF run
  <2> QED
    BY <1>0, <1>1, <2>1, <2>2, OtherMoves, SameSpares DEF RowsSpared, rowVars, Owning, Working
<1>2. ASSUME NEW w \in Worker, NEW g \in Gen, (\E q \in Queue : Take(w, q, g)) \/ TakeDirect(w, g)
      PROVE  RunsMove /\ RowsSpared
  BY <1>1, <1>2 DEF Take, TakeDirect
<1>3. ASSUME NEW w \in Worker, RunStep(w) PROVE RunsMove /\ RowsSpared
  BY <1>3, ClaimMoves, WorkMoves, BatchMoves, EndMoves, FinallyMoves DEF RunStep
<1>4. ASSUME NEW w \in Worker, Heartbeat(w) PROVE RunsMove /\ RowsSpared
  <2>1. ASSUME NEW h \in Gen PROVE Spared(h)
    BY <1>0, <1>4 DEF Heartbeat, Beat, TableOK, Row, Spared
  <2> QED
    BY <1>4, <2>1 DEF Heartbeat, workerVars, RunsMove, RowsSpared
<1>5. ASSUME NEW p \in Gen, Report(p) PROVE RunsMove /\ RowsSpared
  <2> DEFINE h    == IF rows[p].status = "RUNNING" THEN "fresh" ELSE rows[p].hb
             mid  == [rows[p] EXCEPT !.hb = h]
             row  == IF mid.status \in {"QUEUED", "RUNNING"} THEN [mid EXCEPT !.stage = "waiting"] ELSE mid
  <2>1. rows[p] \in Row
    BY DEF TableOK
  <2>2. mid \in Row /\ mid.hb = h /\ mid.status = rows[p].status
    BY <2>1 DEF Row
  <2>3. rows' = [rows EXCEPT ![p] = row]
    BY <1>5 DEF Report, Staged, TableOK
  <2> HIDE DEF mid
  <2>4. row.hb = h /\ row.status = rows[p].status
    BY <2>2 DEF Row
  <2> HIDE DEF row
  <2>5. \A k \in Gen : Spared(k)
    BY <2>3, <2>4 DEF Spared, TableOK
  <2> QED
    BY <1>5, <2>5 DEF Report, RunsMove, RowsSpared
<1> QED
  BY <1>2, <1>3, <1>4, <1>5 DEF WorkerStep

\* A request finds no row and a cancellation finds it QUEUED: neither touches a row at work.
LEMMA ApiMoves ==
  ASSUME IInv, NEW g \in Gen, Api(g)
  PROVE  worker' = worker /\ RowsSpared
<1>1. worker' = worker
  BY DEF Api, Request, Cancel, workerVars
<1>2. \A h \in Gen : h # g => Spared(h)
  <2>1. \A h \in Gen : h # g => rows'[h] = rows[h]
    BY DEF Api, Request, CreateRow, Cancel, CancelRow, IInv, TableOK
  <2> QED
    BY <2>1, OthersSpared
<1>3. Spared(g)
  BY DEF Api, Request, Cancel, CanCancel, Exists, Spared
<1> QED
  BY <1>1, <1>2, <1>3 DEF RowsSpared

\* The sweep only reclaims a row that is still quiet.
LEMMA SchedulerMoves ==
  ASSUME IInv, SweepSelect \/ \E g \in Gen : Sweep(g) \/ Dispatch(g)
  PROVE  worker' = worker /\ RowsSpared
<1>1. ASSUME SweepSelect \/ \E g \in Gen : SweepSkip(g) \/ Dispatch(g) PROVE worker' = worker /\ RowsSpared
  BY <1>1, SameSpares DEF SweepSelect, SweepSkip, Dispatch, RedispatchOrphan, WakeReadyParent,
                          workerVars, rowVars, RowsSpared
<1>2. ASSUME NEW g \in Gen, SweepRequeue(g) \/ SweepReassemble(g) \/ SweepFail(g)
      PROVE  worker' = worker /\ RowsSpared
  <2>1. worker' = worker
    BY <1>2 DEF SweepRequeue, SweepReassemble, SweepFail, workerVars
  <2>2. \A h \in Gen : h # g => Spared(h)
    <3>1. \A h \in Gen : h # g => rows'[h] = rows[h]
      BY <1>2 DEF SweepRequeue, RequeueRow, SweepReassemble, RetryAssemblyRow, SweepFail, FailRow,
                  IInv, TableOK
    <3> QED
      BY <3>1, OthersSpared
  <2>3. Spared(g)
    BY <1>2 DEF SweepRequeue, SweepReassemble, SweepFail, StaleGuard, Spared
  <2> QED
    BY <2>1, <2>2, <2>3 DEF RowsSpared
<1> QED
  BY <1>1, <1>2 DEF Sweep

\* Only a row nobody works on grows quiet, as long as no process is paused.
LEMMA EnvironmentMoves ==
  ASSUME IInv, Environment
  PROVE  RunsMove /\ (paused = {} => RowsSpared)
<1> USE DEF IInv
<1>0. WorkersOK /\ TableOK
  BY DEF ControlOK
<1>1. ASSUME NEW g \in Gen, Lapse(g) PROVE RunsMove /\ (paused = {} => RowsSpared)
  <2>1. worker' = worker
    BY <1>1 DEF Lapse, workerVars
  <2>2. \A h \in Gen : h # g => Spared(h)
    BY <1>1, OthersSpared DEF Lapse
  <2>3. ASSUME paused = {}, NEW w \in Worker PROVE ~Owns(w, g)
    BY <1>1, <2>3 DEF Lapse, KeptAlive, Owns, Owning, Working, Holding
  <2> QED
    BY <2>1, <2>2, <2>3 DEF RunsMove, RowsSpared
<1>2. ASSUME NEW g \in Gen, Age(g) PROVE RunsMove /\ RowsSpared
  BY <1>2 DEF Age, workerVars, RunsMove, RowsSpared, Spared
<1>3. ASSUME NEW w \in Worker, Crash(w) PROVE RunsMove /\ RowsSpared
  <2>1. Idle \in Run /\ Idle.pc \notin Owning
    BY IdleOK DEF Idle, Owning, Working
  <2> QED
    BY <1>0, <1>3, <2>1, OtherMoves, SameSpares DEF Crash, rowVars, RowsSpared
<1>4. ASSUME NEW w \in Worker, Pause(w) PROVE RunsMove /\ RowsSpared
  <2> DEFINE run == [worker[w] EXCEPT !.via = "direct"]
  <2>1. worker[w] \in Run
    BY <1>0 DEF WorkersOK
  <2>2. run \in Run /\ run.pc = worker[w].pc /\ run.gen = worker[w].gen /\ run.share = worker[w].share
    BY <2>1 DEF Run
  <2>3. worker' = [worker EXCEPT ![w] = run]
    BY <1>0, <1>4 DEF Pause, WorkersOK
  <2> HIDE DEF run
  <2>4. RunsMove
    BY <2>2, <2>3 DEF RunsMove, Moves
  <2> QED
    BY <1>4, <2>4, SameSpares DEF Pause, rowVars, RowsSpared
<1>5. ASSUME UNCHANGED rowVars, worker' = worker PROVE RunsMove /\ RowsSpared
  BY <1>5, SameSpares DEF rowVars, RunsMove, RowsSpared
<1> QED
  BY <1>1, <1>2, <1>3, <1>4, <1>5
     DEF Environment, Unpause, SweepDies, RedisDown, RedisUp, LoseJob, workerVars

\* At most one run moves in a step; unless a process is paused, rows at work stay RUNNING and fresh.
LEMMA SystemMoves ==
  ASSUME IInv, [Next]_vars
  PROVE  RunsMove /\ (paused = {} => RowsSpared)
<1>1. CASE Next
  BY <1>1, ApiMoves, WorkerMoves, SchedulerMoves, EnvironmentMoves DEF Next, RunsMove
<1>2. CASE UNCHANGED vars
  BY <1>2, SameSpares DEF vars, RunsMove, RowsSpared
<1> QED
  BY <1>1, <1>2

\* Every pause is counted.
LEMMA PausesCounted ==
  ASSUME IInv, [Next]_vars, pauses' = 0
  PROVE  pauses = 0 /\ paused' \subseteq paused
<1>0. pauses \in Nat
  BY DEF IInv, ControlOK
<1>1. ASSUME NEW w \in Worker, RunStep(w) \/ Heartbeat(w) PROVE UNCHANGED <<paused, pauses>>
  BY <1>1 DEF RunStep, Start, Resume, Prepare, Enter, Produce, PipelineFails, DispatchShot, Wait,
       StageWait, AssembleAd, GatherBatch, RefundShare, Store, Succeed, Retry, EnqueueRetry, Fail,
       Finally, WakeStage, Wake, Return, Heartbeat, workerVars
<1>2. ASSUME WorkerStep PROVE UNCHANGED <<paused, pauses>>
  BY <1>1, <1>2 DEF WorkerStep, Take, TakeDirect, Report
<1>3. ASSUME NEW g \in Gen, Api(g) PROVE UNCHANGED <<paused, pauses>>
  BY <1>3 DEF Api, Request, Cancel, workerVars
<1>4. ASSUME SweepSelect \/ \E g \in Gen : Sweep(g) \/ Dispatch(g) PROVE UNCHANGED <<paused, pauses>>
  BY <1>4 DEF SweepSelect, Sweep, SweepRequeue, SweepReassemble, SweepFail, SweepSkip, Dispatch,
       RedispatchOrphan, WakeReadyParent, workerVars
<1>5. ASSUME NEW w \in Worker, Pause(w) PROVE FALSE
  BY <1>0, <1>5 DEF Pause
<1>6. ASSUME Environment PROVE pauses' = pauses /\ paused' \subseteq paused
  BY <1>5, <1>6 DEF Environment, Lapse, Age, Crash, Unpause, SweepDies, RedisDown, RedisUp, LoseJob, workerVars
<1>7. CASE UNCHANGED vars
  BY <1>7 DEF vars
<1> QED
  BY <1>2, <1>3, <1>4, <1>6, <1>7 DEF Next

-----------------------------------------------------------------------------
(* One run per row.                                                        *)

\* Whoever works on a standalone row or a shot keeps it RUNNING and fresh, so that no other claim,
\* sweep or cancellation finds it, and is alone.
OneOwner ==
  pauses = 0 =>
    /\ paused = {}
    /\ \A w \in Worker, g \in Gen : Owns(w, g) => rows[g].status = "RUNNING" /\ rows[g].hb = "fresh"
    /\ \A v, w \in Worker, g \in Gen : Owns(v, g) /\ Owns(w, g) => v = w

\* A run that owns a row after a step owned it before, or has just claimed it from the queue.
LEMMA OwnerMoves ==
  ASSUME IInv, RunsMove, NEW w \in Worker, NEW g \in Gen, Owns(w, g)'
  PROVE  \/ Owns(w, g)
         \/ Claims(g) /\ \A v \in Worker : v # w => worker'[v] = worker[v]
<1>1. CASE worker' = worker
  BY <1>1 DEF Owns
<1>2. CASE worker' # worker
  <2>1. PICK v \in Worker, run \in Run : worker' = [worker EXCEPT ![v] = run] /\ Moves(v, run)
    BY <1>2 DEF RunsMove
  <2>2. worker \in [Worker -> Run]
    BY DEF IInv, ControlOK, WorkersOK
  <2>3. CASE v = w
    <3>1. worker'[w] = run /\ run.pc \in Owning /\ run.gen = g /\ ~IsParent(g)
      BY <2>1, <2>2, <2>3 DEF Owns, IsParent
    <3>2. \A u \in Worker : u # w => worker'[u] = worker[u]
      BY <2>1, <2>2, <2>3
    <3>3. worker[w].gen = g /\ (worker[w].pc \in Owning \/ Claims(g))
      BY <2>1, <2>3, <3>1 DEF Moves
    <3> QED
      BY <3>1, <3>2, <3>3 DEF Owns
  <2>4. CASE v # w
    BY <2>1, <2>2, <2>4 DEF Owns, IsParent
  <2> QED
    BY <2>3, <2>4
<1> QED
  BY <1>1, <1>2

\* The invariant is inductive: a claim finds no owner, and what a run owns is left alone until it
\* lets go.
LEMMA OneOwnerStep == IInv /\ OneOwner /\ [Next]_vars => OneOwner'
<1> SUFFICES ASSUME IInv, OneOwner, [Next]_vars, pauses' = 0
             PROVE  /\ paused' = {}
                    /\ \A w \in Worker, g \in Gen : Owns(w, g)' => rows'[g].status = "RUNNING" /\ rows'[g].hb = "fresh"
                    /\ \A v, w \in Worker, g \in Gen : Owns(v, g)' /\ Owns(w, g)' => v = w
  BY DEF OneOwner
<1>1. paused = {} /\ paused' = {} /\ pauses = 0
  BY PausesCounted DEF OneOwner
<1>2. RunsMove /\ RowsSpared
  BY <1>1, SystemMoves
<1>3. ASSUME NEW g \in Gen, Claims(g), NEW w \in Worker PROVE ~Owns(w, g)
  BY <1>1, <1>3 DEF OneOwner, Claims
<1>4. ASSUME NEW w \in Worker, NEW g \in Gen, Owns(w, g)'
      PROVE  rows'[g].status = "RUNNING" /\ rows'[g].hb = "fresh"
  <2>1. CASE Claims(g)
    BY <2>1 DEF Claims
  <2>2. CASE ~Claims(g)
    <3>1. Owns(w, g)
      BY <1>2, <1>4, <2>2, OwnerMoves
    <3>2. rows[g].status = "RUNNING" /\ rows[g].hb = "fresh"
      BY <1>1, <3>1 DEF OneOwner
    <3>3. ~LetGo(g)
      BY <1>1, <1>4, <3>1 DEF LetGo, OneOwner, Owns
    <3> QED
      BY <1>2, <3>1, <3>2, <3>3 DEF RowsSpared, Spared, Owns
  <2> QED
    BY <2>1, <2>2
<1>5. ASSUME NEW v \in Worker, NEW w \in Worker, NEW g \in Gen, Owns(v, g)', Owns(w, g)', v # w
      PROVE  FALSE
  <2>1. ~(Owns(v, g) /\ Owns(w, g))
    BY <1>1, <1>5 DEF OneOwner
  <2>2. Claims(g)
    BY <1>2, <1>5, <2>1, OwnerMoves
  <2>3. ~Owns(v, g) /\ ~Owns(w, g)
    BY <1>3, <2>2
  <2>4. worker'[w] = worker[w]
    BY <1>2, <1>5, <2>3, OwnerMoves
  <2> QED
    BY <1>5, <2>3, <2>4 DEF Owns, IsParent
<1> QED
  BY <1>1, <1>4, <1>5

\* As long as no process is paused, no two runs ever do the work of the same standalone row or
\* shot, however its job was delivered, retried, swept or dispatched.
THEOREM OneRunAtATime == Spec => []OneRunPerRow
<1>1. Init => OneOwner
  BY DEF Init, WorkerInit, OneOwner, Owns, Owning, Working, Idle
<1>2. IInv /\ OneOwner => OneRunPerRow
  <2> SUFFICES ASSUME IInv, OneOwner, pauses = 0, NEW v \in Worker, NEW w \in Worker,
                      worker[v].pc \in Working, worker[w].pc \in Working,
                      worker[v].gen = worker[w].gen, ~IsParent(worker[v].gen)
               PROVE  v = w
    BY DEF OneRunPerRow
  <2>1. worker[v].gen \in Gen
    BY DEF IInv, ControlOK, WorkersOK, WorkerInv, RunOK, Working
  <2>2. Owns(v, worker[v].gen) /\ Owns(w, worker[v].gen)
    BY DEF Owns, Owning
  <2> QED
    BY <2>1, <2>2 DEF OneOwner
<1> QED
  BY <1>1, <1>2, OneOwnerStep, Invariance, PTL DEF Spec

-----------------------------------------------------------------------------
(* Ads and batches.                                                        *)

\* A run that stores an ad found every shot of it rendered.
AdInv ==
  /\ \A w \in Worker : worker[w].pc \in {"store", "succeed"} => Rendered(worker[w].gen)
  /\ AdIsWhole

\* A shot that rendered stays so.
LEMMA RenderedStays ==
  ASSUME IInv, [Next]_vars, NEW g \in Gen, Rendered(g)
  PROVE  Rendered(g)'
<1> SUFFICES ASSUME Kind[g] = "AD", NEW c \in Shots(g) PROVE rows'[c].status = "SUCCEEDED"
  BY DEF Rendered, Shots
<1>1. c \in Gen /\ rows[c].status = "SUCCEEDED"
  BY DEF Rendered, Shots
<1> QED
  BY <1>1, SystemStep, RowStepTerminal DEF IInv, Terminal, TERMINAL_STATUSES

\* A row succeeds only by the last step of a run that stored its work.
LEMMA SuccessIsStored ==
  ASSUME IInv, [Next]_vars, NEW g \in Gen, rows'[g].status = "SUCCEEDED"
  PROVE  \/ rows[g].status = "SUCCEEDED"
         \/ \E w \in Worker : worker[w].pc = "succeed" /\ worker[w].gen = g
<1> USE DEF IInv, TableOK
<1>1. CASE Keeps
  BY <1>1 DEF Keeps
<1>2. ASSUME NEW h \in Gen, Creates(h) \/ Fails(h) \/ Cancels(h) PROVE rows[g].status = "SUCCEEDED"
  <2>1. rows'[h].status # "SUCCEEDED" /\ (g # h => rows'[g] = rows[g])
    BY <1>2 DEF Creates, CreateRow, NewRow, Fails, FailRow, Cancels, CancelRow, Row
  <2> QED
    BY <2>1
<1>3. ASSUME NEW h \in Gen, NEW d \in {0, Premium[h]}, Succeeds(h, d)
      PROVE  \/ rows[g].status = "SUCCEEDED"
             \/ \E w \in Worker : worker[w].pc = "succeed" /\ worker[w].gen = g
  BY <1>3 DEF Succeeds, SucceedRow
<1>4. ASSUME NEW h \in Gen, NEW n \in Nat, Shares(h, n) PROVE rows[g].status = "SUCCEEDED"
  BY <1>4 DEF Shares, ShareRow
<1> QED
  BY <1>1, <1>2, <1>3, <1>4, SystemStep DEF RowStep

\* What a step stores of an ad, and what it calls a success, has all its shots.
LEMMA AdStep == IInv /\ AdInv /\ [Next]_vars => AdInv'
<1> SUFFICES ASSUME IInv, AdInv, [Next]_vars PROVE AdInv'
  OBVIOUS
<1>0. worker \in [Worker -> Run] /\ IInv'
  BY NextIInv DEF IInv, ControlOK, WorkersOK
<1>1. ASSUME NEW w \in Worker, worker'[w].pc \in {"store", "succeed"}, NEW g \in Gen, worker'[w].gen = g
      PROVE  Rendered(g)'
  <2>1. CASE worker'[w] = worker[w]
    BY <1>1, <2>1, RenderedStays DEF AdInv
  <2>2. CASE worker'[w] # worker[w]
    <3>1. PICK run \in Run : worker'[w] = run /\ Moves(w, run)
      BY <1>0, <2>2, SystemMoves DEF RunsMove
    <3>2. run.gen = worker[w].gen
      BY <1>1, <3>1 DEF Moves, Owning, Working
    <3>3. Rendered(g)
      BY <1>1, <3>1, <3>2 DEF Moves, AdInv
    <3> QED
      BY <3>3, RenderedStays
  <2> QED
    BY <2>1, <2>2
<1>2. ASSUME NEW p \in Gen, Kind[p] = "AD", rows'[p].status = "SUCCEEDED"
      PROVE  \A c \in Shots(p) : rows'[c].status = "SUCCEEDED"
  <2>1. Rendered(p)
    BY <1>2, SuccessIsStored DEF AdInv, AdIsWhole, Rendered
  <2>2. Rendered(p)'
    BY <2>1, RenderedStays
  <2> QED
    BY <1>2, <2>2 DEF Rendered, Shots
<1>3. ASSUME NEW w \in Worker, worker'[w].pc \in {"store", "succeed"} PROVE worker'[w].gen \in Gen
  BY <1>0, <1>3 DEF IInv, ControlOK, WorkersOK, WorkerInv, RunOK
<1> QED
  BY <1>1, <1>2, <1>3 DEF AdInv, AdIsWhole, Rendered, Shots

\* An ad never succeeds without every shot of its plan.
THEOREM AdsAreWhole == Spec => []AdIsWhole
<1>1. Init => AdInv
  BY DEF Init, WorkerInit, Idle, RowsInit, NewRow, AdInv, AdIsWhole
<1>2. AdInv => AdIsWhole
  BY DEF AdInv
<1> QED
  BY <1>1, <1>2, AdStep, Invariance, PTL DEF Spec

\* What a run of a batch is about to give back, and what was given back, is at most the share of a
\* batch of which one photo worked.
ShareInv ==
  /\ \A w \in Worker : worker[w].pc = "share" => worker[w].share <= MostShare(worker[w].gen)
  /\ \A p \in Gen : Kind[p] = "BATCH" => ledger[p].share <= MostShare(p)

\* A batch has a most it can give back.
LEMMA MostShareNat ==
  ASSUME NEW p \in Gen, Kind[p] = "BATCH"
  PROVE  MostShare(p) \in Nat
<1>1. Shots(p) # {} /\ IsFiniteSet(Shots(p)) /\ Price[p] \in Nat
  BY BatchAssumption, GenAssumption, FS_Subset DEF Shots
<1>2. Cardinality(Shots(p)) \in Nat \ {0}
  BY <1>1, FS_CardinalityType, FS_EmptySet
<1>3. Cardinality(Shots(p)) - 1 \in Nat
  BY <1>2
<1> QED
  BY <1>1, <1>2, <1>3, ShareNat DEF MostShare

\* A batch's share entry is posted once, and what is posted is what its run gathered.
LEMMA ShareStep == IInv /\ ShareInv /\ [Next]_vars => ShareInv'
<1> SUFFICES ASSUME IInv, ShareInv, [Next]_vars PROVE ShareInv'
  OBVIOUS
<1>0. worker \in [Worker -> Run] /\ TableOK
  BY DEF IInv, ControlOK, WorkersOK
<1>1. ASSUME NEW w \in Worker, worker'[w].pc = "share" PROVE worker'[w].share <= MostShare(worker'[w].gen)
  <2>1. CASE worker'[w] = worker[w]
    BY <1>1, <2>1 DEF ShareInv
  <2>2. CASE worker'[w] # worker[w]
    <3>1. PICK run \in Run : worker'[w] = run /\ Moves(w, run)
      BY <1>0, <2>2, SystemMoves DEF RunsMove
    <3>2. run.gen = worker[w].gen
      BY <1>1, <3>1 DEF Moves, Owning, Working
    <3> QED
      BY <1>1, <3>1, <3>2 DEF Moves, ShareInv
  <2> QED
    BY <2>1, <2>2
<1>2. ASSUME NEW p \in Gen, Kind[p] = "BATCH" PROVE ledger'[p].share <= MostShare(p)
  <2>0. ledger[p].share <= MostShare(p) /\ ledger[p] \in Entries /\ MostShare(p) \in Nat /\ rows[p] \in Row
    BY <1>0, <1>2, MostShareNat DEF ShareInv, TableOK
  <2>1. CASE Keeps
    BY <2>0, <2>1 DEF Keeps
  <2>2. ASSUME NEW h \in Gen, NEW n \in Nat, NEW key \in {"debit", "refund", "downgrade"},
               ledger' = [ledger EXCEPT ![h] = Post(@, key, n)]
        PROVE  ledger'[p].share <= MostShare(p)
    BY <1>0, <2>0, <2>2, PostValue DEF TableOK
  <2>3. ASSUME NEW h \in Gen, Creates(h) PROVE ledger'[p].share <= MostShare(p)
    BY <2>2, <2>3, GenAssumption DEF Creates, CreateRow
  <2>4. ASSUME NEW h \in Gen, Fails(h) \/ Cancels(h) PROVE ledger'[p].share <= MostShare(p)
    <3>1. rows[h].credits \in Nat
      BY <1>0 DEF TableOK, Row
    <3> QED
      BY <2>2, <2>4, <3>1 DEF Fails, FailRow, Cancels, CancelRow
  <2>5. ASSUME NEW h \in Gen, NEW d \in {0, Premium[h]}, Succeeds(h, d) PROVE ledger'[p].share <= MostShare(p)
    BY <2>2, <2>5, PremiumLeaves DEF Succeeds, SucceedRow
  <2>6. ASSUME NEW h \in Gen, NEW n \in Nat, Shares(h, n) PROVE ledger'[p].share <= MostShare(p)
    <3> DEFINE m == IF n < rows[h].credits THEN n ELSE rows[h].credits
    <3>1. n <= MostShare(h)
      BY <2>6 DEF Shares, ShareInv
    <3>2. ledger' = [ledger EXCEPT ![h] = Post(@, "share", m)]
      BY <2>6 DEF Shares, ShareRow
    <3>3. m \in Nat /\ m <= n /\ ledger[h] \in Entries
      BY <1>0 DEF TableOK, Row
    <3> HIDE DEF m
    <3>4. CASE p # h
      BY <1>0, <2>0, <3>2, <3>4 DEF TableOK
    <3>5. CASE p = h
      <4>1. ledger'[p].share \in {m, ledger[p].share}
        BY <1>0, <3>2, <3>3, <3>5 DEF TableOK, Post, Entries
      <4> QED
        BY <2>0, <3>1, <3>3, <3>5, <4>1
    <3> QED
      BY <3>4, <3>5
  <2> QED
    BY <2>1, <2>3, <2>4, <2>5, <2>6, SystemStep DEF RowStep
<1> QED
  BY <1>1, <1>2 DEF ShareInv, MostShare, Shots

\* Whatever worker died or was paused between the gathering of a batch and its refund, and however
\* often it was assembled again, the batch pays for one photo at least until it ends.
THEOREM SharesReturnedOnce == Spec => []ShareComesBackOnce
<1>1. Init => ShareInv
  <2> SUFFICES ASSUME Init PROVE ShareInv
    OBVIOUS
  <2>1. ASSUME NEW p \in Gen, Kind[p] = "BATCH" PROVE ledger[p].share <= MostShare(p)
    <3>1. ledger[p].share = 0
      BY DEF Init, RowsInit
    <3> QED
      BY <2>1, <3>1, MostShareNat
  <2> QED
    BY <2>1 DEF Init, WorkerInit, Idle, ShareInv
<1>2. ShareInv => ShareComesBackOnce
  BY DEF ShareInv, ShareComesBackOnce, MostShare
<1> QED
  BY <1>1, <1>2, ShareStep, Invariance, PTL DEF Spec

-----------------------------------------------------------------------------
(* The sweep.                                                              *)

\* A row that checked in between the sweep's query and its update is not reclaimed by it.
THEOREM LivingAreSpared == Spec => SweepSparesTheLiving
<1>1. ASSUME IInv, [Next]_vars, NEW g \in Gen, swept[g] = "RUNNING", swept'[g] = "no",
             rows[g].status = "RUNNING", rows[g].hb = "fresh"
      PROVE  rows'[g].status = "RUNNING"
  <2>0. IInv
    BY <1>1
  <2>1. ASSUME NEW h \in Gen, Sweep(h) PROVE rows'[g].status = "RUNNING"
    <3>1. CASE h # g
      <4>1. \A k \in Gen : k # h => swept'[k] = swept[k]
        BY <2>0, <2>1 DEF Sweep, SweepRequeue, SweepReassemble, SweepFail, SweepSkip, Swept, IInv, ControlOK
      <4> QED
        BY <1>1, <3>1, <4>1
    <3>2. CASE h = g
      <4>1. SweepSkip(g)
        BY <1>1, <2>1, <3>2 DEF Sweep, SweepRequeue, SweepReassemble, SweepFail, StaleGuard
      <4> QED
        BY <1>1, <4>1 DEF SweepSkip, rowVars
    <3> QED
      BY <3>1, <3>2
  <2>2. CASE SweepSelect
    BY <1>1, <2>2 DEF SweepSelect
  <2>3. CASE SweepDies
    BY <1>1, <2>3 DEF SweepDies, rowVars
  <2>4. CASE WorkerStep /\ UNCHANGED swept
    BY <1>1, <2>4
  <2>5. ASSUME NEW h \in Gen, Api(h) PROVE FALSE
    BY <1>1, <2>5 DEF Api, Request, Cancel
  <2>6. ASSUME NEW h \in Gen, Dispatch(h) PROVE FALSE
    BY <1>1, <2>6 DEF Dispatch, RedispatchOrphan, WakeReadyParent
  <2>7. CASE Environment /\ ~SweepDies
    BY <1>1, <2>7 DEF Environment, Lapse, Age, RedisDown, RedisUp, LoseJob
  <2>8. CASE UNCHANGED vars
    BY <1>1, <2>8 DEF vars
  <2> QED
    BY <1>1, <2>1, <2>2, <2>3, <2>4, <2>5, <2>6, <2>7, <2>8 DEF Next
<1>2. IInv /\ [Next]_vars =>
        [\A g \in Gen : swept[g] = "RUNNING" /\ swept'[g] = "no" /\ rows[g].status = "RUNNING" /\ rows[g].hb = "fresh"
           => rows'[g].status = "RUNNING"]_vars
  BY <1>1
<1> QED
  BY <1>2, Invariance, PTL DEF Spec, SweepSparesTheLiving

-----------------------------------------------------------------------------
(* The refinement of CreditHold.                                           *)

\* What the hold of a row is, status by status.
LEMMA HoldValues ==
  ASSUME NEW g \in Gen
  PROVE  /\ rows[g].status = "ABSENT" => HoldOf(g) = "none"
         /\ rows[g].status \in {"QUEUED", "RUNNING"} => HoldOf(g) = "held"
         /\ rows[g].status = "SUCCEEDED" => HoldOf(g) = "captured"
         /\ rows[g].status \in {"FAILED", "CANCELLED"} => HoldOf(g) = "released"
  BY DEF HoldOf

\* And after a step.
LEMMA HoldValuesNext ==
  ASSUME NEW g \in Gen
  PROVE  /\ rows'[g].status = "ABSENT" => HoldOf(g)' = "none"
         /\ rows'[g].status \in {"QUEUED", "RUNNING"} => HoldOf(g)' = "held"
         /\ rows'[g].status = "SUCCEEDED" => HoldOf(g)' = "captured"
         /\ rows'[g].status \in {"FAILED", "CANCELLED"} => HoldOf(g)' = "released"
  BY DEF HoldOf

\* Nothing but the touched row's hold and payment changes.
LEMMA OthersKeep ==
  ASSUME NEW g \in Gen, NEW h \in Gen, rows'[h] = rows[h], ledger'[h] = ledger[h]
  PROVE  HoldOf(h)' = HoldOf(h) /\ Paid(h)' = Paid(h)
  BY DEF HoldOf, Paid

\* A step of one row is a step of its hold if hold and payment move as the hold allows.
LEMMA HoldStep ==
  ASSUME NEW g \in Gen,
         \A h \in Gen : h # g => HoldOf(h)' = HoldOf(h) /\ Paid(h)' = Paid(h),
         \/ HoldOf(g) = "none" /\ HoldOf(g)' = "held" /\ Paid(g)' = Price[g]
         \/ HoldOf(g) = "held" /\ HoldOf(g)' = "captured" /\ Paid(g)' \in 0..Price[g]
         \/ HoldOf(g) = "held" /\ HoldOf(g)' = "released" /\ Paid(g)' = 0
  PROVE  CH!Next
<1> DEFINE H == [h \in Gen |-> HoldOf(h)]
           P == [h \in Gen |-> Paid(h)]
<1>1. H' = [H EXCEPT ![g] = HoldOf(g)']
  OBVIOUS
<1>2. P' = [P EXCEPT ![g] = Paid(g)']
  OBVIOUS
<1>3. H[g] = HoldOf(g)
  OBVIOUS
<1>4. CASE HoldOf(g) = "none" /\ HoldOf(g)' = "held" /\ Paid(g)' = Price[g]
  BY <1>1, <1>2, <1>3, <1>4 DEF CH!Next, CH!Hold
<1>5. CASE HoldOf(g) = "held" /\ HoldOf(g)' = "captured" /\ Paid(g)' \in 0..Price[g]
  BY <1>1, <1>2, <1>3, <1>5 DEF CH!Next, CH!Capture
<1>6. CASE HoldOf(g) = "held" /\ HoldOf(g)' = "released" /\ Paid(g)' = 0
  BY <1>1, <1>2, <1>3, <1>6 DEF CH!Next, CH!Release
<1> QED
  BY <1>4, <1>5, <1>6

\* What the hold and the payment of a row are, now and after a step.
LEMMA HoldAndPaid ==
  ASSUME TableOK, MoneyInv, TableOK', MoneyInv', NEW g \in Gen, Kind[g] # "BATCH"
  PROVE  /\ rows[g].status = "ABSENT" => HoldOf(g) = "none" /\ Paid(g) = 0
         /\ rows[g].status \in {"QUEUED", "RUNNING"} => HoldOf(g) = "held" /\ Paid(g) = Price[g]
         /\ rows'[g].status \in {"QUEUED", "RUNNING"} => HoldOf(g)' = "held" /\ Paid(g)' = Price[g]
         /\ rows'[g].status = "SUCCEEDED" => HoldOf(g)' = "captured" /\ Paid(g)' \in 0..Price[g]
         /\ rows'[g].status \in {"FAILED", "CANCELLED"} => HoldOf(g)' = "released" /\ Paid(g)' = 0
<1>1. /\ ledger[g] \in Entries /\ MoneyOK(rows[g], ledger[g], g)
      /\ ledger'[g] \in Entries /\ MoneyOK(rows'[g], ledger'[g], g)
  BY DEF TableOK, MoneyInv
<1>2. /\ rows[g].status = "ABSENT" => Paid(g) = 0
      /\ rows[g].status \in {"QUEUED", "RUNNING"} => Paid(g) = Price[g]
  BY <1>1, EntriesAddUp DEF Paid
<1>3. /\ rows'[g].status \in {"QUEUED", "RUNNING"} => Paid(g)' = Price[g]
      /\ rows'[g].status = "SUCCEEDED" => Paid(g)' \in 0..Price[g]
      /\ rows'[g].status \in {"FAILED", "CANCELLED"} => Paid(g)' = 0
  BY <1>1, EntriesAddUp DEF Paid
<1> QED
  BY <1>2, <1>3, HoldValues, HoldValuesNext

\* Every step of the table is a step of the holds, or none.
LEMMA RowStepIsHoldStep ==
  ASSUME TableOK, MoneyInv, TableOK', MoneyInv', RowStep, \A g \in Gen : Kind[g] # "BATCH"
  PROVE  CH!Next \/ UNCHANGED CH!holdVars
<1> USE DEF TableOK
<1>1. CASE Keeps
  <2>1. ASSUME NEW g \in Gen PROVE HoldOf(g)' = HoldOf(g) /\ Paid(g)' = Paid(g)
    BY <1>1, HoldValues, HoldValuesNext DEF Keeps, HoldOf, Paid
  <2> QED
    BY <2>1 DEF CH!holdVars
<1>2. ASSUME NEW g \in Gen, Creates(g) PROVE CH!Next
  <2>1. rows[g].status = "ABSENT" /\ rows'[g].status = "QUEUED"
    BY <1>2 DEF Creates, CreateRow, NewRow, Exists
  <2>2. \A h \in Gen : h # g => HoldOf(h)' = HoldOf(h) /\ Paid(h)' = Paid(h)
    BY <1>2, OthersKeep DEF Creates, CreateRow
  <2> QED
    BY <2>1, <2>2, HoldAndPaid, HoldStep
<1>3. ASSUME NEW g \in Gen, Fails(g) \/ Cancels(g) PROVE CH!Next
  <2>0. rows'[g].status \in {"FAILED", "CANCELLED"}
    BY <1>3 DEF Fails, Cancels, FailRow, CancelRow, Row
  <2>1. rows[g].status \in {"QUEUED", "RUNNING"}
    BY <1>3, ActivePrice DEF Fails, Cancels
  <2>2. \A h \in Gen : h # g => HoldOf(h)' = HoldOf(h) /\ Paid(h)' = Paid(h)
    BY <1>3, OthersKeep DEF Fails, Cancels, FailRow, CancelRow
  <2> QED
    BY <2>0, <2>1, <2>2, HoldAndPaid, HoldStep
<1>4. ASSUME NEW g \in Gen, NEW d \in {0, Premium[g]}, Succeeds(g, d) PROVE CH!Next
  <2>1. rows[g].status \in {"QUEUED", "RUNNING"} /\ rows'[g].status = "SUCCEEDED"
    BY <1>4, ActivePrice DEF Succeeds, SucceedRow
  <2>2. \A h \in Gen : h # g => HoldOf(h)' = HoldOf(h) /\ Paid(h)' = Paid(h)
    BY <1>4, OthersKeep DEF Succeeds, SucceedRow
  <2> QED
    BY <2>1, <2>2, HoldAndPaid, HoldStep
<1> QED
  BY <1>1, <1>2, <1>3, <1>4 DEF RowStep, Shares

\* Without batches the service implements the hold: whatever the workers, the queue, the sweep
\* and the clock do, a generation's price is held once, then captured or released, once.
THEOREM Refinement ==
  ASSUME \A g \in Gen : Kind[g] # "BATCH"
  PROVE  Spec => ImplementsCreditHold
<1>1. Init => CH!Init
  <2> SUFFICES ASSUME Init, NEW g \in Gen PROVE HoldOf(g) = "none" /\ Paid(g) = 0
    BY DEF CH!Init
  <2>1. rows[g].status = "ABSENT" /\ ledger[g] = [debit |-> 0, refund |-> 0, share |-> 0, downgrade |-> 0]
    BY DEF Init, RowsInit, NewRow
  <2> QED
    BY <2>1, HoldValues DEF Paid
<1>2. IInv /\ IInv' /\ [Next]_vars => [CH!Next]_CH!holdVars
  BY SystemStep, RowStepIsHoldStep DEF IInv
<1> QED
  BY <1>1, <1>2, Invariance, PTL DEF Spec, ImplementsCreditHold, CH!Spec
=============================================================================
