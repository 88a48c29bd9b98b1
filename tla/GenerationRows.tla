--------------------------- MODULE GenerationRows ---------------------------
(***************************************************************************)
(* The "generations" table and the wallet entries a generation owns.       *)
(*                                                                         *)
(* Every operator below is one statement (a conditional updateMany) or one *)
(* database transaction of GenerationService.  Nothing here decides WHEN a *)
(* statement runs: the worker, the scheduler and the API do, in the        *)
(* modules that extend this one.                                           *)
(*                                                                         *)
(* A row keeps what the code's guards read: status, stage, attempts,       *)
(* heartbeatAt, createdAt and credits.  Two clocks are abstracted to the   *)
(* comparisons the code makes with them: hb says whether heartbeatAt is    *)
(* null, within STALE_AFTER_MS, or older; old says whether createdAt is    *)
(* more than QUEUED_STALE_AFTER_MS ago.                                    *)
(***************************************************************************)
EXTENDS Integers, FiniteSets

CONSTANTS
  Gen,          \* generation ids
  None,         \* no generation, no queue
  Kind,         \* Gen -> "STANDALONE", "AD" or "BATCH" (the two PARENTs), "CHILD"
  ParentOf,     \* the parent of a child, None for every other row
  Price,        \* what the request debits for the row
  Premium,      \* the part of Price given back when a song is downgraded
  MaxAttempts   \* MAX_ATTEMPTS

Kinds == {"STANDALONE", "AD", "BATCH", "CHILD"}

ASSUME GenAssumption ==
  /\ IsFiniteSet(Gen)
  /\ None \notin Gen
  /\ Kind \in [Gen -> Kinds]
  /\ ParentOf \in [Gen -> Gen \cup {None}]
  /\ Price \in [Gen -> Nat]
  /\ Premium \in [Gen -> Nat]
  /\ MaxAttempts \in Nat \ {0}

\* A child is worth nothing and belongs to a parent; a paid row belongs to no one.
ASSUME PriceAssumption ==
  \A g \in Gen :
    /\ Kind[g] = "CHILD" => Price[g] = 0 /\ ParentOf[g] \in Gen
    /\ Kind[g] # "CHILD" => Price[g] > 0 /\ ParentOf[g] = None
    /\ Premium[g] <= Price[g]

VARIABLES
  rows,         \* the table: Gen -> Row
  ledger        \* the entries of the row's wallet that name the row, by idempotency key

rowVars == <<rows, ledger>>

Statuses == {"ABSENT", "QUEUED", "RUNNING", "SUCCEEDED", "FAILED", "CANCELLED"}
TERMINAL_STATUSES == {"SUCCEEDED", "FAILED", "CANCELLED"}

\* "working" stands for preparing, routing, generating and storing, which no guard reads.
Stages == {"queued", "working", "waiting", "composing", "done", "failed"}

Row == [status : Statuses, stage : Stages, attempts : Nat,
        hb : {"null", "fresh", "stale"}, old : BOOLEAN, credits : Nat]

\* The amounts posted under the row's idempotency keys; 0 when the key is unused.
Entries == [debit : Nat, refund : Nat, share : Nat, downgrade : Nat]

NewRow(g) == [status |-> "QUEUED", stage |-> "queued", attempts |-> 0,
              hb |-> "null", old |-> FALSE, credits |-> Price[g]]

RowsInit ==
  /\ rows = [g \in Gen |-> [NewRow(g) EXCEPT !.status = "ABSENT"]]
  /\ ledger = [g \in Gen |-> [debit |-> 0, refund |-> 0, share |-> 0, downgrade |-> 0]]

Exists(g)     == rows[g].status # "ABSENT"
Active(g)     == rows[g].status \in {"QUEUED", "RUNNING"}
Terminal(g)   == rows[g].status \in TERMINAL_STATUSES
IsParent(g)   == Kind[g] \in {"AD", "BATCH"}
Shots(p)      == {c \in Gen : ParentOf[c] = p}
Children(p)   == {c \in Shots(p) : Exists(c)}

\* A batch has a photo to work on: the request's schema refuses fewer than two.
ASSUME BatchAssumption == \A p \in Gen : Kind[p] = "BATCH" => Shots(p) # {}

-----------------------------------------------------------------------------
(* The ledger seen from one row: a key that was used returns the entry that *)
(* exists and posts nothing.                                                *)

\* Mutant of Post: the key is not looked up before the insert.
PostWithoutKey(entries, key, amount) == [entries EXCEPT ![key] = @ + amount]

Post(entries, key, amount) ==
  [entries EXCEPT ![key] = IF @ = 0 THEN amount ELSE @]

-----------------------------------------------------------------------------
(* Creation: the row and its debit commit together or not at all.          *)

CreateRow(g) ==
  /\ rows' = [rows EXCEPT ![g] = NewRow(g)]
  /\ ledger' = [ledger EXCEPT ![g] = Post(@, "debit", Price[g])]

\* createChild's upsert: a shot of a plan that is already there is left as it is.
UpsertChild(c) ==
  /\ rows' = IF Exists(c) THEN rows ELSE [rows EXCEPT ![c] = NewRow(c)]
  /\ UNCHANGED ledger

-----------------------------------------------------------------------------
(* Claims and hand-backs: conditional updates, each guarded by what the row *)
(* is at the moment of the write.                                           *)

\* Mutant of CanStart: the claim no longer requires the row to be QUEUED.
CanStartAny(g) == rows[g].status \in {"QUEUED", "RUNNING"}

CanStart(g) == rows[g].status = "QUEUED"

StartRow(g) ==
  rows' = [rows EXCEPT ![g].status = "RUNNING", ![g].hb = "fresh", ![g].attempts = @ + 1]

CanResume(g) ==
  /\ rows[g].status = "RUNNING"
  /\ IsParent(g)
  /\ rows[g].stage = "waiting"
  /\ rows[g].attempts < MaxAttempts

ResumeRow(g) ==
  rows' = [rows EXCEPT ![g].stage = "composing", ![g].hb = "fresh", ![g].attempts = @ + 1]

WaitRow(g) ==
  rows' = IF rows[g].status = "RUNNING"
          THEN [rows EXCEPT ![g].stage = "waiting", ![g].hb = "fresh"]
          ELSE rows

\* Mutant of CanRequeue: a row that already ended can be put back.
CanRequeueAny(g) == Exists(g)

CanRequeue(g) == rows[g].status = "RUNNING"

RequeueRow(g) ==
  rows' = [rows EXCEPT ![g].status = "QUEUED", ![g].hb = "null", ![g].stage = "queued"]

CanRetryAssembly(g) ==
  /\ rows[g].status = "RUNNING"
  /\ IsParent(g)
  /\ rows[g].stage = "composing"
  /\ rows[g].attempts < MaxAttempts

RetryAssemblyRow(g) ==
  rows' = [rows EXCEPT ![g].stage = "waiting", ![g].hb = "fresh"]

\* heartbeat and touchParent: any RUNNING row in S has just been heard from.
Beat(S) ==
  rows' = [g \in Gen |-> IF g \in S /\ rows[g].status = "RUNNING"
                         THEN [rows[g] EXCEPT !.hb = "fresh"]
                         ELSE rows[g]]

\* events.stage: narrates any row that has not ended, whoever holds it.
Staged(table, g, stage) ==
  IF table[g].status \in {"QUEUED", "RUNNING"}
  THEN [table EXCEPT ![g].stage = stage]
  ELSE table

SetStage(g, stage) == rows' = Staged(rows, g, stage)

-----------------------------------------------------------------------------
(* The four ways money moves after the debit.                              *)

\* Mutant of CanEnd: the terminal update is no longer conditional.
CanEndAgain(g) == Exists(g)

\* terminalCandidate and the notIn predicate of the same transaction.
CanEnd(g) == Exists(g) /\ ~Terminal(g)

\* Mutant of SucceedRow: the operands of the subtraction are swapped.
SucceedRowSwapped(g, downgrade) ==
  /\ rows' = [rows EXCEPT ![g].status = "SUCCEEDED", ![g].stage = "done",
                          ![g].credits = downgrade - @]
  /\ ledger' = [ledger EXCEPT ![g] = Post(@, "downgrade", downgrade)]

\* Mutant of SucceedRow: the premium comes back but the row still shows the full price.
SucceedRowFullPrice(g, downgrade) ==
  /\ rows' = [rows EXCEPT ![g].status = "SUCCEEDED", ![g].stage = "done"]
  /\ ledger' = [ledger EXCEPT ![g] = Post(@, "downgrade", downgrade)]

SucceedRow(g, downgrade) ==
  /\ rows' = [rows EXCEPT ![g].status = "SUCCEEDED", ![g].stage = "done",
                          ![g].credits = @ - downgrade]
  /\ ledger' = [ledger EXCEPT ![g] = Post(@, "downgrade", downgrade)]

FailRow(g) ==
  /\ rows' = [rows EXCEPT ![g].status = "FAILED", ![g].stage = "failed"]
  /\ ledger' = [ledger EXCEPT ![g] = Post(@, "refund", rows[g].credits)]

CancelRow(g) ==
  /\ rows' = [rows EXCEPT ![g].status = "CANCELLED", ![g].stage = "failed"]
  /\ ledger' = [ledger EXCEPT ![g] = Post(@, "refund", rows[g].credits)]

\* refundShare: a transaction of its own, before the parent succeeds.
ShareRow(g, amount) ==
  /\ ledger' = [ledger EXCEPT ![g] =
                  Post(@, "share", IF amount < rows[g].credits THEN amount ELSE rows[g].credits)]
  /\ UNCHANGED rows

\* What the wallet has paid for the row so far.
Paid(g) == ledger[g].debit - ledger[g].refund - ledger[g].share - ledger[g].downgrade
=============================================================================
