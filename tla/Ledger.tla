------------------------------- MODULE Ledger -------------------------------
(***************************************************************************)
(* The write paths of the ledger service: TransactionsService (deposit,    *)
(* withdraw, transfer, voidTransaction), AccountsService (create,          *)
(* updateStatus, updateLimit) and SnapshotService, over PostgreSQL as the  *)
(* code uses it through PostgresTransactionRunner.                         *)
(*                                                                         *)
(* Any number of requests run concurrently.  Every await of a handler is a *)
(* point where other requests may run, so a handler is a sequence of       *)
(* actions, one per SQL statement that reads or writes shared state; pc[r] *)
(* says which statement request r is about to run:                         *)
(*                                                                         *)
(*   lookup   postTransaction's idempotency fast path                      *)
(*   locking  SELECT ... ORDER BY id FOR UPDATE, one row at a time         *)
(*   check    the invariant gate, evaluated under the locks                *)
(*   insert   INSERT INTO transactions, with its unique reference          *)
(*   mark     markTransactionVoid                                          *)
(*   commit   the remaining writes of the database transaction and COMMIT  *)
(*   resolve  the lookup after a unique violation on the reference         *)
(*   plan     maybeSnapshot's reads, for the next leg                      *)
(*   snapshot insertSnapshot                                               *)
(*                                                                         *)
(* PostgreSQL (external) is modelled as READ COMMITTED with row locks: the *)
(* variables accounts..accountEvents are the COMMITTED tables, a locked    *)
(* row is read when its lock is granted, the writes of a transaction       *)
(* become visible all at once when it commits, and every lock it holds is  *)
(* released when it commits or rolls back.  An INSERT whose reference      *)
(* another open transaction has inserted waits for that transaction.       *)
(* Statements that only write rows the transaction has locked, or rows     *)
(* with a fresh id, are part of the commit action: nobody sees them        *)
(* earlier.                                                                *)
(***************************************************************************)
EXTENDS LedgerSchema

CONSTANTS
  SNAPSHOT_INTERVAL_EVENTS,  \* snapshot every that many entries, 0 = never
  SNAPSHOT_MAX_LAG_EVENTS,   \* snapshot when that many entries behind, 0 = never
  TX_MAX_RETRIES             \* retries of a transaction after a lock timeout

ASSUME ConfigAssumption ==
  /\ SNAPSHOT_INTERVAL_EVENTS \in Nat
  /\ SNAPSHOT_MAX_LAG_EVENTS \in Nat
  /\ TX_MAX_RETRIES \in Nat

VARIABLES
  \* the committed tables
  accounts, transactions, entries, accountEvents,
  snapshots,   \* table snapshots: account -> (seq -> balance)
  lock,        \* the request whose open transaction holds the row, or NoRequest
  \* the requests in flight
  pc,          \* the statement a request is about to run
  op,          \* what it was asked to do
  legs,        \* the double-entry transaction it built
  locked,      \* the account rows it read when their locks were granted
  attempt,     \* the retries withTransaction has used
  pending,     \* after its commit: the accounts whose snapshot is still to be considered
  planned,     \* the snapshot it is about to insert
  result       \* its answer

tables == <<accounts, transactions, entries, accountEvents>>
vars == <<accounts, transactions, entries, accountEvents, snapshots, lock,
          pc, op, legs, locked, attempt, pending, planned, result>>

\* The ledger as its clients may think of it.
Serial == INSTANCE SerialLedger

-----------------------------------------------------------------------------

NoSnapshot == [account |-> 0, seq |-> 0, balance |-> 0]
NoResult == [code |-> "none", tx |-> NoRequest]
NoLocks == [a \in Account |-> NoRow]

Init ==
  /\ accounts = InitialAccounts
  /\ transactions = [t \in Request |-> NoTransaction]
  /\ entries = [a \in Account |-> <<>>]
  /\ accountEvents = InitialEvents
  /\ snapshots = [a \in Account |-> <<>>]
  /\ lock = [a \in Account |-> NoRequest]
  /\ pc = [r \in Request |-> "idle"]
  /\ op = [r \in Request |-> NoOp]
  /\ legs = [r \in Request |-> <<>>]
  /\ locked = [r \in Request |-> NoLocks]
  /\ attempt = [r \in Request |-> 0]
  /\ pending = [r \in Request |-> {}]
  /\ planned = [r \in Request |-> NoSnapshot]
  /\ result = [r \in Request |-> NoResult]

-----------------------------------------------------------------------------
(* Helpers *)

Exists(a) == accounts[a].status # "absent"

\* findTransactionByReference sees committed rows only.
Committed(ref) == {t \in Request : transactions[t].reference = ref}

\* Open transactions that have inserted a row with this reference.
Inserted(ref) == {r \in Request : pc[r] = "commit" /\ IsPost(op[r]) /\ op[r].reference = ref}

\* The rows lockForUpdate selects: those of its ids that exist.
Targets(r) == {a \in Account : /\ Exists(a)
                               /\ IF op[r].kind \in {"status", "limit"}
                                  THEN a = op[r].account ELSE a \in DOMAIN legs[r]}

\* The rows it has still to lock, and the next one: ORDER BY id.
Unlocked(r) == {a \in Targets(r) : lock[a] # r}

\* Slip: the rows are locked in leg order, the credited account first.
NextRow_LegOrder(r) ==
  CHOOSE a \in Unlocked(r) : \A b \in Unlocked(r) :
    a = b \/ a \notin DOMAIN legs[r] \/ legs[r][a].direction = "credit"

NextRow(r) == CHOOSE a \in Unlocked(r) : \A b \in Unlocked(r) : a <= b

\* COMMIT or ROLLBACK: every row lock of r is released.
Release(r) == lock' = [a \in Account |-> IF lock[a] = r THEN NoRequest ELSE lock[a]]

\* The request is answered and forgotten.
Answer(r, code, tx) ==
  /\ pc' = [pc EXCEPT ![r] = "done"]
  /\ result' = [result EXCEPT ![r] = [code |-> code, tx |-> tx]]
  /\ legs' = [legs EXCEPT ![r] = <<>>]
  /\ locked' = [locked EXCEPT ![r] = NoLocks]
  /\ attempt' = [attempt EXCEPT ![r] = 0]
  /\ pending' = [pending EXCEPT ![r] = {}]
  /\ planned' = [planned EXCEPT ![r] = NoSnapshot]

\* The request ends and writes nothing more: a ROLLBACK after an error, or the
\* COMMIT of a transaction that found nothing to do.
EndUnwritten(r, code) ==
  /\ Release(r)
  /\ Answer(r, code, NoRequest)
  /\ UNCHANGED <<tables, snapshots, op>>

\* r moves on to its next statement and nothing else changes.
Goto(r, statement) == pc' = [pc EXCEPT ![r] = statement]

\* The locals a request starts and keeps.
Locals == <<legs, locked, attempt, pending, planned, result>>

-----------------------------------------------------------------------------
(* Requests arrive.  The reads a handler makes before its transaction are   *)
(* taken as one step: they read rows and columns that never change once     *)
(* written, except a status, which is one read.                             *)

\* The handler goes on to its first statement.
Begin(r, o, statement, ls) ==
  /\ op' = [op EXCEPT ![r] = o]
  /\ legs' = [legs EXCEPT ![r] = ls]
  /\ Goto(r, statement)
  /\ UNCHANGED <<tables, snapshots, lock, locked, attempt, pending, planned, result>>

\* The handler returns or throws before it opens a transaction.
AnswerAtOnce(r, o, code) ==
  /\ op' = [op EXCEPT ![r] = o]
  /\ Answer(r, code, NoRequest)
  /\ UNCHANGED <<tables, snapshots, lock>>

\* deposit, withdraw, transfer: read the accounts, build the transaction.
ReceivePost(r, o) ==
  /\ pc[r] = "idle" /\ IsPost(o)
  /\ IF \E a \in ReadAccounts(o) : ~Exists(a) THEN AnswerAtOnce(r, o, "ACCOUNT_NOT_FOUND")
     ELSE IF buildOutcome(o) # "OK" THEN AnswerAtOnce(r, o, buildOutcome(o))
     ELSE Begin(r, o, IF o.reference = NoRef THEN "locking" ELSE "lookup", LegsOf(o))

\* voidTransaction: read the original and its entries, build the reversal.
ReceiveVoid(r, o) ==
  LET reversal == ReversalLegs(Serial!LegsWritten(o.target))
  IN  /\ pc[r] = "idle" /\ o.kind = "void"
      /\ CASE transactions[o.target].status = "none" -> AnswerAtOnce(r, o, "NOT_FOUND")
           [] transactions[o.target].status = "void" -> AnswerAtOnce(r, o, "INVALID_TRANSACTION")
           [] OTHER -> IF OneCurrencyBalanced(reversal) THEN Begin(r, o, "locking", reversal)
                       ELSE AnswerAtOnce(r, o, "UNBALANCED_TRANSACTION")

\* updateStatus: the unlocked read answers what it can at once.
ReceiveStatus(r, o) ==
  /\ pc[r] = "idle" /\ o.kind = "status"
  /\ CASE accounts[o.account].status = "absent" -> AnswerAtOnce(r, o, "ACCOUNT_NOT_FOUND")
       [] accounts[o.account].status = "closed" -> AnswerAtOnce(r, o, "INVALID_TRANSACTION")
       [] accounts[o.account].status = o.status -> AnswerAtOnce(r, o, "OK")
       [] OTHER -> Begin(r, o, "locking", <<>>)

\* updateLimit goes straight to its transaction.
ReceiveLimit(r, o) ==
  /\ pc[r] = "idle" /\ o.kind = "limit"
  /\ Begin(r, o, "locking", <<>>)

\* create: a row with a fresh id and its account_opened event, in one
\* transaction that touches nothing another request can see.  Its COMMIT may
\* take effect and go unacknowledged.
ReceiveCreate(r, o) ==
  /\ pc[r] = "idle" /\ o.kind = "create" /\ ~Exists(o.account)
  /\ accounts' = [accounts EXCEPT ![o.account] = NewRow(o.overdraftLimit)]
  /\ accountEvents' = [accountEvents EXCEPT ![o.account] =
       Append(@, LimitEvent("account_opened", o.overdraftLimit))]
  /\ op' = [op EXCEPT ![r] = o]
  /\ Answer(r, "OK", NoRequest) \/ Answer(r, "INTERNAL_ERROR", NoRequest)
  /\ UNCHANGED <<transactions, entries, snapshots, lock>>

\* create, when the connection is lost before its COMMIT.
CreateLost(r, o) ==
  /\ pc[r] = "idle" /\ o.kind = "create"
  /\ AnswerAtOnce(r, o, "INTERNAL_ERROR")

Receive(r) == \E o \in Workload :
  ReceivePost(r, o) \/ ReceiveVoid(r, o) \/ ReceiveStatus(r, o)
  \/ ReceiveLimit(r, o) \/ ReceiveCreate(r, o) \/ CreateLost(r, o)

-----------------------------------------------------------------------------
(* postTransaction, up to its transaction *)

\* A repeated reference resolves to the transaction that already has it.
Lookup(r) ==
  /\ pc[r] = "lookup"
  /\ IF Committed(op[r].reference) = {}
     THEN Goto(r, "locking") /\ UNCHANGED <<Locals, op>>
     ELSE \E t \in Committed(op[r].reference) : Answer(r, "OK", t) /\ UNCHANGED op
  /\ UNCHANGED <<tables, snapshots, lock>>

-----------------------------------------------------------------------------
(* Inside withTransaction: lockForUpdate *)

\* Slip: a plain SELECT, which waits for nobody.
LockRow_NoWait(r) ==
  /\ pc[r] = "locking" /\ Unlocked(r) # {}
  /\ lock' = [lock EXCEPT ![NextRow(r)] = r]
  /\ locked' = [locked EXCEPT ![r][NextRow(r)] = accounts[NextRow(r)]]
  /\ Goto(r, IF Unlocked(r) = {NextRow(r)} THEN "check" ELSE "locking")
  /\ UNCHANGED <<tables, snapshots, op, legs, attempt, pending, planned, result>>

\* The next row's lock is granted and the row is read.
LockRow(r) ==
  /\ pc[r] = "locking" /\ Unlocked(r) # {}
  /\ lock[NextRow(r)] = NoRequest
  /\ lock' = [lock EXCEPT ![NextRow(r)] = r]
  /\ locked' = [locked EXCEPT ![r][NextRow(r)] = accounts[NextRow(r)]]
  /\ Goto(r, IF Unlocked(r) = {NextRow(r)} THEN "check" ELSE "locking")
  /\ UNCHANGED <<tables, snapshots, op, legs, attempt, pending, planned, result>>

\* No row at all: AccountNotFoundError.
LockNothing(r) ==
  /\ pc[r] = "locking" /\ Targets(r) = {}
  /\ EndUnwritten(r, "ACCOUNT_NOT_FOUND")

\* The INSERT waits while another open transaction holds the reference.
WaitsForReference(r) ==
  /\ pc[r] = "insert"
  /\ op[r].reference # NoRef
  /\ Inserted(op[r].reference) # {}

WaitsForRow(r) ==
  /\ pc[r] = "locking" /\ Unlocked(r) # {}
  /\ lock[NextRow(r)] # NoRequest

\* Slip: one retry too many.
LockTimeout_OneMore(r) ==
  /\ WaitsForRow(r) \/ WaitsForReference(r)
  /\ attempt' = [attempt EXCEPT ![r] = @ + 1]
  /\ locked' = [locked EXCEPT ![r] = NoLocks]
  /\ Release(r)
  /\ Goto(r, "locking")
  /\ UNCHANGED <<tables, snapshots, op, legs, pending, planned, result>>

\* A lock wait ends with a retryable error (55P03, 40P01): the transaction is
\* rolled back and run again from its first statement while retries are left.
LockTimeout(r) ==
  /\ WaitsForRow(r) \/ WaitsForReference(r)
  /\ IF attempt[r] < TX_MAX_RETRIES
     THEN /\ attempt' = [attempt EXCEPT ![r] = @ + 1]
          /\ locked' = [locked EXCEPT ![r] = NoLocks]
          /\ Release(r)
          /\ Goto(r, "locking")
          /\ UNCHANGED <<tables, snapshots, op, legs, pending, planned, result>>
     ELSE EndUnwritten(r, "CONFLICT_SEQUENCE")

-----------------------------------------------------------------------------
(* Inside withTransaction: the checks under lock *)

\* Slip: the balance before the entry is compared with the limit.
LegOutcome_Before(r, a) ==
  assertPostAllowed(locked[r][a].status,
    balancesFor(NormalSide[a], entries[a], snapshots[a]), locked[r][a].overdraftLimit)

\* Slip: the status read before the lock is trusted.
LegOutcome_NoStatus(r, a) ==
  assertPostAllowed("active",
    balanceAfterEntry(balancesFor(NormalSide[a], entries[a], snapshots[a]),
                      NormalSide[a], legs[r][a].direction, legs[r][a].amount),
    locked[r][a].overdraftLimit)

\* The gate of collectEntrySeqs for one leg: the locked row and the
\* snapshot-backed balance.
LegOutcome(r, a) ==
  assertPostAllowed(
    locked[r][a].status,
    balanceAfterEntry(balancesFor(NormalSide[a], entries[a], snapshots[a]),
                      NormalSide[a], legs[r][a].direction, legs[r][a].amount),
    locked[r][a].overdraftLimit)

\* collectEntrySeqs: the first leg that fails decides the error.  Which leg is
\* first is left open.
CheckLegs(r) ==
  /\ pc[r] = "check" /\ (IsPost(op[r]) \/ op[r].kind = "void")
  /\ IF \A a \in DOMAIN legs[r] : LegOutcome(r, a) = "OK"
     THEN /\ Goto(r, IF IsPost(op[r]) THEN "insert" ELSE "mark")
          /\ UNCHANGED <<tables, snapshots, lock, op, Locals>>
     ELSE \E a \in DOMAIN legs[r] :
            LegOutcome(r, a) # "OK" /\ EndUnwritten(r, LegOutcome(r, a))

\* Slip: the balance is not looked at.
MayNotClose_Never(r, a) == FALSE

\* Closing needs a zero balance.
MayNotClose(r, a) ==
  /\ op[r].status = "closed"
  /\ balancesFor(NormalSide[a], entries[a], snapshots[a]) # 0

\* updateStatus re-examines the locked row: closed is final, the same status
\* is a no-op.
CheckStatus(r) ==
  LET a == op[r].account
      current == locked[r][a]
  IN  /\ pc[r] = "check" /\ op[r].kind = "status"
      /\ CASE current.status = "closed" -> EndUnwritten(r, "INVALID_TRANSACTION")
           [] current.status = op[r].status -> EndUnwritten(r, "OK")
           [] OTHER ->
              IF MayNotClose(r, a)
              THEN EndUnwritten(r, "INVALID_TRANSACTION")
              ELSE Goto(r, "commit") /\ UNCHANGED <<tables, snapshots, lock, op, Locals>>

\* Slip: a closed account is not refused.
CheckLimit_Always(r) ==
  /\ pc[r] = "check" /\ op[r].kind = "limit"
  /\ Goto(r, "commit") /\ UNCHANGED <<tables, snapshots, lock, op, Locals>>

\* updateLimit only refuses a closed account.
CheckLimit(r) ==
  /\ pc[r] = "check" /\ op[r].kind = "limit"
  /\ IF locked[r][op[r].account].status = "closed"
     THEN EndUnwritten(r, "ACCOUNT_CLOSED")
     ELSE Goto(r, "commit") /\ UNCHANGED <<tables, snapshots, lock, op, Locals>>

-----------------------------------------------------------------------------
(* Inside withTransaction: the writes *)

\* Slip: no unique index on the reference.
InsertTransaction_NotUnique(r) ==
  /\ pc[r] = "insert" /\ Goto(r, "commit")
  /\ UNCHANGED <<tables, snapshots, lock, op, Locals>>

\* Slip: the row locks end with the statement that took them.
InsertTransaction_Unlocks(r) ==
  /\ pc[r] = "insert" /\ Release(r) /\ Goto(r, "commit")
  /\ UNCHANGED <<tables, snapshots, op, Locals>>

\* insertTransaction: the unique index on the reference decides a race.  The
\* loser rolls back and looks the winner up.
InsertTransaction(r) ==
  /\ pc[r] = "insert" /\ ~WaitsForReference(r)
  /\ IF op[r].reference # NoRef /\ Committed(op[r].reference) # {}
     THEN Release(r) /\ Goto(r, "resolve")
     ELSE UNCHANGED lock /\ Goto(r, "commit")
  /\ UNCHANGED <<tables, snapshots, op, Locals>>

\* The catch clause of postTransaction.
Resolve(r) ==
  /\ pc[r] = "resolve"
  /\ \E t \in Committed(op[r].reference) : Answer(r, "OK", t)
  /\ UNCHANGED <<tables, snapshots, lock, op>>

\* Slip: the row count of the UPDATE is ignored.
MarkVoid_Unchecked(r) ==
  /\ pc[r] = "mark" /\ Goto(r, "commit")
  /\ UNCHANGED <<tables, snapshots, lock, op, Locals>>

\* markTransactionVoid changes the row only while it is still posted.
MarkVoid(r) ==
  /\ pc[r] = "mark"
  /\ IF transactions[op[r].target].status = "posted"
     THEN Goto(r, "commit") /\ UNCHANGED <<tables, snapshots, lock, op, Locals>>
     ELSE EndUnwritten(r, "INVALID_TRANSACTION")

\* Slip: the position of the last entry, not of the next.
EntrySeq_Last(r, a) == locked[r][a].currentSequence

\* The position a leg's entry gets, from the row read under lock.
EntrySeq(r, a) == locked[r][a].currentSequence + 1

\* Slip: the counters are not written back.
bumpSequences_Not(r) == UNCHANGED accounts

bumpSequences(r) ==
  accounts' = [a \in Account |->
    IF a \in DOMAIN legs[r]
    THEN [accounts[a] EXCEPT !.currentSequence = EntrySeq(r, a)]
    ELSE accounts[a]]

\* Slip: only the debit leg is written.
AppendEntries_OneLeg(r) ==
  /\ entries' = [a \in Account |->
       IF a \in DOMAIN legs[r] /\ legs[r][a].direction = "debit"
       THEN ExtendLog(entries[a], EntrySeq(r, a),
              [tx |-> r, direction |-> "debit", amount |-> legs[r][a].amount])
       ELSE entries[a]]
  /\ accounts' = [a \in Account |->
       IF a \in DOMAIN legs[r] /\ legs[r][a].direction = "debit"
       THEN [accounts[a] EXCEPT !.currentSequence = EntrySeq(r, a)]
       ELSE accounts[a]]

\* appendEntries, and the counters after it.
AppendEntries(r) ==
  /\ entries' = [a \in Account |->
       IF a \in DOMAIN legs[r]
       THEN ExtendLog(entries[a], EntrySeq(r, a),
              [tx |-> r, direction |-> legs[r][a].direction, amount |-> legs[r][a].amount])
       ELSE entries[a]]
  /\ bumpSequences(r)

TransactionWritten(r) ==
  IF IsPost(op[r])
  THEN [status |-> "posted", type |-> op[r].kind, reference |-> op[r].reference,
        original |-> NoRequest]
  ELSE [status |-> "posted", type |-> "reversal", reference |-> NoRef,
        original |-> op[r].target]

\* The tables after the transaction of r: a post, a void, a status or a limit.
WritePost(r) ==
  /\ AppendEntries(r)
  /\ transactions' = [transactions EXCEPT ![r] = TransactionWritten(r)]
  /\ UNCHANGED accountEvents

WriteVoid(r) ==
  /\ AppendEntries(r)
  /\ transactions' = [transactions EXCEPT ![op[r].target].status = "void",
                                          ![r] = TransactionWritten(r)]
  /\ UNCHANGED accountEvents

WriteStatus(r) ==
  LET a == op[r].account
  IN  /\ accounts' = [accounts EXCEPT
           ![a].status = op[r].status,
           ![a].statusHistory = Append(locked[r][a].statusHistory, op[r].status)]
      /\ accountEvents' = [accountEvents EXCEPT ![a] = Append(@, StatusEvent(op[r].status))]
      /\ UNCHANGED <<transactions, entries>>

\* Slip: the row changes without its event.
WriteLimit_NoEvent(r) ==
  /\ accounts' = [accounts EXCEPT ![op[r].account].overdraftLimit = op[r].overdraftLimit]
  /\ UNCHANGED <<transactions, entries, accountEvents>>

WriteLimit(r) ==
  LET a == op[r].account
  IN  /\ accounts' = [accounts EXCEPT ![a].overdraftLimit = op[r].overdraftLimit]
      /\ accountEvents' = [accountEvents EXCEPT ![a] =
           Append(@, LimitEvent("limit_changed", op[r].overdraftLimit))]
      /\ UNCHANGED <<transactions, entries>>

Write(r) ==
  CASE IsPost(op[r]) -> WritePost(r)
    [] op[r].kind = "void" -> WriteVoid(r)
    [] op[r].kind = "status" -> WriteStatus(r)
    [] OTHER -> WriteLimit(r)

\* COMMIT succeeds and its acknowledgement arrives.  A post or a void goes on
\* to snapshotAfterCommit.
Commit(r) ==
  /\ pc[r] = "commit"
  /\ Write(r)
  /\ Release(r)
  /\ IF op[r].kind \in {"status", "limit"}
     THEN Answer(r, "OK", NoRequest)
     ELSE /\ Goto(r, "plan")
          /\ pending' = [pending EXCEPT ![r] = DOMAIN legs[r]]
          /\ UNCHANGED <<legs, locked, attempt, planned, result>>
  /\ UNCHANGED <<snapshots, op>>

\* Slip: a lost connection is reported like an exhausted retry budget.
CommitUnacknowledged_AsConflict(r) ==
  /\ pc[r] = "commit"
  /\ Write(r)
  /\ Release(r)
  /\ Answer(r, "CONFLICT_SEQUENCE", NoRequest)
  /\ UNCHANGED <<snapshots, op>>

\* COMMIT succeeds but the connection is lost before the acknowledgement: the
\* client gets an error for a transaction that took effect.
CommitUnacknowledged(r) ==
  /\ pc[r] = "commit"
  /\ Write(r)
  /\ Release(r)
  /\ Answer(r, "INTERNAL_ERROR", NoRequest)
  /\ UNCHANGED <<snapshots, op>>

\* The connection, or the process, is lost: an open transaction is rolled back,
\* and a request that has committed is cut off before its answer.
ConnectionLost(r) ==
  /\ pc[r] \notin {"idle", "done"}
  /\ EndUnwritten(r, "INTERNAL_ERROR")

-----------------------------------------------------------------------------
(* snapshotAfterCommit: best effort, leg by leg *)

\* maybeSnapshot: is a snapshot due at this position?
SnapshotDue(a, seq) ==
  \/ SNAPSHOT_INTERVAL_EVENTS > 0 /\ seq % SNAPSHOT_INTERVAL_EVENTS = 0
  \/ /\ SNAPSHOT_MAX_LAG_EVENTS > 0
     /\ seq - latestSnapshotSeq(snapshots[a]) >= SNAPSHOT_MAX_LAG_EVENTS

\* Slip: today's balance under an earlier position.
takeSnapshot_Current(a, seq) ==
  [account |-> a, seq |-> seq,
   balance |-> balancesFor(NormalSide[a], entries[a], snapshots[a])]

\* takeSnapshot's read: the balance up to the position of the request's entry.
takeSnapshot(a, seq) ==
  [account |-> a, seq |-> seq, balance |-> balanceUpToSeq(NormalSide[a], entries[a], seq)]

\* maybeSnapshot's decision for one leg and takeSnapshot's read, or the end
\* of the loop: view() reads the committed transaction back.
PlanSnapshot(r) ==
  /\ pc[r] = "plan"
  /\ \/ /\ pending[r] = {}
        /\ Answer(r, "OK", r)
     \/ \E a \in pending[r] :
          LET seq == EntrySeq(r, a)
          IN  /\ pending' = [pending EXCEPT ![r] = @ \ {a}]
              /\ IF SnapshotDue(a, seq)
                 THEN /\ planned' = [planned EXCEPT ![r] = takeSnapshot(a, seq)]
                      /\ Goto(r, "snapshot")
                 ELSE UNCHANGED <<planned, pc>>
              /\ UNCHANGED <<legs, locked, attempt, result>>
  /\ UNCHANGED <<tables, snapshots, lock, op>>

\* insertSnapshot: its foreign key waits for a FOR UPDATE lock on the account
\* row; a position that is taken is left alone (ON CONFLICT DO NOTHING).
InsertSnapshot(r) ==
  LET p == planned[r]
  IN  /\ pc[r] = "snapshot"
      /\ lock[p.account] = NoRequest
      /\ snapshots' = [snapshots EXCEPT ![p.account] =
           IF p.seq \in DOMAIN @ THEN @ ELSE ExtendLog(@, p.seq, p.balance)]
      /\ planned' = [planned EXCEPT ![r] = NoSnapshot]
      /\ Goto(r, "plan")
      /\ UNCHANGED <<tables, lock, op, legs, locked, attempt, pending, result>>

\* Any failure of a snapshot is logged and swallowed.
SnapshotFails(r) ==
  /\ pc[r] = "snapshot"
  /\ planned' = [planned EXCEPT ![r] = NoSnapshot]
  /\ Goto(r, "plan")
  /\ UNCHANGED <<tables, snapshots, lock, op, legs, locked, attempt, pending, result>>

-----------------------------------------------------------------------------

\* What a request does of itself.
Step(r) ==
  \/ Lookup(r)
  \/ LockRow(r) \/ LockNothing(r)
  \/ CheckLegs(r) \/ CheckStatus(r) \/ CheckLimit(r)
  \/ InsertTransaction(r) \/ Resolve(r) \/ MarkVoid(r)
  \/ Commit(r)
  \/ PlanSnapshot(r) \/ InsertSnapshot(r)

\* What may befall it.
Fault(r) ==
  LockTimeout(r) \/ CommitUnacknowledged(r) \/ ConnectionLost(r) \/ SnapshotFails(r)

Next == \E r \in Request : Receive(r) \/ Step(r) \/ Fault(r)

Spec == Init /\ [][Next]_vars

\* A request that has been received is carried on: the event loop runs every
\* ready continuation and PostgreSQL every statement that is not blocked.
FairSpec == Spec /\ \A r \in Request : WF_vars(Step(r))

=============================================================================
