-------------------------- MODULE LedgerProperties --------------------------
(***************************************************************************)
(* What makes the write paths of module Ledger correct, what they          *)
(* implement, and what the repository's documents say of them that they do *)
(* not do.                                                                 *)
(***************************************************************************)
EXTENDS Ledger, FiniteSets

-----------------------------------------------------------------------------
(* Types *)

Statement == {"idle", "lookup", "locking", "check", "insert", "mark", "commit",
              "resolve", "plan", "snapshot", "done"}

Code == {"none", "OK", "ACCOUNT_NOT_FOUND", "NOT_FOUND", "INVALID_TRANSACTION",
         "INVALID_AMOUNT", "UNBALANCED_TRANSACTION", "ACCOUNT_FROZEN", "ACCOUNT_CLOSED",
         "INSUFFICIENT_FUNDS", "CONFLICT_SEQUENCE", "INTERNAL_ERROR"}

IsHistory(log) == /\ DOMAIN log \subseteq Nat \ {0}
                  /\ log \in [DOMAIN log -> Entry]
IsLegs(ls) == /\ DOMAIN ls \subseteq Account
              /\ ls \in [DOMAIN ls -> Leg]
IsSnapshots(snaps) == /\ DOMAIN snaps \subseteq Nat \ {0}
                      /\ snaps \in [DOMAIN snaps -> Int]

\* The tables hold rows of the schema, and every request is at a statement of
\* its handler, with locals of the right types.
TypeOK ==
  /\ accounts \in [Account -> AccountRow]
  /\ transactions \in [Request -> TransactionRow]
  /\ entries = [a \in Account |-> entries[a]] /\ \A a \in Account : IsHistory(entries[a])
  /\ accountEvents \in [Account -> Seq(AccountEvent)]
  /\ snapshots = [a \in Account |-> snapshots[a]]
  /\ \A a \in Account : IsSnapshots(snapshots[a])
  /\ lock \in [Account -> Request \cup {NoRequest}]
  /\ pc \in [Request -> Statement]
  /\ op \in [Request -> Op \cup {NoOp}]
  /\ legs = [r \in Request |-> legs[r]] /\ \A r \in Request : IsLegs(legs[r])
  /\ locked \in [Request -> [Account -> AccountRow]]
  /\ attempt \in [Request -> 0..TX_MAX_RETRIES]
  /\ pending \in [Request -> SUBSET Account]
  /\ planned \in [Request -> [account: Account \cup {0}, seq: Nat, balance: Int]]
  /\ result \in [Request -> [code: Code, tx: Request \cup {NoRequest}]]

\* The statement a request is at belongs to the handler of its operation.
StatementFits(r) ==
  /\ pc[r] # "idle" => op[r] \in Workload
  /\ pc[r] \in {"lookup", "insert", "resolve"} => IsPost(op[r])
  /\ pc[r] = "mark" => op[r].kind = "void"
  /\ pc[r] \in {"plan", "snapshot"} => IsPost(op[r]) \/ op[r].kind = "void"
  /\ pc[r] \in {"locking", "check", "commit"} =>
       IsPost(op[r]) \/ op[r].kind \in {"void", "status", "limit"}
  /\ pc[r] = "snapshot" => planned[r].account \in Account /\ planned[r].seq # 0

StatementsFit == \A r \in Request : StatementFits(r)

-----------------------------------------------------------------------------
(* Safety *)

\* From the gate to the commit, a request holds the lock of every row it will
\* write and the copies it read are still the rows: nothing that was checked
\* under lock is stale when it is used (transactions.service.ts, "no lost
\* updates").
InTransaction(r) == pc[r] \in {"check", "insert", "mark", "commit"}
LockedRowsAreCurrent ==
  \A r \in Request : InTransaction(r) =>
    \A a \in Targets(r) : lock[a] = r /\ locked[r][a] = accounts[a]

\* The positions of every history are exactly 1..current_sequence: no gap, no
\* position used twice, and the row's counter agrees with the log.
ContiguousHistories ==
  \A a \in Account : DOMAIN entries[a] = 1 .. accounts[a].currentSequence

\* UNIQUE(account_id, seq) is never needed: the position a request is about to
\* write is free.
PositionsAreFree ==
  \A r \in Request : pc[r] = "commit" =>
    \A a \in DOMAIN legs[r] : EntrySeq(r, a) \notin DOMAIN entries[a]

\* A snapshot holds the balance a replay gives at its position, whatever was
\* posted between the read that computed it and its insert.
SnapshotsAreExact ==
  \A a \in Account : \A s \in DOMAIN snapshots[a] :
    /\ s <= accounts[a].currentSequence
    /\ snapshots[a][s] = balanceUpToSeq(NormalSide[a], entries[a], s)

\* Snapshot-backed balances are identical to a full replay regardless of the
\* state of the snapshots (ledger.store.ts:360-364).
BalancesAreReplays ==
  \A a \in Account :
    balancesFor(NormalSide[a], entries[a], snapshots[a]) = Serial!Balance(a)

\* A closed account has a zero balance, for ever: the check of updateStatus and
\* the gate of the posts never miss each other.
ClosedAccountsAreEmpty ==
  \A a \in Account : accounts[a].status = "closed" => Serial!Balance(a) = 0

\* No partial transfers: a committed transaction has exactly one entry on each
\* of two accounts, one debit and one credit, of equal amounts unless it
\* converts between currencies; and every entry belongs to such a transaction.
EntriesOf(t) ==
  UNION {{<<a, n>> : n \in {m \in DOMAIN entries[a] : entries[a][m].tx = t}} : a \in Account}
TransactionsAreComplete ==
  \A t \in Request :
    IF transactions[t].status = "none" THEN EntriesOf(t) = {}
    ELSE \E x, y \in EntriesOf(t) :
           /\ EntriesOf(t) = {x, y} /\ x[1] # y[1]
           /\ entries[x[1]][x[2]].direction = "debit"
           /\ entries[y[1]][y[2]].direction = "credit"
           /\ CurrencyOf[x[1]] = CurrencyOf[y[1]] =>
                entries[x[1]][x[2]].amount = entries[y[1]][y[2]].amount

\* A transaction is void exactly when one reversal of it was posted, and the
\* reversal mirrors it leg by leg: two voids racing past the unlocked status
\* check never compensate twice.
VoidedOnce ==
  \A t \in Request :
    LET reversals == {u \in Request : transactions[u].original = t}
    IN  /\ Cardinality(reversals) = (IF transactions[t].status = "void" THEN 1 ELSE 0)
        /\ \A u \in reversals :
             Serial!LegsWritten(u) = ReversalLegs(Serial!LegsWritten(t))

\* A reference moves money once, and whoever is answered OK for it is given
\* that one transaction: retries after a lost answer and concurrent duplicates
\* resolve to the original.
ReferencesAreIdempotent ==
  \A r \in Request :
    /\ transactions[r].reference # NoRef =>
         Committed(transactions[r].reference) = {r}
    /\ result[r].code = "OK" /\ IsPost(op[r]) /\ op[r].reference # NoRef =>
         Committed(op[r].reference) = {result[r].tx}

\* The HTTP status of a domain error, and of whatever the exception filter is
\* given: anything it does not know is an internal error.
httpStatusFor(code) ==
  CASE code \in {"ACCOUNT_NOT_FOUND", "NOT_FOUND"} -> 404
    [] code \in {"ACCOUNT_FROZEN", "ACCOUNT_CLOSED", "CONFLICT_SEQUENCE"} -> 409
    [] OTHER -> 422
ResponseStatus(code) == CASE code = "OK" -> 200
                          [] code = "INTERNAL_ERROR" -> 500
                          [] OTHER -> httpStatusFor(code)

\* Rejection is atomic: a request answered with a status from 400 to 499 wrote
\* nothing, so a client may treat it as not done; an internal error says nothing
\* either way.
RejectionsLeaveNoTrace ==
  \A r \in Request :
    result[r].code # "none" /\ ResponseStatus(result[r].code) \in 400..499 =>
      transactions[r].status = "none" /\ EntriesOf(r) = {}

\* What a stream of lifecycle events folds to: the status, the limit, and the
\* statuses it went through.
Unopened == [status |-> "active", limit |-> 0, history |-> <<>>]

ApplyEvent(row, e) ==
  LET status == CASE e.type = "account_frozen" -> "frozen"
                  [] e.type = "account_closed" -> "closed"
                  [] OTHER -> "active"
  IN  IF e.type = "limit_changed" THEN [row EXCEPT !.limit = e.overdraftLimit]
      ELSE [status |-> status,
            limit |-> IF e.type = "account_opened" THEN e.overdraftLimit ELSE row.limit,
            history |-> Append(row.history, status)]

States(events) ==
  LET state[n \in Nat] ==
        IF n = 0 THEN Unopened ELSE ApplyEvent(state[n - 1], events[n])
  IN  state

fold(events) == States(events)[Len(events)]

RowMatchesEvents(a) ==
  fold(accountEvents[a]) = [status |-> accounts[a].status,
                            limit |-> accounts[a].overdraftLimit,
                            history |-> <<"active">> \o accounts[a].statusHistory]

\* The row of a customer account is the projection of its event stream:
\* whatever races, replaying the stream gives its status, its limit and the
\* status history that is kept in the row's metadata.
RowsAreProjections ==
  \A a \in Account : Exists(a) /\ ~IsVault(a) => RowMatchesEvents(a)

\* No two requests wait for each other, directly or through others: whoever is
\* in flight, some request can move.
SomeoneCanMove ==
  (\E r \in Request : pc[r] \notin {"idle", "done"}) =>
    \E r \in Request : /\ pc[r] \notin {"idle", "done"}
                       /\ ~WaitsForRow(r) /\ ~WaitsForReference(r)
                       /\ pc[r] = "snapshot" => lock[planned[r].account] = NoRequest

-----------------------------------------------------------------------------
(* Why the safety properties hold: an inductive invariant *)

\* A row of a vault, of a leg, or with a history is there; and legs belong to a
\* post or a void in flight.
RowsExist ==
  /\ \A c \in Currency : Exists(Vault[c])
  /\ \A a \in Account : ~Exists(a) => accounts[a].currentSequence = 0
  /\ \A r \in Request : \A a \in DOMAIN legs[r] :
       /\ Exists(a)
       /\ pc[r] \notin {"idle", "done"}
       /\ IsPost(op[r]) \/ op[r].kind = "void"

\* A lock is held by a request that is inside its transaction, wants the row
\* and has read what the row still is.
HeldRowsAreCurrent ==
  \A a \in Account : \A r \in Request : lock[a] = r =>
    /\ pc[r] = "locking" \/ InTransaction(r)
    /\ a \in Targets(r)
    /\ locked[r][a] = accounts[a]

\* Past lockForUpdate, every row it selected is held, and there is one.
AllRowsAreHeld ==
  \A r \in Request : InTransaction(r) =>
    Targets(r) # {} /\ \A a \in Targets(r) : lock[a] = r

\* A snapshot is considered only after the commit, at the position of an entry
\* that is there to stay, and what was computed for it stays true.
SnapshotsInFlight ==
  \A r \in Request :
    /\ \A a \in pending[r] :
         /\ pc[r] \in {"plan", "snapshot"}
         /\ EntrySeq(r, a) <= accounts[a].currentSequence
    /\ pc[r] = "snapshot" =>
         LET a == planned[r].account
         IN  /\ planned[r].seq <= accounts[a].currentSequence
             /\ planned[r].balance = balanceUpToSeq(NormalSide[a], entries[a], planned[r].seq)

LedgerInv ==
  /\ RowsExist
  /\ HeldRowsAreCurrent
  /\ AllRowsAreHeld
  /\ ContiguousHistories
  /\ SnapshotsAreExact
  /\ SnapshotsInFlight

\* Rows are locked in the order of their ids: those a request holds are below
\* those it still wants.  And only finitely many are held.
LocksInOrder ==
  \A r \in Request : pc[r] = "locking" =>
    \A a \in Targets(r), b \in Unlocked(r) : lock[a] = r => a < b
LockedRows == {a \in Account : lock[a] # NoRequest}

LocksInv == LocksInOrder /\ IsFiniteSet(LockedRows)

\* What the gate found is still true when it is acted upon: the legs of a post
\* or a void may be posted, the account of a status or limit change is not
\* closed, the status is a new one, and one that is about to close is empty.
MayPost(a, leg) ==
  assertPostAllowed(
    accounts[a].status,
    balanceAfterEntry(Serial!Balance(a), NormalSide[a], leg.direction, leg.amount),
    accounts[a].overdraftLimit) = "OK"

Cleared(r) ==
  /\ pc[r] \in {"insert", "mark", "commit"} => \A a \in DOMAIN legs[r] : MayPost(a, legs[r][a])
  /\ pc[r] = "commit" /\ op[r].kind \in {"status", "limit"} =>
       /\ accounts[op[r].account].status # "closed"
       /\ op[r].kind = "status" => accounts[op[r].account].status # op[r].status
       /\ op[r].kind = "status" /\ op[r].status = "closed" => Serial!Balance(op[r].account) = 0

RulesInv ==
  /\ \A r \in Request : Cleared(r)
  /\ ClosedAccountsAreEmpty

\* A row of transactions is written by the commit of its request, together with
\* its entries, and by nothing before; what a request is answered agrees.
BeforeCommit(r) == pc[r] \notin {"plan", "snapshot", "done"}
RowsAreCommits ==
  /\ \A a \in Account : \A n \in DOMAIN entries[a] : transactions[entries[a][n].tx].status # "none"
  /\ \A t \in Request : transactions[t].status = "none" => transactions[t] = NoTransaction
  /\ \A r \in Request :
       /\ BeforeCommit(r) => transactions[r] = NoTransaction
       /\ pc[r] # "done" => result[r] = NoResult
       /\ pc[r] \in {"plan", "snapshot"} =>
            /\ transactions[r].status # "none"
            /\ IsPost(op[r]) => transactions[r].reference = op[r].reference

\* Two legs on two accounts, a debit and a credit, of equal amounts unless the
\* currencies differ.
IsDoubleEntry(ls) ==
  \E d, c \in DOMAIN ls :
    /\ DOMAIN ls = {d, c} /\ d # c
    /\ ls[d].direction = "debit" /\ ls[c].direction = "credit"
    /\ CurrencyOf[d] = CurrencyOf[c] => ls[d].amount = ls[c].amount

\* What a transaction wrote is a double entry, with one entry on each account.
RowsAreDoubleEntries ==
  /\ \A a \in Account : \A m, n \in DOMAIN entries[a] :
       entries[a][m].tx = entries[a][n].tx => m = n
  /\ \A t \in Request : transactions[t].status # "none" => IsDoubleEntry(Serial!LegsWritten(t))

\* The legs in flight are still those the request is entitled to post: of what
\* it was asked, or of the reversal of a transaction that is there to stay.
LegsAreOfTheRequest ==
  \A r \in Request : pc[r] # "idle" /\ BeforeCommit(r) =>
    /\ IsPost(op[r]) =>
         /\ legs[r] = LegsOf(op[r]) /\ buildOutcome(op[r]) = "OK"
         /\ \A a \in ReadAccounts(op[r]) : Exists(a)
    /\ op[r].kind = "void" =>
         /\ transactions[op[r].target].status # "none"
         /\ legs[r] = ReversalLegs(Serial!LegsWritten(op[r].target))
         /\ SingleCurrency(legs[r])

\* A reference names one transaction, committed or about to be.
UsesReference(r) == pc[r] = "commit" /\ IsPost(op[r]) /\ op[r].reference # NoRef
ReferencesAreUnique ==
  /\ \A r \in Request : transactions[r].reference # NoRef =>
       Committed(transactions[r].reference) = {r}
  /\ \A r \in Request : UsesReference(r) =>
       /\ Committed(op[r].reference) = {}
       /\ Inserted(op[r].reference) = {r}

\* A void that is about to commit finds its target still posted; and the void
\* transactions are those with a reversal, which is one and mirrors them.
IsReversalOf(u, t) == transactions[u].original = t
ReversalsAreUnique ==
  /\ \A r \in Request : pc[r] = "commit" /\ op[r].kind = "void" =>
       transactions[op[r].target].status = "posted"
  /\ \A t \in Request : transactions[t].status = "void" => \E u \in Request : IsReversalOf(u, t)
  /\ \A t, u \in Request : IsReversalOf(u, t) =>
       /\ transactions[t].status = "void"
       /\ Serial!LegsWritten(u) = ReversalLegs(Serial!LegsWritten(t))
       /\ \A w \in Request : IsReversalOf(w, t) => w = u

\* What a request was answered is true: a refusal wrote nothing, and an OK names
\* the transaction that has the reference.
AnswersAreTrue ==
  \A r \in Request :
    /\ result[r].code \notin {"none", "OK", "INTERNAL_ERROR"} => transactions[r].status = "none"
    /\ result[r].code = "OK" /\ IsPost(op[r]) /\ op[r].reference # NoRef =>
         Committed(op[r].reference) = {result[r].tx}

TransactionsInv ==
  /\ RowsAreCommits
  /\ RowsAreDoubleEntries
  /\ LegsAreOfTheRequest
  /\ ReferencesAreUnique
  /\ ReversalsAreUnique
  /\ AnswersAreTrue

\* An account that is not there has no events yet.
EventsInv ==
  /\ \A a \in Account : ~Exists(a) => accountEvents[a] = <<>>
  /\ RowsAreProjections

-----------------------------------------------------------------------------
(* Action properties *)

\* The log is append-only: entries and lifecycle events are never changed or
\* removed, a transaction row only ever goes from posted to void.
AppendOnlyStep ==
  /\ \A a \in Account :
       /\ \A n \in DOMAIN entries[a] : n \in DOMAIN entries'[a] /\ entries'[a][n] = entries[a][n]
       /\ Len(accountEvents[a]) <= Len(accountEvents'[a])
       /\ \A n \in 1 .. Len(accountEvents[a]) : accountEvents'[a][n] = accountEvents[a][n]
  /\ \A t \in Request : transactions[t].status # "none" =>
       transactions'[t] \in {transactions[t], [transactions[t] EXCEPT !.status = "void"]}
AppendOnly == [][AppendOnlyStep]_vars

\* A committed entry respects the rules at the moment it becomes visible: the
\* account is active and its new balance is not below its overdraft limit.
PostsAreAllowedStep ==
  \A a \in Account : entries'[a] # entries[a] =>
    /\ accounts[a].status = "active"
    /\ ReplayBalance(NormalSide[a], entries'[a]) >= -accounts[a].overdraftLimit
PostsAreAllowed == [][PostsAreAllowedStep]_vars

\* A closed account never changes again.
ClosedIsFinalStep ==
  \A a \in Account : accounts[a].status = "closed" =>
    accounts'[a] = accounts[a] /\ entries'[a] = entries[a]
ClosedIsFinal == [][ClosedIsFinalStep]_vars

\* Every request takes effect atomically, in the order of the commits, as the
\* serial ledger would: the refinement.
ImplementsSerialLedger == Serial!Spec

-----------------------------------------------------------------------------
(* Expectations of the repository's documents that the code does not meet *)

\* docs/ticket.md:346: of concurrent requests with one reference "exactly one
\* transaction is created, the other resolves to it": no request is refused for
\* a rule of the ledger while the transaction of its reference is committed.
DuplicatesResolveStep ==
  \A r \in Request :
    /\ pc[r] # "done" /\ pc'[r] = "done"
    /\ IsPost(op[r]) /\ op[r].reference # NoRef /\ Committed(op[r].reference) # {}
    => result'[r].code \in {"OK", "INTERNAL_ERROR", "CONFLICT_SEQUENCE"}
DuplicatesResolve == [][DuplicatesResolveStep]_vars

\* docs/ticket.md:363: "Voiding a posted transaction creates a new reversal
\* transaction with offsetting entries": a void of an existing transaction is
\* never refused as unbalanced.
PostedTransactionsCanBeVoided ==
  \A r \in Request : op[r].kind = "void" => result[r].code # "UNBALANCED_TRANSACTION"

-----------------------------------------------------------------------------
(* Liveness *)

\* Every request that is received is answered: no deadlock among row locks,
\* reference waits and snapshot inserts, and no endless retry.
EveryRequestIsAnswered ==
  \A r \in Request : pc[r] # "idle" ~> pc[r] = "done"

=============================================================================
