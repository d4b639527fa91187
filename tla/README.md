# A verification of the event-sourced ledger

TLA+ models of the ledger service (NestJS on PostgreSQL, TypeScript), checked with TLC on small
instances and proved with TLAPS for every value of the constants, and a TLA+ model of the web console
that works on it. Paths below are relative to the repository: `src/` is the server, `db/` its schema,
`web/src/` the console.

- [The system](#the-system) - inventory: parts, state, operations, what is hard
- [The modules](#the-modules) - what models what, and how
- [The runs](#the-runs) - what TLC checks, with which bounds
- [Fairness](#fairness)
- [The proofs](#the-proofs) - what is proved, from what, how
- [Where documents and code disagree](#where-documents-and-code-disagree)
- [What the properties leave open](#what-the-properties-leave-open)
- [What is not modelled](#what-is-not-modelled)
- [The plan](#the-plan)

## The system

Clients post money movements over HTTP. Nothing stores a balance: every movement appends one entry
to the history of each account it touches, and a balance is a sum over a history, shortened by
snapshots. All shared state is in PostgreSQL, so the hard part is what concurrent requests do to each
other between two `await`s.

| Part | State it keeps | Operations | What makes it correct |
|---|---|---|---|
| Transaction service `application/transactions/transactions.service.ts` | tables `transactions`, `entries` | deposit, withdraw, transfer, voidTransaction; reads | all or nothing; idempotent by reference; no overdraft; one reversal per void |
| Transaction runner `infrastructure/db/tx-runner.ts` | a connection per open transaction, a retry counter | withTransaction | locks end with the transaction; retries are bounded and start from scratch |
| Account repository `infrastructure/repositories/account.repository.ts` | table `accounts` | insert, insertIfAbsent, lockForUpdate, bumpSequences, paginate | no lock-order deadlock; rows read under lock stay true |
| Ledger store `infrastructure/event-store/ledger.store.ts` | tables `transactions`, `entries`, `snapshots` | append, mark void, balances (now, as of, up to a position), replay, audit, pages | append-only; positions 1, 2, 3, ...; snapshot-backed = replayed |
| Snapshot service `application/snapshot/snapshot.service.ts` | table `snapshots` | maybeSnapshot, takeSnapshot | late, lost, concurrent snapshots never change a balance |
| Account service `application/accounts/accounts.service.ts` | `accounts`, `account_events` | create, updateStatus, updateLimit; reads | closing is final and leaves nothing behind; row and events agree |
| Account event stream `application/account-events/` | table `account_events` | appendWithin, replay, fold | the row is the fold of the stream |
| Domain `domain/transaction.ts`, `invariants.ts`, `money.ts` | none | build and validate double-entry transactions, the balance gate, exact money | debits equal credits; rounding is half up; amounts are in range |
| Vaults `application/internal-accounts.service.ts` | a cache, rows of `accounts` | getInternalCashAccountId | one vault per currency, whoever creates it |
| Audit trail `application/audit/audit.service.ts` | none: several SELECTs per page | get (as_of, window, pages), writeCsv | every running balance is the account's balance after that entry; a trail closes on the balance it names |
| Lists: `listForAccount`, `listGlobal`, `listPage` | none: a cursor the client holds | keyset pages by seq, by (posted_at, id), by (created_at, id) | nothing twice, nothing old skipped |
| Reconciliation `application/reconciliation/` | none | transactions, FX, sequences, overdraft checks | no false alarm while writers run |
| Errors `domain/errors.ts`, `common/errors/` | none | error to HTTP status | a 4xx means nothing was written |
| HTTP `interfaces/`, `common/validation/` | none | what a request may ask | - |
| Web console `web/src/` | the query cache, component state, pending writes | pages, modals, the audit timeline | an answer shown as fresh has one's own writes; the timeline is the history |
| Guards, throttler, logging, health, swagger, migrations | - | - | - |

How they interact. A movement is: read the accounts, build the double-entry transaction, look the
reference up, then inside one READ COMMITTED transaction lock the account rows in id order, check
status and balance, insert the transaction (unique reference), append the entries at
`current_sequence + 1`, write the counters back, COMMIT; after that, outside any transaction, consider
a snapshot for each leg, and read the result back. A void is the same with the legs of the original
flipped, and marks the original in the same transaction. Status and limit changes lock their row,
re-check it, write the row and an event, COMMIT.

What is hard: reads made before a lock and used after it (status of a transaction, of an account, the
reference); the order of the checks (gate before unique insert); lock waits that time out and rerun
the callback; a COMMIT whose acknowledgement is lost; snapshots computed and inserted with no lock at
all; operations of different services on one row (close against deposit, limit against withdrawal,
void against void). Reads have their own: a page is several SELECTs and a list several pages, with
commits between any two; the past is dated by two clocks, the process's for `posted_at` and the
database's for snapshots and accounts. So has the browser: answers that arrive late or out of order,
caches that outlive the page, and effects that run in one commit. `PROJECT.json` lists these hazards line by line with the properties that would
catch them.

## The modules

`Replay` - the arithmetic of one account: `balanceEffect`, `balanceAfterEntry`, `assertPostAllowed`
(`domain/invariants.ts`) and the SUM queries of `ledger.store.ts` (`balancesFor`, `balanceUpToSeq`, a
full replay). A history is a function from positions to entries, and its domain is *not* assumed to be
an interval. Sums are recursive functions, so the module can be proved about.

`LedgerSchema` (EXTENDS Replay) - the constants, the rows of the tables, the requests, and the
double-entry transactions the builders make of them. An account appears at most once in a transaction
(`validateLegs`), so a transaction is a function from accounts to legs. `buildOutcome` collects the
builders' refusals: the vault as a customer account, the missing or superfluous rate, a converted amount
of nothing or beyond the range of `Money` (`OutOfRange`), and legs that do not balance (`isBalanced`,
`isBalancedAt`), which no builder makes. `MAX_UNITS` is the largest amount in minor units: 10^19 - 1 in
the code, 2 in the instances, so that a rate of 5/2 passes it. A transaction id is the request that
created it (`randomUUID` per request).

`SerialLedger` (EXTENDS LedgerSchema) - the abstract specification: the same tables, every request one
atomic step, every rule judged against a full replay. No locks, retries, snapshots or connections.

`Ledger` (EXTENDS LedgerSchema) - the service. One action per SQL statement that reads or writes shared
state; `pc[r]` names the statement request `r` is about to run:

    idle -> lookup -> locking -> check -> insert -> commit -> plan <-> snapshot -> done      a post
    idle ----------> locking -> check -> mark ---> commit -> plan <-> snapshot -> done      a void
    idle ----------> locking -> check -----------> commit ---------------------> done      status, limit

| In `Ledger` | In the code |
|---|---|
| `accounts`, `transactions`, `entries`, `accountEvents`, `snapshots` | the *committed* tables |
| `lock` | row locks of open transactions (`SELECT ... FOR UPDATE`) |
| `legs`, `locked`, `pending`, `planned` | `domainTx`, the rows `lockForUpdate` returned, the legs `snapshotAfterCommit` has still to visit, the snapshot about to be inserted |
| `attempt`, `result` | the counter of `withTransaction`, the answer |
| `Receive*` | the reads and refusals before the transaction |
| `Lookup`, `LockRow`, `LockNothing`, `CheckLegs`, `CheckStatus`, `CheckLimit`, `InsertTransaction`, `MarkVoid`, `Commit`, `Resolve` | the statements of the same name |
| `PlanSnapshot`, `InsertSnapshot`, `SnapshotFails` | `maybeSnapshot`, `insertSnapshot`, the swallowed error |
| `LockTimeout`, `CommitUnacknowledged`, `ConnectionLost`, `CreateLost` | 55P03/40P01 and the retry; a lost acknowledgement; a lost connection or process |

PostgreSQL is external and modelled as the code uses it: READ COMMITTED; `FOR UPDATE` locks the rows
one after the other in id order and reads each when its lock is granted; the writes of a transaction
become visible together at COMMIT and its locks end there; an INSERT whose unique reference an open
transaction has inserted waits for it; the foreign key of a snapshot waits for the account row's lock.

Steps that are merged, and why that loses nothing:

- The reads before a transaction are one step. They read rows and columns that never change once
  written (existence, currency, entries of a committed transaction), except one status, which is one
  read.
- Statements that only write rows the transaction has locked, or rows with a fresh id, are part of
  `Commit` (the entries and `bumpSequences` among them): no other request can see them earlier, and what
  fails between them is `ConnectionLost`, which writes nothing. That PostgreSQL undoes the statements
  before the failing one is assumed, see [below](#what-the-properties-leave-open).
- Which leg comes first is left open where the code loops over legs: the error a failing gate reports,
  and the order of snapshots.
- The final read-back (`view`, `get`) changes nothing and is not a step. A failure there is
  `ConnectionLost` after the commit.

Left out because it cannot happen: the currency mismatch of `collectEntrySeqs` and its missing-row
error (a leg's currency is read from the immutable row it is checked against, rows are never deleted).
The violation of `UNIQUE (account_id, seq)` is not left out but shown unreachable (`PositionsAreFree`).

`LedgerProperties` (EXTENDS Ledger) - types, safety, action properties, the inductive invariants,
liveness, `httpStatusFor`, and two expectations of the documents that the code does not meet.

`Reconciliation` (EXTENDS LedgerProperties) - the checks of `reconciliation.service.ts`, one operator
per SELECT, evaluated in every state of `Ledger`, and a bound on the balances it reads. Its last section
says why the reports are right (`ReconciliationInv`).

`OneVault` - what `InternalAccountsService` promises: one atomic creation per currency, and answers
that name that vault.

`Vaults` - `getInternalCashAccountId`, statement by statement, in several processes:

    idle -> find -> insert -> commit -> resolve -> done

| In `Vaults` | In the code |
|---|---|
| `rows` | the committed rows numbered `LE-INTERNAL-CASH-*`; an id is the call that generated it |
| `cache` | `cachedInternalIds`, one per process |
| `insertedId`, `attempt`, `result`, `error` | what `insertIfAbsent` returned, the counter of `withTransaction`, the answer or the error |
| `Ask`, `Find`, `InsertIfAbsent`, `Commit`, `Resolve` | the cache, `findByAccountNumber`, the INSERT, COMMIT, `insertedId ?? re-read` |
| `LockTimeout`, `ConnectionLost`, `Restart`, `clearCache` | a retryable error while waiting; a failed statement, or an acknowledgement lost at `resolve`; a process that dies and returns with an empty cache |

`INSERT ... ON CONFLICT DO NOTHING` waits for an open transaction that has inserted the same number
(`WaitsForInsert`): that is why the re-read never misses. When a process dies, its open transaction is
rolled back at once; PostgreSQL may take longer to notice, which only lengthens the wait. `Ledger`
takes the vaults as given: `OneVault` is what it relies on.

`Timeline` (EXTENDS Replay) - the committed tables as the readers see them, with the times their rows
carry. `now` is the database's clock; `Offset[t]` is how far the clock of the process that posts `t` is
ahead of it. `Stamp` is `insertTransaction` (posted_at is taken under the locks, before COMMIT),
`CommitPost` the COMMIT, `RollBackPost` a failure or a retry; `StartSnapshot`/`StoreSnapshot` the insert
of a snapshot, which is dated when it starts and may wait; `OpenAccount`/`CommitAccount` the creation of
an account. What posting checks is `Ledger`'s business and left out; that a snapshot is exact at its
position is what `Ledger` shows and `Timeline` takes from it. The reads of `ledger.store.ts` are
operators: `BalanceAsOf`, `ReplayAsOf`, `BalanceUpToAsOf`.

`Reads` (EXTENDS Timeline) - one client that walks through one list while the writers go on:

    idle -> base -> rows -> page -> base -> ... -> done        audit
    idle -> base -> rows -> page -> rows -> ... -> done        export: the base is read once
    idle ---------> rows -> page -> rows -> ... -> done        transactions, feed, accounts

`Ask` is the first request, `ReadBase` and `ReadRows` the SELECTs of a page, `DeliverPage`,
`ExportGoesOn` and `DeliverLastPage` the answer with its cursor. `rows`, `base`, `cursor` are the
locals of the handler, `delivered` what the client has; `asked` is history: what matched when the walk
began, and whether the window was settled by then.

`Console` - one browser tab. `cache` is TanStack Query's cache (external, modelled as `main.tsx`
configures it and the console uses it): per key the data, whether it is fresh, a fetch in flight.
`Deliver`, `Refetch`, `FetchFails`, `GoStale`, `Forget` are its events; `Observing` and `Invalidated`
what mounting and `invalidateQueries` do.

| In `Console` | In the code |
|---|---|
| `page`, `account` | the route that is mounted, and its `:id` |
| `asOf`, `cursor`, `items` | the state of `AccountDetailPage`: `asOf`, `auditCursor`, `auditItems` |
| `window`, `seen` | the dependencies `[id, asOf]` of the reset effect, and what both effects last ran for |
| `Commit` | the two effects of a render, in their order |
| `Visit` | a link or the browser's history, to another page: the state is new |
| `MoveTo` | the same from one account to another (the links of "Recent access" in the layout, or the history): the page stays mounted, with its `asOf`, cursor, items and modal |
| `PickAsOf`, `LoadMore`, `OpenModal`, `CloseModal`, `Submit` | the user |
| `Apply`, `Acknowledge`, `Fail` | the server's commit, `onSuccess`, `onError` of a write |
| `server`, `OthersPost` | the ledger behind it: per account, how many entries it has and how often its row has changed |

`MoveTo` makes the reset's dependence on `id` matter: without it the entries of one account would stay on
the timeline of the next (`TimelineIsOfItsWindow`). It also carries a pending write along: the success
handler closes over the props of the render that is current when the answer comes, so it invalidates the
keys of the account the page shows *then* (`Carried`, `told`), and the account that was written stays
stale until its stale time passes. So does the counterparty of a transfer that is voided (`Besides`).

Late answers are marked: a fetch that was on its way when a write was acknowledged and that the library
does not replace (no data yet, or nobody observing) counts as fresh although it is not. The accounts are
taken as loaded and active, the browser as online when it submits, and `LoadMore` is also allowed while a
failed refetch shows an error instead of the button: more behaviours than the code, not fewer.

`MCLedger`, `MCVaults`, `MCReads`, `MCConsole` - the instances. `ReplayProofs`, `LedgerSafetyProofs`,
`LedgerRulesProofs`, `LedgerTransactionsProofs`, `ReconciliationProofs` - the proofs about the ledger, in
that order of dependence; `VaultsProofs` - those about `Vaults`; `ReadsProofs` - those about `Timeline`
and `Reads`; `ConsoleProofs` - those about `Console`.

Definitions named `X_Something` and marked "Slip" are plausible mistakes in `X`; each shows that a
property notices one.

## The runs

`first_use` is an instance of `MCVaults`, `trails`, `lists` and `as_of` of `MCReads`, `web` and
`timeline` of `MCConsole`, all others of `MCLedger`. In `MCLedger`, accounts 1 and 3 are customers, 2 is
the USD vault, so the vault is between them in lock order; 4 and 5 are a EUR customer and vault. Amounts
are 1 or 2 units, the overdraft limit is 1, so that a second withdrawal is on the edge.
`CHECK_DEADLOCK FALSE` everywhere: a behaviour has finitely many requests, or one walk, and stops when
all is answered; that it stops *only* then is `SomeoneCanMove` and `EveryRequestIsAnswered`.

| Run | Instance | Question |
|---|---|---|
| `movements` | 3 requests, 5 movements, 1 retry, snapshots every 2 entries or 3 behind | Are histories contiguous, append-only, free of deadlock? Can a snapshot, whenever it is taken or inserted, change a balance? Do references move money once? Does a 4xx mean nothing was written? |
| `lifecycle` | 4 requests, posts against freeze, reactivate, close, limit (of a customer and of the vault), open | Is closing final and empty? Do the row and its status history follow its events? Is every post allowed? Are balances bounded by what others may ever have been overdrawn by? |
| `voids` | 4 requests, transfers in one and two currencies at rates that give an amount, none, nothing, and one out of range; voids of anything | Is every transaction complete, and compensated once, exactly when it is void? |
| `refinement` | 2 requests, one operation of every kind, both normal sides, faults, snapshots after every entry, transfers in both directions under one reference | Does `Ledger` implement `SerialLedger`? Are the inductive invariants invariants? What may a reconciliation report? Is every request answered? |
| `first_use` | 3 calls, 2 processes, 2 currencies, 1 retry, restarts | Is there one vault per currency, is everybody told of it, does every call end? |
| `trails` | 2 accounts of different sides, 3 transactions or reversals, one process whose clock lags, 3 instants, a snapshot at position 2, pages of one row; a trail as of an instant, one over a window and one up to its end | Is a point-in-time balance a replay? Do the books balance at every instant? Is each running balance the balance after its entry, and does the trail close on the balance it names? Does a settled past stand? |
| `lists` | the same writers, two more accounts opened meanwhile; export, account transactions, feed, accounts | Does every list advance, and skip nothing that was there? Does the export carry its balance across pages? |
| `web` | 1 or 2 accounts of up to 2 entries, pages of 1, one write, a point in time; each behaviour follows one query | Does a fresh answer have the user's own write? Is the timeline the history of its account and point in time, without gap, and does it only grow? |
| `duplicates`, `void_fx`, `as_of`, `timeline` | 2 requests; 2 accounts and 3 transactions; the instance of `web` | Expected violations, below |

Why these bounds are enough to meet the interesting cases. Three requests are needed for a deadlock
through a third party, for a snapshot planned by one request, overtaken by a second and inserted
before a third reads it, and for two duplicates racing with another movement. Four are needed for
post, post, void, void of the same transaction, and for a deposit, a withdrawal, a close and one
competitor. Three calls in two processes are a winner and a loser of the
race and a call that meets a filled cache, or one emptied by a restart, of the same currency or of
the other. The histories of `movements` reach length 3, past a snapshot and its successor. Retries
are bounded by `TX_MAX_RETRIES` = 0 or 1: one retry meets a first, a last and an exhausted attempt.
Requests are symmetric in the safety runs (permutations of model values); `refinement`, which checks
liveness, and `duplicates` use no symmetry, nor do the instances of the other modules.

In `MCReads`, three transactions and pages of one row give a walk of up to three pages, so that an
entry is committed before, within and after the page that would show it; three instants are before, at
and after a point in time; a lag of one instant is enough for two entries of one account to carry their
times in the wrong order. Bounds of the module: `MaxTime`; stamps are never before instant 0; one
snapshot insert is on its way at a time; the writers stop when the walk has ended. In
`MCConsole`, two entries and pages of one are a first page, a last page and a cursor; two accounts are
one to leave and one to come to. The bounds are `MaxEntries`, `Write` (the user makes one write; somebody
else may post as well) and `Studies`: a behaviour follows the entries of the cache that belong to one
query kind (queries do not interact), either of one account, on a page that observes it and one that does
not, or of two between which the user moves, with at most one of the modals that write.

`AppendOnly`, `PostsAreAllowed`, `ClosedIsFinal`, `SettledPastStands` and `TimelineOnlyGrows` are action
properties: what a step may never do. `ImplementsSerialLedger` is `Serial!Spec` with the identity on the
four tables: the snapshots, locks and locals of `Ledger` are the detail it hides.

## Fairness

`FairSpec` adds `WF_vars(Step(r))` for every request: a request that has been received is carried on.
The event loop runs every ready continuation, and PostgreSQL runs every statement that is not blocked
and wakes a waiter when its lock is free. Nothing is assumed of clients (`Receive`) or of faults: a
lock timeout, a lost connection, a failing snapshot need never happen, and liveness does not rest on
them. `Vaults!FairSpec` assumes the same of its calls. Weak fairness suffices: a request that waits for a row or a reference could be overtaken, but
each competitor is itself a request of the behaviour and there are finitely many.

## The proofs

Assumptions: only those named in the modules. Account ids are naturals, "nobody" is not a request, a
null reference is not a reference, vaults are in their currency and are not customers, the workload
holds requests of the types the DTOs admit, `MAX_UNITS` and the configuration are naturals. Any number of accounts,
requests, currencies and references, any interval, lag and retry budget. Where balances of all accounts
are added up, the accounts are finitely many (`ReconciliationAssumption`, `TimelineAssumption`); so are
the writes of a user in `Console`, whose ledger counts them. Nothing bounds `MaxTime`, `MaxEntries` or a
page size.

`ReplayProofs`. The recursive sum is shown to satisfy its recursion (`SumAfterDef`), to depend only on
the entries it adds (`SumAfterCongruence`) and to split at any position (`SumSplits`). From these,
`SnapshotBackedBalance`: over a history without gaps, *any* set of exact snapshots gives the replayed
balance - the claim of `ledger.store.ts:360-364`; and `BalanceAfterAppend`: the balance the gate
computes under the lock is the one a replay gives after the append. For the point-in-time reads the same
is shown of *parts* of a history, which need not be a prefix. Totals over accounts (`SumFunctionOnSet`)
are shown not to depend on the order in which they are folded: two folds that differed would differ on a
smallest set (`TotalsAgree`), and the least number principle replaces the induction the provers do not
have. From that, `TotalOut` (one member apart), `TotalMove` (what one gains another loses) and
`TotalMonotonic`.

`LedgerSafetyProofs` begins with the arithmetic of a conversion (`ConversionRoundsHalfUp`: off by at most
half a minor unit, an exact half goes up) and `TypeCorrect`: `Spec => [](TypeOK /\ StatementsFit)`. `TypeOK`
alone is not inductive: that `op[r].reference` exists at `insert` needs that a request is only at
statements of its own handler. Then `LedgerInvariant`, by the inductive invariant `LedgerInv`:

- a lock is held by a request inside its transaction that wants the row, and what it read is still
  the row (`HeldRowsAreCurrent`); past the locking loop every row is held (`AllRowsAreHeld`);
- positions are `1..current_sequence` (`ContiguousHistories`); snapshots are exact;
- a snapshot in flight is at or below the counter and its balance is still the replay at its position
  (`SnapshotsInFlight`) - appending behind a position does not change the sum up to it;
- rows that are needed exist (`RowsExist`).

Neither `ContiguousHistories` nor `SnapshotsAreExact` is inductive alone: the first needs that the
counter a request read under lock is still the counter when it commits, the second that what was read
outside any lock stays true. The proof has one lemma per class of steps: answer or restart (locks
released), move on inside the transaction, act outside one, lock a row, write. From the invariant
follow `LockedRowsAreCurrent`, `ContiguousHistories`, `PositionsAreFree`, `SnapshotsAreExact` and, with
`SnapshotBackedBalance`, `BalancesAreReplays`.

`LedgerRulesProofs`. `RulesInvariant`: what the gate found is still true until the commit, because
nobody else writes a locked row or its history (`HeldRowKept`); with it `ClosedAccountsAreEmpty`,
`PostsAreAllowed` and `ClosedIsFinal`. Also `RowsNeverDrift`: `RowsAreProjections`, with the fact that an
account that is not there has no events (`EventsInv`). The fold is shown to be the function its recursion
says (`StatesDef`) and to take one more event as one more `ApplyEvent` (`FoldAppend`); each commit then
appends the event of what it does to the row, because the status history it extends was read from the
row under its lock.

`LedgerTransactionsProofs`. `TransactionsInvariant`, by the inductive invariant `TransactionsInv` on top of
the two before:

- a row of `transactions` is written by the commit of its request and not before, with its entries, and
  requests are answered after it (`RowsAreCommits`);
- what is written is a debit and a credit, one entry per account (`RowsAreDoubleEntries`), because legs in
  flight stay those the request is entitled to (`LegsAreOfTheRequest`): what it asked for, or the mirror
  of a transaction that nothing changes any more;
- a reference has one transaction, committed or about to be (`ReferencesAreUnique`): while one request is
  at `commit` with it, no other can pass `insert`;
- a void about to commit still finds its target posted, and a void transaction has one reversal
  (`ReversalsAreUnique`): two voids of one target want the same rows, so that the second looks at the
  target after the first has committed;
- answers are true (`AnswersAreTrue`).

A step is of one of four kinds: its request begins, moves on, ends with nothing written, or writes. The
first three leave the log alone (`QuietKeeps`), the fourth is treated conjunct by conjunct (`WriteKeeps`).
From the invariant follow `ReferencesAreIdempotent`, `RejectionsLeaveNoTrace`, `TransactionsAreComplete`,
`VoidedOnce` and `AppendOnly`. `NoDeadlock`: `SomeoneCanMove`, from `LocksInv`. A request that locks holds
rows below those it still wants (`LocksInOrder`), so whoever holds a row and waits, waits for a higher
row that somebody holds; only finitely many are held, and the holder of the topmost one can move. A
wait for a reference ends with a request that is at `commit`, and waits for nobody.

It ends with the refinement, `LedgerIsSerial`: `Spec => Serial!Spec`, for every value of the constants. The
commit of a request, acknowledged or not, is the serial step of its operation, everything else a stutter;
what the serial step requires of the state *now* (an active account, enough funds, a target that is
still posted, a reference that is still free, a row that is not closed) is what `RulesInv` and
`TransactionsInv` say of a request at `commit`.

`VaultsProofs`. Any number of calls, processes, currencies and retries. `TypeOK`, then `VaultsInv`: an
open insert is the only one of its currency and no row is beside it (`InsertsAreAlone`), so a commit
adds the first row (`RowsAreUnique`); a call whose insert returned nothing has a row to find
(`LosersFindTheWinner`); caches and answers name committed rows (`IdsAreVaults`). `RowsAreUnique` alone
is not inductive: a commit could add a second row if two inserts could be open. From it follow
`NeverUnresolved` (the error in line 58 is dead code) and `ImplementsOneVault`, the refinement: a
commit maps to `Create`, an answer to `Tell`, everything else to a stutter.

`ReadsProofs`. Any accounts, transactions, clocks that do not run ahead of the database's, snapshots,
instants. `TimelineInv`: a stamp is not later than the clock (`StampsArePast`), entries belong to
posted transactions, and every snapshot, stored or still waiting, is the sum up to its position and is
dated no earlier than any of the entries it sums (`SnapshotsHold`). That last conjunct is what makes
reading two clocks right: a snapshot whose created_at is within the instant covers only entries whose
posted_at is within it too, so a read that starts from it and adds the later positions posted by then
adds exactly the rest (`BalanceAsOfIsReplay`), although the entries posted by an instant are not always
a prefix of the history. From it `PointInTimeIsReplay`; and `SettledPastStands`, because what commits
behind a settled instant is stamped after it.

The books: `BooksInv`, that as of every instant the debit-side balances of all accounts add up to zero. A
commit adds its two entries with one stamp, so that it moves the totals of the instants at or after the
stamp by opposite amounts (`TotalMove`) and leaves the others alone. `BooksBalanceAtEveryInstant` follows,
through `PointInTimeIsReplay`.

The walks: a list is a set of keys in a strict order, and pages are its shortest prefixes behind a cursor.
`RowsInv` says why the order does not change under a walk: `created_at` and `posted_at` are written once,
only a status changes. `WalkInv`: what is delivered is before the cursor, the rows of the next page are
behind it. `SkipInv`: what matched at the start and still does is delivered, or still to come. Neither
`PagesAdvance` nor `NothingOldIsSkipped` is inductive without them: between two pages only the cursor
remembers where the walk is.

The trails: `TrailInv` says that a page starts from the balance up to its cursor, with the difference
between a trail over a window (its base is the balance as of the start of the window, which needs a
settled start) and one from the first entry; `CloseInv` that the last row of the last page has the
balance of the end. From them `RunningBalancesAreReplays` and `TrailsCloseOnTheirBalance`.

`ConsoleProofs`. `ConsoleInv`, for any accounts, points in time, histories, page size and number of writes:

- `CacheOK`: an entry of the cache has at most one answer, of the shape its query gives, and at most one
  fetch on its way, and only an entry with an answer counts as fresh;
- `LedgerKeepsWrites`: the ledger is at least what each applied write made of it;
- `AnswersHaveOwnWrites`: what shows an acknowledged write has it if it counts as fresh, and the fetch on
  its way started after it, unless it is marked late;
- `TimelineJoins`: the items on the page are positions `1..n` of one account, that of the page once the
  effects have run for it; they include the page the effects last ran for, and the cursor is at most `n`,
  so that the next page joins them. After `MoveTo`, until the effects run, the items are still those of
  the account that was left.

`TimelineIsContiguous` alone is not inductive: the page appended next could begin behind a gap. From the
invariant follow the three safety properties of `web` and `TimelineOnlyGrows`.

`ReconciliationProofs`. `ReconciliationInv` on top of the invariants of the ledger:

- a committed transaction is what its request asked for, or a reversal in one currency
  (`WrittenAsAsked`): requests do not change once in flight, and entries are appended as the legs the
  request was entitled to;
- the limit of a row is one that is on record, a balance respects a limit the account has had, and the
  present one while it was never changed (`LimitsAreRespected`): a post is judged by the limit it read
  under the lock, and a limit changes only with its event;
- what the accounts of one pool owe adds up to zero (`NothingIsCreated`), because a commit debits one
  account by what it credits another.

`ReportsAreTrue` follows from the first two, with double entries and contiguous histories;
`BalancesStayBounded` from the last two: a balance is what all the others owe together, and none owes more
than it may.

The invariants that no run lists (`TransactionsInv`, `LocksInv`, `EventsInv`, `RowsInv`, `WalkInv`, `SkipInv`,
`TrailInv`, `CloseInv`, `ConsoleInv`, `ReconciliationInv`) were checked with TLC on the instances above
before they were proved; the runs keep the properties that follow from them.

What the proofs corrected. Each of these was a proof that failed, and a counterexample TLC then found on
an instance that had lacked the case:

- `BalancesAreBounded` counted only limits that events record, and the one a vault is created with is
  recorded by none: when it is lowered later the bound was too small. `lifecycle` now lowers it.
- `RunningBalancesAreReplays` and `TrailsCloseOnTheirBalance` are false of a process whose clock is ahead
  when the trail has a start, of a trail with an end and no start whose last entries were stamped out of
  order, and of a window that ends before it starts. Their hypotheses say so (`WindowInOrder`,
  `NoProcessAhead`, a settled window), and `trails` has a trail up to an end.

Only model-checked: liveness (`EveryRequestIsAnswered`, `EveryCallEnds`), because fairness and ENABLED are
outside the prover, and the expected violations. Every other property the runs check is a theorem.
`PositionsAreFree` is proved and no run repeats it.

## Where documents and code disagree

- `duplicates`: `docs/ticket.md:346` says that of concurrent duplicate references one transaction is
  created and "the other resolves to it". The second request passes the lookup before the first
  commits, waits for its row locks, and is then judged by `collectEntrySeqs` against the balance the
  first left: it answers INSUFFICIENT_FUNDS before it reaches the INSERT that would have resolved it
  (`transactions.service.ts:257-277`). Money moves once all the same (`ReferencesAreIdempotent`).
- `void_fx`: `docs/ticket.md:363` says a posted transaction can be voided. A cross-currency transfer
  cannot: its reversal is built by `DoubleEntryTransaction.of`, which accepts one currency
  (`transactions.service.ts:383`).
- `as_of`: `docs/prd.md:174` promises the "balance exactly as it stood" at an instant, "ignoring all later
  events". `posted_at` is `new Date()` before COMMIT (`transactions.service.ts:276`): a transaction
  stamped before the instant and committed after it is missing from the first reading of that balance
  and in the next. What does hold is `SettledPastStands`.
- `timeline`: `AccountDetailPage.tsx:60` says each loaded page is appended. When the first page of the
  point in time the user picks, or of the account he moves to, is already cached and no further page
  was loaded before, the append effect (line 61) and the reset effect (line 72) run in one commit, in that
  order, and the timeline stays empty although its page is loaded.

Without a run, because any single call shows them:

- `docs/ticket.md:199` and `reconciliation.service.ts:52` hold that no balance is below the overdraft
  limit. `updateLimit` (`accounts.service.ts:156-171`) does not look at the balance. What does hold is
  that no *post* leaves an account below its limit (proved), and that a reconciliation reports only
  accounts whose limit was changed (`ReportsOnlyLoweredLimits`).
- `docs/ticket.md:603` says a `limit_changed` event is "visible in status history".
  `fold` (`account-event.service.ts:88`) adds no item for it.
- `docs/architecture.md:132` says the `accounts` row can be rebuilt by replaying its lifecycle
  events. The row of a vault cannot: `getInternalCashAccountId` (`internal-accounts.service.ts:41`)
  inserts it without an event. `RowsAreProjections` is therefore stated of customer accounts.
- `audit.service.ts:106-107` says the balance of a trail is taken at "as_of > to > now"; the code takes
  `to ?? asOf`. With both, the rows end at the earlier one and the balance is that of `to`
  (`TrailsCloseOnTheirBalance` leaves that query out). A trail whose `from` is after its end is not
  refused either; it has no rows, and a balance.
- A process whose clock is ahead of the database's stamps an entry later than the snapshot that sums it:
  a point-in-time balance from that snapshot then counts an entry that a replay does not. This is the
  hypothesis `NoProcessAhead`; nothing in the code or the documents ensures it.
- `docs/ticket.md:401` asks of the lists that there be "no skipped/duplicated rows" under concurrent
  appends. Duplicates there are none (`PagesAdvance`). But `posted_at` and `created_at` are set before
  COMMIT (`transactions.service.ts:276`), so a row that commits late may take its place behind the cursor
  of a walk that has passed it, and that walk never shows it. `NothingOldIsSkipped` therefore promises
  only the rows that matched when the walk began.
- A movement or a transfer invalidates neither the feed, nor the statement, nor the account's
  transactions that `VoidModal` picks the latest from: until their stale time passes they lack the
  user's own write. `FreshAnswersHaveOwnWrites` is stated of what the console does refresh, and of answers
  that are not late.
- `ReportsPage.tsx` reads `type` and `message` of a reconciliation issue; the server sends `check` and
  `details`.

## What the properties leave open

What a reader could take from a name and should not:

- `NothingOldIsSkipped` says nothing of a row that was not there, or did not match, when the walk began.
  A row that commits late behind the cursor is skipped, and nothing is promised for it.
- One database transaction is one atomic step. That a statement that fails undoes those before it is
  assumed of PostgreSQL; that the code issues them all inside one transaction is read from the code.
  `AppendOnly`, `RowsAreProjections` and `TransactionsAreComplete` rest on this and do not check it. They
  would not notice a statement moved out of its transaction.
- `RejectionsLeaveNoTrace` is about 4xx answers. A 500 may follow a commit (the read-back or the
  connection fails), so a snapshot failure that was not swallowed and became a 500 would not break it.
- `TypeOK` bounds `attempt` and says nothing of what a rerun of the callback inherits; `LockedRowsAreCurrent`
  does.
- `BalancesAreBounded` bounds a balance by the overdraft limits of the others. It knows no column: that
  the bound fits NUMERIC(19,4) depends on limits and accounts, and nothing in the code ensures it.
- `PointInTimeIsReplay` holds where no process's clock is ahead of the database's (`NoProcessAhead`).
- `FreshAnswersHaveOwnWrites` excepts late answers: those of fetches that were on their way when the write
  was acknowledged and that the library does not replace. Until the stale time passes they may lack the
  write. It also excepts what the console does not refresh: see the list above, and `ShowsWrite`.

## What is not modelled

- In `Ledger`, the creation of the vaults, which `Vaults` models: they exist in `Init`, without
  lifecycle events, as `getInternalCashAccountId` inserts them.
- Filters of the lists other than a status (account type, transaction type, search): a client that
  changes one starts another list. A cursor that does not decode is treated as none by the controllers
  and is the first page.
- Decimal parsing and formatting: amounts are whole minor units in `1..MAX_UNITS`. The range of a
  balance, in `Money` and in the column, is not: `BalancesAreBounded` bounds what can reach it.
- The size of the connection pool and the back-off delay: no request needs a second connection while
  it holds one, so a full pool delays requests and nothing else.
- `AccountEventStore.append`, which no service calls.
- Request parsing, guards, throttler, logging, health, swagger, migrations: no ledger state.
- In the console: charts, formatting, toasts, theme, settings, the stored list of recent accounts (local
  storage; its links are `MoveTo`), the transaction detail modal, the layout. Several tabs share nothing but the server; `OthersPost` is
  everybody else.

## The plan

Done: `Replay`, `LedgerSchema`, `SerialLedger`, `Ledger`, `LedgerProperties`, `Reconciliation`, `MCLedger`
and the five proof modules of the ledger; `OneVault`, `Vaults`, `MCVaults`, `VaultsProofs`; `Timeline`,
`Reads`, `MCReads`, `ReadsProofs`; `Console`, `MCConsole`, `ConsoleProofs`. Still to do, in order of importance:

1. `Timeline` as a refinement of what `Ledger` commits, so that exactness of snapshots is passed on and
   not taken.
2. `Money`: parsing and formatting, and the range of sums, against a reference definition over bounded
   inputs. Rounding and the range of an amount are in `LedgerSchema`.
3. The statements of one database transaction as steps of their own, with the rollback of a failing one, so
   that atomicity is checked and not assumed.
