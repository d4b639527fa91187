-------------------------------- MODULE Reads --------------------------------
(***************************************************************************)
(* The read endpoints over the tables of module Timeline: the audit trail  *)
(* and its CSV export (AuditService), the list of an account's             *)
(* transactions, the feed of all transactions (TransactionsService) and    *)
(* the list of accounts (AccountsService).                                 *)
(*                                                                         *)
(* A client walks through the pages of one list: it asks for a page, gets  *)
(* a cursor, and asks again with the cursor while posts, snapshots and new *)
(* accounts are committed.  A page is itself answered by several SELECTs   *)
(* outside any transaction, so every SELECT is an action.                  *)
(***************************************************************************)
EXTENDS Timeline

CONSTANTS
  Query,   \* the lists a client may walk through
  Limit    \* the page size it asks for (500 in the export)

\* An optional timestamp of a query.
Times == {{}} \cup {{T} : T \in 0..MaxTime}

\* The lists the controllers serve; filters that never change are left out.
AuditQueries == [kind: {"audit"}, account: Account, asOf: Times, from: Times, to: Times]
ExportQueries == [kind: {"csv"}, account: Account, asOf: Times, from: {{}}, to: {{}}]
TransactionQueries == [kind: {"transactions"}, account: Account, asOf: {{}}, from: {{}}, to: {{}}]
FeedQueries == [kind: {"feed"}, status: {{}, {"posted"}, {"void"}}]
AccountQueries == [kind: {"accounts"}]

ASSUME ReadsAssumption ==
  /\ Limit \in Nat \ {0}
  /\ Query \subseteq UNION {AuditQueries, ExportQueries, TransactionQueries, FeedQueries, AccountQueries}

VARIABLES
  pc,          \* the statement the reader is about to run
  query,       \* the list it walks through
  cursor,      \* the last item of the previous page, as a set: empty on the first
  base,        \* the balance the running balances of the page start from
  rows,        \* the rows of the page, by key
  more,        \* is there a page after it?
  delivered,   \* the pages delivered so far: each a function from keys to balances
  balance,     \* the account-level balance of the last audit page
  asked        \* history: what was there when the walk began

readVars == <<pc, query, cursor, base, rows, more, delivered, balance, asked>>
vars == <<timelineVars, readVars>>

NoQuery == [kind |-> "none"]
NotAsked == [keys |-> {}, settled |-> FALSE]

ReadsInit ==
  /\ pc = "idle" /\ query = NoQuery /\ cursor = {} /\ base = 0 /\ rows = {}
  /\ more = FALSE /\ delivered = <<>> /\ balance = 0 /\ asked = NotAsked

Init == TimelineInit /\ ReadsInit

IsTrail == query.kind \in {"audit", "csv"}

-----------------------------------------------------------------------------
(* Keyset pagination *)

\* The order of the feed, newest first: posted_at, then id, descending.
FeedBefore(t, u) ==
  \/ posts[t].postedAt > posts[u].postedAt
  \/ posts[t].postedAt = posts[u].postedAt /\ t > u

\* The order of the accounts: created_at, then id.
AccountBefore(a, b) ==
  \/ accounts[a].createdAt < accounts[b].createdAt
  \/ accounts[a].createdAt = accounts[b].createdAt /\ a < b

Before(q, k, l) == CASE q.kind = "feed" -> FeedBefore(k, l)
                     [] q.kind = "accounts" -> AccountBefore(k, l)
                     [] OTHER -> k < l

\* paginateGlobalTransactions.
MatchingTransactions(q) == {t \in Posted : q.status # {} => posts[t].state \in q.status}

\* rawAudit; paginateAccountTransactions is the same without the times.
MatchingEntries(q) ==
  {n \in DOMAIN log[q.account] :
     LET t == log[q.account][n].tx
     IN  PostedBy(t, q.asOf) /\ PostedFrom(t, q.from) /\ PostedBy(t, q.to)}

\* The keys that match the conditions of a list, whatever its cursor.
Matching(q) == CASE q.kind = "accounts" -> Visible
                 [] q.kind = "feed" -> MatchingTransactions(q)
                 [] OTHER -> MatchingEntries(q)

\* Slip: the page starts at the cursor instead of after it.
Remaining_Inclusive(q) == {k \in Matching(q) : \A c \in cursor : ~Before(q, k, c)}

\* Slip: the ids that break ties between equal times are left out.
Remaining_TimeOnly(q) ==
  {k \in Matching(q) : \A c \in cursor :
     IF q.kind = "accounts" THEN accounts[c].createdAt < accounts[k].createdAt
     ELSE Before(q, c, k)}

\* WHERE key > cursor.
Remaining(q) == {k \in Matching(q) : \A c \in cursor : Before(q, c, k)}

\* ORDER BY key LIMIT n.
FirstOf(q, S, n) == {k \in S : Cardinality({l \in S : Before(q, l, k)}) < n}

LastOf(q, S) == CHOOSE k \in S : \A l \in S : l = k \/ Before(q, l, k)

-----------------------------------------------------------------------------

\* Is the past up to T over: no transaction can be stamped by T any more, and
\* nothing stamped by then is still open?
Settled(T) ==
  /\ \A t \in Tx : posts[t].state = "none" => now + Offset[t] > T
  /\ \A t \in Tx : posts[t].state = "open" => posts[t].postedAt > T

\* The window of an audit trail is settled at both ends.
WindowSettled(q) == /\ \A T \in q.from : Settled(T - 1)
                    /\ \A T \in q.asOf \cup q.to : Settled(T)

\* A client asks for the first page.
Ask(q) ==
  /\ pc = "idle"
  /\ IF q.kind \in {"feed", "accounts"} THEN TRUE ELSE q.account \in Visible
  /\ query' = q
  /\ asked' = [keys |-> Matching(q),
               settled |-> q.kind = "audit" /\ WindowSettled(q)]
  /\ pc' = IF q.kind \in {"audit", "csv"} THEN "base" ELSE "rows"
  /\ UNCHANGED <<timelineVars, cursor, base, rows, more, delivered, balance>>

\* Slip: the balance at `from', not strictly before it.
windowBase_AtFrom(q) == BalanceAsOf(q.account, q.from)

\* balancesFor([accountId], from - 1 ms).
windowBase(q) == BalanceAsOf(q.account, {T - 1 : T \in q.from})

\* balanceUpToSeq(accountId, afterSeq ?? 0, asOf).
seed(q) == BalanceUpToAsOf(q.account, IF cursor = {} THEN 0 ELSE LastOf(q, cursor), q.asOf)

\* AuditService.get and writeCsv: the balance the running balance starts from.
\* The export reads it once.
ReadBase ==
  /\ pc = "base"
  /\ base' = IF query.from # {} /\ cursor = {} THEN windowBase(query) ELSE seed(query)
  /\ pc' = "rows"
  /\ UNCHANGED <<timelineVars, query, cursor, rows, more, delivered, balance, asked>>

\* The rows of the page.  One row more than the limit tells that there is
\* another page; the export asks again whenever its page was full.
ReadRows ==
  LET fetched == FirstOf(query, Remaining(query), IF query.kind = "csv" THEN Limit ELSE Limit + 1)
  IN  /\ pc = "rows"
      /\ rows' = FirstOf(query, fetched, Limit)
      /\ more' = (Cardinality(fetched) = IF query.kind = "csv" THEN Limit ELSE Limit + 1)
      /\ pc' = "page"
      /\ UNCHANGED <<timelineVars, query, cursor, base, delivered, balance, asked>>

\* The running balance on the row at position n.
runningBalance(n) ==
  base + SumAfter(NormalSide[query.account], Restrict(log[query.account], rows), 0)[n]

LastRunning == IF rows = {} THEN base ELSE runningBalance(LastOf(query, rows))

\* Slip: the balance of today, whatever the window.
windowEnd_Now(q) == {}

\* range.to ?? asOf.
windowEnd(q) == IF q.to = {} THEN q.asOf ELSE q.to

\* The items of a page by key: rows with their running balances, ...
TrailItems == [n \in rows |-> runningBalance(n)]
\* ... accounts with the balances a second statement reads, ...
AccountItems == [a \in rows |-> BalanceAsOf(a, {})]
\* ... or transactions, without one.
TransactionItems == [k \in rows |-> 0]

Items == CASE IsTrail -> TrailItems
           [] query.kind = "accounts" -> AccountItems
           [] OTHER -> TransactionItems

\* The page is delivered with nextCursor, and the client asks again with it.
DeliverPage ==
  /\ pc = "page" /\ more /\ query.kind # "csv"
  /\ delivered' = Append(delivered, Items)
  /\ cursor' = {LastOf(query, rows)}
  /\ base' = 0 /\ rows' = {}
  /\ pc' = IF query.kind = "audit" THEN "base" ELSE "rows"
  /\ UNCHANGED <<timelineVars, query, more, balance, asked>>

\* Slip: the next page of the export starts its balance over.
ExportGoesOn_Restarts ==
  /\ pc = "page" /\ more /\ query.kind = "csv"
  /\ delivered' = Append(delivered, Items)
  /\ cursor' = {LastOf(query, rows)}
  /\ base' = 0 /\ rows' = {}
  /\ pc' = "rows"
  /\ UNCHANGED <<timelineVars, query, more, balance, asked>>

\* The export writes a full page and goes on, its running balance in hand.
ExportGoesOn ==
  /\ pc = "page" /\ more /\ query.kind = "csv"
  /\ delivered' = Append(delivered, Items)
  /\ cursor' = {LastOf(query, rows)}
  /\ base' = LastRunning /\ rows' = {}
  /\ pc' = "rows"
  /\ UNCHANGED <<timelineVars, query, more, balance, asked>>

\* The last page.  An audit page carries the account-level balance at the end
\* of its window; it is kept of the last page only.
DeliverLastPage ==
  /\ pc = "page" /\ ~more
  /\ delivered' = Append(delivered, Items)
  /\ balance' = IF query.kind = "audit" THEN BalanceAsOf(query.account, windowEnd(query)) ELSE 0
  /\ pc' = "done"
  /\ UNCHANGED <<timelineVars, query, cursor, base, rows, more, asked>>

ReaderNext == (\E q \in Query : Ask(q)) \/ ReadBase \/ ReadRows
  \/ DeliverPage \/ ExportGoesOn \/ DeliverLastPage

\* Bound: the writers stop when the walk has ended.
Next == (pc # "done" /\ TimelineNext /\ UNCHANGED readVars) \/ ReaderNext

Spec == Init /\ [][Next]_vars

-----------------------------------------------------------------------------
(* What the reads promise *)

DeliveredKeys == UNION {DOMAIN delivered[i] : i \in DOMAIN delivered}

\* A point-in-time balance is the one a replay of the same entries gives,
\* whichever snapshots exist and whenever they were taken
\* (ledger.store.ts:360-364), as long as no process' clock runs ahead of the
\* database's.
PointInTimeIsReplay ==
  NoProcessAhead =>
    \A a \in Account, T \in 0..MaxTime : BalanceAsOf(a, {T}) = ReplayAsOf(a, {T})

\* As of every instant the debits equal the credits: no point-in-time read ever
\* shows half a transfer (docs/ticket.md:222), although the accounts start from
\* snapshots of their own.
DebitBalance(a, T) == IF NormalSide[a] = "debit" THEN BalanceAsOf(a, {T}) ELSE -BalanceAsOf(a, {T})
BooksBalanceAtEveryInstant ==
  NoProcessAhead =>
    \A T \in 0..now :
      SumFunctionOnSet([a \in Account |-> DebitBalance(a, T)], Account) = 0

\* A past that is settled stays settled and stays as it is: what is committed
\* later never changes a balance as of an instant by which nothing can be
\* stamped any more and nothing stamped is open.
SettledPastStandsStep ==
  NoProcessAhead =>
    \A T \in {S \in 0..MaxTime : Settled(S)} :
      /\ Settled(T)'
      /\ <<log, snapshots>>' # <<log, snapshots>> =>
           \A a \in Account : BalanceAsOf(a, {T})' = BalanceAsOf(a, {T})
SettledPastStands == [][SettledPastStandsStep]_vars

\* Whatever is committed between two pages, a walk never delivers a row twice,
\* and every page sorts after the ones before it.
PagesAdvance ==
  \A i, j \in DOMAIN delivered : i < j =>
    \A k \in DOMAIN delivered[i], l \in DOMAIN delivered[j] : Before(query, k, l)

\* A walk that reaches the end has delivered every row that matched when it
\* began and still matches.
NothingOldIsSkipped ==
  pc = "done" => (asked.keys \cap Matching(query)) \subseteq DeliveredKeys

\* The entries of an account carry the time in the order of their positions.
\* Processes whose clocks disagree may break it.
InOrder(a) ==
  \A m, n \in DOMAIN log[a] : m < n =>
    posts[log[a][m].tx].postedAt <= posts[log[a][n].tx].postedAt

\* A trail that is cut by `from' or `to' is cut where the account's entries are
\* in order.
WindowInOrder == query.from \cup query.to # {} => InOrder(query.account)

\* The running balance on every row of a trail is the balance of the account
\* right after that entry, counting the entries posted by as_of: a page that
\* starts in the middle continues where the one before it stopped.  In a window
\* it is the whole history's balance, when the account's entries are in order
\* and, if the window has a start, that start is settled and no clock runs ahead.
RunningBalancesAreReplays ==
  IsTrail /\ WindowInOrder /\ (query.from # {} => asked.settled /\ NoProcessAhead) =>
    \A i \in DOMAIN delivered : \A n \in DOMAIN delivered[i] :
      delivered[i][n] = BalanceUpToAsOf(query.account, n, query.asOf)

\* Over a settled window the trail closes on the balance it is delivered with:
\* "final running balance equals GET /balance for the same as_of"
\* (docs/ticket.md:243).  A query with both `as_of' and `to' is left out (its
\* rows end at the earlier of the two and its balance is taken at `to'), and so
\* is a window that ends before it starts, which nothing refuses.
TrailsCloseOnTheirBalance ==
  /\ pc = "done" /\ query.kind = "audit"
  /\ asked.settled /\ NoProcessAhead /\ WindowInOrder
  /\ (query.asOf = {} \/ query.to = {}) /\ query.asOf \cup query.to # {}
  /\ \A F \in query.from, T \in query.asOf \cup query.to : F <= T
  => LastRunning = balance

-----------------------------------------------------------------------------
(* Why the walks are right: inductive invariants of the reader *)

\* The keys a list may show, whatever its conditions: they never go away.
Listed(q) == CASE q.kind = "accounts" -> Visible
               [] q.kind = "feed" -> Posted
               [] OTHER -> DOMAIN log[q.account]

\* The rows of accounts are rows, and finitely many transactions are posted.
RowsInv ==
  /\ accounts \in [Account -> [state: {"none", "open", "committed"}, createdAt: Nat]]
  /\ IsFiniteSet(Posted)

\* The pages delivered so far, and the rows of the next, are where the cursor
\* says.
WalkInv ==
  /\ pc \in {"idle", "base", "rows", "page", "done"}
  /\ delivered \in Seq(Range(delivered))
  /\ pc = "idle" => delivered = <<>> /\ cursor = {} /\ rows = {}
  /\ pc # "idle" =>
       /\ query \in Query
       /\ cursor \subseteq Listed(query) /\ \A c, d \in cursor : c = d
       /\ rows \subseteq Listed(query)
       /\ asked.keys \subseteq Listed(query)
       /\ DeliveredKeys \subseteq Listed(query)
       /\ pc # "done" =>
            \A k \in DeliveredKeys : \E c \in cursor : k = c \/ Before(query, k, c)
       /\ pc = "page" =>
            /\ \A k \in rows, c \in cursor : Before(query, c, k)
            /\ more => rows # {}

\* A key that matched when the walk began, and still does, is behind the reader,
\* in its hands or ahead of it; of a feed, it has matched all the while.
SkipInv ==
  pc # "idle" =>
    /\ query.kind = "feed" =>
         \A k \in asked.keys : posts[k].state = "posted" =>
           query.status = {} \/ "posted" \in query.status
    /\ \A k \in asked.keys \cap Matching(query) :
         \/ k \in DeliveredKeys
         \/ pc \in {"base", "rows"} /\ \A c \in cursor : Before(query, c, k)
         \/ pc = "page" /\ k \in rows
         \/ pc = "page" /\ more /\ \A l \in rows : Before(query, l, k)

\* What makes the running balances of a trail right.
Clean == WindowInOrder /\ (query.from # {} => asked.settled /\ NoProcessAhead)

\* What the balance of a page must start from.
PageBase ==
  IF cursor # {} THEN BalanceUpToAsOf(query.account, LastOf(query, cursor), query.asOf)
  ELSE IF query.from # {} THEN ReplayAsOf(query.account, {F - 1 : F \in query.from})
  ELSE 0

TrailInv ==
  /\ asked.settled => pc # "idle" /\ query.kind = "audit" /\ WindowSettled(query)
  /\ pc # "idle" /\ IsTrail =>
       /\ cursor \cup rows \subseteq Matching(query)
       /\ Clean =>
            /\ pc = "rows" => base = PageBase
            /\ pc = "page" => \A n \in rows :
                 runningBalance(n) = BalanceUpToAsOf(query.account, n, query.asOf)

\* The window of the last property, of which the end is T.
EndsAt(T) ==
  /\ asked.settled /\ NoProcessAhead /\ WindowInOrder
  /\ query.asOf = {} \/ query.to = {}
  /\ T \in query.asOf \cup query.to
  /\ \A F \in query.from : F <= T

CloseInv ==
  query.kind = "audit" =>
    \A T \in query.asOf \cup query.to : EndsAt(T) =>
      /\ pc = "page" /\ ~more => LastRunning = ReplayAsOf(query.account, {T})
      /\ pc = "done" => LastRunning = balance

-----------------------------------------------------------------------------
(* An expectation of the documents that the code does not meet *)

\* docs/prd.md:174: an as_of read gives the "balance exactly as it stood" then,
\* "ignoring all later events": nothing that is committed after an instant
\* changes the balance as of that instant.
PastStandsStep ==
  \A a \in Account, T \in 0..MaxTime : T < now => BalanceAsOf(a, {T})' = BalanceAsOf(a, {T})
PastStands == [][PastStandsStep]_vars

=============================================================================
