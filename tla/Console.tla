------------------------------- MODULE Console -------------------------------
(***************************************************************************)
(* The web console as one browser tab runs it: the pages that observe      *)
(* queries, the modals that write, and the audit timeline that             *)
(* AccountDetailPage accumulates from the pages of the trail.              *)
(*                                                                         *)
(* Answers are cached by query key (TanStack Query, configured in          *)
(* main.tsx); the actions of the cache model the library from how the      *)
(* console uses it.  What the ledger would answer is two counters for each *)
(* account: how many entries it has, and how often its row has changed.    *)
(* Of a list, the part about one account is followed.  The browser is      *)
(* single-threaded: an event, the render it causes and the effects of that *)
(* render come before the next event.  An account is taken as loaded once  *)
(* its page is there: until it is, the page shows a spinner.               *)
(***************************************************************************)
EXTENDS Integers, Sequences, FiniteSets, SequencesExt

CONSTANTS
  Account,     \* the accounts that are followed
  AsOf,        \* the points in time the user may pick
  EntriesBy,   \* how many entries an account has by each of them
  AUDIT_PAGE,  \* the size of a page of the trail
  Studies,     \* bound: what a behaviour follows, see study
  Write,       \* bound: the writes the user makes
  MaxEntries,  \* bound on the history of an account
  Current      \* the point in time that is not picked: now

Kind == {"account", "account-balance", "status-history", "audit", "account-transactions",
         "accounts", "feed", "statement"}
Page == {"dashboard", "accounts", "detail", "activity", "reports", "settings"}
Moves == {"movement", "transfer", "void"}
OfAccount == {"movement", "void", "status", "limit"}   \* modals given an account
Modal == OfAccount \cup {"transfer", "create"}

Window == AsOf \cup {Current}
Cursor == 0 .. MaxEntries   \* 0: no cursor, the first page

ASSUME ConsoleAssumption ==
  /\ Current \notin AsOf /\ MaxEntries \in Nat /\ AUDIT_PAGE \in Nat \ {0}
  /\ IsFiniteSet(Write)
  /\ EntriesBy \in [Account -> [AsOf -> 0 .. MaxEntries]]
  /\ Studies \subseteq [kind: Kind, accounts: SUBSET Account, pages: SUBSET Page,
                        modals: SUBSET Modal, times: SUBSET Window, others: SUBSET Account]

VARIABLES
  study,    \* what is followed: the query, the accounts, the pages, the modals, the
            \* points in time, the accounts others post on; queries do not interact
  server,   \* what the ledger would answer now: account -> [entries, changes]
  cache,    \* query key -> [data, fresh, inFlight, late]
  page,     \* the page that is mounted
  account,  \* AccountDetailPage: the account of its route
  asOf,     \* AccountDetailPage: the point in time picked
  cursor,   \* AccountDetailPage: auditCursor
  items,    \* AccountDetailPage: auditItems, by account and seq
  seen,     \* what its effects have last run for: [data, window]
  modal,    \* the modal that is open, if any
  writes    \* write -> [state, kind, from, of, told, made]: the accounts it was
            \* submitted for, those its success will name, the ledger that has it

vars == <<study, server, cache, page, account, asOf, cursor, items, seen, modal, writes>>
pageVars == <<page, account, asOf, cursor, items, seen>>

Answer == [entries: 0 .. MaxEntries, changes: 0 .. Cardinality(Write)]

-----------------------------------------------------------------------------
(* Query keys *)

Query(kind, id) == [kind |-> kind, account |-> id, asOf |-> Current, cursor |-> 0]
AuditKey(id, when, after) == [kind |-> "audit", account |-> id, asOf |-> when, cursor |-> after]
BalanceKey(id, when) == [kind |-> "account-balance", account |-> id, asOf |-> when, cursor |-> 0]
Keys(s) ==
  CASE s.kind = "audit" -> {AuditKey(id, when, after) : id \in s.accounts, when \in Window, after \in Cursor}
    [] s.kind = "account-balance" -> {BalanceKey(id, when) : id \in s.accounts, when \in AsOf}
    [] OTHER -> {Query(s.kind, id) : id \in s.accounts}
QueryKey == DOMAIN cache

\* The queries each page and each modal observes while it is mounted.  The
\* status history is the page's panel.
ListQuery(kind) == {Query(kind, id) : id \in Account}
DetailQueries(id, when, after) ==
  {Query("account", id), AuditKey(id, when, after)} \cup {BalanceKey(id, T) : T \in {when} \ {Current}}
PanelQueries(id) == {Query("status-history", id)}
AccountsPageQueries == ListQuery("accounts")
ActivityQueries == ListQuery("feed")
DashboardQueries == ListQuery("accounts") \cup ListQuery("feed")
ReportsQueries == ListQuery("accounts") \cup ListQuery("statement")
TransferModalQueries == ListQuery("accounts")
VoidModalQueries(id) == {Query("account-transactions", id)}

PageQueries(p, id, when, after) ==
  CASE p = "detail" -> DetailQueries(id, when, after) \cup PanelQueries(id)
    [] p = "accounts" -> AccountsPageQueries
    [] p = "activity" -> ActivityQueries
    [] p = "dashboard" -> DashboardQueries
    [] p = "reports" -> ReportsQueries
    [] p = "settings" -> {}

ModalQueries(m, id) == CASE m = "transfer" -> TransferModalQueries
                         [] m = "void" -> VoidModalQueries(id)
                         [] OTHER -> {}

ObservedAt(p, id, when, after, m) ==
  (PageQueries(p, id, when, after) \cup ModalQueries(m, id)) \cap QueryKey
Observed == ObservedAt(page, account, asOf, cursor, modal)

\* What the success handler of each modal invalidates, given the accounts it names.
KeysOf(kinds, ids) == {k \in QueryKey : k.kind \in kinds /\ k.account \in ids}
AllKeysOf(kinds) == {k \in QueryKey : k.kind \in kinds}

\* Slip: a transfer refreshes one of its two accounts.
Transferred_OneEnd(ids) ==
  AllKeysOf({"accounts", "audit", "account-balance"}) \cup KeysOf({"account"}, {CHOOSE id \in ids : TRUE})

Moved(ids) == AllKeysOf({"accounts"}) \cup KeysOf({"account", "audit", "account-balance"}, ids)
Transferred(ids) == AllKeysOf({"accounts", "audit", "account-balance"}) \cup KeysOf({"account"}, ids)
Voided(ids) ==
  AllKeysOf({"accounts"}) \cup KeysOf({"account", "audit", "account-balance", "account-transactions"}, ids)
StatusManaged(ids) == AllKeysOf({"accounts"}) \cup KeysOf({"account", "status-history"}, ids)
LimitManaged(ids) == AllKeysOf({"accounts"}) \cup KeysOf({"account", "status-history"}, ids)
Created == AllKeysOf({"accounts"})

InvalidatedBy(kind, ids) ==
  CASE kind = "movement" -> Moved(ids) [] kind = "transfer" -> Transferred(ids)
    [] kind = "void" -> Voided(ids) [] kind = "status" -> StatusManaged(ids)
    [] kind = "limit" -> LimitManaged(ids) [] kind = "create" -> Created

-----------------------------------------------------------------------------
(* The cache.  `data' and `inFlight' are sets of at most one answer.        *)

NoData == [data |-> {}, fresh |-> FALSE, inFlight |-> {}, late |-> FALSE]

\* A fetch is as old as the ledger it started from.
Fetching(entry, k) == [entry EXCEPT !.inFlight = {server[k.account]}, !.late = FALSE]

\* A query that becomes observed is fetched unless it is fresh or on its way.
Observing(c, before, after) ==
  [k \in QueryKey |-> IF k \in after \ before /\ ~c[k].fresh /\ c[k].inFlight = {}
                      THEN Fetching(c[k], k) ELSE c[k]]

\* invalidateQueries: what is observed is fetched again.  A fetch on its way is
\* replaced if the query has data and is observed; otherwise it goes on, and what
\* it answers counts as fresh although it is late.
Invalidated(keys, observed) ==
  [k \in QueryKey |->
     IF k \notin keys THEN cache[k]
     ELSE IF k \in observed /\ (cache[k].data # {} \/ cache[k].inFlight = {})
     THEN Fetching([cache[k] EXCEPT !.fresh = FALSE], k)
     ELSE [cache[k] EXCEPT !.fresh = FALSE, !.late = @ \/ cache[k].inFlight # {}]]

\* Is an answer as new as another one to the same query?
AsNewAs(answer, then) == then.entries <= answer.entries /\ then.changes <= answer.changes

\* The answer arrives, of the ledger at some time since the fetch started.
Deliver(k) ==
  /\ \E then \in cache[k].inFlight, answer \in Answer :
       /\ AsNewAs(answer, then) /\ AsNewAs(server[k.account], answer)
       /\ cache' = [cache EXCEPT ![k] = [@ EXCEPT !.data = {answer}, !.fresh = TRUE, !.inFlight = {}]]
  /\ UNCHANGED <<study, server, pageVars, modal, writes>>

\* The retry button of an error, or the network is back: what is stale is fetched.
Refetch(k) ==
  /\ k \in Observed /\ ~cache[k].fresh /\ cache[k].inFlight = {}
  /\ cache' = [cache EXCEPT ![k] = Fetching(@, k)]
  /\ UNCHANGED <<study, server, pageVars, modal, writes>>

\* It fails, and so does its one retry: the data stay what they were.
FetchFails(k) ==
  /\ cache[k].inFlight # {}
  /\ cache' = [cache EXCEPT ![k].inFlight = {}, ![k].late = @ /\ cache[k].fresh]
  /\ UNCHANGED <<study, server, pageVars, modal, writes>>

\* staleTime passes.
GoStale(k) ==
  /\ cache[k].fresh
  /\ cache' = [cache EXCEPT ![k].fresh = FALSE]
  /\ UNCHANGED <<study, server, pageVars, modal, writes>>

\* gcTime passes without an observer.
Forget(k) ==
  /\ k \notin Observed /\ cache[k].inFlight = {} /\ cache[k].data # {} /\ ~cache[k].fresh
  /\ cache' = [cache EXCEPT ![k] = NoData]
  /\ UNCHANGED <<study, server, pageVars, modal, writes>>

-----------------------------------------------------------------------------
(* The audit timeline of AccountDetailPage *)

\* The page of the trail after a cursor, and whether there is another.
Entries(answer, id, when) ==
  IF when = Current \/ answer.entries < EntriesBy[id][when] THEN answer.entries ELSE EntriesBy[id][when]
TrailPage(k, answer) ==
  LET end == Entries(answer, k.account, k.asOf)
  IN  [items |-> {n \in 1 .. end : k.cursor < n /\ n <= k.cursor + AUDIT_PAGE},
       nextCursor |-> IF k.cursor + AUDIT_PAGE < end THEN k.cursor + AUDIT_PAGE ELSE 0]

\* auditQuery.data, as a set, with its identity: the key it is cached under, for
\* an answer equal to the one before it keeps the object.
auditData ==
  LET k == AuditKey(account, asOf, cursor)
  IN  IF k \in QueryKey THEN {[key |-> k, view |-> TrailPage(k, answer)] : answer \in cache[k].data}
      ELSE {}
nextCursor == UNION {{d.view.nextCursor} \ {0} : d \in auditData}

\* Slip: the reset does not depend on the account.
window_TimeOnly == [asOf |-> asOf]

\* What the reset of the accumulation depends on.
window == [account |-> account, asOf |-> asOf]

NotRun == [data |-> {}, window |-> {}]
Effects == [data |-> auditData, window |-> {window}]

\* A commit is due whenever a dependency of an effect has changed.
CommitDue == page = "detail" /\ seen # Effects

\* The positions of a set, in their order, as entries of the account.
Ascending(S) == CHOOSE s \in [1 .. Cardinality(S) -> S] : \A i, j \in DOMAIN s : i < j => s[i] < s[j]
Listed(S) == LET s == Ascending(S) IN [i \in DOMAIN s |-> [account |-> account, seq |-> s[i]]]

Loaded == UNION {d.view.items : d \in auditData}

\* Slip: what is known is appended again.
Appended_Again == items \o Listed(Loaded)

\* Slip: the loaded page replaces the timeline.
Appended_Replaces == Listed(Loaded)

\* The items of the loaded page whose seq is not there yet.
Appended == items \o Listed(Loaded \ {items[i].seq : i \in DOMAIN items})

\* Slip: the cursor of the old window is kept.
Commit_KeepsCursor ==
  /\ CommitDue
  /\ items' = IF seen.window # {window} THEN <<>> ELSE Appended
  /\ seen' = Effects
  /\ UNCHANGED <<study, server, cache, page, account, asOf, cursor, modal, writes>>

\* The two effects of a render, in their order: the loaded page is appended, and
\* then, if the account or the point in time has changed, the accumulation starts
\* over.
Commit ==
  /\ CommitDue
  /\ items' = IF seen.window # {window} THEN <<>> ELSE Appended
  /\ cursor' = IF seen.window # {window} THEN 0 ELSE cursor
  /\ seen' = Effects
  /\ cache' = Observing(cache, Observed, ObservedAt(page, account, asOf, cursor', modal))
  /\ UNCHANGED <<study, server, page, account, asOf, modal, writes>>

-----------------------------------------------------------------------------
(* The user *)

\* Navigation, by a link or by the browser: the page is mounted with its initial
\* state, and the modals of the page that is left go with it.
Visit(p, id) ==
  /\ p # page /\ (p # "detail" => id = account)
  /\ page' = p /\ account' = id
  /\ asOf' = Current /\ cursor' = 0 /\ items' = <<>> /\ seen' = NotRun
  /\ modal' = IF modal = "create" THEN modal ELSE "none"
  /\ cache' = Observing(cache, Observed, ObservedAt(p, id, Current, 0, modal'))
  /\ writes' = [w \in Write |-> [writes[w] EXCEPT !.from = IF writes[w].kind = "create" THEN @ ELSE "gone"]]
  /\ UNCHANGED <<study, server>>

\* The submit button is disabled while a write of this modal is pending.
Pending == {w \in Write : writes[w].state \in {"sent", "applied"}}

\* From one account to another: the page stays mounted with all its state.  So
\* does its modal if the account is cached, and what that modal's pending write
\* will refresh is then the other account; if not, the page shows its spinner
\* first and the modal is a new one.
Stays(id) == IF study.kind = "account" THEN {cache[Query("account", id)].data # {}} ELSE BOOLEAN
Carried(w, id, stays) ==
  IF writes[w].from # "modal" \/ writes[w].kind = "create" THEN writes[w]
  ELSE IF ~stays THEN [writes[w] EXCEPT !.from = "page"]
  ELSE IF w \in Pending /\ writes[w].kind \in OfAccount THEN [writes[w] EXCEPT !.told = {id}]
  ELSE writes[w]
MoveTo(id) ==
  /\ page = "detail" /\ id # account
  /\ account' = id
  /\ cache' = Observing(cache, Observed, ObservedAt(page, id, asOf, cursor, modal))
  /\ \E stays \in Stays(id) : writes' = [w \in Write |-> Carried(w, id, stays)]
  /\ UNCHANGED <<study, server, page, asOf, cursor, items, seen, modal>>

PickAsOf(when) ==
  /\ page = "detail" /\ when # asOf
  /\ asOf' = when
  /\ cache' = Observing(cache, Observed, ObservedAt(page, account, when, cursor, modal))
  /\ UNCHANGED <<study, server, page, account, cursor, items, seen, modal, writes>>

\* The button is there below a timeline, and idle.
LoadMore ==
  /\ page = "detail" /\ items # <<>>
  /\ cache[AuditKey(account, asOf, cursor)].inFlight = {}
  /\ \E after \in nextCursor :
       /\ cursor' = after
       /\ cache' = Observing(cache, Observed, ObservedAt(page, account, asOf, after, modal))
  /\ UNCHANGED <<study, server, page, account, asOf, items, seen, modal, writes>>

\* The modals of the account page, and the one that creates an account.
OpenModal(m) ==
  /\ modal = "none" /\ (m = "create" \/ page = "detail")
  /\ modal' = m
  /\ cache' = Observing(cache, Observed, ObservedAt(page, account, asOf, cursor, m))
  /\ UNCHANGED <<study, server, pageVars, writes>>

\* A modal may be closed while its write is on its way.
CloseModal ==
  /\ modal # "none"
  /\ modal' = "none"
  /\ writes' = [w \in Write |-> [writes[w] EXCEPT !.from = IF @ = "modal" THEN "page" ELSE @]]
  /\ UNCHANGED <<study, server, cache, pageVars>>

\* What is submitted is for the account of the page, a transfer for the two
\* that its form has, which may not both be followed.
Subjects(kind) == CASE kind \in OfAccount -> {{account}}
                    [] kind = "transfer" -> {{x, y} : x, y \in study.accounts}
                    [] kind = "create" -> {{}}
Submit(w) ==
  /\ modal # "none" /\ writes[w].state = "none"
  /\ \A v \in Pending : writes[v].from # "modal"
  /\ \E ids \in Subjects(modal) :
       writes' = [writes EXCEPT ![w] = [@ EXCEPT !.state = "sent", !.kind = modal, !.from = "modal",
                                                 !.of = ids, !.told = ids]]
  /\ UNCHANGED <<study, server, cache, pageVars, modal>>

-----------------------------------------------------------------------------
(* The ledger, and the answers to writes *)

Changed(kind, ids) ==
  [x \in Account |-> IF x \notin ids THEN server[x]
                    ELSE IF kind \in Moves THEN [server[x] EXCEPT !.entries = @ + 1]
                    ELSE [server[x] EXCEPT !.changes = @ + 1]]

\* What else a write may change: the counterparty of a transfer that is voided,
\* the account that is created.
Besides(kind) == CASE kind = "void" -> {{}} \cup {{x} : x \in study.accounts}
                   [] kind = "create" -> {{x} : x \in study.accounts}
                   [] OTHER -> {{}}
Apply(w) ==
  /\ writes[w].state = "sent"
  /\ \E others \in Besides(writes[w].kind) :
       LET ids == writes[w].of \cup others
       IN  /\ writes[w].kind \in Moves => \A x \in ids : server[x].entries < MaxEntries
           /\ server' = Changed(writes[w].kind, ids)
  /\ writes' = [writes EXCEPT ![w] = [@ EXCEPT !.state = "applied", !.made = {server'}]]
  /\ UNCHANGED <<study, cache, pageVars, modal>>

\* Somebody else moves money on an account.
OthersPost(id) ==
  /\ server[id].entries < MaxEntries
  /\ server' = Changed("movement", {id})
  /\ UNCHANGED <<study, cache, pageVars, modal, writes>>

\* onSuccess: the queries are invalidated, and onClose closes whatever modal its
\* host shows, unless that is gone.  The create modal is the application's, the
\* others are the page's.
Acknowledge(w) ==
  LET hosts == writes[w].from # "gone" /\ (writes[w].kind = "create" <=> modal = "create")
  IN  /\ writes[w].state = "applied"
      /\ cache' = Invalidated(InvalidatedBy(writes[w].kind, writes[w].told), Observed)
      /\ modal' = IF hosts THEN "none" ELSE modal
      /\ writes' = [v \in Write |->
           IF v = w THEN [writes[v] EXCEPT !.state = "ok"]
           ELSE [writes[v] EXCEPT !.from = IF hosts /\ @ = "modal" THEN "page" ELSE @]]
      /\ UNCHANGED <<study, server, pageVars>>

\* onError: refused, or the answer is lost.  The modal stays.
Fail(w) ==
  /\ writes[w].state \in {"sent", "applied"}
  /\ writes' = [writes EXCEPT ![w].state = "failed"]
  /\ UNCHANGED <<study, server, cache, pageVars, modal>>

-----------------------------------------------------------------------------

Init ==
  /\ study \in Studies
  /\ server = [x \in Account |-> [entries |-> 0, changes |-> 0]]
  /\ cache = [k \in Keys(study) |->
                IF k \in DashboardQueries THEN Fetching(NoData, k) ELSE NoData]
  /\ page = "dashboard" /\ account \in study.accounts /\ asOf = Current /\ cursor = 0
  /\ items = <<>> /\ seen = NotRun /\ modal = "none"
  /\ writes = [w \in Write |-> [state |-> "none", kind |-> "none", from |-> "gone",
                                of |-> {}, told |-> {}, made |-> {}]]

Events ==
  \/ \E k \in QueryKey : Deliver(k) \/ Refetch(k) \/ FetchFails(k) \/ GoStale(k) \/ Forget(k)
  \/ \E p \in study.pages, id \in study.accounts : Visit(p, id)
  \/ \E id \in study.accounts : MoveTo(id)
  \/ \E when \in study.times : PickAsOf(when)
  \/ LoadMore
  \/ \E m \in study.modals : OpenModal(m)
  \/ CloseModal
  \/ \E w \in Write : Submit(w) \/ Apply(w) \/ Acknowledge(w) \/ Fail(w)
  \/ \E id \in study.others : OthersPost(id)

Next == Commit \/ (~CommitDue /\ Events)

Spec == Init /\ [][Next]_vars

-----------------------------------------------------------------------------
(* What the console promises *)

TypeOK ==
  /\ server \in [Account -> Answer]
  /\ \A k \in QueryKey : /\ cache[k].data \subseteq Answer /\ Cardinality(cache[k].data) <= 1
                         /\ cache[k].inFlight \subseteq Answer /\ Cardinality(cache[k].inFlight) <= 1
                         /\ cache[k].fresh => cache[k].data # {}
  /\ account \in Account /\ asOf \in Window /\ cursor \in Cursor
  /\ Len(items) <= MaxEntries
  /\ page \in Page /\ modal \in Modal \cup {"none"}

\* The queries that show what a write changes and that the console means to
\* refresh: of the lists, that of the accounts; of an account the write was
\* submitted for, and whose name its modal still had when it was acknowledged,
\* the row, the trail and the balances.  Not among them are the feed, the
\* statement, the transactions of an account but for a void, and the
\* counterparty of a transfer that is voided.
ShowsWrite(write, k) ==
  \/ k.kind = "accounts"
  \/ /\ k.account \in write.of \cap write.told
     /\ \/ k.kind = "account" /\ write.kind # "create"
        \/ k.kind \in {"audit", "account-balance"} /\ write.kind \in Moves
        \/ k.kind = "status-history" /\ write.kind \in {"status", "limit"}
        \/ k.kind = "account-transactions" /\ write.kind = "void"

\* Whatever fetches, writes and visits overlap, and from account to account, an
\* answer that counts as fresh has every write the console was told of, so no
\* page shows a balance from before the user's own write.  The exception is a
\* late answer: one that was on its way when the write was acknowledged and that
\* the cache did not replace.
FreshAnswersHaveOwnWrites ==
  \A w \in Write : writes[w].state = "ok" =>
    \A k \in QueryKey : ShowsWrite(writes[w], k) /\ cache[k].fresh /\ ~cache[k].late =>
      \A answer \in cache[k].data, made \in writes[w].made : AsNewAs(answer, made[k.account])

\* The timeline holds entries of the account and of the point in time it is
\* shown for.
TimelineIsOfItsWindow ==
  page = "detail" /\ ~CommitDue =>
    \A i \in DOMAIN items : /\ items[i].account = account
                            /\ asOf # Current => items[i].seq <= EntriesBy[account][asOf]

\* The timeline is the history from its first entry on, in order, without a gap
\* and without a repetition: whichever pages were cached, refetched or extended.
TimelineIsContiguous ==
  page = "detail" /\ ~CommitDue => \A i \in DOMAIN items : items[i].seq = i

\* What the timeline shows stays, in its place, until the user picks another
\* account or point in time, or leaves: a refetch or another page only adds at
\* its end.
TimelineOnlyGrows == [][page' = page /\ seen.window = {window} => IsPrefix(items, items')]_vars

-----------------------------------------------------------------------------
(* Why it holds: an inductive invariant *)

\* What the browser holds, and a cache of at most one answer per query.
CacheEntry == [data: SUBSET Answer, fresh: BOOLEAN, inFlight: SUBSET Answer, late: BOOLEAN]
WriteRow == [state: {"none", "sent", "applied", "ok", "failed"}, kind: Modal \cup {"none"},
             from: {"modal", "page", "gone"}, of: SUBSET Account, told: SUBSET Account,
             made: SUBSET [Account -> Answer]]
EntryOK(entry) ==
  /\ entry \in CacheEntry
  /\ \A x, y \in entry.data : x = y
  /\ \A x, y \in entry.inFlight : x = y
  /\ entry.fresh => entry.data # {}
CacheOK == cache \in [Keys(study) -> CacheEntry] /\ \A k \in QueryKey : EntryOK(cache[k])
TablesOK ==
  /\ study \in Studies /\ writes \in [Write -> WriteRow]
  /\ account \in Account /\ asOf \in Window /\ cursor \in Cursor /\ page \in Page /\ modal \in Modal \cup {"none"}

\* The ledger has what its writes made, and changed no more often than it was
\* written to.
Made == {w \in Write : writes[w].made # {}}
LedgerKeepsWrites ==
  /\ server \in [Account -> [entries: 0 .. MaxEntries, changes: Nat]]
  /\ \A x \in Account : server[x].changes <= Cardinality(Made)
  /\ \A w \in Write : /\ writes[w].state \in {"none", "sent"} => writes[w].made = {}
                      /\ writes[w].state # "none" => writes[w].kind \in Modal
                      /\ \A made \in writes[w].made, x \in Account : AsNewAs(server[x], made[x])

\* What is fresh, or will be when it arrives, has the writes that were
\* acknowledged, unless it is marked late.
AnswersHaveOwnWrites ==
  \A w \in Write : writes[w].state = "ok" =>
    \A k \in QueryKey : ShowsWrite(writes[w], k) /\ ~cache[k].late =>
      \A made \in writes[w].made :
        /\ cache[k].fresh => \A answer \in cache[k].data : AsNewAs(answer, made[k.account])
        /\ \A then \in cache[k].inFlight : AsNewAs(then, made[k.account])

\* The timeline is an initial part of the history of the account it was
\* accumulated for, and holds what its effects have run for; the cursor is at
\* most its end, so that the next page joins it.
History(id, n) == [i \in 1 .. n |-> [account |-> id, seq |-> i]]
TimelineJoins ==
  /\ Len(items) \in 0 .. MaxEntries
  /\ \E id \in Account : /\ items = History(id, Len(items))
                         /\ seen.window = {window} => id = account
  /\ items # <<>> => \A d \in seen.data : \A n \in d.view.items : n <= Len(items)
  /\ seen.window = {window} => /\ cursor <= Len(items)
                               /\ asOf # Current => Len(items) <= EntriesBy[account][asOf]

ConsoleInv ==
  TablesOK /\ CacheOK /\ LedgerKeepsWrites /\ AnswersHaveOwnWrites /\ TimelineJoins

-----------------------------------------------------------------------------
(* An expectation of the code that it does not meet *)

\* AccountDetailPage.tsx:60: "Append each loaded page to the accumulated
\* timeline": when the page of the trail that is loaded has entries, the timeline
\* is not empty.
LoadedPagesAreShown ==
  page = "detail" /\ ~CommitDue =>
    \A d \in auditData : d.view.items # {} => items # <<>>

=============================================================================
