------------------------------- MODULE Vaults -------------------------------
(***************************************************************************)
(* getInternalCashAccountId of internal-accounts.service.ts: the vault of  *)
(* a currency is created by the first deposit or withdrawal that needs it. *)
(* Calls run concurrently in several processes, each with a cache of its   *)
(* own, against one accounts table; pc[c] names what call c does next:     *)
(*                                                                         *)
(*     idle -> find -> insert -> commit -> resolve -> done                 *)
(*                                                                         *)
(* A call stops at "done" early with an id from the cache or the table, or *)
(* with an error.  The id a call inserts is its own (randomUUID per call,  *)
(* outside the callback that a retry repeats).                             *)
(***************************************************************************)
EXTENDS Naturals

CONSTANTS
  Call,           \* calls of getInternalCashAccountId
  Process,        \* server processes
  Currency,
  NoVault,        \* no id: undefined, null
  TX_MAX_RETRIES  \* the bound of withTransaction, and of the counter attempt

ASSUME NoVaultAssumption == NoVault \notin Call
ASSUME RetriesAssumption == TX_MAX_RETRIES \in Nat

VARIABLES
  rows,        \* committed rows of accounts whose number is LE-INTERNAL-CASH-*
  cache,       \* cachedInternalIds of every process
  process,     \* the process a call runs in
  currency,    \* the currency it asks for
  pc,
  insertedId,  \* what insertIfAbsent returned
  attempt,     \* the counter of withTransaction
  result,      \* the id a call resolved to
  error        \* the error it threw, or "none"

vars == <<rows, cache, process, currency, pc, insertedId, attempt, result, error>>

Id == Call \cup {NoVault}

InFlight(c) == pc[c] \notin {"idle", "done"}

\* findByAccountNumber: the ids of the committed rows of a currency.
findByAccountNumber(k) == {row.id : row \in {w \in rows : w.currency = k}}

Init ==
  /\ rows = {}
  /\ cache = [p \in Process |-> [k \in Currency |-> NoVault]]
  /\ process \in [Call -> Process]
  /\ currency \in [Call -> Currency]
  /\ pc = [c \in Call |-> "idle"]
  /\ insertedId = [c \in Call |-> NoVault]
  /\ attempt = [c \in Call |-> 0]
  /\ result = [c \in Call |-> NoVault]
  /\ error = [c \in Call |-> "none"]

-----------------------------------------------------------------------------
(* How a call moves and ends *)

Goto(c, statement) ==
  /\ pc' = [pc EXCEPT ![c] = statement]
  /\ UNCHANGED <<process, currency, result, error>>

Resolved(c, id) ==
  /\ pc' = [pc EXCEPT ![c] = "done"]
  /\ result' = [result EXCEPT ![c] = id]
  /\ UNCHANGED <<rows, process, currency, insertedId, attempt, error>>

\* Slip: one cached id for all currencies.
Remember_OneKey(c, id) ==
  /\ cache' = [cache EXCEPT ![process[c]] = [k \in Currency |-> id]]
  /\ Resolved(c, id)

\* cachedInternalIds.set, and the answer.
Remember(c, id) ==
  /\ cache' = [cache EXCEPT ![process[c]][currency[c]] = id]
  /\ Resolved(c, id)

Throw(c, code) ==
  /\ pc' = [pc EXCEPT ![c] = "done"]
  /\ error' = [error EXCEPT ![c] = code]
  /\ UNCHANGED <<rows, cache, process, currency, insertedId, attempt, result>>

-----------------------------------------------------------------------------
(* The statements *)

\* The cache is read in the same turn of the event loop that enters the call.
Ask(c) ==
  LET cached == cache[process[c]][currency[c]]
  IN  /\ pc[c] = "idle"
      /\ \/ cached # NoVault /\ Resolved(c, cached) /\ UNCHANGED cache
         \/ cached = NoVault /\ Goto(c, "find") /\ UNCHANGED <<rows, cache, insertedId, attempt>>

Find(c) ==
  /\ pc[c] = "find"
  /\ \/ \E id \in findByAccountNumber(currency[c]) : Remember(c, id)
     \/ /\ findByAccountNumber(currency[c]) = {}
        /\ Goto(c, "insert") /\ UNCHANGED <<rows, cache, insertedId, attempt>>

\* PostgreSQL: ON CONFLICT waits for the open transaction that inserted the key.
HasInserted(c) == pc[c] = "commit" /\ insertedId[c] = c

WaitsForInsert(c) ==
  pc[c] = "insert" /\ \E d \in Call \ {c} : HasInserted(d) /\ currency[d] = currency[c]

\* Slip: an insert that is still open counts as a conflict at once.
InsertIfAbsent_Skips(c) ==
  /\ pc[c] = "insert"
  /\ insertedId' = [insertedId EXCEPT ![c] =
       IF findByAccountNumber(currency[c]) = {} /\ ~WaitsForInsert(c) THEN c ELSE NoVault]
  /\ Goto(c, "commit") /\ UNCHANGED <<rows, cache, attempt>>

\* INSERT ... ON CONFLICT (account_number) DO NOTHING RETURNING id
InsertIfAbsent(c) ==
  /\ pc[c] = "insert" /\ ~WaitsForInsert(c)
  /\ insertedId' = [insertedId EXCEPT ![c] =
       IF findByAccountNumber(currency[c]) = {} THEN c ELSE NoVault]
  /\ Goto(c, "commit") /\ UNCHANGED <<rows, cache, attempt>>

\* Slip: the budget is compared with <= instead of <.
LockTimeout_OneMore(c) ==
  /\ WaitsForInsert(c)
  /\ \/ /\ attempt[c] <= TX_MAX_RETRIES
        /\ attempt' = [attempt EXCEPT ![c] = @ + 1]
        /\ UNCHANGED <<rows, cache, process, currency, pc, insertedId, result, error>>
     \/ attempt[c] > TX_MAX_RETRIES /\ Throw(c, "CONFLICT_SEQUENCE")

\* A wait that ends with a retryable error: the callback runs again, with the
\* same id, until the budget is spent.
LockTimeout(c) ==
  /\ WaitsForInsert(c)
  /\ \/ /\ attempt[c] < TX_MAX_RETRIES
        /\ attempt' = [attempt EXCEPT ![c] = @ + 1]
        /\ UNCHANGED <<rows, cache, process, currency, pc, insertedId, result, error>>
     \/ attempt[c] = TX_MAX_RETRIES /\ Throw(c, "CONFLICT_SEQUENCE")

Commit(c) ==
  /\ pc[c] = "commit"
  /\ rows' = rows \cup {[id |-> i, currency |-> currency[c]] : i \in {insertedId[c]} \ {NoVault}}
  /\ Goto(c, "resolve") /\ UNCHANGED <<cache, insertedId, attempt>>

\* Slip: the loser of the race keeps the id it generated.
Resolve_OwnId(c) == pc[c] = "resolve" /\ Remember(c, c)

\* Slip: a call tries again until its own insert succeeds.
Resolve_Again(c) ==
  /\ pc[c] = "resolve"
  /\ \/ insertedId[c] # NoVault /\ Remember(c, insertedId[c])
     \/ insertedId[c] = NoVault /\ Goto(c, "insert") /\ UNCHANGED <<rows, cache, insertedId, attempt>>

\* insertedId ?? (await findByAccountNumber(accountNumber))?.id
Resolve(c) ==
  /\ pc[c] = "resolve"
  /\ \/ insertedId[c] # NoVault /\ Remember(c, insertedId[c])
     \/ /\ insertedId[c] = NoVault
        /\ \/ \E id \in findByAccountNumber(currency[c]) : Remember(c, id)
           \/ findByAccountNumber(currency[c]) = {} /\ Throw(c, "UNRESOLVED")

Step(c) == Ask(c) \/ Find(c) \/ InsertIfAbsent(c) \/ Commit(c) \/ Resolve(c)

-----------------------------------------------------------------------------
(* Faults *)

\* A statement fails or its connection breaks: an open transaction is rolled
\* back.  At "resolve" the row is committed, and its acknowledgement is lost.
ConnectionLost(c) == InFlight(c) /\ Throw(c, "INTERNAL")

\* A process dies and comes back: its calls are gone, its cache is empty.
Restart(p) ==
  LET lost == {c \in Call : process[c] = p /\ InFlight(c)}
  IN  /\ cache' = [cache EXCEPT ![p] = [k \in Currency |-> NoVault]]
      /\ pc' = [c \in Call |-> IF c \in lost THEN "done" ELSE pc[c]]
      /\ error' = [c \in Call |-> IF c \in lost THEN "LOST" ELSE error[c]]
      /\ UNCHANGED <<rows, process, currency, insertedId, attempt, result>>

clearCache(p) ==
  /\ cache' = [cache EXCEPT ![p] = [k \in Currency |-> NoVault]]
  /\ UNCHANGED <<rows, process, currency, pc, insertedId, attempt, result, error>>

Next == \/ \E c \in Call : Step(c) \/ LockTimeout(c) \/ ConnectionLost(c)
        \/ \E p \in Process : Restart(p) \/ clearCache(p)

Spec == Init /\ [][Next]_vars

\* Every continuation of a call that has been entered is run.
FairSpec == Spec /\ \A c \in Call : WF_vars(InFlight(c) /\ Step(c))

-----------------------------------------------------------------------------
(* Properties *)

TypeOK ==
  /\ rows \subseteq [id : Call, currency : Currency]
  /\ cache \in [Process -> [Currency -> Id]]
  /\ process \in [Call -> Process]
  /\ currency \in [Call -> Currency]
  /\ pc \in [Call -> {"idle", "find", "insert", "commit", "resolve", "done"}]
  /\ insertedId \in [Call -> Id]
  /\ attempt \in [Call -> 0..TX_MAX_RETRIES]
  /\ result \in [Call -> Id]
  /\ error \in [Call -> {"none", "CONFLICT_SEQUENCE", "INTERNAL", "LOST", "UNRESOLVED"}]

\* The insert of a transaction that has neither committed nor rolled back is
\* the only one of its currency, and there is no committed row beside it.
InsertsAreAlone ==
  \A c \in Call : HasInserted(c) =>
    /\ findByAccountNumber(currency[c]) = {}
    /\ \A d \in Call : HasInserted(d) /\ currency[d] = currency[c] => d = c

\* A row is its creator's, and the only one of its currency.
RowsAreUnique ==
  /\ \A v \in rows : v.currency = currency[v.id]
  /\ \A v, w \in rows : v.currency = w.currency => v = w

\* A call that inserted nothing did so because the row was committed: the
\* re-read cannot miss it.  What a call inserted is there after the commit.
LosersFindTheWinner ==
  \A c \in Call :
    /\ insertedId[c] \in {c, NoVault}
    /\ pc[c] = "commit" /\ insertedId[c] = NoVault => findByAccountNumber(currency[c]) # {}
    /\ pc[c] = "resolve" => findByAccountNumber(currency[c]) # {}
    /\ pc[c] = "resolve" /\ insertedId[c] = c => c \in findByAccountNumber(currency[c])

\* Whatever a cache holds or a call was told is the committed row of that
\* currency, in every process, after races, restarts and lost connections.
IdsAreVaults ==
  /\ \A p \in Process, k \in Currency : cache[p][k] \in {NoVault} \cup findByAccountNumber(k)
  /\ \A c \in Call : result[c] # NoVault =>
       pc[c] = "done" /\ result[c] \in findByAccountNumber(currency[c])

\* The error of the last line of getInternalCashAccountId, "could not be
\* created or resolved", is never thrown.
NeverUnresolved == \A c \in Call : error[c] # "UNRESOLVED"

\* The inductive invariant.
VaultsInv == InsertsAreAlone /\ RowsAreUnique /\ LosersFindTheWinner /\ IdsAreVaults

Told == {[id |-> result[c], currency |-> currency[c]] : c \in {d \in Call : result[d] # NoVault}}

One == INSTANCE OneVault WITH vaults <- rows, told <- Told

\* Concurrent first calls for a currency, in any number of processes, behave
\* like one atomic creation followed by answers that all name that vault.
ImplementsOneVault == One!Spec

\* A call that has been entered ends: nobody waits for an insert for ever.
EveryCallEnds == \A c \in Call : InFlight(c) ~> pc[c] = "done"

=============================================================================
