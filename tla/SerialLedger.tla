---------------------------- MODULE SerialLedger ----------------------------
(***************************************************************************)
(* What the ledger promises: every request takes effect in one atomic      *)
(* step, or not at all, and every rule is judged against the balances a    *)
(* replay of the whole history gives.  There are no row locks, no retries, *)
(* no snapshots and no connections here.  Module Ledger, which has them,   *)
(* is shown to implement this specification.                               *)
(***************************************************************************)
EXTENDS LedgerSchema

VARIABLES
  accounts,       \* table accounts: account -> row
  transactions,   \* table transactions: request that created it -> row
  entries,        \* table entries: account -> history
  accountEvents   \* table account_events: account -> lifecycle events in seq order

tables == <<accounts, transactions, entries, accountEvents>>

Init ==
  /\ accounts = InitialAccounts
  /\ transactions = [t \in Request |-> NoTransaction]
  /\ entries = [a \in Account |-> <<>>]
  /\ accountEvents = InitialEvents

\* The balance of an account: never stored, always replayed.
Balance(a) == ReplayBalance(NormalSide[a], entries[a])

\* The rules of posting `legs': every account active and none left overdrawn.
Allowed(legs) ==
  \A a \in DOMAIN legs :
    assertPostAllowed(accounts[a].status,
                      balanceAfterEntry(Balance(a), NormalSide[a],
                                        legs[a].direction, legs[a].amount),
                      accounts[a].overdraftLimit) = "OK"

\* Transaction t appends one entry per leg, at the next position of each history.
AppendLegs(t, legs) ==
  /\ entries' = [a \in Account |->
       IF a \in DOMAIN legs
       THEN ExtendLog(entries[a], accounts[a].currentSequence + 1,
              [tx |-> t, direction |-> legs[a].direction, amount |-> legs[a].amount])
       ELSE entries[a]]
  /\ accounts' = [a \in Account |->
       IF a \in DOMAIN legs
       THEN [accounts[a] EXCEPT !.currentSequence = @ + 1]
       ELSE accounts[a]]

\* A deposit, withdrawal or transfer.  A reference is used at most once.
Post(t, op) ==
  /\ IsPost(op)
  /\ transactions[t].status = "none"
  /\ buildOutcome(op) = "OK"
  /\ \A a \in ReadAccounts(op) : accounts[a].status # "absent"
  /\ op.reference # NoRef => \A u \in Request : transactions[u].reference # op.reference
  /\ Allowed(LegsOf(op))
  /\ AppendLegs(t, LegsOf(op))
  /\ transactions' = [transactions EXCEPT ![t] =
       [status |-> "posted", type |-> op.kind, reference |-> op.reference,
        original |-> NoRequest]]
  /\ UNCHANGED accountEvents

\* The legs a transaction wrote, read back from the history.
LegsWritten(t) ==
  LET At(a) == {n \in DOMAIN entries[a] : entries[a][n].tx = t}
  IN  [a \in {b \in Account : At(b) # {}} |->
         LET e == entries[a][CHOOSE n \in At(a) : TRUE]
         IN  [direction |-> e.direction, amount |-> e.amount]]

\* A void appends the mirror image of a posted transaction and marks it.
Void(t, op) ==
  LET legs == ReversalLegs(LegsWritten(op.target))
  IN  /\ op.kind = "void"
      /\ transactions[t].status = "none"
      /\ transactions[op.target].status = "posted"
      /\ SingleCurrency(legs)
      /\ Allowed(legs)
      /\ AppendLegs(t, legs)
      /\ transactions' = [transactions EXCEPT
           ![op.target].status = "void",
           ![t] = [status |-> "posted", type |-> "reversal", reference |-> NoRef,
                   original |-> op.target]]
      /\ UNCHANGED accountEvents

\* An account is opened: its row and its account_opened event.
Create(op) ==
  /\ op.kind = "create"
  /\ accounts[op.account].status = "absent"
  /\ accounts' = [accounts EXCEPT ![op.account] = NewRow(op.overdraftLimit)]
  /\ accountEvents' = [accountEvents EXCEPT ![op.account] =
       Append(@, LimitEvent("account_opened", op.overdraftLimit))]
  /\ UNCHANGED <<transactions, entries>>

\* An account is frozen, reactivated or closed; only an account with a zero
\* balance closes, and a closed account never changes again.
SetStatus(op) ==
  /\ op.kind = "status"
  /\ accounts[op.account].status \notin {"absent", "closed", op.status}
  /\ op.status = "closed" => Balance(op.account) = 0
  /\ accounts' = [accounts EXCEPT
       ![op.account].status = op.status,
       ![op.account].statusHistory = Append(@, op.status)]
  /\ accountEvents' = [accountEvents EXCEPT ![op.account] = Append(@, StatusEvent(op.status))]
  /\ UNCHANGED <<transactions, entries>>

\* The overdraft limit of an account that is not closed changes.
SetLimit(op) ==
  /\ op.kind = "limit"
  /\ accounts[op.account].status \notin {"absent", "closed"}
  /\ accounts' = [accounts EXCEPT ![op.account].overdraftLimit = op.overdraftLimit]
  /\ accountEvents' = [accountEvents EXCEPT ![op.account] =
       Append(@, LimitEvent("limit_changed", op.overdraftLimit))]
  /\ UNCHANGED <<transactions, entries>>

Next == \E op \in Workload :
          \/ \E t \in Request : Post(t, op) \/ Void(t, op)
          \/ Create(op) \/ SetStatus(op) \/ SetLimit(op)

Spec == Init /\ [][Next]_tables

=============================================================================
