--------------------------- MODULE Reconciliation ---------------------------
(***************************************************************************)
(* ReconciliationService: the job that derives the state of the ledger     *)
(* again from the raw tables, without snapshots and without the domain     *)
(* layer, and reports every drift.  Each check is one SELECT, so it sees   *)
(* one state of the committed tables, whatever requests are in flight; the *)
(* checks may see different states.                                        *)
(*                                                                         *)
(* The properties say what a report may contain when it runs at any        *)
(* moment, and bound the balances it reads.                                *)
(***************************************************************************)
EXTENDS LedgerProperties, Functions

ASSUME ReconciliationAssumption == IsFiniteSet(Account)

\* The rows of table transactions, and the legs of one: the entries joined to it.
TransactionIds == {t \in Request : transactions[t].status # "none"}
LegsOfTransaction(t) == Serial!LegsWritten(t)
CurrenciesOf(t) == {CurrencyOf[a] : a \in DOMAIN LegsOfTransaction(t)}

\* SUM of the amounts of one direction.
LegsIn(t, direction) ==
  {a \in DOMAIN LegsOfTransaction(t) : LegsOfTransaction(t)[a].direction = direction}
SumOf(t, direction) ==
  SumFunctionOnSet([a \in LegsIn(t, direction) |-> LegsOfTransaction(t)[a].amount],
                   LegsIn(t, direction))

\* Transactions in at most one currency whose debits are not their credits.
UnbalancedTransactions ==
  {t \in TransactionIds : /\ Cardinality(CurrenciesOf(t)) <= 1
                          /\ SumOf(t, "debit") # SumOf(t, "credit")}

\* The metadata of a transaction: the rate and the currencies, which only a
\* transfer between two currencies carries.
HasFxMetadata(t) == op[t].kind = "transfer" /\ CrossCurrency(op[t])

\* Transactions in two currencies whose quote leg is not the base leg converted
\* at the recorded rate.
MisconvertedTransactions ==
  {t \in TransactionIds :
     /\ Cardinality(CurrenciesOf(t)) > 1
     /\ ~HasFxMetadata(t) \/
          LET written == LegsOfTransaction(t)
          IN  \/ {op[t].from, op[t].to} # DOMAIN written
              \/ convertAt(written[op[t].from].amount, op[t].rate) # written[op[t].to].amount}

\* Histories with a gap: COUNT(*) <> MAX(seq).
GappedHistories ==
  {a \in Account : /\ DOMAIN entries[a] # {}
                   /\ Cardinality(DOMAIN entries[a]) # LastSeq(DOMAIN entries[a])}

\* Accounts with entries that sum to less than their limit allows.
BelowOverdraftLimit ==
  {a \in Account : /\ DOMAIN entries[a] # {}
                   /\ Serial!Balance(a) < -accounts[a].overdraftLimit}

-----------------------------------------------------------------------------

\* Has the limit of the account been changed since it was opened?
LimitWasChanged(a) ==
  \E k \in DOMAIN accountEvents[a] : accountEvents[a][k].type = "limit_changed"

\* A reconciliation that runs at any moment finds every transaction balanced
\* (across currencies: at its recorded rate) and every history without a gap;
\* and the only accounts it reports below their limit are those whose limit was
\* changed after they were opened.
ReportsOnlyLoweredLimits ==
  /\ UnbalancedTransactions = {} /\ MisconvertedTransactions = {} /\ GappedHistories = {}
  /\ \A a \in BelowOverdraftLimit : LimitWasChanged(a)

\* The limits an account has had: its row's, those its events record, and the
\* one a vault is created with, which no event records.
RecordedLimits(a) ==
  {accountEvents[a][k].overdraftLimit : k \in DOMAIN accountEvents[a]}
    \cup {n \in {VaultLimit} : IsVault(a)}
LimitsEver(a) == {accounts[a].overdraftLimit} \cup RecordedLimits(a)
MayBeOverdrawnBy(a) == CHOOSE m \in LimitsEver(a) : \A n \in LimitsEver(a) : n <= m

\* Money is only moved: between accounts of the debit side and one currency, a
\* balance never exceeds what all the others may be overdrawn by.  A balance
\* outgrows its NUMERIC(19,4) column, which nothing checks, only when those
\* limits add up to more than the column holds.
OnePool ==
  (\A a \in Account : NormalSide[a] = "debit") /\ \A a, b \in Account : CurrencyOf[a] = CurrencyOf[b]
BalancesAreBounded ==
  OnePool => \A a \in Account :
    Serial!Balance(a) <= SumFunctionOnSet([b \in Account |-> MayBeOverdrawnBy(b)], Account \ {a})

-----------------------------------------------------------------------------
(* Why the reports are right: what holds of transactions, limits and totals *)

\* What a transaction wrote is what its request asked for, or a reversal, which
\* is in one currency.
AskedFor(o, ls) ==
  /\ o \in Op
  /\ IsPost(o) => ls = LegsOf(o) /\ buildOutcome(o) = "OK"
  /\ ~IsPost(o) => SingleCurrency(ls)
WrittenAsAsked == \A t \in TransactionIds : AskedFor(op[t], LegsOfTransaction(t))

\* The limit of a row is on record; a balance respects one the account has had,
\* and the present one while it was never changed.
LimitsAreRespected ==
  \A a \in Account :
    /\ Exists(a) => accounts[a].overdraftLimit \in RecordedLimits(a)
    /\ \E n \in LimitsEver(a) : -n <= Serial!Balance(a)
    /\ ~LimitWasChanged(a) => -accounts[a].overdraftLimit <= Serial!Balance(a)

\* What one account owes the others own.
Debt(a) == -Serial!Balance(a)
NothingIsCreated ==
  OnePool => SumFunctionOnSet([a \in Account |-> Debt(a)], Account) = 0

ReconciliationInv == WrittenAsAsked /\ LimitsAreRespected /\ NothingIsCreated

=============================================================================
