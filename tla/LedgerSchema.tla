---------------------------- MODULE LedgerSchema ----------------------------
(***************************************************************************)
(* What the ledger's modules share: the constants of a deployment, the     *)
(* rows of the PostgreSQL tables (db/schema.ts), the requests clients may  *)
(* send and the double-entry transactions (domain/transaction.ts) that the *)
(* services build from them.                                               *)
(*                                                                         *)
(* Account ids are natural numbers because lockForUpdate sorts by them.    *)
(* A request that posts money generates one transaction id (randomUUID),   *)
(* so a transaction is named by the request that created it.               *)
(***************************************************************************)
EXTENDS Replay, Sequences

CONSTANTS
  Account,        \* ids of accounts, existing or still to be opened
  Request,        \* the API requests of a behaviour
  NoRequest,      \* "nobody" and "no transaction"
  Ref,            \* client-chosen idempotency references
  NoRef,          \* a request without a reference (NULL in the table)
  MAX_UNITS,      \* the range of Money, in minor units
  Currency,       \* ISO currencies
  CurrencyOf,     \* the immutable currency of each account
  NormalSide,     \* the immutable normal side of each account
  Vault,          \* the internal cash account of each currency
  VaultLimit,     \* the overdraft limit an internal account is created with
  Opened,         \* the customer accounts opened before the behaviour starts
  InitialLimit,   \* and the overdraft limit each was opened with
  Workload        \* the operations clients may request

ASSUME AccountAssumption == Account \subseteq Nat
ASSUME RequestAssumption == NoRequest \notin Request
ASSUME RefAssumption == NoRef \notin Ref
ASSUME RangeAssumption == MAX_UNITS \in Nat
ASSUME CurrencyAssumption == CurrencyOf \in [Account -> Currency]
ASSUME SideAssumption == NormalSide \in [Account -> Side]
ASSUME VaultAssumption ==
  /\ Vault \in [Currency -> Account]
  /\ VaultLimit \in Nat
  /\ \A c \in Currency : CurrencyOf[Vault[c]] = c
ASSUME OpenedAssumption ==
  /\ Opened \subseteq Account
  /\ InitialLimit \in [Account -> Nat]
  /\ \A c \in Currency : Vault[c] \notin Opened

-----------------------------------------------------------------------------
(* Rows *)

Status == {"active", "frozen", "closed"}

\* A row of `accounts'; status "absent" stands for "no such row".  Of the
\* metadata column the status history is kept: the statuses moved to, in order.
AccountRow == [status: Status \cup {"absent"}, overdraftLimit: Nat,
               currentSequence: Nat, statusHistory: Seq(Status)]

NoRow == [status |-> "absent", overdraftLimit |-> 0,
          currentSequence |-> 0, statusHistory |-> <<>>]

NewRow(limit) == [status |-> "active", overdraftLimit |-> limit,
                  currentSequence |-> 0, statusHistory |-> <<>>]

TransactionType == {"deposit", "withdrawal", "transfer", "reversal"}

\* A row of `transactions'; status "none" stands for "no such row".  original
\* is metadata.originalTransactionId.
TransactionRow == [status: {"none", "posted", "void"}, type: TransactionType,
                   reference: Ref \cup {NoRef}, original: Request \cup {NoRequest}]

NoTransaction == [status |-> "none", type |-> "transfer",
                  reference |-> NoRef, original |-> NoRequest]

\* A row of `entries', keyed by (account, seq).
Entry == [tx: Request, direction: Side, amount: Nat \ {0}]

\* A row of `account_events', keyed by (account, seq): its type and the
\* overdraft limit of its payload (0 in the events that carry none).
AccountEvent == [type: {"account_opened", "account_frozen", "account_reactivated",
                        "account_closed", "limit_changed"},
                 overdraftLimit: Nat]

\* The event that records a status change.
StatusEvent(status) ==
  [type |-> CASE status = "closed" -> "account_closed"
              [] status = "frozen" -> "account_frozen"
              [] OTHER -> "account_reactivated",
   overdraftLimit |-> 0]

LimitEvent(type, limit) == [type |-> type, overdraftLimit |-> limit]

-----------------------------------------------------------------------------
(* Requests *)

\* An FX rate units/denom; units = 0 stands for "no rate was sent" (parseFxRate
\* refuses a rate that is not positive).
Rate == [units: Nat, denom: Nat \ {0}]

\* What positiveMoneySchema lets through.
Amount == 1 .. MAX_UNITS

MovementOp == [kind: {"deposit", "withdrawal"}, account: Account,
               amount: Amount, reference: Ref \cup {NoRef}]
TransferOp == [kind: {"transfer"}, from: Account, to: Account,
               amount: Amount, rate: Rate, reference: Ref \cup {NoRef}]
VoidOp     == [kind: {"void"}, target: Request]
CreateOp   == [kind: {"create"}, account: Account, overdraftLimit: Nat]
StatusOp   == [kind: {"status"}, account: Account, status: Status]
LimitOp    == [kind: {"limit"}, account: Account, overdraftLimit: Nat]
NoOp       == [kind |-> "none"]

PostOp == MovementOp \cup TransferOp
LifecycleOp == StatusOp \cup LimitOp
Op == PostOp \cup VoidOp \cup CreateOp \cup LifecycleOp

ASSUME WorkloadAssumption == \A op \in Workload : op \in Op

IsPost(op) == op.kind \in {"deposit", "withdrawal", "transfer"}

-----------------------------------------------------------------------------
(* Double-entry transactions *)

\* A leg of a transaction.  A transaction is a function from the accounts it
\* touches to its legs: validateLegs refuses an account that appears twice.
Leg == [direction: Side, amount: Nat \ {0}]

\* numer / denom, rounded half up to a whole minor unit; neither is negative.
roundHalfUp(numer, denom) == (numer + denom \div 2) \div denom

convertAt(amount, rate) == roundHalfUp(amount * rate.units, rate.denom)

\* The amounts Money.fromUnits refuses.
OutOfRange(units) == units > MAX_UNITS

\* Two legs on two accounts: credit `from', debit `to'.
Move(from, credited, to, debited) ==
  [a \in {from, to} |-> IF a = from THEN [direction |-> "credit", amount |-> credited]
                                    ELSE [direction |-> "debit", amount |-> debited]]

CrossCurrency(op) == CurrencyOf[op.from] # CurrencyOf[op.to]

\* The accounts a request reads before it builds its transaction.
ReadAccounts(op) == IF op.kind = "transfer" THEN {op.from, op.to} ELSE {op.account}

buildDeposit(op) == Move(Vault[CurrencyOf[op.account]], op.amount, op.account, op.amount)

buildWithdrawal(op) == Move(op.account, op.amount, Vault[CurrencyOf[op.account]], op.amount)

buildTransfer(op) ==
  Move(op.from, op.amount, op.to,
       IF CrossCurrency(op) THEN convertAt(op.amount, op.rate) ELSE op.amount)

\* The legs a builder makes for the request.
LegsOf(op) == CASE op.kind = "deposit" -> buildDeposit(op)
                [] op.kind = "withdrawal" -> buildWithdrawal(op)
                [] OTHER -> buildTransfer(op)

\* The legs that undo a transaction: every direction flipped.
ReversalLegs(legs) ==
  [a \in DOMAIN legs |-> [legs[a] EXCEPT !.direction = Opposite(@)]]

SingleCurrency(legs) == \A a, b \in DOMAIN legs : CurrencyOf[a] = CurrencyOf[b]

\* isBalanced, of two legs in one currency: the debit is the credit.
isBalanced(legs) ==
  \A a, b \in DOMAIN legs : a # b => /\ legs[a].direction # legs[b].direction
                                     /\ legs[a].amount = legs[b].amount

\* isBalanced, of a leg in the base currency and one in another.
isBalancedAt(legs, rate, base) ==
  \A a \in DOMAIN legs \ {base} : /\ legs[a].direction # legs[base].direction
                                  /\ legs[a].amount = convertAt(legs[base].amount, rate)

\* The legs DoubleEntryTransaction.of accepts.
OneCurrencyBalanced(legs) == SingleCurrency(legs) /\ isBalanced(legs)

\* Is what a builder makes for the request balanced?
IsBalancedOp(op) == IF op.kind = "transfer" /\ CrossCurrency(op)
                    THEN isBalancedAt(LegsOf(op), op.rate, op.from)
                    ELSE OneCurrencyBalanced(LegsOf(op))

\* The error a builder throws for the request, or "OK".
buildOutcome(op) ==
  CASE op.kind # "transfer" /\ op.account = Vault[CurrencyOf[op.account]] -> "INVALID_TRANSACTION"
    [] op.kind = "transfer" /\ (op.from = op.to \/ (CrossCurrency(op) <=> op.rate.units = 0))
         -> "INVALID_TRANSACTION"
    [] op.kind = "transfer" /\ CrossCurrency(op) /\ op.rate.units # 0
         /\ (convertAt(op.amount, op.rate) = 0 \/ OutOfRange(convertAt(op.amount, op.rate)))
         -> "INVALID_AMOUNT"
    [] OTHER -> IF IsBalancedOp(op) THEN "OK" ELSE "UNBALANCED_TRANSACTION"

-----------------------------------------------------------------------------
(* The tables a behaviour starts from: the vault of every currency (which  *)
(* getInternalCashAccountId inserts without a lifecycle event) and the     *)
(* customer accounts of Opened, with no money moved yet.                   *)

IsVault(a) == \E c \in Currency : Vault[c] = a

InitialAccounts ==
  [a \in Account |-> IF a \in Opened THEN NewRow(InitialLimit[a])
                    ELSE IF IsVault(a) THEN NewRow(VaultLimit) ELSE NoRow]

InitialEvents ==
  [a \in Account |-> IF a \in Opened THEN <<LimitEvent("account_opened", InitialLimit[a])>>
                    ELSE <<>>]

\* Writing entry e at position n of a history.
ExtendLog(log, n, e) == [k \in DOMAIN log \cup {n} |-> IF k = n THEN e ELSE log[k]]

=============================================================================
