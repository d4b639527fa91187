------------------------------ MODULE MCLedger ------------------------------
(***************************************************************************)
(* Small instances of module Ledger.  Accounts 1 and 3 are customers, 2 is *)
(* the USD vault (between them in lock order), 4 and 5 the EUR customer    *)
(* and vault.                                                              *)
(***************************************************************************)
EXTENDS Reconciliation, TLC

CONSTANTS r1, r2, r3, r4, ref1

Requests2 == {r1, r2}
Requests3 == {r1, r2, r3}
Requests4 == {r1, r2, r3, r4}
Symmetry == Permutations(Request)

Accounts3 == 1..3
Accounts5 == 1..5
Currencies == IF 5 \in Account THEN {"USD", "EUR"} ELSE {"USD"}
MCCurrencyOf == [a \in Account |-> IF a <= 3 THEN "USD" ELSE "EUR"]
MCNormalSide == [a \in Account |-> "debit"]
MixedSides == [a \in Account |-> IF a = 3 THEN "credit" ELSE "debit"]
MCVault == [c \in Currency |-> IF c = "USD" THEN 2 ELSE 5]
Customers == Account \ {2, 5}
FirstCustomer == {1}
Limit1 == [a \in Account |-> 1]

NoRate == [units |-> 0, denom |-> 1]
Deposit(a, n, ref) == [kind |-> "deposit", account |-> a, amount |-> n, reference |-> ref]
Withdraw(a, n, ref) == [kind |-> "withdrawal", account |-> a, amount |-> n, reference |-> ref]
Transfer(a, b, n, rate, ref) ==
  [kind |-> "transfer", from |-> a, to |-> b, amount |-> n, rate |-> rate, reference |-> ref]
VoidOf(t) == [kind |-> "void", target |-> t]
Create(a, n) == [kind |-> "create", account |-> a, overdraftLimit |-> n]
SetStatus(a, s) == [kind |-> "status", account |-> a, status |-> s]
SetLimit(a, n) == [kind |-> "limit", account |-> a, overdraftLimit |-> n]

\* Money moving in both directions between the same accounts, with and without
\* an idempotency reference.
Movements ==
  {Deposit(1, 1, NoRef), Withdraw(1, 1, ref1), Withdraw(1, 2, NoRef),
   Transfer(1, 3, 1, NoRate, NoRef), Transfer(3, 1, 1, NoRate, ref1)}

\* Posts racing with the life of account 1 and with the limit of the vault;
\* account 3 is still to be opened.
Lifecycle ==
  {Deposit(1, 1, NoRef), Withdraw(1, 1, NoRef),
   SetLimit(1, 0), SetLimit(2, 0), SetStatus(1, "active"), SetStatus(1, "frozen"), SetStatus(1, "closed"),
   Create(3, 1), SetLimit(3, 2)}

\* Posts and their reversals, across currencies too.  The rates give an amount
\* in range, none at all, nothing, and one out of range.
Voids ==
  {Deposit(1, 1, NoRef), Transfer(1, 4, 1, [units |-> 3, denom |-> 2], NoRef),
   Transfer(1, 4, 1, NoRate, NoRef), Transfer(1, 4, 1, [units |-> 1, denom |-> 3], NoRef),
   Transfer(1, 4, 1, [units |-> 5, denom |-> 2], NoRef)}
  \cup {VoidOf(t) : t \in Request}

\* One operation of every kind, and two accounts locked in both directions
\* under one reference.
Everything ==
  {Deposit(1, 1, ref1), Withdraw(1, 1, NoRef), Transfer(1, 3, 1, NoRate, ref1),
   Transfer(3, 1, 1, NoRate, ref1),
   Transfer(1, 4, 1, [units |-> 3, denom |-> 2], NoRef),
   SetLimit(1, 0), SetStatus(1, "frozen"), SetStatus(1, "closed")}
  \cup {VoidOf(t) : t \in Request}

\* A client that repeats its request before the first one is answered.
SameWithdrawal == {Withdraw(1, 1, ref1)}

=============================================================================
