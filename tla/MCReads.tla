------------------------------- MODULE MCReads -------------------------------
(* Small instances of module Reads: two accounts with history, one that is  *)
(* opened meanwhile, and processes whose clocks may lag by one instant.     *)
EXTENDS Reads

Accounts2 == 1..2
Accounts4 == 1..4
Sides == [a \in Account |-> IF a = 2 THEN "credit" ELSE "debit"]
EarlyAccounts == {1, 2}
Txs == 1..3
Synchronous == [t \in Txs |-> 0]
Movements ==
  [t \in Txs |-> IF t = 2 THEN [debited |-> 2, credited |-> 1, amount |-> 2]
                 ELSE [debited |-> 1, credited |-> 2, amount |-> t]]
Lagging == [t \in Txs |-> IF t = 2 THEN -1 ELSE 0]

Audit(asOf, from, to) ==
  [kind |-> "audit", account |-> 1, asOf |-> asOf, from |-> from, to |-> to]

\* Trails as of an instant, over a window and up to an instant.
Trails == {Audit({1}, {}, {}), Audit({}, {1}, {1}), Audit({}, {}, {1})}

\* Every other list, and an export.
Lists ==
  {[kind |-> "csv", account |-> 1, asOf |-> {}, from |-> {}, to |-> {}],
   [kind |-> "transactions", account |-> 1, asOf |-> {}, from |-> {}, to |-> {}],
   [kind |-> "feed", status |-> {}], [kind |-> "feed", status |-> {"posted"}],
   [kind |-> "accounts"]}

=============================================================================
