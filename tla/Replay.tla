------------------------------- MODULE Replay -------------------------------
(***************************************************************************)
(* Balances are never stored: every balance is a sum over the append-only  *)
(* history of an account.  This module holds the pure arithmetic of that   *)
(* derivation: the balance rules of domain/invariants.ts and the SUM       *)
(* queries of ledger.store.ts.                                             *)
(*                                                                         *)
(* The history of ONE account is a function `log' from sequence numbers to *)
(* entries: the rows of table `entries' keyed by UNIQUE(account_id, seq).  *)
(* Its snapshots are a function `snaps' from sequence numbers to balances  *)
(* (UNIQUE(account_id, seq) again).  Neither domain is assumed to be an    *)
(* interval: that the sequence has no gaps is a theorem about the writers. *)
(* Money is an integer number of minor units.                              *)
(***************************************************************************)
EXTENDS Integers

Side == {"debit", "credit"}

\* The opposite direction, as voidTransaction flips it.
Opposite(direction) == IF direction = "debit" THEN "credit" ELSE "debit"

\* +1 when the entry is in the account's normal direction, -1 otherwise.
balanceEffect(normalSide, direction) == IF direction = normalSide THEN 1 ELSE -1

\* Balance after posting one entry.
balanceAfterEntry(current, normalSide, direction, amount) ==
  IF balanceEffect(normalSide, direction) = 1 THEN current + amount ELSE current - amount

\* The gate evaluated under lock: "OK", or the code of the error it throws.
assertPostAllowed(status, balanceAfter, overdraftLimit) ==
  CASE status = "frozen" -> "ACCOUNT_FROZEN"
    [] status = "closed" -> "ACCOUNT_CLOSED"
    [] OTHER -> IF balanceAfter < -overdraftLimit THEN "INSUFFICIENT_FUNDS" ELSE "OK"

-----------------------------------------------------------------------------

\* The CASE expression of the SUM queries, for the row at position n, if any.
SignedAmount(normalSide, log, n) ==
  IF n \in DOMAIN log
  THEN IF log[n].direction = normalSide THEN log[n].amount ELSE -log[n].amount
  ELSE 0

\* SUM over the rows with lo < seq <= hi, as a function of hi.
SumAfter(normalSide, log, lo) ==
  LET sum[hi \in Nat] ==
        IF hi <= lo THEN 0 ELSE sum[hi - 1] + SignedAmount(normalSide, log, hi)
  IN sum

\* The largest sequence number of a set of rows, 0 when there is none.
LastSeq(S) == IF S = {} THEN 0 ELSE CHOOSE n \in S : \A m \in S : m <= n

\* The derived balance over the entries with seq <= upToSeq.
balanceUpToSeq(normalSide, log, upToSeq) == SumAfter(normalSide, log, 0)[upToSeq]

\* The balance a replay of the whole history gives.
ReplayBalance(normalSide, log) == balanceUpToSeq(normalSide, log, LastSeq(DOMAIN log))

\* The latest snapshot position; 0 stands for "no snapshot yet".
latestSnapshotSeq(snaps) == LastSeq(DOMAIN snaps)

\* Slip: the entry at the snapshot's own position is counted again.
balancesFor_Inclusive(normalSide, log, snaps) ==
  LET s == latestSnapshotSeq(snaps)
  IN  IF s = 0 THEN ReplayBalance(normalSide, log)
      ELSE snaps[s] + SumAfter(normalSide, log, s - 1)[LastSeq(DOMAIN log)]

\* The snapshot-backed balance: the latest snapshot plus the trailing entries.
balancesFor(normalSide, log, snaps) ==
  LET s == latestSnapshotSeq(snaps)
  IN  (IF s = 0 THEN 0 ELSE snaps[s]) + SumAfter(normalSide, log, s)[LastSeq(DOMAIN log)]

=============================================================================
