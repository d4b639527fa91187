------------------------------ MODULE Timeline ------------------------------
(***************************************************************************)
(* The committed tables as the read endpoints see them: rows that carry    *)
(* the time they were stamped with, and the statements of ledger.store.ts  *)
(* and account.repository.ts that read them.                               *)
(*                                                                         *)
(* Two clocks stamp the rows.  transactions.posted_at is the clock of the  *)
(* PROCESS, read after the row locks are granted and before COMMIT;        *)
(* snapshots.created_at and accounts.created_at are the clock of the       *)
(* DATABASE, read when the inserting statement or transaction starts.      *)
(* Every stamp is taken before its row can be seen.                        *)
(*                                                                         *)
(* Module Ledger has the rules of posting and what goes wrong on the way;  *)
(* here a transaction is two legs of one amount that are committed or not, *)
(* and a snapshot is exact when it is read, as module Ledger shows.        *)
(***************************************************************************)
EXTENDS Replay, Sequences, FiniteSets, Functions

CONSTANTS
  Account,      \* account ids; natural numbers, for lists are sorted by them
  NormalSide,   \* the immutable normal side of each account
  Early,        \* the accounts that are there from the start
  Tx,           \* transaction ids; natural numbers, for the feed is sorted by them
  Offset,       \* how far the clock of the process that posts t is ahead of the database's
  Movement,     \* the legs each transaction posts, unless it is a reversal
  SnapshotSeqs, \* the positions whose snapshot the policy asks for
  MaxTime       \* bound: the last instant of the database's clock

ASSUME TimelineAssumption ==
  /\ Account \subseteq Nat /\ IsFiniteSet(Account) /\ Early \subseteq Account
  /\ NormalSide \in [Account -> Side]
  /\ Tx \subseteq Nat
  /\ Offset \in [Tx -> Int]
  /\ Movement \in [Tx -> [debited: Account, credited: Account, amount: Nat \ {0}]]
  /\ SnapshotSeqs \subseteq Nat \ {0}
  /\ MaxTime \in Nat

VARIABLES
  now,         \* the clock of the database
  accounts,    \* account -> [state, createdAt]
  posts,       \* table transactions, with the rows not yet committed
  log,         \* table entries: account -> (seq -> entry)
  snapshots,   \* table snapshots: account -> (seq -> [balance, createdAt])
  planned      \* snapshot inserts that have started

tables == <<accounts, posts, log, snapshots, planned>>
timelineVars == <<now, tables>>

\* A post's legs are one debit and one credit of the same amount.
NoPost == [state |-> "none", postedAt |-> 0, debited |-> 0, credited |-> 0,
           amount |-> 0, voids |-> {}]
NewAccount == [state |-> "none", createdAt |-> 0]

TimelineInit ==
  /\ now = 0
  /\ accounts = [a \in Account |->
       IF a \in Early THEN [NewAccount EXCEPT !.state = "committed"] ELSE NewAccount]
  /\ posts = [t \in Tx |-> NoPost]
  /\ log = [a \in Account |-> <<>>]
  /\ snapshots = [a \in Account |-> <<>>]
  /\ planned = {}

-----------------------------------------------------------------------------
(* The writers *)

Visible == {a \in Account : accounts[a].state = "committed"}
Posted == {t \in Tx : posts[t].state \in {"posted", "void"}}
Touched(t) == {posts[t].debited, posts[t].credited}

\* An open transaction holds the rows of its accounts.
Locked(a) == \E t \in Tx : posts[t].state = "open" /\ a \in Touched(t)

Tick == now < MaxTime /\ now' = now + 1 /\ UNCHANGED tables

\* Slip: the stamp is taken when the request arrives, before it waits.
Stamp_OnArrival(t, debited, credited, amount, voids) ==
  /\ posts[t].state = "none"
  /\ debited # credited /\ {debited, credited} \subseteq Visible
  /\ ~Locked(debited) /\ ~Locked(credited)
  /\ \E at \in 0 .. now + Offset[t] :
       posts' = [posts EXCEPT ![t] = [state |-> "open", postedAt |-> at,
         debited |-> debited, credited |-> credited, amount |-> amount, voids |-> voids]]
  /\ UNCHANGED <<now, accounts, log, snapshots, planned>>

\* insertTransaction with postedAt: new Date(), under the row locks.
Stamp(t, debited, credited, amount, voids) ==
  /\ posts[t].state = "none"
  /\ debited # credited /\ {debited, credited} \subseteq Visible
  /\ ~Locked(debited) /\ ~Locked(credited)
  /\ now + Offset[t] >= 0
  /\ posts' = [posts EXCEPT ![t] = [state |-> "open", postedAt |-> now + Offset[t],
       debited |-> debited, credited |-> credited, amount |-> amount, voids |-> voids]]
  /\ UNCHANGED <<now, accounts, log, snapshots, planned>>

StampPost(t) == Stamp(t, Movement[t].debited, Movement[t].credited, Movement[t].amount, {})

StampReversal(t) ==
  \E u \in Tx : /\ posts[u].state = "posted"
                /\ Stamp(t, posts[u].credited, posts[u].debited, posts[u].amount, {u})

\* COMMIT: the rows become visible, at the next position of each history.
CommitPost(t) ==
  LET p == posts[t]
      append(a, direction) ==
        Append(log[a], [tx |-> t, direction |-> direction, amount |-> p.amount])
  IN  /\ p.state = "open"
      /\ log' = [log EXCEPT ![p.debited] = append(p.debited, "debit"),
                            ![p.credited] = append(p.credited, "credit")]
      /\ posts' = [u \in Tx |-> IF u = t THEN [p EXCEPT !.state = "posted"]
                                ELSE IF u \in p.voids THEN [posts[u] EXCEPT !.state = "void"]
                                ELSE posts[u]]
      /\ UNCHANGED <<now, accounts, snapshots, planned>>

\* ROLLBACK: a retry runs the transaction again and stamps it anew.
RollBackPost(t) ==
  /\ posts[t].state = "open"
  /\ posts' = [posts EXCEPT ![t] = NoPost]
  /\ UNCHANGED <<now, accounts, log, snapshots, planned>>

\* Slip: the balance of the whole history under an earlier position.
StartSnapshot_Last(a) ==
  \E n \in (SnapshotSeqs \cap DOMAIN log[a]) \ DOMAIN snapshots[a] :
    /\ planned = {}
    /\ planned' = {[account |-> a, seq |-> n, createdAt |-> now,
                    balance |-> ReplayBalance(NormalSide[a], log[a])]}
    /\ UNCHANGED <<now, accounts, posts, log, snapshots>>

\* takeSnapshot after a commit: the balance at a position, and an INSERT whose
\* created_at is the time it starts.  It may wait for the lock of the account.
\* Bound: one such insert at a time.
StartSnapshot(a) ==
  \E n \in (SnapshotSeqs \cap DOMAIN log[a]) \ DOMAIN snapshots[a] :
    /\ planned = {}
    /\ planned' = {[account |-> a, seq |-> n, createdAt |-> now,
                    balance |-> balanceUpToSeq(NormalSide[a], log[a], n)]}
    /\ UNCHANGED <<now, accounts, posts, log, snapshots>>

StoreSnapshot(p) ==
  /\ ~Locked(p.account)
  /\ planned' = planned \ {p}
  /\ snapshots' = [snapshots EXCEPT ![p.account] =
       [n \in DOMAIN @ \cup {p.seq} |->
          IF n = p.seq THEN [balance |-> p.balance, createdAt |-> p.createdAt] ELSE @[n]]]
  /\ UNCHANGED <<now, accounts, posts, log>>

\* create: created_at is the start of the transaction.
OpenAccount(a) ==
  /\ accounts[a].state = "none"
  /\ accounts' = [accounts EXCEPT ![a] = [state |-> "open", createdAt |-> now]]
  /\ UNCHANGED <<now, posts, log, snapshots, planned>>

CommitAccount(a) ==
  /\ accounts[a].state = "open"
  /\ accounts' = [accounts EXCEPT ![a].state = "committed"]
  /\ UNCHANGED <<now, posts, log, snapshots, planned>>

TimelineNext ==
  \/ Tick
  \/ \E t \in Tx : StampPost(t) \/ StampReversal(t) \/ CommitPost(t) \/ RollBackPost(t)
  \/ \E a \in Account : StartSnapshot(a) \/ OpenAccount(a) \/ CommitAccount(a)
  \/ \E p \in planned : StoreSnapshot(p)

-----------------------------------------------------------------------------
(* The statements that read.  An optional instant (as_of, from, to) is the  *)
(* set of it, empty when the parameter is absent.                           *)

\* ($n IS NULL OR t.posted_at <= $n)
PostedBy(t, asOf) == \A T \in asOf : posts[t].postedAt <= T
PostedFrom(t, from) == \A T \in from : posts[t].postedAt >= T

\* The entries of an account posted by an instant: not always a prefix.
EntriesAsOf(a, asOf) == Restrict(log[a], {n \in DOMAIN log[a] : PostedBy(log[a][n].tx, asOf)})

\* Slip: the newest snapshot, whenever it was taken.
SnapshotsAsOf_Any(a, asOf) == [n \in DOMAIN snapshots[a] |-> snapshots[a][n].balance]

\* The snapshots a point-in-time read may start from.
SnapshotsAsOf(a, asOf) ==
  [n \in {m \in DOMAIN snapshots[a] : \A T \in asOf : snapshots[a][m].createdAt <= T} |->
     snapshots[a][n].balance]

\* balancesFor(accountIds, asOf), for one account.
BalanceAsOf(a, asOf) == balancesFor(NormalSide[a], EntriesAsOf(a, asOf), SnapshotsAsOf(a, asOf))

\* replay(accountId, asOf), summed.
ReplayAsOf(a, asOf) == ReplayBalance(NormalSide[a], EntriesAsOf(a, asOf))

\* balanceUpToSeq(accountId, upToSeq, asOf).
BalanceUpToAsOf(a, seq, asOf) == balanceUpToSeq(NormalSide[a], EntriesAsOf(a, asOf), seq)

-----------------------------------------------------------------------------
(* Why the past stands: an inductive invariant of the writers *)

\* No process' clock runs ahead of the database's.
NoProcessAhead == \A t \in Tx : Offset[t] <= 0

Entry == [tx: Tx, direction: Side, amount: Nat]
Post == [state: {"none", "open", "posted", "void"}, postedAt: Int, debited: Nat,
         credited: Nat, amount: Nat, voids: SUBSET Tx]

\* The legs of a stamped transaction are on two accounts, its stamp is past, and
\* what it reverses was posted before it.
StampsArePast ==
  \A t \in Tx : posts[t].state # "none" =>
    /\ posts[t].postedAt <= now + Offset[t]
    /\ posts[t].debited \in Account /\ posts[t].credited \in Account
    /\ posts[t].debited # posts[t].credited
    /\ posts[t].voids \subseteq Posted

\* Entries are committed with their transactions, whose stamps stay.
EntriesArePosted ==
  \A a \in Account : /\ log[a] \in Seq(Entry)
                     /\ \A n \in DOMAIN log[a] : log[a][n].tx \in Posted

\* A snapshot is the balance at a position whose entries were all posted when it
\* was taken: what the choice of a snapshot by created_at relies on.
SnapshotHolds(a, n, s) ==
  /\ n \in DOMAIN log[a]
  /\ s.createdAt \in Int
  /\ s.balance = balanceUpToSeq(NormalSide[a], log[a], n)
  /\ NoProcessAhead => \A m \in 1..n : posts[log[a][m].tx].postedAt <= s.createdAt

\* Snapshots hold what they say from the moment their insert starts.
SnapshotsHold ==
  /\ \A a \in Account : \A n \in DOMAIN snapshots[a] : SnapshotHolds(a, n, snapshots[a][n])
  /\ \A p \in planned : p.account \in Account /\ SnapshotHolds(p.account, p.seq, p)

\* The inductive invariant: stamps are past and entries keep them, so the entries
\* a snapshot sums up are among those of every instant it may be read for
\* (ledger.store.ts:381-405).
TimelineInv ==
  /\ now \in Nat
  /\ posts \in [Tx -> Post] /\ DOMAIN log = Account /\ DOMAIN snapshots = Account
  /\ StampsArePast
  /\ EntriesArePosted
  /\ SnapshotsHold

=============================================================================
