----------------------------- MODULE ReadsProofs -----------------------------
(* Proofs about modules Timeline and Reads, for every set of accounts and   *)
(* transactions, every history, clocks that lag, and every page size: a     *)
(* point-in-time balance is the one a replay gives; a settled past stands,  *)
(* and its books balance; the pages of a list go on where the last ended,   *)
(* and skip nothing that was there; the running balances of a trail are     *)
(* those of the account, and the last is the one the trail closes on.       *)
EXTENDS Reads, ReplayProofs, TLAPS

-----------------------------------------------------------------------------
(* One account, as of one instant *)

\* The entries posted by an instant are entries, so their sums are integers.
LEMMA EntriesAsOfAmounts ==
  ASSUME NEW a \in Account, NEW asOf, EntriesArePosted
  PROVE  Amounts(EntriesAsOf(a, asOf))
<1>1. \A n \in DOMAIN log[a] : log[a][n] \in Entry
  BY DEF EntriesArePosted
<1>2. \A n \in DOMAIN log[a] : log[a][n].amount \in Int
  BY <1>1 DEF Entry
<1>3. \A n \in DOMAIN EntriesAsOf(a, asOf) :
        n \in DOMAIN log[a] /\ EntriesAsOf(a, asOf)[n] = log[a][n]
  BY DEF EntriesAsOf, Restrict
<1>4. QED BY <1>2, <1>3 DEF Amounts

\* Histories that agree up to a position have the same balance there.
LEMMA SumsOfCommonPrefix ==
  ASSUME NEW normalSide, NEW log1, NEW log2, NEW n \in Nat,
         \A m \in 1..n : m \in DOMAIN log1 /\ m \in DOMAIN log2 /\ log1[m] = log2[m]
  PROVE  SumAfter(normalSide, log1, 0)[n] = SumAfter(normalSide, log2, 0)[n]
<1>1. \A m \in 1..n : SignedAmount(normalSide, log1, m) = SignedAmount(normalSide, log2, m)
  BY DEF SignedAmount
<1>2. QED BY <1>1, SumAfterCongruence

\* A snapshot taken by an instant sums up entries posted by that instant.
LEMMA SnapshotIsPrefixAsOf ==
  ASSUME NEW a \in Account, NEW T \in Int, NEW n \in DOMAIN snapshots[a],
         posts \in [Tx -> Post], EntriesArePosted, SnapshotsHold, NoProcessAhead,
         snapshots[a][n].createdAt <= T
  PROVE  /\ n \in DOMAIN EntriesAsOf(a, {T})
         /\ snapshots[a][n].balance = SumAfter(NormalSide[a], EntriesAsOf(a, {T}), 0)[n]
<1> DEFINE L == EntriesAsOf(a, {T})
<1>1. /\ n \in DOMAIN log[a]
      /\ snapshots[a][n].createdAt \in Int
      /\ snapshots[a][n].balance = SumAfter(NormalSide[a], log[a], 0)[n]
      /\ \A m \in 1..n : posts[log[a][m].tx].postedAt <= snapshots[a][n].createdAt
  BY DEF SnapshotsHold, SnapshotHolds, balanceUpToSeq
<1>2. log[a] \in Seq(Entry) /\ \A m \in DOMAIN log[a] : log[a][m].tx \in Posted
  BY DEF EntriesArePosted
<1>3. DOMAIN log[a] = 1..Len(log[a]) /\ Len(log[a]) \in Nat
  BY <1>2
<1>4. n \in Nat /\ 1..n \subseteq DOMAIN log[a]
  BY <1>1, <1>3
<1>5. \A m \in 1..n : PostedBy(log[a][m].tx, {T})
  <2> TAKE m \in 1..n
  <2>1. log[a][m].tx \in Posted
    BY <1>2, <1>4
  <2>2. posts[log[a][m].tx].postedAt \in Int
    BY <2>1 DEF Posted, Post
  <2>3. QED BY <1>1, <2>2 DEF PostedBy
<1>6. \A m \in 1..n : m \in DOMAIN L /\ L[m] = log[a][m]
  BY <1>4, <1>5 DEF EntriesAsOf, Restrict
<1>7. \A m \in 1..n : m \in DOMAIN log[a] /\ m \in DOMAIN L /\ L[m] = log[a][m]
  BY <1>4, <1>6
<1>8. SumAfter(NormalSide[a], L, 0)[n] = SumAfter(NormalSide[a], log[a], 0)[n]
  <2>1. n \in Nat
    BY <1>4
  <2>2. PICK all, posted : all = log[a] /\ posted = L
    OBVIOUS
  <2>3. \A m \in 1..n : m \in DOMAIN all /\ m \in DOMAIN posted /\ posted[m] = all[m]
    BY <1>7, <2>2
  <2>4. SumAfter(NormalSide[a], posted, 0)[n] = SumAfter(NormalSide[a], all, 0)[n]
    <3> HIDE <2>2
    <3>1. QED BY <2>1, <2>3, SumsOfCommonPrefix
  <2>5. QED BY <2>2, <2>4
<1>9. n \in 1..n
  BY <1>1, <1>3
<1>10. QED BY <1>1, <1>6, <1>8, <1>9

\* Whichever snapshots exist, a point-in-time balance is the replay of the
\* entries posted by then.
LEMMA BalanceAsOfIsReplay ==
  ASSUME NEW a \in Account, NEW T \in Int, TimelineInv, NoProcessAhead
  PROVE  BalanceAsOf(a, {T}) = ReplayAsOf(a, {T})
<1> DEFINE L == EntriesAsOf(a, {T})
           S == SnapshotsAsOf(a, {T})
           s == LastSeq(DOMAIN S)
           h == LastSeq(DOMAIN L)
           sum(lo) == SumAfter(NormalSide[a], L, lo)
<1>1. posts \in [Tx -> Post] /\ EntriesArePosted /\ SnapshotsHold
  BY DEF TimelineInv
<1>2. Amounts(L)
  BY <1>1, EntriesAsOfAmounts
<1>3. PICK k \in Nat : DOMAIN log[a] = 1..k
  BY <1>1 DEF EntriesArePosted
<1>4. DOMAIN L \in SUBSET (1..k)
  BY <1>3 DEF EntriesAsOf, Restrict
<1>5. DOMAIN S = {m \in DOMAIN snapshots[a] : snapshots[a][m].createdAt <= T}
  BY DEF SnapshotsAsOf
<1>6. \A m \in DOMAIN S : m \in DOMAIN L /\ S[m] = sum(0)[m]
  <2> TAKE m \in DOMAIN S
  <2>1. m \in DOMAIN snapshots[a] /\ snapshots[a][m].createdAt <= T
    BY <1>5
  <2>2. S[m] = snapshots[a][m].balance
    BY <1>5 DEF SnapshotsAsOf
  <2>3. QED BY <1>1, <2>1, <2>2, SnapshotIsPrefixAsOf
<1>7. BalanceAsOf(a, {T}) = (IF s = 0 THEN 0 ELSE S[s]) + sum(s)[h]
  BY DEF BalanceAsOf, balancesFor, latestSnapshotSeq
<1>8. ReplayAsOf(a, {T}) = sum(0)[h]
  BY DEF ReplayAsOf, ReplayBalance, balanceUpToSeq
<1>9. h \in Nat
  <2>1. CASE DOMAIN L = {}
    BY <2>1 DEF LastSeq
  <2>2. CASE DOMAIN L # {}
    <3>1. h \in DOMAIN L
      BY <1>3, <1>4, <2>2, LastSeqOfBounded
    <3>2. h \in 1..k
      BY <1>4, <3>1
    <3>3. QED BY <3>2
  <2>3. QED BY <2>1, <2>2
<1>10. sum(0)[h] \in Int
  BY <1>2, <1>9, SumAfterType
<1>11. CASE DOMAIN S = {}
  <2>1. s = 0
    BY <1>11 DEF LastSeq
  <2>2. QED BY <1>7, <1>8, <1>10, <2>1
<1>12. CASE DOMAIN S # {}
  <2>1. DOMAIN S \in SUBSET (1..k)
    BY <1>4, <1>6
  <2>2. s \in DOMAIN S
    BY <1>3, <1>12, <2>1, LastSeqOfBounded
  <2>3. s \in DOMAIN L /\ S[s] = sum(0)[s]
    BY <1>6, <2>2
  <2>4. s \in 1..k
    BY <2>1, <2>2
  <2>5. s <= h
    BY <1>3, <1>4, <2>3, LastSeqOfBounded
  <2>6. sum(0)[h] = sum(0)[s] + sum(s)[h]
    BY <1>2, <1>9, <2>4, <2>5, SumSplits
  <2>7. s # 0
    BY <2>4
  <2>8. QED BY <1>7, <1>8, <2>3, <2>6, <2>7
<1>13. QED BY <1>11, <1>12

-----------------------------------------------------------------------------
(* What the writers keep *)

\* What a snapshot holds stays true while its entries and their stamps stay.
LEMMA SnapshotStays ==
  ASSUME EntriesArePosted,
         NEW a \in Account, NEW n, NEW s, SnapshotHolds(a, n, s),
         \A t \in Posted : posts'[t].postedAt = posts[t].postedAt,
         \A m \in DOMAIN log[a] : m \in DOMAIN log'[a] /\ log'[a][m] = log[a][m]
  PROVE  /\ n \in DOMAIN log'[a]
         /\ s.createdAt \in Int
         /\ s.balance = balanceUpToSeq(NormalSide[a], log'[a], n)
         /\ NoProcessAhead => \A m \in 1..n : posts'[log'[a][m].tx].postedAt <= s.createdAt
<1>1. log[a] \in Seq(Entry) /\ \A m \in DOMAIN log[a] : log[a][m].tx \in Posted
  BY DEF EntriesArePosted
<1>2. n \in DOMAIN log[a] /\ n \in Nat /\ 1..n \subseteq DOMAIN log[a]
  <2>1. n \in DOMAIN log[a]
    BY DEF SnapshotHolds
  <2>2. QED BY <1>1, <2>1
<1>3. balanceUpToSeq(NormalSide[a], log'[a], n) = balanceUpToSeq(NormalSide[a], log[a], n)
  <2>1. \A m \in 1..n : m \in DOMAIN log'[a] /\ m \in DOMAIN log[a] /\ log'[a][m] = log[a][m]
    BY <1>2
  <2>2. PICK before, after : before = log[a] /\ after = log'[a]
    OBVIOUS
  <2>3. \A m \in 1..n : m \in DOMAIN after /\ m \in DOMAIN before /\ after[m] = before[m]
    BY <2>1, <2>2
  <2>4. SumAfter(NormalSide[a], after, 0)[n] = SumAfter(NormalSide[a], before, 0)[n]
    <3> HIDE <2>2
    <3>1. QED BY <1>2, <2>3, SumsOfCommonPrefix
  <2>5. QED BY <2>2, <2>4 DEF balanceUpToSeq
<1>4. ASSUME NoProcessAhead, NEW m \in 1..n
      PROVE  posts'[log'[a][m].tx].postedAt <= s.createdAt
  <2>1. m \in DOMAIN log[a] /\ log'[a][m] = log[a][m] /\ log[a][m].tx \in Posted
    BY <1>1, <1>2
  <2>2. posts[log[a][m].tx].postedAt <= s.createdAt
    BY <1>4 DEF SnapshotHolds
  <2>3. QED BY <2>1, <2>2
<1>5. QED BY <1>2, <1>3, <1>4 DEF SnapshotHolds

\* A step that only moves the clock, or changes transactions that are not posted,
\* keeps the entries and the snapshots what they are.
LEMMA HistoriesStay ==
  ASSUME TimelineInv, UNCHANGED <<log, snapshots, planned>>,
         \A t \in Posted : t \in Posted' /\ posts'[t].postedAt = posts[t].postedAt
  PROVE  /\ DOMAIN log' = Account /\ DOMAIN snapshots' = Account
         /\ EntriesArePosted' /\ SnapshotsHold'
<1>1. EntriesArePosted /\ SnapshotsHold /\ DOMAIN log = Account /\ DOMAIN snapshots = Account
  BY DEF TimelineInv
<1>2. EntriesArePosted'
  BY <1>1 DEF EntriesArePosted
<1>3. ASSUME NEW a \in Account, NEW n \in DOMAIN snapshots'[a]
      PROVE  SnapshotHolds(a, n, snapshots[a][n])'
  <2>1. SnapshotHolds(a, n, snapshots[a][n])
    BY <1>1, <1>3 DEF SnapshotsHold
  <2>2. QED BY <1>1, <1>3, <2>1, SnapshotStays DEF SnapshotHolds
<1>4. ASSUME NEW p \in planned'
      PROVE  p.account \in Account /\ SnapshotHolds(p.account, p.seq, p)'
  <2>1. p.account \in Account /\ SnapshotHolds(p.account, p.seq, p)
    BY <1>1, <1>4 DEF SnapshotsHold
  <2>2. QED BY <1>1, <2>1, SnapshotStays DEF SnapshotHolds
<1>5. QED BY <1>1, <1>2, <1>3, <1>4 DEF SnapshotsHold

\* The tables start empty.
LEMMA InitTimelineInv == Init => TimelineInv
<1> SUFFICES ASSUME Init PROVE TimelineInv
  OBVIOUS
<1> USE DEF Init, TimelineInit
<1>1. StampsArePast
  BY DEF StampsArePast, NoPost
<1>2. EntriesArePosted
  BY DEF EntriesArePosted
<1>3. SnapshotsHold
  BY DEF SnapshotsHold
<1>4. posts \in [Tx -> Post]
  BY DEF Post, NoPost
<1>5. QED BY <1>1, <1>2, <1>3, <1>4 DEF TimelineInv

\* A stamp is the time at which it is taken, and both legs have an account.
LEMMA StampKeeps ==
  ASSUME TimelineInv, NEW t \in Tx, NEW debited, NEW credited, NEW amount \in Nat, NEW voids \in SUBSET Posted,
         Stamp(t, debited, credited, amount, voids)
  PROVE  TimelineInv'
<1>1. /\ posts[t].state = "none"
      /\ debited # credited /\ debited \in Account /\ credited \in Account
      /\ UNCHANGED <<now, log, snapshots, planned>>
      /\ posts' = [posts EXCEPT ![t] = [state |-> "open", postedAt |-> now + Offset[t],
           debited |-> debited, credited |-> credited, amount |-> amount, voids |-> voids]]
  BY DEF Stamp, Visible
<1>2. now \in Nat /\ posts \in [Tx -> Post] /\ Offset[t] \in Int
  BY TimelineAssumption DEF TimelineInv
<1>3. \A u \in Tx : u # t => posts'[u] = posts[u]
  BY <1>1, <1>2
<1>4. posts'[t] = [state |-> "open", postedAt |-> now + Offset[t],
        debited |-> debited, credited |-> credited, amount |-> amount, voids |-> voids]
  BY <1>1, <1>2
<1>5. \A u \in Posted : u \in Posted' /\ posts'[u].postedAt = posts[u].postedAt
  BY <1>1, <1>3 DEF Posted
<1>6. StampsArePast'
  <2>1. StampsArePast
    BY DEF TimelineInv
  <2>2. Posted \subseteq Posted'
    BY <1>5
  <2>3. QED BY <1>1, <1>2, <1>3, <1>4, <2>1, <2>2 DEF StampsArePast
<1>7. posts' \in [Tx -> Post]
  <2>1. debited \in Nat /\ credited \in Nat /\ voids \in SUBSET Tx
    BY <1>1, TimelineAssumption DEF Posted
  <2>2. posts'[t] \in Post
    BY <1>2, <1>4, <2>1 DEF Post
  <2>3. QED BY <1>1, <1>2, <2>2
<1>8. QED BY <1>1, <1>2, <1>5, <1>6, <1>7, HistoriesStay DEF TimelineInv

\* A rolled back transaction was not posted, so no entry has its stamp.
LEMMA RollBackKeeps ==
  ASSUME TimelineInv, NEW t \in Tx, RollBackPost(t)
  PROVE  TimelineInv'
<1>1. /\ posts[t].state = "open" /\ posts' = [posts EXCEPT ![t] = NoPost]
      /\ UNCHANGED <<now, log, snapshots, planned>>
  BY DEF RollBackPost
<1>2. posts \in [Tx -> Post] /\ StampsArePast
  BY DEF TimelineInv
<1>3. \A u \in Tx : posts'[u] = IF u = t THEN NoPost ELSE posts[u]
  BY <1>1, <1>2
<1>4. \A u \in Posted : u \in Posted' /\ posts'[u].postedAt = posts[u].postedAt
  BY <1>1, <1>3 DEF Posted
<1>5. StampsArePast'
  <2>1. Posted \subseteq Posted'
    BY <1>4
  <2>2. QED BY <1>1, <1>2, <1>3, <2>1 DEF StampsArePast, NoPost
<1>6. posts' \in [Tx -> Post]
  BY <1>1, <1>2 DEF Post, NoPost
<1>7. QED BY <1>1, <1>4, <1>5, <1>6, HistoriesStay DEF TimelineInv

\* What COMMIT does: it posts one transaction, changes no stamp, and appends at
\* most one entry, of that transaction, to each history.
LEMMA CommitEffect ==
  ASSUME TimelineInv, NEW t \in Tx, CommitPost(t)
  PROVE  /\ posts[t].state = "open"
         /\ posts' \in [Tx -> Post] /\ DOMAIN log' = Account
         /\ Posted' = Posted \cup {t}
         /\ \A u \in Tx : posts'[u] = [posts[u] EXCEPT !.state = posts'[u].state]
         /\ \A a \in Account :
              log'[a] = log[a] \/ \E e \in Entry : e.tx = t /\ log'[a] = Append(log[a], e)
<1> DEFINE p == posts[t]
           entry(direction) == [tx |-> t, direction |-> direction, amount |-> p.amount]
<1>1. /\ p.state = "open"
      /\ log' = [log EXCEPT ![p.debited] = Append(log[p.debited], entry("debit")),
                            ![p.credited] = Append(log[p.credited], entry("credit"))]
      /\ posts' = [u \in Tx |-> IF u = t THEN [p EXCEPT !.state = "posted"]
                                ELSE IF u \in p.voids THEN [posts[u] EXCEPT !.state = "void"]
                                ELSE posts[u]]
  BY DEF CommitPost
<1>2. /\ posts \in [Tx -> Post] /\ DOMAIN log = Account
      /\ p.debited \in Account /\ p.credited \in Account /\ p.debited # p.credited
      /\ p \in Post /\ p.voids \subseteq Posted
  BY <1>1 DEF TimelineInv, StampsArePast
<1>3. entry("debit") \in Entry /\ entry("credit") \in Entry
  BY <1>2 DEF Entry, Side, Post
<1>4. posts' \in [Tx -> Post] /\ DOMAIN log' = Account
  BY <1>1, <1>2 DEF Post
<1>5. \A a \in Account : log'[a] = IF a = p.debited THEN Append(log[a], entry("debit"))
                                   ELSE IF a = p.credited THEN Append(log[a], entry("credit"))
                                   ELSE log[a]
  BY <1>1, <1>2
<1>6. Posted' = Posted \cup {t}
  BY <1>1, <1>2 DEF Posted
<1>7. \A u \in Tx : posts'[u] = [posts[u] EXCEPT !.state = posts'[u].state]
  BY <1>1, <1>2 DEF Post
<1>8. QED BY <1>1, <1>3, <1>4, <1>5, <1>6, <1>7

\* Appending an entry leaves the entries before it where they are.
LEMMA AppendKeeps ==
  ASSUME NEW S, NEW s \in Seq(S), NEW e \in S
  PROVE  /\ Append(s, e) \in Seq(S)
         /\ \A m \in DOMAIN s : m \in DOMAIN Append(s, e) /\ Append(s, e)[m] = s[m]
         /\ \A m \in DOMAIN Append(s, e) : m \in DOMAIN s \/ Append(s, e)[m] = e
OBVIOUS

\* COMMIT appends behind the entries that snapshots sum up.
LEMMA CommitKeeps ==
  ASSUME TimelineInv, NEW t \in Tx, CommitPost(t)
  PROVE  TimelineInv'
<1>1. /\ now \in Nat /\ posts \in [Tx -> Post] /\ DOMAIN log = Account /\ DOMAIN snapshots = Account
      /\ StampsArePast /\ EntriesArePosted /\ SnapshotsHold
  BY DEF TimelineInv
<1>2. /\ posts[t].state = "open"
      /\ posts' \in [Tx -> Post] /\ DOMAIN log' = Account
      /\ Posted' = Posted \cup {t}
      /\ \A u \in Tx : posts'[u] = [posts[u] EXCEPT !.state = posts'[u].state]
      /\ \A a \in Account :
           log'[a] = log[a] \/ \E e \in Entry : e.tx = t /\ log'[a] = Append(log[a], e)
  BY CommitEffect
<1>3. UNCHANGED <<now, snapshots, planned>>
  BY DEF CommitPost
<1>4. \A u \in Tx : /\ posts'[u].postedAt = posts[u].postedAt
                    /\ posts'[u].debited = posts[u].debited
                    /\ posts'[u].credited = posts[u].credited
                    /\ posts'[u].voids = posts[u].voids
  BY <1>1, <1>2 DEF Post
<1>5. \A u \in Tx : posts'[u].state # "none" => posts[u].state # "none"
  <2> SUFFICES ASSUME NEW u \in Tx, posts'[u].state # "none", posts[u].state = "none"
               PROVE  FALSE
    OBVIOUS
  <2>1. u \notin Posted /\ u # t
    BY <1>2 DEF Posted
  <2>2. u \notin Posted' /\ posts'[u].state = "open"
    BY <1>2, <2>1 DEF Posted, Post
  <2>3. u \notin posts[t].voids
    BY <1>1, <1>2, <2>1 DEF StampsArePast
  <2>4. QED BY <2>1, <2>2, <2>3 DEF CommitPost
<1>6. StampsArePast'
  BY <1>1, <1>2, <1>3, <1>4, <1>5 DEF StampsArePast
<1>7. \A a \in Account : log[a] \in Seq(Entry)
  BY <1>1 DEF EntriesArePosted
<1>8. \A a \in Account : \A m \in DOMAIN log[a] : m \in DOMAIN log'[a] /\ log'[a][m] = log[a][m]
  <2> TAKE a \in Account
  <2>1. CASE log'[a] = log[a]
    BY <2>1
  <2>2. ASSUME NEW e \in Entry, log'[a] = Append(log[a], e)
        PROVE  \A m \in DOMAIN log[a] : m \in DOMAIN log'[a] /\ log'[a][m] = log[a][m]
    BY <1>7, <2>2, AppendKeeps
  <2>3. QED BY <1>2, <2>1, <2>2
<1>9. \A a \in Account : /\ log'[a] \in Seq(Entry)
                         /\ \A m \in DOMAIN log'[a] : m \in DOMAIN log[a] \/ log'[a][m].tx = t
  <2> TAKE a \in Account
  <2>1. CASE log'[a] = log[a]
    BY <1>7, <2>1
  <2>2. ASSUME NEW e \in Entry, e.tx = t, log'[a] = Append(log[a], e)
        PROVE  /\ log'[a] \in Seq(Entry)
               /\ \A m \in DOMAIN log'[a] : m \in DOMAIN log[a] \/ log'[a][m].tx = t
    BY <1>7, <2>2, AppendKeeps
  <2>3. QED BY <1>2, <2>1, <2>2
<1>10. EntriesArePosted'
  BY <1>1, <1>2, <1>7, <1>8, <1>9 DEF EntriesArePosted
<1>11. \A u \in Posted : posts'[u].postedAt = posts[u].postedAt
  BY <1>4 DEF Posted
<1>12. ASSUME NEW a \in Account, NEW n \in DOMAIN snapshots'[a]
       PROVE  SnapshotHolds(a, n, snapshots[a][n])'
  <2>1. SnapshotHolds(a, n, snapshots[a][n])
    BY <1>1, <1>3, <1>12 DEF SnapshotsHold
  <2>2. QED BY <1>1, <1>3, <1>8, <1>11, <2>1, SnapshotStays DEF SnapshotHolds
<1>13. ASSUME NEW p \in planned'
       PROVE  p.account \in Account /\ SnapshotHolds(p.account, p.seq, p)'
  <2>1. p.account \in Account /\ SnapshotHolds(p.account, p.seq, p)
    BY <1>1, <1>3, <1>13 DEF SnapshotsHold
  <2>2. QED BY <1>1, <1>8, <1>11, <2>1, SnapshotStays DEF SnapshotHolds
<1>14. SnapshotsHold'
  BY <1>12, <1>13 DEF SnapshotsHold
<1>15. QED BY <1>1, <1>2, <1>3, <1>6, <1>10, <1>14 DEF TimelineInv

\* A snapshot that is started holds: its entries were stamped before now.
LEMMA StartSnapshotKeeps ==
  ASSUME TimelineInv, NEW a \in Account, StartSnapshot(a)
  PROVE  TimelineInv'
<1>1. PICK n \in (SnapshotSeqs \cap DOMAIN log[a]) \ DOMAIN snapshots[a] :
        /\ planned' = {[account |-> a, seq |-> n, createdAt |-> now,
                        balance |-> balanceUpToSeq(NormalSide[a], log[a], n)]}
        /\ UNCHANGED <<now, accounts, posts, log, snapshots>>
  BY DEF StartSnapshot
<1>2. /\ now \in Nat /\ posts \in [Tx -> Post]
      /\ StampsArePast /\ EntriesArePosted /\ SnapshotsHold
  BY DEF TimelineInv
<1>3. StampsArePast' /\ EntriesArePosted'
  BY <1>1, <1>2 DEF StampsArePast, EntriesArePosted, Posted
<1>4. ASSUME NoProcessAhead, NEW m \in 1..n
      PROVE  posts[log[a][m].tx].postedAt <= now
  <2>1. log[a] \in Seq(Entry) /\ \A k \in DOMAIN log[a] : log[a][k].tx \in Posted
    BY <1>2 DEF EntriesArePosted
  <2>2. log[a][m].tx \in Posted
    BY <1>1, <1>4, <2>1
  <2>3. PICK t \in Tx : t = log[a][m].tx /\ posts[t].state # "none"
    BY <2>2 DEF Posted
  <2>4. posts[t].postedAt <= now + Offset[t] /\ posts[t].postedAt \in Int
    BY <1>2, <2>3 DEF StampsArePast, Post
  <2>5. Offset[t] <= 0 /\ Offset[t] \in Int
    BY <1>4, TimelineAssumption DEF NoProcessAhead
  <2>6. QED BY <1>2, <2>3, <2>4, <2>5
<1>5. ASSUME NEW p \in planned'
      PROVE  p.account \in Account /\ SnapshotHolds(p.account, p.seq, p)'
  <2>1. p = [account |-> a, seq |-> n, createdAt |-> now,
             balance |-> balanceUpToSeq(NormalSide[a], log[a], n)]
    BY <1>1, <1>5
  <2>2. QED BY <1>1, <1>2, <1>4, <2>1 DEF SnapshotHolds
<1>6. ASSUME NEW b \in Account, NEW k \in DOMAIN snapshots'[b]
      PROVE  SnapshotHolds(b, k, snapshots[b][k])'
  <2>1. SnapshotHolds(b, k, snapshots[b][k])
    BY <1>1, <1>2, <1>6 DEF SnapshotsHold
  <2>2. QED BY <1>1, <2>1 DEF SnapshotHolds
<1>7. SnapshotsHold'
  BY <1>5, <1>6 DEF SnapshotsHold
<1>8. QED BY <1>1, <1>2, <1>3, <1>7 DEF TimelineInv

\* A snapshot is stored as it was planned.
LEMMA StoreSnapshotKeeps ==
  ASSUME TimelineInv, NEW p \in planned, StoreSnapshot(p)
  PROVE  TimelineInv'
<1>1. /\ posts \in [Tx -> Post] /\ DOMAIN snapshots = Account
      /\ StampsArePast /\ EntriesArePosted /\ SnapshotsHold
  BY DEF TimelineInv
<1>2. UNCHANGED <<now, accounts, posts, log>> /\ planned' \subseteq planned
  BY DEF StoreSnapshot
<1>3. p.account \in Account /\ SnapshotHolds(p.account, p.seq, p)
  BY <1>1 DEF SnapshotsHold
<1>4. DOMAIN snapshots' = Account
  BY <1>1 DEF StoreSnapshot
<1>5. ASSUME NEW a \in Account, NEW n \in DOMAIN snapshots'[a]
      PROVE  SnapshotHolds(a, n, snapshots[a][n])'
  <2>1. \/ a = p.account /\ n = p.seq
           /\ snapshots'[a][n] = [balance |-> p.balance, createdAt |-> p.createdAt]
        \/ n \in DOMAIN snapshots[a] /\ snapshots'[a][n] = snapshots[a][n]
    BY <1>1, <1>3, <1>5 DEF StoreSnapshot
  <2>2. CASE /\ a = p.account /\ n = p.seq
             /\ snapshots'[a][n] = [balance |-> p.balance, createdAt |-> p.createdAt]
    BY <1>2, <1>3, <2>2 DEF SnapshotHolds
  <2>3. CASE n \in DOMAIN snapshots[a] /\ snapshots'[a][n] = snapshots[a][n]
    <3>1. SnapshotHolds(a, n, snapshots[a][n])
      BY <1>1, <2>3 DEF SnapshotsHold
    <3>2. QED BY <1>2, <2>3, <3>1 DEF SnapshotHolds
  <2>4. QED BY <2>1, <2>2, <2>3
<1>6. ASSUME NEW q \in planned'
      PROVE  q.account \in Account /\ SnapshotHolds(q.account, q.seq, q)'
  <2>1. q.account \in Account /\ SnapshotHolds(q.account, q.seq, q)
    BY <1>1, <1>2, <1>6 DEF SnapshotsHold
  <2>2. QED BY <1>2, <2>1 DEF SnapshotHolds
<1>7. SnapshotsHold'
  BY <1>5, <1>6 DEF SnapshotsHold
<1>8. StampsArePast' /\ EntriesArePosted'
  BY <1>1, <1>2 DEF StampsArePast, EntriesArePosted, Posted
<1>9. QED BY <1>1, <1>2, <1>4, <1>7, <1>8 DEF TimelineInv

\* The inductive invariant holds throughout.
THEOREM ReadsTimeline == Spec => []TimelineInv
<1>1. Init => TimelineInv
  BY InitTimelineInv
<1>2. ASSUME TimelineInv, [Next]_vars
      PROVE  TimelineInv'
  <2>1. CASE UNCHANGED timelineVars
    BY <1>2, <2>1 DEF timelineVars, tables, TimelineInv, StampsArePast, EntriesArePosted,
      SnapshotsHold, SnapshotHolds, Posted
  <2>2. CASE TimelineNext
    <3>1. CASE Tick
      <4>1. now \in Nat /\ now' = now + 1 /\ posts \in [Tx -> Post] /\ UNCHANGED tables
            /\ StampsArePast
        BY <1>2, <3>1 DEF Tick, TimelineInv
      <4>2. StampsArePast'
        BY <4>1, TimelineAssumption DEF StampsArePast, tables, Post, Posted
      <4>3. QED BY <1>2, <4>1, <4>2, HistoriesStay DEF tables, TimelineInv, Posted
    <3>2. ASSUME NEW t \in Tx, StampPost(t) PROVE TimelineInv'
      <4>1. Movement[t].amount \in Nat /\ {} \in SUBSET Posted
        BY TimelineAssumption
      <4>2. QED BY <1>2, <3>2, <4>1, StampKeeps DEF StampPost
    <3>3. ASSUME NEW t \in Tx, StampReversal(t) PROVE TimelineInv'
      <4>1. PICK u \in Tx : /\ posts[u].state = "posted"
                            /\ Stamp(t, posts[u].credited, posts[u].debited, posts[u].amount, {u})
        BY <3>3 DEF StampReversal
      <4>2. posts[u].amount \in Nat /\ {u} \in SUBSET Posted
        BY <1>2, <4>1 DEF TimelineInv, Post, Posted
      <4>3. QED BY <1>2, <4>1, <4>2, StampKeeps
    <3>4. ASSUME NEW t \in Tx, CommitPost(t) PROVE TimelineInv'
      BY <1>2, <3>4, CommitKeeps
    <3>5. ASSUME NEW t \in Tx, RollBackPost(t) PROVE TimelineInv'
      BY <1>2, <3>5, RollBackKeeps
    <3>6. ASSUME NEW a \in Account, StartSnapshot(a) PROVE TimelineInv'
      BY <1>2, <3>6, StartSnapshotKeeps
    <3>7. ASSUME NEW a \in Account, OpenAccount(a) \/ CommitAccount(a) PROVE TimelineInv'
      BY <1>2, <3>7 DEF OpenAccount, CommitAccount, TimelineInv, StampsArePast, EntriesArePosted,
        SnapshotsHold, SnapshotHolds, Posted
    <3>8. ASSUME NEW p \in planned, StoreSnapshot(p) PROVE TimelineInv'
      BY <1>2, <3>8, StoreSnapshotKeeps
    <3>9. QED BY <2>2, <3>1, <3>2, <3>3, <3>4, <3>5, <3>6, <3>7, <3>8 DEF TimelineNext
  <2>3. QED
    BY <1>2, <2>1, <2>2 DEF Next, ReaderNext, Ask, ReadBase, ReadRows, DeliverPage, ExportGoesOn,
      DeliverLastPage, vars
<1>3. QED BY <1>1, <1>2, PTL DEF Spec

\* The invariant is all a point-in-time read needs.
LEMMA InvImpliesPointInTime == TimelineInv => PointInTimeIsReplay
<1> SUFFICES ASSUME TimelineInv, NoProcessAhead, NEW a \in Account, NEW T \in 0..MaxTime
             PROVE  BalanceAsOf(a, {T}) = ReplayAsOf(a, {T})
  BY DEF PointInTimeIsReplay
<1>1. T \in Int
  BY TimelineAssumption
<1>2. QED BY <1>1, BalanceAsOfIsReplay

\* PointInTimeIsReplay, for every value of the constants: a balance as of an
\* instant is the replay of the entries posted by then, whichever snapshot the
\* read starts from.
THEOREM ReadsPointInTime == Spec => []PointInTimeIsReplay
BY InvImpliesPointInTime, ReadsTimeline, PTL

-----------------------------------------------------------------------------
(* A settled past *)

\* What is committed after an instant by which nothing is open is not among its
\* entries.
LEMMA CommitBehindSettled ==
  ASSUME TimelineInv, NEW t \in Tx, CommitPost(t), NEW T \in Int, Settled(T), NEW a \in Account
  PROVE  EntriesAsOf(a, {T})' = EntriesAsOf(a, {T})
<1>1. posts \in [Tx -> Post] /\ EntriesArePosted
  BY DEF TimelineInv
<1>2. /\ posts[t].state = "open"
      /\ \A u \in Tx : posts'[u] = [posts[u] EXCEPT !.state = posts'[u].state]
      /\ log'[a] = log[a] \/ \E e \in Entry : e.tx = t /\ log'[a] = Append(log[a], e)
  BY CommitEffect
<1>3. \A u \in Tx : posts'[u].postedAt = posts[u].postedAt
  BY <1>1, <1>2 DEF Post
<1>4. posts[t].postedAt > T /\ posts[t].postedAt \in Int
  BY <1>1, <1>2 DEF Settled, Post
<1>5. log[a] \in Seq(Entry)
  BY <1>1 DEF EntriesArePosted
<1>6. \A m \in DOMAIN log[a] : log[a][m].tx \in Tx
  BY <1>1 DEF EntriesArePosted, Posted
<1>7. /\ \A m \in DOMAIN log[a] : m \in DOMAIN log'[a] /\ log'[a][m] = log[a][m]
      /\ \A m \in DOMAIN log'[a] : m \in DOMAIN log[a] \/ log'[a][m].tx = t
  <2>1. CASE log'[a] = log[a]
    BY <2>1
  <2>2. ASSUME NEW e \in Entry, e.tx = t, log'[a] = Append(log[a], e)
        PROVE  /\ \A m \in DOMAIN log[a] : m \in DOMAIN log'[a] /\ log'[a][m] = log[a][m]
               /\ \A m \in DOMAIN log'[a] : m \in DOMAIN log[a] \/ log'[a][m].tx = t
    BY <1>5, <2>2, AppendKeeps
  <2>3. QED BY <1>2, <2>1, <2>2
<1>8. {m \in DOMAIN log'[a] : posts'[log'[a][m].tx].postedAt <= T}
        = {m \in DOMAIN log[a] : posts[log[a][m].tx].postedAt <= T}
  <2>1. ASSUME NEW m \in DOMAIN log'[a], posts'[log'[a][m].tx].postedAt <= T
        PROVE  m \in DOMAIN log[a] /\ posts[log[a][m].tx].postedAt <= T
    BY <1>3, <1>4, <1>6, <1>7, <2>1
  <2>2. ASSUME NEW m \in DOMAIN log[a], posts[log[a][m].tx].postedAt <= T
        PROVE  m \in DOMAIN log'[a] /\ posts'[log'[a][m].tx].postedAt <= T
    BY <1>3, <1>6, <1>7, <2>2
  <2>3. QED BY <2>1, <2>2
<1>9. QED BY <1>7, <1>8 DEF EntriesAsOf, PostedBy, Restrict

\* Nothing can be stamped or left open by a settled instant any more.
LEMMA SettledStays ==
  ASSUME TimelineInv, [Next]_vars, NEW T \in Int, Settled(T)
  PROVE  Settled(T)'
<1>1. now \in Nat /\ posts \in [Tx -> Post] /\ StampsArePast
  BY DEF TimelineInv
<1>2. \A t \in Tx : Offset[t] \in Int
  BY TimelineAssumption
<1>3. CASE UNCHANGED <<now, posts>>
  BY <1>3 DEF Settled
<1>4. CASE Tick
  BY <1>1, <1>2, <1>4 DEF Tick, tables, Settled
<1>5. ASSUME NEW t \in Tx, NEW debited, NEW credited, NEW amount, NEW voids,
             Stamp(t, debited, credited, amount, voids)
      PROVE  Settled(T)'
  <2>1. /\ posts[t].state = "none" /\ now' = now
        /\ posts' = [posts EXCEPT ![t] = [state |-> "open", postedAt |-> now + Offset[t],
             debited |-> debited, credited |-> credited, amount |-> amount, voids |-> voids]]
    BY <1>5 DEF Stamp
  <2>2. QED BY <1>1, <1>2, <2>1 DEF Settled
<1>6. ASSUME NEW t \in Tx, CommitPost(t)
      PROVE  Settled(T)'
  <2>1. now' = now
    BY <1>6 DEF CommitPost
  <2>2. /\ posts[t].state = "open" /\ posts' \in [Tx -> Post]
        /\ Posted' = Posted \cup {t}
        /\ \A u \in Tx : posts'[u] = [posts[u] EXCEPT !.state = posts'[u].state]
    BY <1>6, CommitEffect
  <2>3. \A u \in Tx : posts'[u].postedAt = posts[u].postedAt
    BY <1>1, <2>2 DEF Post
  <2>4. \A u \in Tx : posts'[u].state \in {"none", "open"} => posts'[u].state = posts[u].state
    <3> SUFFICES ASSUME NEW u \in Tx, posts'[u].state \in {"none", "open"}
                 PROVE  posts'[u].state = posts[u].state
      OBVIOUS
    <3>1. u \notin Posted /\ u # t
      BY <2>2 DEF Posted
    <3>2. u \notin posts[t].voids
      BY <1>1, <2>2, <3>1 DEF StampsArePast
    <3>3. QED BY <1>6, <3>1, <3>2 DEF CommitPost
  <2>5. QED BY <2>1, <2>3, <2>4 DEF Settled
<1>7. ASSUME NEW t \in Tx, RollBackPost(t)
      PROVE  Settled(T)'
  <2>1. /\ posts[t].state = "open" /\ now' = now /\ posts' = [posts EXCEPT ![t] = NoPost]
    BY <1>7 DEF RollBackPost
  <2>2. posts[t].postedAt > T /\ posts[t].postedAt <= now + Offset[t]
    BY <1>1, <2>1 DEF Settled, StampsArePast
  <2>3. now + Offset[t] > T
    BY <1>1, <1>2, <2>2 DEF Post
  <2>4. QED BY <1>1, <2>1, <2>3 DEF Settled, NoPost
<1>8. QED
  BY <1>3, <1>4, <1>5, <1>6, <1>7 DEF Next, TimelineNext, StampPost, StampReversal,
    StartSnapshot, OpenAccount, CommitAccount, StoreSnapshot, ReaderNext, Ask, ReadBase, ReadRows,
    DeliverPage, ExportGoesOn, DeliverLastPage, vars, timelineVars, tables

\* SettledPastStands, for every value of the constants: what is committed later
\* never changes a balance as of a settled instant, whatever snapshots are stored.
THEOREM ReadsSettledPast == Spec => SettledPastStands
<1>1. ASSUME TimelineInv, PointInTimeIsReplay, PointInTimeIsReplay', [Next]_vars
      PROVE  [SettledPastStandsStep]_vars
  <2> SUFFICES ASSUME NoProcessAhead, NEW T \in 0..MaxTime, Settled(T)
               PROVE  /\ Settled(T)'
                      /\ <<log, snapshots>>' # <<log, snapshots>> =>
                           \A a \in Account : BalanceAsOf(a, {T})' = BalanceAsOf(a, {T})
    BY DEF SettledPastStandsStep
  <2>1. T \in Int
    BY TimelineAssumption
  <2>2. Settled(T)'
    BY <1>1, <2>1, SettledStays
  <2>3. ASSUME <<log, snapshots>>' # <<log, snapshots>>, NEW a \in Account
        PROVE  BalanceAsOf(a, {T})' = BalanceAsOf(a, {T})
    <3>1. EntriesAsOf(a, {T})' = EntriesAsOf(a, {T})
      <4>1. CASE UNCHANGED <<posts, log>>
        BY <4>1 DEF EntriesAsOf, PostedBy
      <4>2. ASSUME NEW t \in Tx, CommitPost(t)
            PROVE  EntriesAsOf(a, {T})' = EntriesAsOf(a, {T})
        BY <1>1, <2>1, <4>2, CommitBehindSettled
      <4>3. QED
        BY <1>1, <2>3, <4>1, <4>2 DEF Next, TimelineNext, Tick, StampPost, StampReversal, Stamp,
          RollBackPost, StartSnapshot, OpenAccount, CommitAccount, StoreSnapshot, ReaderNext, Ask,
          ReadBase, ReadRows, DeliverPage, ExportGoesOn, DeliverLastPage, vars, timelineVars, tables
    <3>2. ReplayAsOf(a, {T})' = ReplayAsOf(a, {T})
      BY <3>1 DEF ReplayAsOf
    <3>3. BalanceAsOf(a, {T}) = ReplayAsOf(a, {T})
      BY <1>1 DEF PointInTimeIsReplay
    <3>4. BalanceAsOf(a, {T})' = ReplayAsOf(a, {T})'
      BY <1>1 DEF PointInTimeIsReplay
    <3>5. QED BY <3>2, <3>3, <3>4
  <2>4. QED BY <2>2, <2>3
<1>2. QED BY <1>1, InvImpliesPointInTime, ReadsTimeline, PTL DEF Spec, SettledPastStands

-----------------------------------------------------------------------------
(* The books *)

\* COMMIT appends a debit to one history and a credit of the same amount to
\* another.
LEMMA CommitLegs ==
  ASSUME TimelineInv, NEW t \in Tx, CommitPost(t)
  PROVE  \E d, c \in Account : \E amount \in Nat :
           /\ d # c
           /\ log'[d] = Append(log[d], [tx |-> t, direction |-> "debit", amount |-> amount])
           /\ log'[c] = Append(log[c], [tx |-> t, direction |-> "credit", amount |-> amount])
           /\ \A a \in Account \ {d, c} : log'[a] = log[a]
<1> DEFINE p == posts[t]
           entry(direction) == [tx |-> t, direction |-> direction, amount |-> p.amount]
<1>1. /\ p.state = "open"
      /\ log' = [log EXCEPT ![p.debited] = Append(log[p.debited], entry("debit")),
                            ![p.credited] = Append(log[p.credited], entry("credit"))]
  BY DEF CommitPost
<1>2. /\ DOMAIN log = Account /\ p.amount \in Nat
      /\ p.debited \in Account /\ p.credited \in Account /\ p.debited # p.credited
  BY <1>1 DEF TimelineInv, StampsArePast, Post
<1>3. \A a \in Account : log'[a] = IF a = p.debited THEN Append(log[a], entry("debit"))
                                   ELSE IF a = p.credited THEN Append(log[a], entry("credit"))
                                   ELSE log[a]
  BY <1>1, <1>2
<1>4. PICK d \in Account, c \in Account, amount \in Nat :
        d = p.debited /\ c = p.credited /\ amount = p.amount
  BY <1>2
<1>5. /\ d # c
      /\ log'[d] = Append(log[d], [tx |-> t, direction |-> "debit", amount |-> amount])
      /\ log'[c] = Append(log[c], [tx |-> t, direction |-> "credit", amount |-> amount])
      /\ \A a \in Account \ {d, c} : log'[a] = log[a]
  BY <1>2, <1>3, <1>4
<1>6. QED BY <1>5

\* An entry appended to a history counts as of an instant iff it was posted by
\* then.
LEMMA AppendAsOf ==
  ASSUME TimelineInv, NEW T \in Int, NEW a \in Account, NEW e \in Entry,
         log'[a] = Append(log[a], e),
         \A u \in Tx : posts'[u].postedAt = posts[u].postedAt
  PROVE  ReplayAsOf(a, {T})' =
           IF posts[e.tx].postedAt <= T
           THEN balanceAfterEntry(ReplayAsOf(a, {T}), NormalSide[a], e.direction, e.amount)
           ELSE ReplayAsOf(a, {T})
<1> DEFINE s == EntriesAsOf(a, {T})
           s2 == EntriesAsOf(a, {T})'
           n == Len(log[a])
<1>1. EntriesArePosted /\ Amounts(s)
  BY EntriesAsOfAmounts DEF TimelineInv
<1>2. log[a] \in Seq(Entry) /\ \A m \in DOMAIN log[a] : log[a][m].tx \in Tx
  BY <1>1 DEF EntriesArePosted, Posted
<1>3. /\ n \in Nat /\ DOMAIN log[a] = 1..n /\ DOMAIN log'[a] = 1..(n + 1)
      /\ \A m \in 1..n : log'[a][m] = log[a][m]
      /\ log'[a][n + 1] = e
  BY <1>2
<1>4. s = [m \in {k \in 1..n : posts[log[a][k].tx].postedAt <= T} |-> log[a][m]]
  BY <1>3 DEF EntriesAsOf, Restrict, PostedBy
<1>5. s2 = [m \in {k \in 1..(n + 1) : posts'[log'[a][k].tx].postedAt <= T} |-> log'[a][m]]
  BY <1>3 DEF EntriesAsOf, Restrict, PostedBy
<1>6. /\ \A k \in 1..n : posts'[log'[a][k].tx].postedAt = posts[log[a][k].tx].postedAt
      /\ posts'[log'[a][n + 1].tx].postedAt = posts[e.tx].postedAt
  BY <1>2, <1>3 DEF Entry
<1>7. ReplayAsOf(a, {T})' = ReplayBalance(NormalSide[a], s2)
      /\ ReplayAsOf(a, {T}) = ReplayBalance(NormalSide[a], s)
  BY DEF ReplayAsOf
<1> HIDE DEF s, s2, n
<1>8. DOMAIN s = {k \in 1..n : posts[log[a][k].tx].postedAt <= T}
      /\ \A k \in DOMAIN s : s[k] = log[a][k]
  BY <1>4
<1>9. DOMAIN s2 = {k \in 1..(n + 1) : posts'[log'[a][k].tx].postedAt <= T}
      /\ \A k \in DOMAIN s2 : s2[k] = log'[a][k]
  BY <1>5
<1>10. CASE posts[e.tx].postedAt <= T
  <2>1. DOMAIN s2 = DOMAIN s \cup {n + 1}
    BY <1>3, <1>6, <1>8, <1>9, <1>10
  <2>2. (\A k \in DOMAIN s : s2[k] = s[k]) /\ s2[n + 1] = e
    BY <1>3, <1>8, <1>9, <2>1
  <2>3. DOMAIN s \subseteq 1..n /\ e.amount \in Int
    BY <1>8 DEF Entry
  <2>4. QED BY <1>1, <1>3, <1>7, <1>10, <2>1, <2>2, <2>3, ReplayOfAppended
<1>11. CASE ~(posts[e.tx].postedAt <= T)
  <2>1. {k \in 1..(n + 1) : posts'[log'[a][k].tx].postedAt <= T}
          = {k \in 1..n : posts[log[a][k].tx].postedAt <= T}
    BY <1>3, <1>6, <1>11
  <2>2. s2 = s
    BY <1>3, <1>4, <1>5, <2>1
  <2>3. QED BY <1>7, <1>11, <2>2
<1>12. QED BY <1>10, <1>11

\* The debit balance of every account as of an instant, by replay.
DebitReplays(T) ==
  [a \in Account |-> IF NormalSide[a] = "debit" THEN ReplayAsOf(a, {T}) ELSE -ReplayAsOf(a, {T})]

\* The books balance as of every instant, past or to come.
BooksInv == \A T \in Int : SumFunctionOnSet(DebitReplays(T), Account) = 0

LEMMA ReplayAsOfType ==
  ASSUME NEW a \in Account, NEW asOf, EntriesArePosted
  PROVE  ReplayAsOf(a, asOf) \in Int
<1> DEFINE L == EntriesAsOf(a, asOf)
<1>1. Amounts(L)
  BY EntriesAsOfAmounts
<1>2. PICK k \in Nat : DOMAIN log[a] = 1..k
  BY DEF EntriesArePosted
<1>3. DOMAIN L \subseteq 1..k
  BY <1>2 DEF EntriesAsOf, Restrict
<1> HIDE DEF L
<1>4. ReplayBalance(NormalSide[a], L) = SumAfter(NormalSide[a], L, 0)[k]
  BY <1>1, <1>3, ReplayIsSumUpTo
<1>5. SumAfter(NormalSide[a], L, 0)[k] \in Int
  BY <1>1, SumAfterType
<1>6. QED BY <1>4, <1>5 DEF ReplayAsOf, L

\* Nothing was posted yet.
LEMMA InitBooks == Init => BooksInv
<1> SUFFICES ASSUME Init, NEW T \in Int
             PROVE  SumFunctionOnSet(DebitReplays(T), Account) = 0
  BY DEF BooksInv
<1>1. ASSUME NEW a \in Account PROVE ReplayAsOf(a, {T}) = 0
  <2>1. DOMAIN EntriesAsOf(a, {T}) = {}
    BY DEF Init, TimelineInit, EntriesAsOf, Restrict
  <2> DEFINE L == EntriesAsOf(a, {T})
  <2>2. LastSeq(DOMAIN L) = 0
    BY <2>1 DEF LastSeq
  <2>3. SumAfter(NormalSide[a], L, 0)[0] = 0
    BY SumAfterStep
  <2>4. QED BY <2>2, <2>3 DEF ReplayAsOf, ReplayBalance, balanceUpToSeq
<1>2. \A a \in Account : DebitReplays(T)[a] = 0
  BY <1>1 DEF DebitReplays
<1>3. QED BY <1>2, TimelineAssumption, TotalZero

\* COMMIT moves a debit and a credit of one amount, or neither, into the past of
\* an instant.
LEMMA CommitKeepsBooks ==
  ASSUME TimelineInv, BooksInv, NEW t \in Tx, CommitPost(t)
  PROVE  BooksInv'
<1>1. /\ posts \in [Tx -> Post] /\ EntriesArePosted
      /\ EntriesArePosted'
  BY CommitKeeps DEF TimelineInv
<1>2. \A u \in Tx : posts'[u].postedAt = posts[u].postedAt
  <2>1. \A u \in Tx : posts'[u] = [posts[u] EXCEPT !.state = posts'[u].state]
    BY CommitEffect
  <2>2. QED BY <1>1, <2>1 DEF Post
<1>3. PICK d \in Account, c \in Account : \E amount \in Nat :
        /\ d # c
        /\ log'[d] = Append(log[d], [tx |-> t, direction |-> "debit", amount |-> amount])
        /\ log'[c] = Append(log[c], [tx |-> t, direction |-> "credit", amount |-> amount])
        /\ \A a \in Account \ {d, c} : log'[a] = log[a]
  BY CommitLegs
<1>4. PICK amount \in Nat :
        /\ d # c
        /\ log'[d] = Append(log[d], [tx |-> t, direction |-> "debit", amount |-> amount])
        /\ log'[c] = Append(log[c], [tx |-> t, direction |-> "credit", amount |-> amount])
        /\ \A a \in Account \ {d, c} : log'[a] = log[a]
  BY <1>3
<1> SUFFICES ASSUME NEW T \in Int
             PROVE  SumFunctionOnSet(DebitReplays(T)', Account) = 0
  BY DEF BooksInv
<1> DEFINE debit == [tx |-> t, direction |-> "debit", amount |-> amount]
           credit == [tx |-> t, direction |-> "credit", amount |-> amount]
           moved == IF posts[t].postedAt <= T THEN amount ELSE 0
<1>5. debit \in Entry /\ credit \in Entry
  BY DEF Entry, Side
<1>6. /\ ReplayAsOf(d, {T})' =
           IF posts[t].postedAt <= T
           THEN balanceAfterEntry(ReplayAsOf(d, {T}), NormalSide[d], "debit", amount)
           ELSE ReplayAsOf(d, {T})
      /\ ReplayAsOf(c, {T})' =
           IF posts[t].postedAt <= T
           THEN balanceAfterEntry(ReplayAsOf(c, {T}), NormalSide[c], "credit", amount)
           ELSE ReplayAsOf(c, {T})
  <2>1. debit.tx = t /\ debit.direction = "debit" /\ debit.amount = amount
        /\ credit.tx = t /\ credit.direction = "credit" /\ credit.amount = amount
        /\ log'[d] = Append(log[d], debit) /\ log'[c] = Append(log[c], credit)
    BY <1>4
  <2> HIDE DEF debit, credit
  <2>2. QED BY <1>2, <1>5, <2>1, AppendAsOf
<1>7. \A a \in Account \ {d, c} : ReplayAsOf(a, {T})' = ReplayAsOf(a, {T})
  <2> TAKE a \in Account \ {d, c}
  <2>1. \A m \in DOMAIN log[a] : log[a][m].tx \in Tx
    BY <1>1 DEF EntriesArePosted, Posted
  <2>2. EntriesAsOf(a, {T})' = EntriesAsOf(a, {T})
    BY <1>2, <1>4, <2>1 DEF EntriesAsOf, Restrict, PostedBy
  <2>3. QED BY <2>2 DEF ReplayAsOf
<1> DEFINE h == DebitReplays(T)
           k == DebitReplays(T)'
<1>8. \A a \in Account : ReplayAsOf(a, {T}) \in Int
  BY <1>1, ReplayAsOfType
<1>9. /\ h = [a \in Account |-> IF NormalSide[a] = "debit" THEN ReplayAsOf(a, {T})
                                ELSE -ReplayAsOf(a, {T})]
      /\ k = [a \in Account |-> IF NormalSide[a] = "debit" THEN ReplayAsOf(a, {T})'
                                ELSE -ReplayAsOf(a, {T})']
  BY DEF DebitReplays
<1>10. \A a \in Account : NormalSide[a] \in {"debit", "credit"}
  BY TimelineAssumption DEF Side
<1>11. k[d] = h[d] + moved
  <2>1. ReplayAsOf(d, {T}) \in Int
    BY <1>8
  <2> HIDE DEF h, k
  <2>2. CASE NormalSide[d] = "debit"
    BY <1>6, <1>9, <2>1, <2>2 DEF balanceAfterEntry, balanceEffect
  <2>3. CASE NormalSide[d] = "credit"
    BY <1>6, <1>9, <2>1, <2>3 DEF balanceAfterEntry, balanceEffect
  <2>4. QED BY <1>10, <2>2, <2>3
<1>12. k[c] = h[c] - moved
  <2>1. ReplayAsOf(c, {T}) \in Int
    BY <1>8
  <2> HIDE DEF h, k
  <2>2. CASE NormalSide[c] = "debit"
    BY <1>6, <1>9, <2>1, <2>2 DEF balanceAfterEntry, balanceEffect
  <2>3. CASE NormalSide[c] = "credit"
    BY <1>6, <1>9, <2>1, <2>3 DEF balanceAfterEntry, balanceEffect
  <2>4. QED BY <1>10, <2>2, <2>3
<1>13. SumFunctionOnSet(h, Account) = 0
  BY DEF BooksInv
<1>14. \A a \in Account : h[a] \in Int
  <2> HIDE DEF k
  <2>1. QED BY <1>8, <1>9
<1>15. \A a \in Account \ {d, c} : k[a] = h[a]
  <2> HIDE DEF h, k
  <2>1. QED BY <1>7, <1>9
<1>16. moved \in Int
  OBVIOUS
<1> HIDE DEF h, k, moved
<1>17. k[d] + k[c] = h[d] + h[c]
  BY <1>11, <1>12, <1>14, <1>16
<1>18. \A a \in Account : h[a] \in Int /\ k[a] \in Int
  <2> TAKE a \in Account
  <2>1. CASE a \in {d, c}
    BY <1>11, <1>12, <1>14, <1>16, <2>1
  <2>2. CASE a \notin {d, c}
    BY <1>14, <1>15, <2>2
  <2>3. QED BY <2>1, <2>2
<1>19. IsFiniteSet(Account) /\ d # c
  BY <1>4, TimelineAssumption
<1>20. SumFunctionOnSet(k, Account) = SumFunctionOnSet(h, Account)
  BY <1>15, <1>17, <1>18, <1>19, TotalMove
<1>21. QED BY <1>13, <1>20 DEF k

\* As of every instant, past or to come, the replays of all accounts add up to
\* zero: a commit adds both entries of its transaction, with one time.
THEOREM ReadsBooks == Spec => []BooksInv
<1>1. ASSUME TimelineInv, BooksInv, [Next]_vars
      PROVE  BooksInv'
  <2>1. CASE UNCHANGED <<posts, log>>
    BY <1>1, <2>1 DEF BooksInv, DebitReplays, ReplayAsOf, EntriesAsOf, PostedBy
  <2>2. CASE log' = log /\ \A t \in Posted : posts'[t].postedAt = posts[t].postedAt
    <3>1. ASSUME NEW a \in Account, NEW T \in Int
          PROVE  ReplayAsOf(a, {T})' = ReplayAsOf(a, {T})
      <4>1. \A m \in DOMAIN log[a] : log[a][m].tx \in Posted
        BY <1>1 DEF TimelineInv, EntriesArePosted
      <4>2. EntriesAsOf(a, {T})' = EntriesAsOf(a, {T})
        BY <2>2, <4>1 DEF EntriesAsOf, Restrict, PostedBy
      <4>3. QED BY <4>2 DEF ReplayAsOf
    <3>2. \A T \in Int : DebitReplays(T)' = DebitReplays(T)
      BY <3>1 DEF DebitReplays
    <3>3. QED BY <1>1, <3>2 DEF BooksInv
  <2>3. ASSUME NEW t \in Tx, CommitPost(t)
        PROVE  BooksInv'
    BY <1>1, <2>3, CommitKeepsBooks
  <2>4. ASSUME NEW t \in Tx, NEW debited, NEW credited, NEW amount, NEW voids,
               Stamp(t, debited, credited, amount, voids)
        PROVE  BooksInv'
    BY <1>1, <2>2, <2>4 DEF Stamp, TimelineInv, Posted
  <2>5. ASSUME NEW t \in Tx, RollBackPost(t)
        PROVE  BooksInv'
    BY <1>1, <2>2, <2>5 DEF RollBackPost, TimelineInv, Posted
  <2>6. QED
    BY <1>1, <2>1, <2>3, <2>4, <2>5 DEF Next, TimelineNext, Tick, StampPost, StampReversal,
      StartSnapshot, OpenAccount, CommitAccount, StoreSnapshot, ReaderNext, Ask, ReadBase, ReadRows,
      DeliverPage, ExportGoesOn, DeliverLastPage, vars, timelineVars, tables
<1>2. QED BY <1>1, InitBooks, ReadsTimeline, PTL DEF Spec

\* BooksBalanceAtEveryInstant, for every value of the constants: whichever
\* snapshots the accounts start from, as of no instant is half a transfer
\* visible.
THEOREM ReadsBooksBalance == Spec => []BooksBalanceAtEveryInstant
<1>1. ASSUME TimelineInv, BooksInv
      PROVE  BooksBalanceAtEveryInstant
  <2> SUFFICES ASSUME NoProcessAhead, NEW T \in 0..now
               PROVE  SumFunctionOnSet([a \in Account |-> DebitBalance(a, T)], Account) = 0
    BY DEF BooksBalanceAtEveryInstant
  <2>1. T \in Int
    BY <1>1 DEF TimelineInv
  <2>2. \A a \in Account : BalanceAsOf(a, {T}) = ReplayAsOf(a, {T})
    BY <1>1, <2>1, BalanceAsOfIsReplay
  <2>3. [a \in Account |-> DebitBalance(a, T)] = DebitReplays(T)
    BY <2>2 DEF DebitBalance, DebitReplays
  <2>4. QED BY <1>1, <2>1, <2>3 DEF BooksInv
<1>2. QED BY <1>1, ReadsTimeline, ReadsBooks, PTL

-----------------------------------------------------------------------------
(* Pages of an ordered set of keys *)

\* The keys of S are strictly and totally ordered.
Ordered(q, S) ==
  /\ \A k \in S : ~Before(q, k, k)
  /\ \A k, l \in S : k = l \/ Before(q, k, l) \/ Before(q, l, k)
  /\ \A k, l, m \in S : Before(q, k, l) /\ Before(q, l, m) => Before(q, k, m)

LEMMA OrderedSubset ==
  ASSUME NEW q, NEW S, Ordered(q, S), NEW R \in SUBSET S
  PROVE  Ordered(q, R)
BY DEF Ordered

\* There is a first key.
LEMMA FirstKey ==
  ASSUME NEW q, NEW S, IsFiniteSet(S), S # {}, Ordered(q, S)
  PROVE  \E k \in S : \A l \in S : l = k \/ Before(q, k, l)
<1> DEFINE HasFirst(s) == \E k \in s : \A l \in s : l = k \/ Before(q, k, l)
           F == {s \in SUBSET S : s # {} /\ ~HasFirst(s)}
<1> SUFFICES ASSUME S \in F PROVE FALSE
  OBVIOUS
<1>1. \A s \in F : IsFiniteSet(s)
  BY FS_Subset
<1>2. PICK s \in F : \A u \in F : Cardinality(s) <= Cardinality(u)
  <2> HIDE DEF F
  <2>1. QED BY <1>1, SmallestSet
<1>3. PICK x \in s : TRUE
  OBVIOUS
<1>4. Cardinality(s) \in Nat /\ Cardinality(s \ {x}) = Cardinality(s) - 1
  BY <1>1, FS_RemoveElement, FS_CardinalityType
<1>5. s \ {x} \notin F
  <2> HIDE DEF F
  <2>1. ~(Cardinality(s) <= Cardinality(s \ {x}))
    BY <1>4
  <2>2. QED BY <1>2, <2>1
<1>6. CASE s \ {x} = {}
  <2>1. \A l \in s : l = x
    BY <1>6
  <2>2. QED BY <2>1
<1>7. CASE HasFirst(s \ {x})
  <2>1. PICK y \in s \ {x} : \A l \in s \ {x} : l = y \/ Before(q, y, l)
    BY <1>7
  <2>2. x \in S /\ y \in S /\ s \subseteq S
    OBVIOUS
  <2>3. CASE Before(q, x, y)
    BY <2>1, <2>2, <2>3 DEF Ordered
  <2>4. CASE Before(q, y, x)
    BY <2>1, <2>2, <2>4
  <2>5. QED BY <2>1, <2>2, <2>3, <2>4 DEF Ordered
<1>8. QED BY <1>5, <1>6, <1>7

\* And a last one.
LEMMA LastKey ==
  ASSUME NEW q, NEW S, IsFiniteSet(S), S # {}, Ordered(q, S)
  PROVE  LastOf(q, S) \in S /\ \A l \in S : l = LastOf(q, S) \/ Before(q, l, LastOf(q, S))
<1> DEFINE HasLast(s) == \E k \in s : \A l \in s : l = k \/ Before(q, l, k)
           F == {s \in SUBSET S : s # {} /\ ~HasLast(s)}
<1>1. HasLast(S)
  <2> SUFFICES ASSUME S \in F PROVE FALSE
    OBVIOUS
  <2>1. \A s \in F : IsFiniteSet(s)
    BY FS_Subset
  <2>2. PICK s \in F : \A u \in F : Cardinality(s) <= Cardinality(u)
    <3> HIDE DEF F
    <3>1. QED BY <2>1, SmallestSet
  <2>3. PICK x \in s : TRUE
    OBVIOUS
  <2>4. Cardinality(s) \in Nat /\ Cardinality(s \ {x}) = Cardinality(s) - 1
    BY <2>1, FS_RemoveElement, FS_CardinalityType
  <2>5. s \ {x} \notin F
    <3> HIDE DEF F
    <3>1. ~(Cardinality(s) <= Cardinality(s \ {x}))
      BY <2>4
    <3>2. QED BY <2>2, <3>1
  <2>6. CASE s \ {x} = {}
    <3>1. \A l \in s : l = x
      BY <2>6
    <3>2. QED BY <3>1
  <2>7. CASE HasLast(s \ {x})
    <3>1. PICK y \in s \ {x} : \A l \in s \ {x} : l = y \/ Before(q, l, y)
      BY <2>7
    <3>2. x \in S /\ y \in S /\ s \subseteq S
      OBVIOUS
    <3>3. CASE Before(q, y, x)
      BY <3>1, <3>2, <3>3 DEF Ordered
    <3>4. CASE Before(q, x, y)
      BY <3>1, <3>2, <3>4
    <3>5. QED BY <3>1, <3>2, <3>3, <3>4 DEF Ordered
  <2>8. QED BY <2>5, <2>6, <2>7
<1>2. QED BY <1>1 DEF LastOf

\* What FirstOf takes has nothing left before it.
LEMMA FirstOfIsClosed ==
  ASSUME NEW q, NEW S, IsFiniteSet(S), Ordered(q, S), NEW n \in Nat,
         NEW k \in FirstOf(q, S, n), NEW l \in S, Before(q, l, k)
  PROVE  l \in FirstOf(q, S, n)
<1> DEFINE Below(m) == {x \in S : Before(q, x, m)}
<1>1. k \in S /\ Cardinality(Below(k)) < n
  BY DEF FirstOf
<1>2. Below(l) \subseteq Below(k)
  BY <1>1 DEF Ordered
<1>3. IsFiniteSet(Below(k)) /\ IsFiniteSet(Below(l))
  BY FS_Subset
<1> HIDE DEF Below
<1>4. Cardinality(Below(l)) <= Cardinality(Below(k))
  BY <1>2, <1>3, FS_Subset
<1>5. Cardinality(Below(l)) \in Nat /\ Cardinality(Below(k)) \in Nat
  BY <1>3, FS_CardinalityType
<1>6. Cardinality(Below(l)) < n
  BY <1>1, <1>4, <1>5
<1>7. QED BY <1>6 DEF FirstOf, Below

\* It takes at most n keys, and n unless it takes all there are.
LEMMA FirstOfCounts ==
  ASSUME NEW q, NEW S, IsFiniteSet(S), Ordered(q, S), NEW n \in Nat
  PROVE  /\ FirstOf(q, S, n) \subseteq S /\ IsFiniteSet(FirstOf(q, S, n))
         /\ Cardinality(FirstOf(q, S, n)) \in Nat /\ Cardinality(FirstOf(q, S, n)) <= n
         /\ FirstOf(q, S, n) # S => Cardinality(FirstOf(q, S, n)) = n
<1> DEFINE P == FirstOf(q, S, n)
           Below(m) == {x \in S : Before(q, x, m)}
<1>1. P \subseteq S
  BY DEF FirstOf
<1>2. IsFiniteSet(P) /\ Cardinality(P) \in Nat
  <2> HIDE DEF P
  <2>1. QED BY <1>1, FS_Subset, FS_CardinalityType
<1>3. \A k \in S : k \in P <=> Cardinality(Below(k)) < n
  BY DEF FirstOf
<1>4. \A k \in P : \A l \in S : Before(q, l, k) => l \in P
  BY FirstOfIsClosed
<1> HIDE DEF P
<1>5. Cardinality(P) <= n
  <2>1. CASE P = {}
    BY <2>1, FS_EmptySet
  <2>2. CASE P # {}
    <3>1. Ordered(q, P)
      BY <1>1, OrderedSubset
    <3>2. PICK m \in P : \A l \in P : l = m \/ Before(q, l, m)
      BY <1>2, <2>2, <3>1, LastKey
    <3>3. Below(m) = P \ {m}
      BY <1>1, <1>4, <3>2 DEF Ordered
    <3>4. Cardinality(P \ {m}) = Cardinality(P) - 1
      BY <1>2, FS_RemoveElement
    <3>5. Cardinality(Below(m)) < n
      BY <1>1, <1>3
    <3> HIDE DEF Below
    <3>6. QED BY <1>2, <3>3, <3>4, <3>5
  <2>3. QED BY <2>1, <2>2
<1>6. ASSUME P # S PROVE Cardinality(P) = n
  <2>1. IsFiniteSet(S \ P) /\ S \ P # {} /\ Ordered(q, S \ P)
    BY <1>1, <1>6, FS_Subset, OrderedSubset
  <2>2. PICK m \in S \ P : \A l \in S \ P : l = m \/ Before(q, m, l)
    BY <2>1, FirstKey
  <2>3. Below(m) = P
    <3>1. ASSUME NEW x \in S, Before(q, x, m) PROVE x \in P
      BY <2>2, <3>1 DEF Ordered
    <3>2. ASSUME NEW x \in P PROVE Before(q, x, m)
      BY <1>1, <1>4, <2>2 DEF Ordered
    <3>3. QED BY <1>1, <3>1, <3>2
  <2>4. ~(Cardinality(Below(m)) < n)
    BY <1>3, <2>2
  <2> HIDE DEF Below
  <2>5. QED BY <1>2, <1>5, <2>3, <2>4
<1>7. QED BY <1>1, <1>2, <1>5, <1>6 DEF P

\* It takes all of a set of at most n keys.
LEMMA FirstOfSmall ==
  ASSUME NEW q, NEW S, IsFiniteSet(S), Ordered(q, S), NEW n \in Nat, Cardinality(S) <= n
  PROVE  FirstOf(q, S, n) = S
<1> DEFINE P == FirstOf(q, S, n)
<1>1. P \subseteq S /\ IsFiniteSet(P) /\ (P # S => Cardinality(P) = n)
  BY FirstOfCounts
<1> HIDE DEF P
<1>2. ASSUME P # S PROVE FALSE
  <2>1. Cardinality(P) <= Cardinality(S) /\ (Cardinality(P) = Cardinality(S) => P = S)
    BY <1>1, FS_Subset
  <2>2. Cardinality(S) \in Nat /\ Cardinality(P) \in Nat
    BY <1>1, FS_CardinalityType
  <2>3. QED BY <1>1, <1>2, <2>1, <2>2
<1>3. QED BY <1>2 DEF P

\* A page: of the first m keys, at most n, with no key left out in between; and
\* there is one, if there are any.
LEMMA PageOf ==
  ASSUME NEW q, NEW S, IsFiniteSet(S), Ordered(q, S), NEW m \in Nat, NEW n \in Nat \ {0}, n <= m
  PROVE  LET fetched == FirstOf(q, S, m)
             page == FirstOf(q, fetched, n)
         IN  /\ page \subseteq S
             /\ \A k \in page : \A l \in S : Before(q, l, k) => l \in page
             /\ Cardinality(fetched) = m => page # {}
             /\ Cardinality(fetched) # m /\ m <= n + 1 => page = S
<1> DEFINE fetched == FirstOf(q, S, m)
           page == FirstOf(q, fetched, n)
<1>1. /\ fetched \subseteq S /\ IsFiniteSet(fetched) /\ Cardinality(fetched) \in Nat
      /\ Cardinality(fetched) <= m
      /\ fetched # S => Cardinality(fetched) = m
  BY FirstOfCounts
<1>2. \A k \in fetched : \A l \in S : Before(q, l, k) => l \in fetched
  BY FirstOfIsClosed
<1> HIDE DEF fetched
<1>3. Ordered(q, fetched)
  BY <1>1, OrderedSubset
<1>4. /\ page \subseteq fetched
      /\ page # fetched => Cardinality(page) = n
  BY <1>1, <1>3, FirstOfCounts
<1>5. \A k \in page : \A l \in fetched : Before(q, l, k) => l \in page
  BY <1>1, <1>3, FirstOfIsClosed
<1>6. Cardinality(fetched) <= n => page = fetched
  BY <1>1, <1>3, FirstOfSmall
<1> HIDE DEF page
<1>7. \A k \in page : \A l \in S : Before(q, l, k) => l \in page
  BY <1>2, <1>4, <1>5
<1>8. ASSUME Cardinality(fetched) = m PROVE page # {}
  <2>1. CASE page = fetched
    BY <1>8, <2>1, FS_EmptySet
  <2>2. CASE page # fetched
    BY <1>4, <2>2, FS_EmptySet
  <2>3. QED BY <2>1, <2>2
<1>9. ASSUME Cardinality(fetched) # m, m <= n + 1 PROVE page = S
  BY <1>1, <1>6, <1>9
<1>10. QED BY <1>1, <1>4, <1>7, <1>8, <1>9 DEF fetched, page

-----------------------------------------------------------------------------
(* What the walks rely on: rows stay and keep their order *)

\* What a query is.
LEMMA QueryTypes ==
  ASSUME NEW q \in Query
  PROVE  /\ q.kind \in {"audit", "csv", "transactions", "feed", "accounts"}
         /\ q.kind \in {"audit", "csv", "transactions"} =>
              /\ q.account \in Account
              /\ q.asOf \in Times /\ q.from \in Times /\ q.to \in Times
         /\ q.kind \in {"csv", "transactions"} => q.from = {} /\ q.to = {}
         /\ q.kind = "transactions" => q.asOf = {}
         /\ q.kind = "feed" => q.status \in {{}, {"posted"}, {"void"}}
<1>1. q \in UNION {AuditQueries, ExportQueries, TransactionQueries, FeedQueries, AccountQueries}
  BY ReadsAssumption
<1>2. CASE q \in AuditQueries
  BY <1>2 DEF AuditQueries
<1>3. CASE q \in ExportQueries
  BY <1>3 DEF ExportQueries, Times
<1>4. CASE q \in TransactionQueries
  BY <1>4 DEF TransactionQueries, Times
<1>5. CASE q \in FeedQueries
  BY <1>5 DEF FeedQueries
<1>6. CASE q \in AccountQueries
  BY <1>6 DEF AccountQueries
<1>7. QED BY <1>1, <1>2, <1>3, <1>4, <1>5, <1>6

LEMMA InitRowsInv == Init => RowsInv
<1> SUFFICES ASSUME Init PROVE RowsInv
  OBVIOUS
<1>1. accounts = [a \in Account |-> [state |-> IF a \in Early THEN "committed" ELSE "none",
                                    createdAt |-> 0]]
  BY DEF Init, TimelineInit, NewAccount
<1>2. Posted = {}
  BY DEF Init, TimelineInit, Posted, NoPost
<1>3. QED BY <1>1, <1>2, FS_EmptySet DEF RowsInv

\* A committed row stays, with its stamp; only a posted transaction becomes void.
LEMMA TablesGrow ==
  ASSUME TimelineInv, RowsInv, [Next]_vars
  PROVE  /\ RowsInv'
         /\ \A t \in Posted : /\ t \in Posted' /\ posts'[t].postedAt = posts[t].postedAt
                              /\ posts'[t].state = "posted" => posts[t].state = "posted"
         /\ \A a \in Account : \A m \in DOMAIN log[a] :
              m \in DOMAIN log'[a] /\ log'[a][m] = log[a][m]
         /\ \A a \in Visible : a \in Visible' /\ accounts'[a].createdAt = accounts[a].createdAt
<1> USE DEF RowsInv
<1>1. now \in Nat /\ posts \in [Tx -> Post] /\ DOMAIN log = Account
  BY DEF TimelineInv
<1>2. CASE UNCHANGED <<accounts, posts, log>>
  BY <1>2 DEF Posted, Visible
<1>3. CASE Tick
  BY <1>2, <1>3 DEF Tick, tables
<1>4. ASSUME NEW t \in Tx, posts[t].state \in {"none", "open"},
             posts'[t].state \in {"none", "open"}, \A u \in Tx \ {t} : posts'[u] = posts[u]
      PROVE  Posted' = Posted /\ \A u \in Posted : posts'[u] = posts[u]
  BY <1>4 DEF Posted
<1>5. ASSUME NEW t \in Tx, NEW debited, NEW credited, NEW amount, NEW voids,
             Stamp(t, debited, credited, amount, voids)
      PROVE  /\ UNCHANGED <<accounts, log>> /\ Posted' = Posted
             /\ \A u \in Posted : posts'[u] = posts[u]
  <2>1. /\ UNCHANGED <<accounts, log>> /\ posts[t].state = "none"
        /\ posts'[t].state = "open" /\ \A u \in Tx \ {t} : posts'[u] = posts[u]
    BY <1>1, <1>5 DEF Stamp
  <2>2. QED BY <1>4, <2>1
<1>6. ASSUME NEW t \in Tx, RollBackPost(t)
      PROVE  /\ UNCHANGED <<accounts, log>> /\ Posted' = Posted
             /\ \A u \in Posted : posts'[u] = posts[u]
  <2>1. /\ UNCHANGED <<accounts, log>> /\ posts[t].state = "open"
        /\ posts'[t].state = "none" /\ \A u \in Tx \ {t} : posts'[u] = posts[u]
    BY <1>1, <1>6 DEF RollBackPost, NoPost
  <2>2. QED BY <1>4, <2>1
<1>7. CASE UNCHANGED <<accounts, log>> /\ Posted' = Posted /\ \A u \in Posted : posts'[u] = posts[u]
  BY <1>7 DEF Visible
<1>8. ASSUME NEW t \in Tx, CommitPost(t)
      PROVE  /\ RowsInv'
             /\ \A u \in Posted : /\ u \in Posted' /\ posts'[u].postedAt = posts[u].postedAt
                                  /\ posts'[u].state = "posted" => posts[u].state = "posted"
             /\ \A a \in Account : \A m \in DOMAIN log[a] :
                  m \in DOMAIN log'[a] /\ log'[a][m] = log[a][m]
             /\ \A a \in Visible : a \in Visible' /\ accounts'[a].createdAt = accounts[a].createdAt
  <2>1. /\ posts[t].state = "open" /\ Posted' = Posted \cup {t}
        /\ \A u \in Tx : posts'[u] = [posts[u] EXCEPT !.state = posts'[u].state]
        /\ \A a \in Account :
             log'[a] = log[a] \/ \E e \in Entry : e.tx = t /\ log'[a] = Append(log[a], e)
    BY <1>8, CommitEffect
  <2>2. /\ accounts' = accounts
        /\ posts' = [u \in Tx |-> IF u = t THEN [posts[t] EXCEPT !.state = "posted"]
                                  ELSE IF u \in posts[t].voids THEN [posts[u] EXCEPT !.state = "void"]
                                  ELSE posts[u]]
    BY <1>8 DEF CommitPost
  <2>3. RowsInv'
    BY <2>1, <2>2, FS_AddElement
  <2>4. \A u \in Posted : posts'[u].postedAt = posts[u].postedAt
    <3>1. ASSUME NEW u \in Tx PROVE posts'[u].postedAt = posts[u].postedAt
      BY <1>1, <2>1 DEF Post
    <3>2. QED BY <3>1 DEF Posted
  <2>5. \A u \in Posted : posts'[u].state = "posted" => posts[u].state = "posted"
    BY <1>1, <2>1, <2>2 DEF Post, Posted
  <2>6. ASSUME NEW a \in Account
        PROVE  \A m \in DOMAIN log[a] : m \in DOMAIN log'[a] /\ log'[a][m] = log[a][m]
    <3>1. log[a] \in Seq(Entry)
      BY DEF TimelineInv, EntriesArePosted
    <3>2. CASE log'[a] = log[a]
      BY <3>2
    <3>3. ASSUME NEW e \in Entry, log'[a] = Append(log[a], e)
          PROVE  \A m \in DOMAIN log[a] : m \in DOMAIN log'[a] /\ log'[a][m] = log[a][m]
      BY <3>1, <3>3, AppendKeeps
    <3>4. QED BY <2>1, <3>2, <3>3
  <2>7. QED BY <2>1, <2>2, <2>3, <2>4, <2>5, <2>6 DEF Visible
<1>9. ASSUME NEW a \in Account, OpenAccount(a) \/ CommitAccount(a)
      PROVE  /\ RowsInv' /\ UNCHANGED <<posts, log>> /\ Posted' = Posted
             /\ \A b \in Visible : b \in Visible' /\ accounts'[b].createdAt = accounts[b].createdAt
  <2>1. UNCHANGED <<posts, log>> /\ Posted' = Posted
    BY <1>9 DEF OpenAccount, CommitAccount, Posted
  <2>2. PICK row \in [state: {"none", "open", "committed"}, createdAt: Nat] :
          /\ accounts' = [accounts EXCEPT ![a] = row]
          /\ accounts[a].state = "none" \/ row.createdAt = accounts[a].createdAt
          /\ accounts[a].state # "committed"
    <3>1. CASE OpenAccount(a)
      BY <1>1, <3>1 DEF OpenAccount
    <3>2. CASE CommitAccount(a)
      <4> DEFINE r == [accounts[a] EXCEPT !.state = "committed"]
      <4>1. accounts' = [accounts EXCEPT ![a] = r] /\ accounts[a].state = "open"
        BY <3>2 DEF CommitAccount
      <4>2. r \in [state: {"none", "open", "committed"}, createdAt: Nat]
            /\ r.createdAt = accounts[a].createdAt
        OBVIOUS
      <4> HIDE DEF r
      <4>3. QED BY <4>1, <4>2
    <3>3. QED BY <1>9, <3>1, <3>2
  <2>3. QED BY <2>1, <2>2 DEF Visible
<1>10. ASSUME NEW a \in Account, OpenAccount(a) \/ CommitAccount(a)
       PROVE  \A t \in Posted : t \in Posted' /\ posts'[t] = posts[t]
  BY <1>9, <1>10
<1>11. QED
  BY <1>2, <1>3, <1>5, <1>6, <1>7, <1>8, <1>9, <1>10 DEF Next, TimelineNext, StampPost, StampReversal,
    StartSnapshot, StoreSnapshot, ReaderNext, Ask, ReadBase, ReadRows,
    DeliverPage, ExportGoesOn, DeliverLastPage, vars, timelineVars, tables

\* The keys of a list are ordered, and there are finitely many.
LEMMA ListedKeys ==
  ASSUME TimelineInv, RowsInv, NEW q \in Query
  PROVE  IsFiniteSet(Listed(q)) /\ Ordered(q, Listed(q)) /\ Matching(q) \subseteq Listed(q)
<1>1. CASE q.kind = "accounts"
  <2>1. Listed(q) = Visible /\ Matching(q) = Visible
    BY <1>1 DEF Listed, Matching
  <2>2. \A k, l : Before(q, k, l) <=> AccountBefore(k, l)
    BY <1>1 DEF Before
  <2>3. \A a \in Visible : a \in Nat /\ accounts[a].createdAt \in Nat
    BY TimelineAssumption DEF RowsInv, Visible
  <2>4. IsFiniteSet(Visible)
    BY TimelineAssumption, FS_Subset DEF Visible
  <2>5. Ordered(q, Visible)
    <3>1. \A a, b \in Visible : Before(q, a, b) <=>
            \/ accounts[a].createdAt < accounts[b].createdAt
            \/ accounts[a].createdAt = accounts[b].createdAt /\ a < b
      BY <2>2 DEF AccountBefore
    <3> DEFINE at == [a \in Visible |-> accounts[a].createdAt]
    <3>2. \A a, b \in Visible : Before(q, a, b) <=> at[a] < at[b] \/ (at[a] = at[b] /\ a < b)
      BY <3>1
    <3>3. \A a \in Visible : a \in Nat /\ at[a] \in Nat
      BY <2>3
    <3> HIDE DEF at
    <3>4. QED BY <3>2, <3>3 DEF Ordered
  <2>6. QED BY <2>1, <2>4, <2>5
<1>2. CASE q.kind = "feed"
  <2>1. Listed(q) = Posted /\ Matching(q) \subseteq Posted
    BY <1>2 DEF Listed, Matching, MatchingTransactions
  <2>2. \A k, l : Before(q, k, l) <=> FeedBefore(k, l)
    BY <1>2 DEF Before
  <2>3. \A t \in Posted : t \in Nat /\ posts[t].postedAt \in Int
    BY TimelineAssumption DEF TimelineInv, Posted, Post
  <2>4. Ordered(q, Posted)
    <3>1. \A t, u \in Posted : Before(q, t, u) <=>
            \/ posts[t].postedAt > posts[u].postedAt
            \/ posts[t].postedAt = posts[u].postedAt /\ t > u
      BY <2>2 DEF FeedBefore
    <3> DEFINE at == [t \in Posted |-> posts[t].postedAt]
    <3>2. \A t, u \in Posted : Before(q, t, u) <=> at[t] > at[u] \/ (at[t] = at[u] /\ t > u)
      BY <3>1
    <3>3. \A t \in Posted : t \in Nat /\ at[t] \in Int
      BY <2>3
    <3> HIDE DEF at
    <3>4. QED BY <3>2, <3>3 DEF Ordered
  <2>5. QED BY <2>1, <2>4 DEF RowsInv
<1>3. CASE q.kind \notin {"accounts", "feed"}
  <2>1. q.account \in Account
    BY <1>3, QueryTypes
  <2>2. Listed(q) = DOMAIN log[q.account] /\ Matching(q) \subseteq DOMAIN log[q.account]
    BY <1>3 DEF Listed, Matching, MatchingEntries
  <2>3. \A k, l : Before(q, k, l) <=> k < l
    BY <1>3 DEF Before
  <2>4. PICK n \in Nat : DOMAIN log[q.account] = 1..n
    BY <2>1 DEF TimelineInv, EntriesArePosted
  <2>5. IsFiniteSet(1..n)
    BY FS_Interval
  <2>6. Ordered(q, 1..n)
    BY <2>3 DEF Ordered
  <2>7. QED BY <2>2, <2>4, <2>5, <2>6
<1>4. QED BY <1>1, <1>2, <1>3

\* They stay, in their order; and of those that were there, none begins to match.
LEMMA ListsStay ==
  ASSUME TimelineInv, RowsInv, [Next]_vars, NEW q \in Query
  PROVE  /\ Listed(q) \subseteq Listed(q)'
         /\ \A k, l \in Listed(q) : Before(q, k, l)' <=> Before(q, k, l)
         /\ q.kind \notin {"feed", "accounts"} =>
              \A k \in Listed(q) : k \in Matching(q)' <=> k \in Matching(q)
         /\ \A k \in Listed(q) :
              /\ k \in Matching(q)'
              /\ q.kind = "feed" =>
                   (posts[k].state = "posted" => q.status = {} \/ "posted" \in q.status)
              => k \in Matching(q)
<1>1. /\ \A t \in Posted : /\ t \in Posted' /\ posts'[t].postedAt = posts[t].postedAt
                           /\ posts'[t].state = "posted" => posts[t].state = "posted"
      /\ \A a \in Account : \A m \in DOMAIN log[a] :
           m \in DOMAIN log'[a] /\ log'[a][m] = log[a][m]
      /\ \A a \in Visible : a \in Visible' /\ accounts'[a].createdAt = accounts[a].createdAt
  BY TablesGrow
<1>2. CASE q.kind = "accounts"
  <2>1. /\ Listed(q) = Visible /\ Matching(q) = Visible
        /\ Listed(q)' = Visible' /\ Matching(q)' = Visible'
    BY <1>2 DEF Listed, Matching
  <2>2. \A k, l : /\ Before(q, k, l) <=> AccountBefore(k, l)
                  /\ Before(q, k, l)' <=> AccountBefore(k, l)'
    BY <1>2 DEF Before
  <2>3. \A k, l \in Visible : AccountBefore(k, l)' <=> AccountBefore(k, l)
    BY <1>1 DEF AccountBefore
  <2>4. QED BY <1>1, <1>2, <2>1, <2>2, <2>3
<1>3. CASE q.kind = "feed"
  <2>1. /\ Listed(q) = Posted /\ Matching(q) = MatchingTransactions(q)
        /\ Listed(q)' = Posted' /\ Matching(q)' = MatchingTransactions(q)'
    BY <1>3 DEF Listed, Matching
  <2>2. \A k, l : /\ Before(q, k, l) <=> FeedBefore(k, l)
                  /\ Before(q, k, l)' <=> FeedBefore(k, l)'
    BY <1>3 DEF Before
  <2>3. \A k, l \in Posted : FeedBefore(k, l)' <=> FeedBefore(k, l)
    BY <1>1 DEF FeedBefore
  <2>4. ASSUME NEW k \in Posted, k \in MatchingTransactions(q)',
               posts[k].state = "posted" => q.status = {} \/ "posted" \in q.status
        PROVE  k \in MatchingTransactions(q)
    <3>1. q.status \in {{}, {"posted"}, {"void"}}
      BY <1>3, QueryTypes
    <3>2. posts[k].state \in {"posted", "void"} /\ k \in Tx
      BY DEF Posted
    <3>3. q.status # {} => posts'[k].state \in q.status
      BY <2>4 DEF MatchingTransactions
    <3>4. q.status # {} => posts[k].state \in q.status
      BY <1>1, <2>4, <3>1, <3>2, <3>3
    <3>5. QED BY <3>4 DEF MatchingTransactions
  <2>5. QED BY <1>1, <1>3, <2>1, <2>2, <2>3, <2>4
<1>4. CASE q.kind \notin {"accounts", "feed"}
  <2>1. q.account \in Account
    BY <1>4, QueryTypes
  <2>2. /\ Listed(q) = DOMAIN log[q.account] /\ Matching(q) = MatchingEntries(q)
        /\ Listed(q)' = DOMAIN log'[q.account] /\ Matching(q)' = MatchingEntries(q)'
    BY <1>4 DEF Listed, Matching
  <2>3. \A k, l : (Before(q, k, l) <=> k < l) /\ (Before(q, k, l)' <=> k < l)
    BY <1>4 DEF Before
  <2>4. ASSUME NEW n \in DOMAIN log[q.account]
        PROVE  n \in MatchingEntries(q)' <=> n \in MatchingEntries(q)
    <3>1. log[q.account][n].tx \in Posted
      BY <2>1 DEF TimelineInv, EntriesArePosted
    <3>2. /\ n \in DOMAIN log'[q.account] /\ log'[q.account][n].tx = log[q.account][n].tx
          /\ posts'[log[q.account][n].tx].postedAt = posts[log[q.account][n].tx].postedAt
      BY <1>1, <2>1, <3>1
    <3>3. QED BY <3>2 DEF MatchingEntries, PostedBy, PostedFrom
  <2>5. QED BY <1>1, <1>4, <2>1, <2>2, <2>3, <2>4
<1>5. QED BY <1>2, <1>3, <1>4

-----------------------------------------------------------------------------
(* The walk *)

\* A sequence is one of its own values.
LEMMA ValuesOfSeq ==
  ASSUME NEW S, NEW t \in Seq(S)
  PROVE  t \in Seq(Range(t))
<1> DEFINE R == Range(t)
<1>1. Len(t) \in Nat /\ t \in [1..Len(t) -> S] /\ DOMAIN t = 1..Len(t)
  OBVIOUS
<1>2. \A i \in 1..Len(t) : t[i] \in R
  BY <1>1 DEF Range
<1> HIDE DEF R
<1>3. t \in [1..Len(t) -> R]
  BY <1>1, <1>2
<1>4. t \in Seq(R)
  BY <1>1, <1>3
<1>5. QED BY <1>4 DEF R

\* A page more.
LEMMA AppendPage ==
  ASSUME NEW S, NEW s \in Seq(S), NEW e
  PROVE  /\ Append(s, e) \in Seq(Range(Append(s, e)))
         /\ Len(s) \in Nat /\ DOMAIN s = 1..Len(s) /\ DOMAIN Append(s, e) = 1..(Len(s) + 1)
         /\ \A i \in DOMAIN s : Append(s, e)[i] = s[i]
         /\ Append(s, e)[Len(s) + 1] = e
<1> DEFINE R == S \cup {e}
<1>1. s \in Seq(R) /\ e \in R
  <2>1. Len(s) \in Nat /\ s \in [1..Len(s) -> S]
    OBVIOUS
  <2>2. s \in [1..Len(s) -> R]
    BY <2>1
  <2>3. QED BY <2>1, <2>2
<1> HIDE DEF R
<1>2. /\ Len(s) \in Nat /\ DOMAIN s = 1..Len(s) /\ DOMAIN Append(s, e) = 1..(Len(s) + 1)
      /\ \A i \in DOMAIN s : Append(s, e)[i] = s[i]
      /\ Append(s, e)[Len(s) + 1] = e
      /\ Append(s, e) \in Seq(R)
  BY <1>1
<1>3. QED BY <1>2, ValuesOfSeq

\* The items of a page are its rows.
LEMMA ItemsAreRows == DOMAIN Items = rows
<1>1. CASE IsTrail
  BY <1>1 DEF Items, TrailItems, IsTrail
<1>2. CASE ~IsTrail /\ query.kind = "accounts"
  BY <1>2 DEF Items, AccountItems
<1>3. CASE ~IsTrail /\ query.kind # "accounts"
  BY <1>3 DEF Items, TransactionItems
<1>4. QED BY <1>1, <1>2, <1>3

\* The effect of delivering a page.
LEMMA DeliverEffect ==
  ASSUME WalkInv, delivered' = Append(delivered, Items)
  PROVE  /\ delivered' \in Seq(Range(delivered'))
         /\ Len(delivered) \in Nat /\ DOMAIN delivered = 1..Len(delivered)
         /\ DOMAIN delivered' = 1..(Len(delivered) + 1)
         /\ \A i \in DOMAIN delivered : delivered'[i] = delivered[i]
         /\ delivered'[Len(delivered) + 1] = Items
         /\ DeliveredKeys' = DeliveredKeys \cup rows
<1>1. delivered \in Seq(Range(delivered))
  BY DEF WalkInv
<1>2. PICK new : new = delivered'
  OBVIOUS
<1>3. /\ new \in Seq(Range(new))
      /\ Len(delivered) \in Nat /\ DOMAIN delivered = 1..Len(delivered)
      /\ DOMAIN new = 1..(Len(delivered) + 1)
      /\ \A i \in DOMAIN delivered : new[i] = delivered[i]
      /\ new[Len(delivered) + 1] = Items
  <2>1. new = Append(delivered, Items)
    BY <1>2
  <2>2. PICK old, item : old = delivered /\ item = Items
    OBVIOUS
  <2>3. old \in Seq(Range(old)) /\ new = Append(old, item)
    BY <1>1, <2>1, <2>2
  <2> HIDE <1>2, <2>2
  <2>4. /\ new \in Seq(Range(new))
        /\ Len(old) \in Nat /\ DOMAIN old = 1..Len(old)
        /\ DOMAIN new = 1..(Len(old) + 1)
        /\ \A i \in DOMAIN old : new[i] = old[i]
        /\ new[Len(old) + 1] = item
    BY <2>3, AppendPage
  <2>5. QED BY <2>2, <2>4
<1>4. UNION {DOMAIN new[i] : i \in DOMAIN new}
        = (UNION {DOMAIN delivered[i] : i \in DOMAIN delivered}) \cup rows
  <2>1. DOMAIN new = DOMAIN delivered \cup {Len(delivered) + 1}
    BY <1>3
  <2>2. DOMAIN new[Len(delivered) + 1] = rows
    BY <1>3, ItemsAreRows
  <2>3. \A i \in DOMAIN delivered : DOMAIN new[i] = DOMAIN delivered[i]
    BY <1>3
  <2>4. QED BY <2>1, <2>2, <2>3
<1>5. QED BY <1>2, <1>3, <1>4 DEF DeliveredKeys

LEMMA InitWalkInv == Init => WalkInv /\ PagesAdvance /\ SkipInv
<1> SUFFICES ASSUME Init PROVE WalkInv /\ PagesAdvance /\ SkipInv
  OBVIOUS
<1>1. pc = "idle" /\ delivered = <<>> /\ cursor = {} /\ rows = {}
  BY DEF Init, ReadsInit
<1>2. QED BY <1>1 DEF WalkInv, PagesAdvance, SkipInv

\* The writers leave a walk where it is.
LEMMA WritersKeepWalk ==
  ASSUME TimelineInv, RowsInv, WalkInv, PagesAdvance, SkipInv, [Next]_vars, UNCHANGED readVars
  PROVE  WalkInv' /\ PagesAdvance' /\ SkipInv'
<1>1. UNCHANGED <<pc, query, cursor, rows, more, delivered, asked>> /\ DeliveredKeys' = DeliveredKeys
  BY DEF readVars, DeliveredKeys
<1>2. CASE pc = "idle"
  BY <1>1, <1>2 DEF WalkInv, PagesAdvance, SkipInv
<1>3. CASE pc # "idle"
  <2>1. PICK q \in Query : q = query
    BY <1>3 DEF WalkInv
  <2>2. /\ Listed(q) \subseteq Listed(q)'
        /\ \A k, l \in Listed(q) : Before(q, k, l)' <=> Before(q, k, l)
        /\ \A k \in Listed(q) :
             /\ k \in Matching(q)'
             /\ q.kind = "feed" =>
                  (posts[k].state = "posted" => q.status = {} \/ "posted" \in q.status)
             => k \in Matching(q)
    BY ListsStay
  <2>3. /\ Listed(query) = Listed(q) /\ Listed(query)' = Listed(q)'
        /\ Matching(query) = Matching(q) /\ Matching(query)' = Matching(q)'
        /\ \A k, l : (Before(query, k, l) <=> Before(q, k, l)) /\ (Before(query, k, l)' <=> Before(q, k, l)')
    BY <1>1, <2>1
  <2>4. /\ cursor \subseteq Listed(q) /\ rows \subseteq Listed(q) /\ asked.keys \subseteq Listed(q)
        /\ DeliveredKeys \subseteq Listed(q)
    BY <1>3, <2>3 DEF WalkInv
  <2>5. WalkInv'
    BY <1>1, <2>2, <2>3, <2>4 DEF WalkInv
  <2>6. PagesAdvance'
    <3>1. \A i \in DOMAIN delivered : DOMAIN delivered[i] \subseteq Listed(q)
      BY <2>4 DEF DeliveredKeys
    <3>2. QED BY <1>1, <2>2, <2>3, <3>1 DEF PagesAdvance
  <2>7. SkipInv'
    <3>1. q.kind = "feed" =>
            \A k \in asked.keys : posts'[k].state = "posted" => q.status = {} \/ "posted" \in q.status
      <4>1. q.kind = "feed" => \A k \in asked.keys : k \in Posted
        BY <2>4 DEF Listed
      <4>2. \A k \in Posted : posts'[k].state = "posted" => posts[k].state = "posted"
        BY TablesGrow
      <4>3. QED BY <1>3, <2>1, <4>1, <4>2 DEF SkipInv
    <3>2. \A k \in asked.keys : k \in Matching(q)' => k \in Matching(q)
      BY <1>3, <2>1, <2>2, <2>4 DEF SkipInv
    <3>3. \A k \in asked.keys \cap Matching(q) :
         \/ k \in DeliveredKeys
         \/ pc \in {"base", "rows"} /\ \A c \in cursor : Before(q, c, k)
         \/ pc = "page" /\ k \in rows
         \/ pc = "page" /\ more /\ \A l \in rows : Before(q, l, k)
      BY <1>3, <2>3 DEF SkipInv
    <3>4. \A k \in asked.keys \cap Matching(q)' :
         \/ k \in DeliveredKeys
         \/ pc \in {"base", "rows"} /\ \A c \in cursor : Before(q, c, k)'
         \/ pc = "page" /\ k \in rows
         \/ pc = "page" /\ more /\ \A l \in rows : Before(q, l, k)'
      BY <2>2, <2>4, <3>2, <3>3
    <3>5. QED BY <1>1, <2>1, <2>3, <3>1, <3>4 DEF SkipInv
  <2>8. QED BY <2>5, <2>6, <2>7
<1>4. QED BY <1>2, <1>3

\* The walk begins.
LEMMA AskKeepsWalk ==
  ASSUME TimelineInv, RowsInv, WalkInv, PagesAdvance, SkipInv, NEW q \in Query, Ask(q)
  PROVE  WalkInv' /\ PagesAdvance' /\ SkipInv'
<1>1. /\ pc = "idle" /\ query' = q /\ asked'.keys = Matching(q)
      /\ pc' \in {"base", "rows"} /\ pc' # "page" /\ pc' # "done" /\ pc' # "idle"
      /\ UNCHANGED <<timelineVars, cursor, base, rows, more, delivered, balance>>
  BY DEF Ask
<1>2. delivered = <<>> /\ cursor = {} /\ rows = {}
      /\ delivered \in Seq(Range(delivered))
  BY <1>1 DEF WalkInv
<1>3. /\ Listed(q)' = Listed(q) /\ Matching(q)' = Matching(q)
      /\ Listed(query)' = Listed(q)' /\ Matching(query)' = Matching(q)'
  BY <1>1 DEF timelineVars, tables, Listed, Matching, MatchingTransactions, MatchingEntries, Visible,
    Posted, PostedBy, PostedFrom
<1>4. Matching(q) \subseteq Listed(q)
  BY ListedKeys
<1>5. DeliveredKeys' = {}
  BY <1>1, <1>2 DEF DeliveredKeys
<1>6. WalkInv'
  BY <1>1, <1>2, <1>3, <1>4, <1>5 DEF WalkInv
<1>7. PagesAdvance'
  BY <1>1, <1>2 DEF PagesAdvance
<1>8. SkipInv'
  <2>1. q.kind = "feed" =>
          \A k \in asked'.keys : posts'[k].state = "posted" => q.status = {} \/ "posted" \in q.status
    BY <1>1 DEF Matching, MatchingTransactions, timelineVars, tables
  <2>2. cursor' = {}
    BY <1>1, <1>2
  <2>3. QED BY <1>1, <2>1, <2>2 DEF SkipInv
<1>9. QED BY <1>6, <1>7, <1>8

\* The rows of a page.
LEMMA RowsRead ==
  ASSUME TimelineInv, RowsInv, WalkInv, ReadRows
  PROVE  /\ rows' \subseteq Remaining(query)
         /\ \A k \in rows' : \A l \in Remaining(query) : Before(query, l, k) => l \in rows'
         /\ more' => rows' # {}
         /\ ~more' => rows' = Remaining(query)
<1> DEFINE m == IF query.kind = "csv" THEN Limit ELSE Limit + 1
           S == Remaining(query)
           fetched == FirstOf(query, S, m)
<1>1. /\ pc = "rows" /\ rows' = FirstOf(query, fetched, Limit)
      /\ more' = (Cardinality(fetched) = m)
  BY DEF ReadRows
<1>2. query \in Query
  BY <1>1 DEF WalkInv
<1>3. IsFiniteSet(Listed(query)) /\ Ordered(query, Listed(query)) /\ Matching(query) \subseteq Listed(query)
  BY <1>2, ListedKeys
<1>4. S \subseteq Listed(query)
  BY <1>3 DEF Remaining
<1> HIDE DEF S
<1>5. IsFiniteSet(S) /\ Ordered(query, S)
  BY <1>3, <1>4, FS_Subset, OrderedSubset
<1>6. m \in Nat /\ Limit \in Nat \ {0} /\ Limit <= m /\ m <= Limit + 1
  BY ReadsAssumption
<1> HIDE DEF m
<1>7. LET page == FirstOf(query, fetched, Limit)
      IN  /\ page \subseteq S
          /\ \A k \in page : \A l \in S : Before(query, l, k) => l \in page
          /\ Cardinality(fetched) = m => page # {}
          /\ Cardinality(fetched) # m /\ m <= Limit + 1 => page = S
  BY <1>5, <1>6, PageOf
<1>8. QED BY <1>1, <1>6, <1>7 DEF S

LEMMA ReadKeepsWalk ==
  ASSUME TimelineInv, RowsInv, WalkInv, PagesAdvance, SkipInv, ReadRows
  PROVE  WalkInv' /\ PagesAdvance' /\ SkipInv'
<1>1. /\ pc = "rows" /\ pc' = "page"
      /\ UNCHANGED <<timelineVars, query, cursor, base, delivered, balance, asked>>
  BY DEF ReadRows
<1>2. query \in Query
  BY <1>1 DEF WalkInv
<1>3. /\ rows' \subseteq Remaining(query)
      /\ \A k \in rows' : \A l \in Remaining(query) : Before(query, l, k) => l \in rows'
      /\ more' => rows' # {}
      /\ ~more' => rows' = Remaining(query)
  BY RowsRead
<1>4. /\ Listed(query)' = Listed(query) /\ Matching(query)' = Matching(query)
      /\ DeliveredKeys' = DeliveredKeys
      /\ \A k, l : Before(query, k, l)' <=> Before(query, k, l)
  BY <1>1 DEF timelineVars, tables, Listed, Matching, MatchingTransactions, MatchingEntries, Visible,
    Posted, PostedBy, PostedFrom, DeliveredKeys, Before, FeedBefore, AccountBefore
<1>5. Ordered(query, Listed(query)) /\ Matching(query) \subseteq Listed(query)
  BY <1>2, ListedKeys
<1>6. /\ rows' \subseteq Listed(query)
      /\ \A k \in rows', c \in cursor : Before(query, c, k)
  BY <1>3, <1>5 DEF Remaining
<1>7. WalkInv'
  BY <1>1, <1>2, <1>3, <1>4, <1>6 DEF WalkInv
<1>8. PagesAdvance'
  BY <1>1, <1>4 DEF PagesAdvance
<1>9. SkipInv'
  <2>1. \A k \in asked.keys \cap Matching(query) :
         k \in DeliveredKeys \/ \A c \in cursor : Before(query, c, k)
    BY <1>1 DEF SkipInv
  <2>2. \A k \in asked.keys \cap Matching(query) :
         \/ k \in DeliveredKeys
         \/ k \in rows'
         \/ more' /\ \A l \in rows' : Before(query, l, k)
    <3> TAKE k \in asked.keys \cap Matching(query)
    <3>1. CASE k \in DeliveredKeys
      BY <3>1
    <3>2. CASE k \in Remaining(query) /\ k \notin rows'
      <4>1. \A l \in rows' : l = k \/ Before(query, l, k) \/ Before(query, k, l)
        BY <1>5, <1>6 DEF Ordered
      <4>2. QED BY <1>3, <3>2, <4>1
    <3>3. QED BY <2>1, <3>1, <3>2 DEF Remaining
  <2>3. query.kind = "feed" =>
          \A k \in asked.keys : posts[k].state = "posted" => query.status = {} \/ "posted" \in query.status
    BY <1>1 DEF SkipInv
  <2>4. UNCHANGED <<query, asked, posts>> /\ pc' = "page"
    BY <1>1 DEF timelineVars, tables
  <2>5. QED BY <1>4, <2>2, <2>3, <2>4 DEF SkipInv
<1>10. QED BY <1>7, <1>8, <1>9

\* A page is delivered: its rows lie between the pages before it and the new
\* cursor.
LEMMA DeliverKeepsWalk ==
  ASSUME TimelineInv, RowsInv, WalkInv, PagesAdvance, SkipInv,
         DeliverPage \/ ExportGoesOn \/ DeliverLastPage
  PROVE  WalkInv' /\ PagesAdvance' /\ SkipInv'
<1>1. /\ pc = "page" /\ delivered' = Append(delivered, Items)
      /\ UNCHANGED <<timelineVars, query, more, asked>>
      /\ \/ more /\ pc' \in {"base", "rows"} /\ cursor' = {LastOf(query, rows)} /\ rows' = {}
         \/ ~more /\ pc' = "done" /\ cursor' = cursor /\ rows' = rows
  BY DEF DeliverPage, ExportGoesOn, DeliverLastPage
<1>2. query \in Query
  BY <1>1 DEF WalkInv
<1>3. /\ delivered' \in Seq(Range(delivered'))
      /\ Len(delivered) \in Nat /\ DOMAIN delivered = 1..Len(delivered)
      /\ DOMAIN delivered' = 1..(Len(delivered) + 1)
      /\ \A i \in DOMAIN delivered : delivered'[i] = delivered[i]
      /\ delivered'[Len(delivered) + 1] = Items
      /\ DeliveredKeys' = DeliveredKeys \cup rows
  BY <1>1, DeliverEffect
<1>4. /\ Listed(query)' = Listed(query) /\ Matching(query)' = Matching(query)
      /\ \A k, l : Before(query, k, l)' <=> Before(query, k, l)
  BY <1>1 DEF timelineVars, tables, Listed, Matching, MatchingTransactions, MatchingEntries, Visible,
    Posted, PostedBy, PostedFrom, Before, FeedBefore, AccountBefore
<1>5. IsFiniteSet(Listed(query)) /\ Ordered(query, Listed(query)) /\ Matching(query) \subseteq Listed(query)
  BY <1>2, ListedKeys
<1>6. /\ cursor \subseteq Listed(query) /\ rows \subseteq Listed(query)
      /\ DeliveredKeys \subseteq Listed(query) /\ asked.keys \subseteq Listed(query)
      /\ \A c, d \in cursor : c = d
      /\ \A k \in DeliveredKeys : \E c \in cursor : k = c \/ Before(query, k, c)
      /\ \A k \in rows, c \in cursor : Before(query, c, k)
      /\ more => rows # {}
  BY <1>1 DEF WalkInv
<1>7. \A k \in DeliveredKeys, l \in rows : Before(query, k, l)
  BY <1>5, <1>6 DEF Ordered
<1>8. more => /\ LastOf(query, rows) \in rows
              /\ \A k \in rows : k = LastOf(query, rows) \/ Before(query, k, LastOf(query, rows))
  <2>1. IsFiniteSet(rows) /\ Ordered(query, rows)
    BY <1>5, <1>6, FS_Subset, OrderedSubset
  <2>2. QED BY <1>6, <2>1, LastKey
<1> DEFINE last == LastOf(query, rows)
<1> HIDE DEF last
<1>9. WalkInv'
  <2>1. CASE more
    <3>1. /\ pc' \in {"base", "rows"} /\ cursor' = {last} /\ rows' = {}
      BY <1>1, <2>1 DEF last
    <3>2. last \in rows /\ \A k \in rows : k = last \/ Before(query, k, last)
      BY <1>8, <2>1 DEF last
    <3>3. \A k \in DeliveredKeys' : \E c \in cursor' : k = c \/ Before(query, k, c)
      BY <1>3, <1>7, <3>1, <3>2
    <3>4. cursor' \subseteq Listed(query) /\ \A c, d \in cursor' : c = d
      BY <1>6, <3>1, <3>2
    <3>5. QED BY <1>1, <1>2, <1>3, <1>4, <1>6, <3>1, <3>3, <3>4 DEF WalkInv
  <2>2. CASE ~more
    <3>1. pc' = "done" /\ cursor' = cursor /\ rows' = rows
      BY <1>1, <2>2
    <3>2. QED BY <1>1, <1>2, <1>3, <1>4, <1>6, <3>1 DEF WalkInv
  <2>3. QED BY <2>1, <2>2
<1>10. PagesAdvance'
  <2> SUFFICES ASSUME NEW i \in DOMAIN delivered', NEW j \in DOMAIN delivered', i < j,
                      NEW k \in DOMAIN delivered'[i], NEW l \in DOMAIN delivered'[j]
               PROVE  Before(query, k, l)'
    BY DEF PagesAdvance
  <2>1. i \in DOMAIN delivered /\ k \in DOMAIN delivered[i]
    BY <1>3
  <2>2. CASE j \in DOMAIN delivered
    <3>1. l \in DOMAIN delivered[j]
      BY <1>3, <2>2
    <3>2. Before(query, k, l)
      BY <2>1, <2>2, <3>1 DEF PagesAdvance
    <3>3. QED BY <1>1, <1>4, <3>2
  <2>3. CASE j = Len(delivered) + 1
    <3>1. l \in rows
      BY <1>3, <2>3, ItemsAreRows
    <3>2. k \in DeliveredKeys
      BY <2>1 DEF DeliveredKeys
    <3>3. QED BY <1>1, <1>4, <1>7, <3>1, <3>2
  <2>4. QED BY <1>3, <2>2, <2>3
<1>11. SkipInv'
  <2>1. \A k \in asked.keys \cap Matching(query) :
          k \in DeliveredKeys \/ k \in rows \/ (more /\ \A l \in rows : Before(query, l, k))
    BY <1>1 DEF SkipInv
  <2>2. query.kind = "feed" =>
          \A k \in asked.keys : posts[k].state = "posted" => query.status = {} \/ "posted" \in query.status
    BY <1>1 DEF SkipInv
  <2>3. \A k \in asked.keys \cap Matching(query) :
          \/ k \in DeliveredKeys'
          \/ pc' \in {"base", "rows"} /\ \A c \in cursor' : Before(query, c, k)
    BY <1>1, <1>3, <1>8, <2>1
  <2>4. UNCHANGED <<query, asked, posts>> /\ pc' \in {"base", "rows", "done"}
    BY <1>1 DEF timelineVars, tables
  <2>5. QED BY <1>4, <2>2, <2>3, <2>4 DEF SkipInv
<1>12. QED BY <1>9, <1>10, <1>11

LEMMA BaseKeepsWalk ==
  ASSUME WalkInv, PagesAdvance, SkipInv, ReadBase
  PROVE  WalkInv' /\ PagesAdvance' /\ SkipInv'
<1>1. /\ pc = "base" /\ pc' = "rows"
      /\ UNCHANGED <<timelineVars, query, cursor, rows, more, delivered, balance, asked>>
  BY DEF ReadBase
<1>2. /\ Listed(query)' = Listed(query) /\ Matching(query)' = Matching(query)
      /\ DeliveredKeys' = DeliveredKeys
      /\ \A k, l : Before(query, k, l)' <=> Before(query, k, l)
  BY <1>1 DEF timelineVars, tables, Listed, Matching, MatchingTransactions, MatchingEntries, Visible,
    Posted, PostedBy, PostedFrom, DeliveredKeys, Before, FeedBefore, AccountBefore
<1>3. posts' = posts
  BY <1>1 DEF timelineVars, tables
<1>4. QED BY <1>1, <1>2, <1>3 DEF WalkInv, PagesAdvance, SkipInv

LEMMA RowsInvariant == Spec => []RowsInv
<1>1. ASSUME TimelineInv, RowsInv, [Next]_vars
      PROVE  RowsInv'
  BY <1>1, TablesGrow
<1>2. QED BY <1>1, InitRowsInv, ReadsTimeline, PTL DEF Spec

\* PagesAdvance and its invariant, for every value of the constants: whatever is
\* committed between two pages, no row is delivered twice and the pages follow
\* each other.
THEOREM ReadsPagesAdvance == Spec => [](WalkInv /\ PagesAdvance /\ SkipInv)
<1>1. ASSUME TimelineInv, RowsInv, WalkInv, PagesAdvance, SkipInv, [Next]_vars
      PROVE  WalkInv' /\ PagesAdvance' /\ SkipInv'
  <2>1. CASE UNCHANGED readVars
    BY <1>1, <2>1, WritersKeepWalk
  <2>2. ASSUME NEW q \in Query, Ask(q) PROVE WalkInv' /\ PagesAdvance' /\ SkipInv'
    BY <1>1, <2>2, AskKeepsWalk
  <2>3. CASE ReadBase
    BY <1>1, <2>3, BaseKeepsWalk
  <2>4. CASE ReadRows
    BY <1>1, <2>4, ReadKeepsWalk
  <2>5. CASE DeliverPage \/ ExportGoesOn \/ DeliverLastPage
    BY <1>1, <2>5, DeliverKeepsWalk
  <2>6. QED BY <1>1, <2>1, <2>2, <2>3, <2>4, <2>5 DEF Next, ReaderNext, vars
<1>2. QED BY <1>1, InitWalkInv, RowsInvariant, ReadsTimeline, PTL DEF Spec

\* NothingOldIsSkipped, for every value of the constants: a walk that ends has
\* delivered every row that matched when it began and still matches.
THEOREM ReadsNothingSkipped == Spec => []NothingOldIsSkipped
<1>1. SkipInv => NothingOldIsSkipped
  BY DEF SkipInv, NothingOldIsSkipped
<1>2. QED BY <1>1, ReadsPagesAdvance, PTL

-----------------------------------------------------------------------------
(* Running balances *)

\* A history of N entries stamped `at' various times, cut by as_of, `from' and
\* `to', the entries before a page and the rows of the page.
TrailPage(N, at, asOf, from, to, cursor0, counted, matching, prior, page) ==
  /\ N \in Nat /\ at \in [1..N -> Int]
  /\ asOf \in SUBSET Int /\ from \in SUBSET Int /\ to \in SUBSET Int
  /\ (\A T, U \in asOf : T = U) /\ (\A T, U \in from : T = U) /\ (\A T, U \in to : T = U)
  /\ from \cup to # {} => \A m, n \in 1..N : m < n => at[m] <= at[n]
  /\ counted = {k \in 1..N : \A T \in asOf : at[k] <= T}
  /\ matching = {k \in counted : (\A F \in from : at[k] >= F) /\ \A T \in to : at[k] <= T}
  /\ cursor0 \subseteq matching /\ \A c, d \in cursor0 : c = d
  /\ prior = IF cursor0 # {} THEN {k \in counted : \A c \in cursor0 : k <= c}
             ELSE {k \in 1..N : from # {} /\ \A F \in from : at[k] <= F - 1}
  /\ page \subseteq {k \in matching : \A c \in cursor0 : c < k}
  /\ \A k \in page, l \in matching : l < k /\ (\A c \in cursor0 : c < l) => l \in page

LEMMA OneElement ==
  ASSUME NEW S, S # {}, \A c, d \in S : c = d
  PROVE  \E c \in S : S = {c}
OBVIOUS

\* Up to every row of the page, what counts is what came before the page or is
\* on it.
LEMMA PageContinues ==
  ASSUME NEW N, NEW at, NEW asOf, NEW from, NEW to, NEW cursor0, NEW counted, NEW matching,
         NEW prior, NEW page, TrailPage(N, at, asOf, from, to, cursor0, counted, matching, prior, page),
         NEW n \in page
  PROVE  /\ prior \cap page = {} /\ prior \subseteq 1..n /\ n \in 1..N
         /\ \A k \in 1..n : k \in counted <=> k \in prior \cup page
<1> SUFFICES ASSUME N \in Nat, at \in [1..N -> Int],
                    asOf \in SUBSET Int, from \in SUBSET Int, to \in SUBSET Int,
                    \A F, G \in from : F = G, \A T, U \in asOf : T = U,
                    from \cup to # {} => \A m, j \in 1..N : m < j => at[m] <= at[j],
                    counted = {k \in 1..N : \A T \in asOf : at[k] <= T},
                    matching = {k \in counted : (\A F \in from : at[k] >= F) /\ \A T \in to : at[k] <= T},
                    cursor0 \subseteq matching, \A c, d \in cursor0 : c = d,
                    prior = IF cursor0 # {} THEN {k \in counted : \A c \in cursor0 : k <= c}
                            ELSE {k \in 1..N : from # {} /\ \A F \in from : at[k] <= F - 1},
                    page \subseteq {k \in matching : \A c \in cursor0 : c < k},
                    \A k \in page, l \in matching : l < k /\ (\A c \in cursor0 : c < l) => l \in page
             PROVE  /\ prior \cap page = {} /\ prior \subseteq 1..n /\ n \in 1..N
                    /\ \A k \in 1..n : k \in counted <=> k \in prior \cup page
  BY DEF TrailPage
<1>1. /\ n \in 1..N /\ n \in matching /\ (\A c \in cursor0 : c < n) /\ matching \subseteq counted
      /\ \A F \in from : at[n] >= F
      /\ \A T \in to : at[n] <= T
      /\ \A T \in asOf : at[n] <= T
  OBVIOUS
<1>2. CASE cursor0 # {}
  <2>1. PICK c \in cursor0 : cursor0 = {c}
    BY <1>2, OneElement
  <2>2. c \in matching /\ c \in 1..N /\ c < n /\ \A F \in from : at[c] >= F
    BY <1>1, <2>1
  <2>3. prior = {k \in counted : k <= c}
    BY <2>1
  <2>4. prior \cap page = {} /\ prior \subseteq 1..n
    BY <1>1, <2>1, <2>2, <2>3
  <2>5. ASSUME NEW k \in 1..n, k \in counted, k \notin prior
        PROVE  k \in page
    <3>1. k \in 1..N /\ k > c /\ k <= n
      BY <1>1, <2>2, <2>3, <2>5
    <3>2. (\A F \in from : at[k] >= F) /\ \A T \in to : at[k] <= T
      BY <1>1, <2>2, <3>1
    <3>3. k \in matching
      BY <2>5, <3>2
    <3>4. (\A d \in cursor0 : d < k) /\ (k = n \/ k < n)
      BY <1>1, <2>1, <3>1
    <3>5. CASE k = n
      BY <3>5
    <3>6. CASE k < n
      BY <3>3, <3>4, <3>6
    <3>7. QED BY <3>4, <3>5, <3>6
  <2>6. prior \cup page \subseteq counted
    BY <1>1, <2>3
  <2>7. QED BY <1>1, <2>4, <2>5, <2>6
<1>3. CASE cursor0 = {} /\ from # {}
  <2>1. PICK F \in from : from = {F}
    BY <1>3, OneElement
  <2>2. F \in Int /\ prior = {k \in 1..N : at[k] <= F - 1} /\ at[n] >= F /\ at[n] \in Int
    BY <1>1, <1>3, <2>1
  <2>3. \A k \in page : k \in 1..N /\ k \in counted /\ at[k] >= F
    BY <2>1
  <2>4. prior \cap page = {}
    BY <2>2, <2>3
  <2>5. ASSUME NEW k \in prior PROVE k \in 1..n /\ k \in counted
    <3>1. k \in 1..N /\ at[k] <= F - 1 /\ at[k] \in Int
      BY <2>2
    <3>2. k < n
      BY <1>1, <2>1, <2>2, <3>1
    <3>3. at[k] <= at[n]
      BY <1>1, <1>3, <3>1, <3>2
    <3>4. \A T \in asOf : at[k] <= T
      BY <1>1, <2>2, <3>1, <3>3
    <3>5. QED BY <1>1, <3>1, <3>2, <3>4
  <2>6. ASSUME NEW k \in 1..n, k \in counted, k \notin prior
        PROVE  k \in page
    <3>1. k \in 1..N /\ k <= n /\ at[k] >= F
      BY <1>1, <2>2, <2>6
    <3>2. \A T \in to : at[k] <= T
      BY <1>1, <1>3, <3>1
    <3>3. k \in matching
      BY <2>1, <2>6, <3>1, <3>2
    <3>4. CASE k = n
      BY <3>4
    <3>5. CASE k < n
      BY <1>3, <3>3, <3>5
    <3>6. QED BY <1>1, <3>1, <3>4, <3>5
  <2>7. QED BY <1>1, <2>3, <2>4, <2>5, <2>6
<1>4. CASE cursor0 = {} /\ from = {}
  <2>1. prior = {}
    BY <1>4
  <2>2. ASSUME NEW k \in 1..n, k \in counted
        PROVE  k \in page
    <3>1. k \in 1..N /\ k <= n
      BY <1>1
    <3>2. \A T \in to : at[k] <= T
      BY <1>1, <3>1
    <3>3. k \in matching
      BY <1>4, <2>2, <3>2
    <3>4. QED BY <1>1, <1>4, <3>1, <3>3
  <2>3. QED BY <1>1, <2>1, <2>2
<1>5. QED BY <1>2, <1>3, <1>4

\* The end of a window of which one end is given.
WindowEnds(asOf, from, to, T) ==
  /\ (asOf = {} /\ to = {T}) \/ (asOf = {T} /\ to = {})
  /\ \A F \in from : F <= T

\* When a page holds all the rows after the cursor, what came before it and what
\* is on it is all that is posted by the end of the window.
LEMMA LastPageCloses ==
  ASSUME NEW N, NEW at, NEW asOf, NEW from, NEW to, NEW cursor0, NEW counted, NEW matching,
         NEW prior, NEW page, TrailPage(N, at, asOf, from, to, cursor0, counted, matching, prior, page),
         NEW T, WindowEnds(asOf, from, to, T),
         \A k \in matching : (\A c \in cursor0 : c < k) => k \in page
  PROVE  prior \cap page = {} /\ {k \in 1..N : at[k] <= T} = prior \cup page
<1> SUFFICES ASSUME N \in Nat, at \in [1..N -> Int],
                    asOf \in SUBSET Int, from \in SUBSET Int, to \in SUBSET Int,
                    (asOf = {} /\ to = {T}) \/ (asOf = {T} /\ to = {}), \A F \in from : F <= T,
                    \A F, G \in from : F = G, \A S, U \in asOf : S = U,
                    from \cup to # {} => \A m, n \in 1..N : m < n => at[m] <= at[n],
                    counted = {k \in 1..N : \A S \in asOf : at[k] <= S},
                    matching = {k \in counted : (\A F \in from : at[k] >= F) /\ \A S \in to : at[k] <= S},
                    cursor0 \subseteq matching, \A c, d \in cursor0 : c = d,
                    prior = IF cursor0 # {} THEN {k \in counted : \A c \in cursor0 : k <= c}
                            ELSE {k \in 1..N : from # {} /\ \A F \in from : at[k] <= F - 1},
                    page = {k \in matching : \A c \in cursor0 : c < k}
             PROVE  prior \cap page = {} /\ {k \in 1..N : at[k] <= T} = prior \cup page
  <2>1. page = {k \in matching : \A c \in cursor0 : c < k}
    BY DEF TrailPage
  <2>2. QED BY <2>1 DEF TrailPage, WindowEnds
<1>1. T \in Int /\ T \in asOf \cup to /\ \A S \in asOf \cup to : S = T
  OBVIOUS
<1>2. matching = {k \in 1..N : at[k] <= T /\ \A F \in from : at[k] >= F}
  BY <1>1
<1>3. counted \subseteq 1..N
  OBVIOUS
<1>4. CASE cursor0 # {}
  <2>1. PICK c \in cursor0 : cursor0 = {c}
    BY <1>4, OneElement
  <2>2. c \in 1..N /\ at[c] <= T /\ \A F \in from : at[c] >= F
    BY <1>2, <2>1
  <2>3. prior = {k \in counted : k <= c} /\ page = {k \in matching : c < k}
    BY <2>1
  <2>4. prior \cap page = {}
    BY <1>3, <2>2, <2>3
  <2>5. ASSUME NEW k \in 1..N, at[k] <= T PROVE k \in prior \cup page
    <3>1. k \in counted
      BY <1>1, <2>5
    <3>2. ASSUME k > c PROVE k \in matching
      BY <1>2, <2>2, <2>5, <3>2
    <3>3. QED BY <2>2, <2>3, <3>1, <3>2
  <2>6. ASSUME NEW k \in prior PROVE k \in 1..N /\ at[k] <= T
    <3>1. k \in counted /\ k \in 1..N /\ k <= c
      BY <1>3, <2>3
    <3>2. CASE to = {T}
      <4>1. k < c => at[k] <= at[c]
        BY <2>2, <3>1, <3>2
      <4>2. QED BY <1>1, <2>2, <3>1, <4>1
    <3>3. CASE asOf = {T}
      BY <3>1, <3>3
    <3>4. QED BY <3>2, <3>3
  <2>7. \A k \in page : k \in 1..N /\ at[k] <= T
    BY <1>2, <2>3
  <2>8. QED BY <2>4, <2>5, <2>6, <2>7
<1>5. CASE cursor0 = {} /\ from # {}
  <2>1. PICK F \in from : from = {F}
    BY <1>5, OneElement
  <2>2. F \in Int /\ F <= T /\ prior = {k \in 1..N : at[k] <= F - 1}
    BY <1>5, <2>1
  <2>3. page = {k \in 1..N : at[k] <= T /\ at[k] >= F}
    BY <1>2, <1>5, <2>1
  <2>4. ASSUME NEW k \in 1..N
        PROVE  (k \in prior <=> at[k] <= F - 1) /\ (k \in page <=> at[k] <= T /\ at[k] >= F)
    BY <2>2, <2>3
  <2>5. prior \subseteq 1..N /\ page \subseteq 1..N /\ \A k \in 1..N : at[k] \in Int
    BY <2>2, <2>3
  <2>6. ASSUME NEW k \in 1..N
        PROVE  (at[k] <= T <=> k \in prior \/ k \in page) /\ ~(k \in prior /\ k \in page)
    <3>1. at[k] \in Int /\ T \in Int /\ F \in Int /\ F <= T
      BY <1>1, <2>2, <2>5
    <3>2. ~(at[k] <= F - 1 /\ at[k] >= F) /\ (at[k] <= F - 1 => at[k] <= T)
          /\ (at[k] <= F - 1 \/ at[k] >= F)
      BY <3>1
    <3>3. QED BY <2>4, <3>2
  <2>7. QED BY <2>5, <2>6
<1>6. CASE cursor0 = {} /\ from = {}
  BY <1>2, <1>6
<1>7. QED BY <1>4, <1>5, <1>6

\* What is asked of the trail at hand, of the rows of its account.
Own == log[query.account]
OwnSide == NormalSide[query.account]
Counted == {n \in DOMAIN Own : PostedBy(Own[n].tx, query.asOf)}

\* The entries before the page, of which the balance is known when it is read.
Prior ==
  IF cursor # {} THEN {k \in Counted : \A c \in cursor : k <= c}
  ELSE {k \in DOMAIN Own : query.from # {} /\ \A F \in query.from : posts[Own[k].tx].postedAt <= F - 1}

\* The times the entries are stamped with.
At == [k \in DOMAIN Own |-> posts[Own[k].tx].postedAt]

LEMMA TimesAreSets ==
  ASSUME NEW S \in Times
  PROVE  S \in SUBSET Int /\ \A T, U \in S : T = U
BY TimelineAssumption DEF Times

\* The query and the history of a trail.
LEMMA TrailFacts ==
  ASSUME TimelineInv, query \in Query, IsTrail
  PROVE  /\ query.account \in Account
         /\ query.asOf \in Times /\ query.from \in Times /\ query.to \in Times
         /\ Amounts(Own) /\ DOMAIN Own = 1..Len(Own) /\ Len(Own) \in Nat
         /\ \A k \in DOMAIN Own : posts[Own[k].tx].postedAt \in Int
         /\ Counted \in SUBSET DOMAIN Own
         /\ EntriesAsOf(query.account, query.asOf) = Restrict(Own, Counted)
         /\ \A k, l : Before(query, k, l) <=> k < l
<1>1. query.account \in Account /\ query.asOf \in Times /\ query.from \in Times /\ query.to \in Times
  BY QueryTypes DEF IsTrail
<1>2. posts \in [Tx -> Post] /\ Own \in Seq(Entry) /\ \A k \in DOMAIN Own : Own[k].tx \in Tx
  BY <1>1 DEF TimelineInv, EntriesArePosted, Own, Posted
<1>3. Amounts(Own)
  <2>1. \A k \in DOMAIN Own : Own[k] \in Entry
    BY <1>2
  <2>2. QED BY <2>1 DEF Amounts, Entry
<1>4. \A k \in DOMAIN Own : posts[Own[k].tx].postedAt \in Int
  BY <1>2 DEF Post
<1>5. DOMAIN Own = 1..Len(Own) /\ Len(Own) \in Nat
  BY <1>2
<1>6. \A k, l : Before(query, k, l) <=> k < l
  BY DEF IsTrail, Before
<1>7. Counted \in SUBSET DOMAIN Own /\ EntriesAsOf(query.account, query.asOf) = Restrict(Own, Counted)
  BY DEF Counted, EntriesAsOf, Own
<1>8. QED BY <1>1, <1>3, <1>4, <1>5, <1>6, <1>7

\* The last key of a cursor is the cursor.
LEMMA CursorIsLast ==
  ASSUME NEW S, NEW c \in S, \A d, e \in S : d = e
  PROVE  LastOf(query, S) = c
BY DEF LastOf

\* The balance a page starts from is the balance of the entries before it.
LEMMA PageBaseIsPrior ==
  ASSUME TimelineInv, query \in Query, IsTrail, cursor \subseteq DOMAIN Own, \A c, d \in cursor : c = d
  PROVE  PageBase = ReplayBalance(OwnSide, Restrict(Own, Prior))
<1> DEFINE balanceOf(S, n) == SumAfter(OwnSide, Restrict(Own, S), 0)[n]
<1>1. /\ query.account \in Account /\ query.from \in Times
      /\ Amounts(Own) /\ DOMAIN Own = 1..Len(Own) /\ Len(Own) \in Nat
      /\ \A k \in DOMAIN Own : posts[Own[k].tx].postedAt \in Int
      /\ Counted \in SUBSET DOMAIN Own
      /\ EntriesAsOf(query.account, query.asOf) = Restrict(Own, Counted)
  BY TrailFacts
<1>2. Prior \in SUBSET DOMAIN Own
  BY <1>1 DEF Prior
<1>3. CASE cursor # {}
  <2>1. PICK c \in cursor : c \in 1..Len(Own)
    BY <1>1, <1>3
  <2>2. LastOf(query, cursor) = c
    BY <2>1, CursorIsLast
  <2>3. Prior = {k \in Counted : k <= c}
    BY <1>3, <2>1 DEF Prior
  <2>4. PageBase = balanceOf(Counted, c)
    BY <1>1, <1>3, <2>2 DEF PageBase, BalanceUpToAsOf, balanceUpToSeq, OwnSide
  <2>5. Prior \subseteq 1..c /\ c \in Nat
    BY <1>1, <2>1, <2>3
  <2>6. ReplayBalance(OwnSide, Restrict(Own, Prior)) = balanceOf(Prior, c)
    <3>1. Amounts(Restrict(Own, Prior)) /\ DOMAIN Restrict(Own, Prior) = Prior
      BY <1>1, <1>2, RowsOf
    <3>2. QED BY <2>5, <3>1, ReplayIsSumUpTo
  <2>7. \A k \in 1..c : SignedAmount(OwnSide, Restrict(Own, Prior), k)
                          = SignedAmount(OwnSide, Restrict(Own, Counted), k)
    <3> TAKE k \in 1..c
    <3>1. k \in Prior <=> k \in Counted
      BY <2>3
    <3>2. SignedAmount(OwnSide, Restrict(Own, Prior), k) =
            IF k \in Prior THEN SignedAmount(OwnSide, Own, k) ELSE 0
      BY <1>1, <1>2, RowsOf
    <3>3. SignedAmount(OwnSide, Restrict(Own, Counted), k) =
            IF k \in Counted THEN SignedAmount(OwnSide, Own, k) ELSE 0
      BY <1>1, RowsOf
    <3>4. QED BY <3>1, <3>2, <3>3
  <2>8. balanceOf(Prior, c) = balanceOf(Counted, c)
    BY <2>5, <2>7, SumAfterCongruence
  <2>9. QED BY <2>4, <2>6, <2>8
<1>4. CASE cursor = {} /\ query.from # {}
  <2>1. PICK F \in Int : query.from = {F}
    BY <1>1, <1>4, TimelineAssumption DEF Times
  <2>2. {G - 1 : G \in query.from} = {F - 1}
    BY <2>1
  <2>3. PageBase = ReplayAsOf(query.account, {F - 1})
    BY <1>4, <2>2 DEF PageBase
  <2>4. Prior = {k \in DOMAIN Own : PostedBy(Own[k].tx, {F - 1})}
    BY <1>4, <2>1 DEF Prior, PostedBy
  <2>5. EntriesAsOf(query.account, {F - 1}) = Restrict(Own, Prior)
    BY <2>4 DEF EntriesAsOf, Own
  <2>6. QED BY <2>3, <2>5 DEF ReplayAsOf, OwnSide
<1>5. CASE cursor = {} /\ query.from = {}
  <2>1. Prior = {} /\ PageBase = 0
    BY <1>5 DEF Prior, PageBase
  <2>2. Amounts(Restrict(Own, Prior)) /\ DOMAIN Restrict(Own, Prior) = Prior
    BY <1>1, <1>2, RowsOf
  <2>3. ReplayBalance(OwnSide, Restrict(Own, Prior)) = balanceOf(Prior, 0)
    BY <2>1, <2>2, ReplayIsSumUpTo
  <2>4. balanceOf(Prior, 0) = 0
    BY SumAfterStep
  <2>5. QED BY <2>1, <2>3, <2>4
<1>6. QED BY <1>3, <1>4, <1>5

\* What the page of a trail is read from.
LEMMA PageFacts ==
  ASSUME TimelineInv, RowsInv, WalkInv, TrailInv, ReadRows, IsTrail, Clean
  PROVE  /\ TrailPage(Len(Own), At, query.asOf, query.from, query.to, cursor, Counted,
                      Matching(query), Prior, rows')
         /\ ~more' => rows' = {k \in Matching(query) : \A c \in cursor : c < k}
         /\ base = ReplayBalance(OwnSide, Restrict(Own, Prior))
<1> DEFINE at == At
<1>1. pc = "rows" /\ query \in Query
  BY DEF ReadRows, WalkInv
<1>2. /\ query.account \in Account
      /\ Amounts(Own) /\ DOMAIN Own = 1..Len(Own) /\ Len(Own) \in Nat
      /\ \A k \in DOMAIN Own : posts[Own[k].tx].postedAt \in Int
      /\ \A k, l : Before(query, k, l) <=> k < l
  BY <1>1, TrailFacts
<1>3. \A k \in DOMAIN Own : at[k] = posts[Own[k].tx].postedAt
  BY DEF At
<1>4. Counted = {k \in 1..Len(Own) : \A T \in query.asOf : at[k] <= T}
  BY <1>2, <1>3 DEF Counted, PostedBy
<1>5. Matching(query) = {k \in Counted : /\ \A F \in query.from : at[k] >= F
                                         /\ \A T \in query.to : at[k] <= T}
  <2>1. Matching(query) = MatchingEntries(query)
    BY DEF Matching, IsTrail
  <2>2. QED BY <1>3, <2>1 DEF MatchingEntries, Counted, PostedBy, PostedFrom, Own
<1>6. query.from \cup query.to # {} => \A m, n \in 1..Len(Own) : m < n => at[m] <= at[n]
  BY <1>2, <1>3 DEF Clean, WindowInOrder, InOrder, Own
<1>7. Prior = IF cursor # {} THEN {k \in Counted : \A c \in cursor : k <= c}
              ELSE {k \in 1..Len(Own) : query.from # {} /\ \A F \in query.from : at[k] <= F - 1}
  BY <1>2, <1>3 DEF Prior
<1>8. cursor \subseteq Matching(query) /\ \A c, d \in cursor : c = d
  BY <1>1 DEF WalkInv, TrailInv
<1>9. Remaining(query) = {k \in Matching(query) : \A c \in cursor : c < k}
  BY <1>2 DEF Remaining
<1>10. /\ rows' \subseteq Remaining(query)
       /\ \A k \in rows' : \A l \in Remaining(query) : Before(query, l, k) => l \in rows'
       /\ ~more' => rows' = Remaining(query)
  BY RowsRead
<1>11. base = ReplayBalance(OwnSide, Restrict(Own, Prior))
  <2>1. base = PageBase
    BY <1>1 DEF TrailInv
  <2>2. cursor \subseteq DOMAIN Own
    BY <1>4, <1>5, <1>8, <1>2
  <2>3. QED BY <1>1, <1>8, <2>1, <2>2, PageBaseIsPrior
<1>12. \A k \in rows', l \in Matching(query) : l < k /\ (\A c \in cursor : c < l) => l \in rows'
  BY <1>2, <1>9, <1>10
<1>13. /\ query.asOf \in SUBSET Int /\ query.from \in SUBSET Int /\ query.to \in SUBSET Int
       /\ (\A T, U \in query.asOf : T = U) /\ (\A T, U \in query.from : T = U)
       /\ \A T, U \in query.to : T = U
  BY <1>1, TrailFacts, TimesAreSets
<1>14. at \in [1..Len(Own) -> Int] /\ Len(Own) \in Nat
  BY <1>2 DEF At
<1> HIDE DEF at
<1>15. TrailPage(Len(Own), at, query.asOf, query.from, query.to, cursor, Counted,
                 Matching(query), Prior, rows')
  BY <1>4, <1>5, <1>6, <1>7, <1>8, <1>9, <1>10, <1>12, <1>13, <1>14 DEF TrailPage
<1>16. QED BY <1>9, <1>10, <1>11, <1>15 DEF at

\* The running balances of the page that is read, and the balance it ends on.
LEMMA PageRuns ==
  ASSUME TimelineInv, RowsInv, WalkInv, TrailInv, ReadRows, IsTrail, Clean
  PROVE  /\ \A n \in rows' : base + SumAfter(OwnSide, Restrict(Own, rows'), 0)[n]
                               = BalanceUpToAsOf(query.account, n, query.asOf)
         /\ \A T \in query.asOf \cup query.to :
              ~more' /\ (query.asOf = {} \/ query.to = {}) /\ (\A F \in query.from : F <= T)
              => base + ReplayBalance(OwnSide, Restrict(Own, rows')) = ReplayAsOf(query.account, {T})
<1> DEFINE N == Len(Own)
<1>1. query \in Query
  BY DEF ReadRows, WalkInv
<1>2. /\ query.account \in Account
      /\ query.asOf \in Times /\ query.to \in Times
      /\ Amounts(Own) /\ DOMAIN Own = 1..N /\ N \in Nat
      /\ Counted \in SUBSET DOMAIN Own
      /\ EntriesAsOf(query.account, query.asOf) = Restrict(Own, Counted)
  BY <1>1, TrailFacts
<1>3. /\ TrailPage(N, At, query.asOf, query.from, query.to, cursor, Counted, Matching(query),
                   Prior, rows')
      /\ ~more' => rows' = {k \in Matching(query) : \A c \in cursor : c < k}
      /\ base = ReplayBalance(OwnSide, Restrict(Own, Prior))
  BY PageFacts
<1>4. PICK own, counted, prior, page, asOf, from, to, cut, matching, at :
        /\ own = Own /\ counted = Counted /\ prior = Prior /\ page = rows'
        /\ asOf = query.asOf /\ from = query.from /\ to = query.to
        /\ cut = cursor /\ matching = Matching(query) /\ at = At
  OBVIOUS
<1>p. TrailPage(N, at, asOf, from, to, cut, counted, matching, prior, page)
  BY <1>3, <1>4
<1>5. page \in SUBSET DOMAIN own /\ prior \in SUBSET DOMAIN own /\ counted \in SUBSET DOMAIN own
  BY <1>2, <1>3, <1>4 DEF TrailPage
<1>6. Amounts(own) /\ DOMAIN own = 1..N
  BY <1>2, <1>4
<1>7. ASSUME NEW n \in rows'
      PROVE  base + SumAfter(OwnSide, Restrict(Own, rows'), 0)[n]
               = BalanceUpToAsOf(query.account, n, query.asOf)
  <2>1. /\ prior \cap page = {} /\ prior \subseteq 1..n /\ n \in 1..N
        /\ \A k \in 1..n : k \in counted <=> k \in prior \cup page
    BY <1>p, <1>4, PageContinues
  <2>2. n \in Nat
    BY <2>1
  <2>3. ReplayBalance(OwnSide, Restrict(own, prior)) + SumAfter(OwnSide, Restrict(own, page), 0)[n]
          = SumAfter(OwnSide, Restrict(own, counted), 0)[n]
    <3> HIDE <1>4
    <3>1. PICK m \in Nat : m = n
      BY <2>2
    <3>2. /\ prior \cap page = {} /\ prior \subseteq 1..m
          /\ \A k \in 1..m : k \in counted <=> k \in prior \cup page
      BY <2>1, <3>1
    <3>3. ReplayBalance(OwnSide, Restrict(own, prior)) + SumAfter(OwnSide, Restrict(own, page), 0)[m]
            = SumAfter(OwnSide, Restrict(own, counted), 0)[m]
      <4> HIDE <3>1
      <4>1. QED BY <1>5, <1>6, <3>2, RunningOn
    <3>4. QED BY <3>1, <3>3
  <2>4. QED BY <1>2, <1>3, <1>4, <2>3 DEF BalanceUpToAsOf, balanceUpToSeq, OwnSide
<1>8. ASSUME NEW T \in query.asOf \cup query.to, ~more', query.asOf = {} \/ query.to = {},
             \A F \in query.from : F <= T
      PROVE  base + ReplayBalance(OwnSide, Restrict(Own, rows')) = ReplayAsOf(query.account, {T})
  <2>1. WindowEnds(asOf, from, to, T)
    BY <1>2, <1>4, <1>8, TimesAreSets DEF WindowEnds
  <2>2. \A k \in matching : (\A c \in cut : c < k) => k \in page
    BY <1>3, <1>4, <1>8
  <2>3. prior \cap page = {} /\ {k \in 1..N : At[k] <= T} = prior \cup page
    <3>1. prior \cap page = {} /\ {k \in 1..N : at[k] <= T} = prior \cup page
      <4> HIDE <1>4
      <4>1. QED BY <1>p, <2>1, <2>2, LastPageCloses
    <3>2. QED BY <1>4, <3>1
  <2>4. EntriesAsOf(query.account, {T}) = Restrict(Own, {k \in 1..N : At[k] <= T})
    BY <1>2 DEF EntriesAsOf, PostedBy, Own, At
  <2>5. ReplayAsOf(query.account, {T}) = ReplayBalance(OwnSide, Restrict(own, prior \cup page))
    BY <1>4, <2>3, <2>4 DEF ReplayAsOf, OwnSide
  <2>6. ReplayBalance(OwnSide, Restrict(own, prior \cup page))
          = ReplayBalance(OwnSide, Restrict(own, prior)) + ReplayBalance(OwnSide, Restrict(own, page))
    <3> HIDE <1>4
    <3>1. QED BY <1>2, <1>5, <1>6, <2>3, ReplayOfParts
  <2>7. QED BY <1>3, <1>4, <2>5, <2>6
<1>9. QED BY <1>7, <1>8

\* The balance a page ends on is the base and the balance of its rows.
LEMMA LastOfPage ==
  ASSUME TimelineInv, RowsInv, query \in Query, IsTrail, NEW R \in SUBSET DOMAIN Own, base \in Int
  PROVE  (IF R = {} THEN base ELSE base + SumAfter(OwnSide, Restrict(Own, R), 0)[LastOf(query, R)])
           = base + ReplayBalance(OwnSide, Restrict(Own, R))
<1>1. /\ Amounts(Own) /\ DOMAIN Own = 1..Len(Own) /\ Len(Own) \in Nat
      /\ \A k, l : Before(query, k, l) <=> k < l
  BY TrailFacts
<1>2. Amounts(Restrict(Own, R)) /\ DOMAIN Restrict(Own, R) = R
  BY <1>1, RowsOf
<1>3. CASE R = {}
  <2>1. ReplayBalance(OwnSide, Restrict(Own, R)) = SumAfter(OwnSide, Restrict(Own, R), 0)[0]
    BY <1>2, <1>3, ReplayIsSumUpTo
  <2>2. SumAfter(OwnSide, Restrict(Own, R), 0)[0] = 0
    BY SumAfterStep
  <2>3. QED BY <1>3, <2>1, <2>2
<1>4. CASE R # {}
  <2> DEFINE last == LastOf(query, R)
  <2>1. Listed(query) = DOMAIN Own
    BY DEF Listed, IsTrail, Own
  <2>2. IsFiniteSet(R) /\ Ordered(query, R)
    BY <2>1, ListedKeys, OrderedSubset, FS_Subset
  <2>3. last \in R /\ \A k \in R : k = last \/ Before(query, k, last)
    BY <1>4, <2>2, LastKey
  <2>4. last \in Nat /\ R \subseteq 1..last
    BY <1>1, <2>3
  <2> HIDE DEF last
  <2>5. ReplayBalance(OwnSide, Restrict(Own, R)) = SumAfter(OwnSide, Restrict(Own, R), 0)[last]
    BY <1>2, <2>4, ReplayIsSumUpTo
  <2>6. QED BY <1>4, <2>5 DEF last
<1>5. QED BY <1>3, <1>4

\* The entries posted by a settled instant stay what they are.
LEMMA SettledEntriesStay ==
  ASSUME TimelineInv, RowsInv, [Next]_vars, NEW T \in Int, Settled(T), NEW a \in Account
  PROVE  EntriesAsOf(a, {T})' = EntriesAsOf(a, {T})
<1>1. CASE \E t \in Tx : CommitPost(t)
  BY <1>1, CommitBehindSettled
<1>2. CASE log' = log
  <2>1. \A t \in Posted : t \in Posted' /\ posts'[t].postedAt = posts[t].postedAt
    BY TablesGrow
  <2>2. \A n \in DOMAIN log[a] : log[a][n].tx \in Posted
    BY DEF TimelineInv, EntriesArePosted
  <2>3. QED BY <1>2, <2>1, <2>2 DEF EntriesAsOf, PostedBy
<1>3. QED
  BY <1>1, <1>2 DEF Next, TimelineNext, Tick, StampPost, StampReversal, Stamp, RollBackPost,
    StartSnapshot, OpenAccount, CommitAccount, StoreSnapshot, ReaderNext, Ask, ReadBase, ReadRows,
    DeliverPage, ExportGoesOn, DeliverLastPage, vars, timelineVars, tables

\* The balance up to a position stays what it is.
LEMMA BalanceUpToStays ==
  ASSUME TimelineInv, RowsInv, [Next]_vars, NEW a \in Account, NEW S, NEW n \in DOMAIN log[a]
  PROVE  BalanceUpToAsOf(a, n, S)' = BalanceUpToAsOf(a, n, S)
<1>1. PICK old, new : old = EntriesAsOf(a, S) /\ new = EntriesAsOf(a, S)'
  OBVIOUS
<1>2. /\ \A t \in Posted : t \in Posted' /\ posts'[t].postedAt = posts[t].postedAt
      /\ \A m \in DOMAIN log[a] : m \in DOMAIN log'[a] /\ log'[a][m] = log[a][m]
  BY TablesGrow
<1>3. log[a] \in Seq(Entry) /\ \A m \in DOMAIN log[a] : log[a][m].tx \in Posted
  BY DEF TimelineInv, EntriesArePosted
<1>4. n \in Nat /\ 1..n \subseteq DOMAIN log[a]
  BY <1>3
<1>5. ASSUME NEW m \in 1..n
      PROVE  SignedAmount(NormalSide[a], new, m) = SignedAmount(NormalSide[a], old, m)
  <2>1. /\ m \in DOMAIN log[a] /\ m \in DOMAIN log'[a] /\ log'[a][m] = log[a][m]
        /\ PostedBy(log[a][m].tx, S)' <=> PostedBy(log[a][m].tx, S)
    BY <1>2, <1>3, <1>4 DEF PostedBy
  <2>2. (m \in DOMAIN new <=> m \in DOMAIN old) /\ (m \in DOMAIN old => new[m] = old[m])
    BY <1>1, <2>1 DEF EntriesAsOf, Restrict
  <2>3. QED BY <2>2 DEF SignedAmount
<1>6. SumAfter(NormalSide[a], new, 0)[n] = SumAfter(NormalSide[a], old, 0)[n]
  <2> HIDE <1>1
  <2>1. QED BY <1>4, <1>5, SumAfterCongruence
<1>7. QED BY <1>1, <1>6 DEF BalanceUpToAsOf, balanceUpToSeq

\* Entries that were out of order stay so.
LEMMA OrderIsLost ==
  ASSUME TimelineInv, RowsInv, [Next]_vars, NEW a \in Account, InOrder(a)'
  PROVE  InOrder(a)
<1>1. /\ \A t \in Posted : t \in Posted' /\ posts'[t].postedAt = posts[t].postedAt
      /\ \A m \in DOMAIN log[a] : m \in DOMAIN log'[a] /\ log'[a][m] = log[a][m]
  BY TablesGrow
<1>2. \A m \in DOMAIN log[a] : log[a][m].tx \in Posted
  BY DEF TimelineInv, EntriesArePosted
<1>3. QED BY <1>1, <1>2 DEF InOrder


\* The three properties of a trail, kept together.
RunsInv == TrailInv /\ RunningBalancesAreReplays /\ CloseInv

LEMMA InitRunsInv == Init => RunsInv
BY DEF Init, ReadsInit, NotAsked, NoQuery, RunsInv, TrailInv, RunningBalancesAreReplays, CloseInv, IsTrail

\* The times of a settled window stay settled.
LEMMA WindowStays ==
  ASSUME TimelineInv, [Next]_vars, NEW q \in Query, q.kind \in {"audit", "csv"}, WindowSettled(q)
  PROVE  WindowSettled(q)'
<1>1. q.asOf \in SUBSET Int /\ q.from \in SUBSET Int /\ q.to \in SUBSET Int
  BY QueryTypes, TimesAreSets
<1>2. \A F \in q.from : Settled(F - 1) /\ F - 1 \in Int
  BY <1>1 DEF WindowSettled
<1>3. \A T \in q.asOf \cup q.to : Settled(T) /\ T \in Int
  BY <1>1 DEF WindowSettled
<1>4. \A F \in q.from : Settled(F - 1)'
  <2> TAKE F \in q.from
  <2>1. PICK T \in Int : T = F - 1
    BY <1>2
  <2>2. Settled(T)
    BY <1>2, <2>1
  <2>3. Settled(T)'
    BY <2>2, SettledStays
  <2>4. QED BY <2>1, <2>3
<1>5. \A T \in q.asOf \cup q.to : Settled(T)'
  BY <1>3, SettledStays
<1>6. QED BY <1>4, <1>5 DEF WindowSettled

\* What a step of the writers leaves of a trail.
LEMMA TrailStays ==
  ASSUME TimelineInv, RowsInv, WalkInv, RunsInv, [Next]_vars, UNCHANGED readVars,
         pc # "idle", IsTrail
  PROVE  /\ Clean' => Clean
         /\ WindowInOrder' => WindowInOrder
         /\ Clean /\ cursor \subseteq DOMAIN Own => PageBase' = PageBase
         /\ rows \subseteq DOMAIN Own =>
              Restrict(log'[query.account], rows) = Restrict(log[query.account], rows)
         /\ \A T \in query.asOf \cup query.to : asked.settled =>
              ReplayAsOf(query.account, {T})' = ReplayAsOf(query.account, {T})
         /\ asked.settled => WindowSettled(query)'
<1>1. /\ UNCHANGED <<pc, query, cursor, base, rows, more, delivered, balance, asked>>
      /\ query \in Query /\ \A c, d \in cursor : c = d
  BY DEF readVars, WalkInv
<1>2. /\ query.account \in Account
      /\ query.asOf \in SUBSET Int /\ query.from \in SUBSET Int /\ query.to \in SUBSET Int
      /\ \A F, G \in query.from : F = G
  BY <1>1, TrailFacts, TimesAreSets
<1>3. WindowInOrder' => WindowInOrder
  BY <1>1, <1>2, OrderIsLost DEF WindowInOrder
<1>4. Clean' => Clean
  BY <1>1, <1>3 DEF Clean, NoProcessAhead
<1>5. asked.settled => query.kind = "audit" /\ WindowSettled(query) /\ WindowSettled(query)'
  <2>1. SUFFICES ASSUME asked.settled
                 PROVE  query.kind = "audit" /\ WindowSettled(query) /\ WindowSettled(query)'
    OBVIOUS
  <2>2. query.kind = "audit" /\ WindowSettled(query)
    BY <2>1 DEF RunsInv, TrailInv
  <2>3. PICK q \in Query : q = query
    BY <1>1
  <2>4. WindowSettled(q)'
    BY <2>2, <2>3, WindowStays
  <2>5. QED BY <1>1, <2>2, <2>3, <2>4 DEF WindowSettled
<1>6. \A T \in Int : Settled(T) => ReplayAsOf(query.account, {T})' = ReplayAsOf(query.account, {T})
  <2> TAKE T \in Int
  <2>1. PICK a \in Account : a = query.account
    BY <1>2
  <2>2. Settled(T) => EntriesAsOf(a, {T})' = EntriesAsOf(a, {T})
    BY SettledEntriesStay
  <2>3. QED BY <1>1, <2>1, <2>2 DEF ReplayAsOf, EntriesAsOf
<1>7. ASSUME Clean, cursor \subseteq DOMAIN Own
      PROVE  PageBase' = PageBase
  <2>1. CASE cursor # {}
    <3>1. PICK c \in cursor : c \in DOMAIN log[query.account]
      BY <1>7, <2>1 DEF Own
    <3>2. LastOf(query, cursor) = c /\ LastOf(query, cursor)' = c
      <4>1. \A d \in cursor : d = c
        BY <1>1, <3>1
      <4>2. cursor' = cursor
        BY <1>1
      <4>3. QED BY <3>1, <4>1, <4>2 DEF LastOf
    <3>3. BalanceUpToAsOf(query.account, c, query.asOf)' = BalanceUpToAsOf(query.account, c, query.asOf)
      <4>1. PICK a \in Account : a = query.account
        BY <1>2
      <4>2. PICK S : S = query.asOf
        OBVIOUS
      <4>3. BalanceUpToAsOf(a, c, S)' = BalanceUpToAsOf(a, c, S)
        BY <3>1, <4>1, <4>2, BalanceUpToStays
      <4>4. QED BY <1>1, <4>1, <4>2, <4>3 DEF BalanceUpToAsOf, EntriesAsOf, PostedBy
    <3>4. QED BY <1>1, <2>1, <3>2, <3>3 DEF PageBase, BalanceUpToAsOf, EntriesAsOf, PostedBy
  <2>2. CASE cursor = {} /\ query.from # {}
    <3>1. PICK F \in query.from : query.from = {F}
      BY <1>2, <2>2, OneElement
    <3>2. PICK T \in Int : T = F - 1
      BY <1>2, <3>1
    <3>3. {G - 1 : G \in query.from} = {T}
      BY <3>1, <3>2
    <3>4. Settled(T)
      BY <1>5, <1>7, <2>2, <3>1, <3>2 DEF Clean, WindowSettled
    <3>5. ReplayAsOf(query.account, {T})' = ReplayAsOf(query.account, {T})
      BY <1>6, <3>4
    <3>6. PageBase = ReplayAsOf(query.account, {T})
      BY <2>2, <3>3 DEF PageBase
    <3>7. PageBase' = ReplayAsOf(query.account, {T})'
      BY <1>1, <2>2, <3>3 DEF PageBase
    <3>8. QED BY <3>5, <3>6, <3>7
  <2>3. CASE cursor = {} /\ query.from = {}
    BY <1>1, <2>3 DEF PageBase
  <2>4. QED BY <2>1, <2>2, <2>3
<1>8. ASSUME rows \subseteq DOMAIN Own
      PROVE  Restrict(log'[query.account], rows) = Restrict(log[query.account], rows)
  <2>1. \A m \in rows : log'[query.account][m] = log[query.account][m]
    BY <1>2, <1>8, TablesGrow DEF Own
  <2>2. QED BY <2>1 DEF Restrict
<1>9. \A T \in query.asOf \cup query.to : asked.settled =>
        ReplayAsOf(query.account, {T})' = ReplayAsOf(query.account, {T})
  BY <1>2, <1>5, <1>6 DEF WindowSettled
<1>10. QED BY <1>3, <1>4, <1>5, <1>7, <1>8, <1>9

\* What the writers do leaves the balances of a trail what they are.
LEMMA WritersKeepRuns ==
  ASSUME TimelineInv, RowsInv, WalkInv, RunsInv, [Next]_vars, UNCHANGED readVars
  PROVE  RunsInv'
<1>1. UNCHANGED <<pc, query, cursor, base, rows, more, delivered, balance, asked>>
  BY DEF readVars
<1>2. TrailInv /\ RunningBalancesAreReplays /\ CloseInv
  BY DEF RunsInv
<1>3. CASE pc = "idle"
  <2>1. ~asked.settled /\ delivered = <<>>
    BY <1>2, <1>3 DEF TrailInv, WalkInv
  <2>2. TrailInv' /\ CloseInv'
    BY <1>1, <1>3, <2>1 DEF TrailInv, CloseInv, EndsAt
  <2>3. RunningBalancesAreReplays'
    BY <1>1, <2>1 DEF RunningBalancesAreReplays
  <2>4. QED BY <2>2, <2>3 DEF RunsInv
<1>4. CASE pc # "idle" /\ ~IsTrail
  <2>1. ~asked.settled /\ query.kind # "audit"
    BY <1>2, <1>4 DEF TrailInv, IsTrail
  <2>2. ~IsTrail'
    BY <1>1, <1>4 DEF IsTrail
  <2>3. TrailInv' /\ CloseInv' /\ RunningBalancesAreReplays'
    BY <1>1, <2>1, <2>2 DEF TrailInv, CloseInv, RunningBalancesAreReplays
  <2>4. QED BY <2>3 DEF RunsInv
<1>5. CASE pc # "idle" /\ IsTrail
  <2>1. /\ Clean' => Clean
        /\ WindowInOrder' => WindowInOrder
        /\ Clean /\ cursor \subseteq DOMAIN Own => PageBase' = PageBase
        /\ rows \subseteq DOMAIN Own =>
             Restrict(log'[query.account], rows) = Restrict(log[query.account], rows)
        /\ \A T \in query.asOf \cup query.to : asked.settled =>
             ReplayAsOf(query.account, {T})' = ReplayAsOf(query.account, {T})
        /\ asked.settled => WindowSettled(query)'
    BY <1>5, TrailStays
  <2>2. query \in Query /\ IsTrail'
    BY <1>1, <1>5 DEF WalkInv, IsTrail
  <2>3. Listed(query) = DOMAIN Own
    BY <1>5 DEF Listed, IsTrail, Own
  <2>4. /\ cursor \subseteq DOMAIN Own /\ rows \subseteq DOMAIN Own
        /\ \A i \in DOMAIN delivered : DOMAIN delivered[i] \subseteq DOMAIN Own
    BY <1>5, <2>3 DEF WalkInv, DeliveredKeys
  <2>5. \A n \in DOMAIN Own :
          BalanceUpToAsOf(query.account, n, query.asOf)' = BalanceUpToAsOf(query.account, n, query.asOf)
    <3> TAKE n \in DOMAIN Own
    <3>1. PICK a \in Account : a = query.account
      BY <1>5, <2>2, TrailFacts
    <3>2. PICK S : S = query.asOf
      OBVIOUS
    <3>3. BalanceUpToAsOf(a, n, S)' = BalanceUpToAsOf(a, n, S)
      BY <3>1, <3>2, BalanceUpToStays DEF Own
    <3>4. QED BY <1>1, <3>1, <3>2, <3>3 DEF BalanceUpToAsOf, EntriesAsOf, PostedBy
  <2>6. (\A n : runningBalance(n)' = runningBalance(n)) /\ LastRunning' = LastRunning
    <3>1. \A n : runningBalance(n)' = runningBalance(n)
      BY <1>1, <2>1, <2>4 DEF runningBalance
    <3>2. LastOf(query, rows)' = LastOf(query, rows)
      BY <1>1, <1>5, <2>2 DEF LastOf, Before, IsTrail
    <3>3. QED BY <1>1, <3>1, <3>2 DEF LastRunning
  <2>7. cursor \cup rows \subseteq Matching(query)'
    <3>1. cursor \cup rows \subseteq Matching(query)
      BY <1>2, <1>5 DEF TrailInv
    <3>2. PICK q \in Query : q = query
      BY <2>2
    <3>3. \A k \in Listed(q) : k \in Matching(q)' <=> k \in Matching(q)
      BY <1>5, <3>2, ListsStay DEF IsTrail
    <3>4. Matching(query)' = Matching(q)'
      BY <1>1, <3>2 DEF Matching, MatchingEntries, MatchingTransactions, PostedBy, PostedFrom
    <3>5. QED BY <2>3, <2>4, <3>1, <3>2, <3>3, <3>4
  <2>8. TrailInv'
    <3>1. asked'.settled => pc' # "idle" /\ query'.kind = "audit" /\ WindowSettled(query)'
      BY <1>1, <1>2, <2>1 DEF TrailInv
    <3>2. (cursor \cup rows)' \subseteq Matching(query)'
      BY <1>1, <2>7
    <3>3. Clean' => /\ pc' = "rows" => base' = PageBase'
                    /\ pc' = "page" => \A n \in rows' :
                         runningBalance(n)' = BalanceUpToAsOf(query.account, n, query.asOf)'
      BY <1>1, <1>2, <1>5, <2>1, <2>4, <2>5, <2>6 DEF TrailInv
    <3>4. QED BY <3>1, <3>2, <3>3 DEF TrailInv
  <2>9. RunningBalancesAreReplays'
    <3> SUFFICES ASSUME Clean', NEW i \in DOMAIN delivered, NEW n \in DOMAIN delivered[i]
                 PROVE  delivered[i][n] = BalanceUpToAsOf(query.account, n, query.asOf)'
      BY <1>1 DEF RunningBalancesAreReplays, Clean, NoProcessAhead
    <3>1. delivered[i][n] = BalanceUpToAsOf(query.account, n, query.asOf)
      BY <1>2, <1>5, <2>1 DEF RunningBalancesAreReplays, Clean
    <3>2. n \in DOMAIN Own
      BY <2>4
    <3>3. QED BY <2>5, <3>1, <3>2
  <2>10. CloseInv'
    <3> SUFFICES ASSUME query.kind = "audit", NEW T \in query.asOf \cup query.to, EndsAt(T)'
                 PROVE  /\ pc = "page" /\ ~more => LastRunning = ReplayAsOf(query.account, {T})'
                        /\ pc = "done" => LastRunning = balance
      BY <1>1, <2>6 DEF CloseInv
    <3>1. EndsAt(T) /\ asked.settled
      BY <1>1, <2>1 DEF EndsAt, NoProcessAhead
    <3>2. ReplayAsOf(query.account, {T})' = ReplayAsOf(query.account, {T})
      BY <2>1, <3>1
    <3>3. QED BY <1>2, <3>1, <3>2 DEF CloseInv
  <2>11. QED BY <2>8, <2>9, <2>10 DEF RunsInv
<1>6. QED BY <1>3, <1>4, <1>5

\* When the tables stay, so does all that is read from them.
LEMMA ReadsStay ==
  ASSUME UNCHANGED <<timelineVars, query>>, NEW S, NEW n
  PROVE  /\ Matching(query)' = Matching(query) /\ Own' = Own /\ OwnSide' = OwnSide
         /\ (WindowSettled(query)' <=> WindowSettled(query))
         /\ (WindowInOrder' <=> WindowInOrder)
         /\ (IsTrail' <=> IsTrail)
         /\ BalanceUpToAsOf(query.account, n, query.asOf)' = BalanceUpToAsOf(query.account, n, query.asOf)
         /\ ReplayAsOf(query.account, S)' = ReplayAsOf(query.account, S)
<1>1. UNCHANGED <<now, accounts, posts, log, snapshots, query>>
  BY DEF timelineVars, tables
<1>2. QED
  BY <1>1 DEF Matching, MatchingEntries, MatchingTransactions, Visible, Posted, PostedBy, PostedFrom,
    Own, OwnSide, WindowSettled, Settled, WindowInOrder, InOrder, IsTrail, BalanceUpToAsOf,
    ReplayAsOf, EntriesAsOf

LEMMA AskKeepsRuns ==
  ASSUME TimelineInv, RowsInv, WalkInv, RunsInv, NEW q \in Query, Ask(q)
  PROVE  RunsInv'
<1>1. /\ pc = "idle" /\ query' = q /\ pc' \in {"base", "rows"}
      /\ asked'.settled = (q.kind = "audit" /\ WindowSettled(q))
      /\ q.kind \in {"audit", "csv"} => pc' = "base"
      /\ UNCHANGED <<timelineVars, cursor, rows, delivered>>
  BY DEF Ask
<1>2. cursor = {} /\ rows = {} /\ delivered = <<>>
  BY <1>1 DEF WalkInv
<1>3. WindowSettled(q)' <=> WindowSettled(q)
  BY <1>1 DEF timelineVars, tables, WindowSettled, Settled
<1>4. TrailInv'
  BY <1>1, <1>2, <1>3 DEF TrailInv, IsTrail, WindowSettled, Settled
<1>5. RunningBalancesAreReplays' /\ CloseInv'
  BY <1>1, <1>2 DEF RunningBalancesAreReplays, CloseInv
<1>6. QED BY <1>4, <1>5 DEF RunsInv

\* The balance a page starts from, when it is read.
LEMMA BaseKeepsRuns ==
  ASSUME TimelineInv, RowsInv, WalkInv, RunsInv, ReadBase
  PROVE  RunsInv'
<1>1. /\ pc = "base" /\ pc' = "rows"
      /\ base' = IF query.from # {} /\ cursor = {} THEN windowBase(query) ELSE seed(query)
      /\ UNCHANGED <<timelineVars, query, cursor, rows, more, delivered, balance, asked>>
  BY DEF ReadBase
<1>2. TrailInv /\ RunningBalancesAreReplays /\ CloseInv
  BY DEF RunsInv
<1>3. query \in Query /\ \A c, d \in cursor : c = d
  BY <1>1 DEF WalkInv
<1>4. IsTrail /\ Clean => base' = PageBase
  <2> SUFFICES ASSUME IsTrail, Clean PROVE base' = PageBase
    OBVIOUS
  <2>1. query.account \in Account /\ query.from \in Times
    BY <1>3, TrailFacts
  <2>2. CASE cursor # {}
    BY <1>1, <2>2 DEF seed, PageBase
  <2>3. CASE cursor = {} /\ query.from # {}
    <3>1. PICK F \in query.from : query.from = {F}
      BY <2>1, <2>3, TimesAreSets, OneElement
    <3>2. F - 1 \in Int /\ NoProcessAhead
      BY <2>1, <2>3, <3>1, TimesAreSets DEF Clean
    <3>3. {G - 1 : G \in query.from} = {F - 1}
      BY <3>1
    <3>4. BalanceAsOf(query.account, {F - 1}) = ReplayAsOf(query.account, {F - 1})
      BY <2>1, <3>2, BalanceAsOfIsReplay
    <3>5. QED BY <1>1, <2>3, <3>3, <3>4 DEF windowBase, PageBase
  <2>4. CASE cursor = {} /\ query.from = {}
    <3>1. base' = BalanceUpToAsOf(query.account, 0, query.asOf)
      BY <1>1, <2>4 DEF seed
    <3>2. base' = 0
      BY <3>1, SumAfterStep DEF BalanceUpToAsOf, balanceUpToSeq
    <3>3. QED BY <2>4, <3>2 DEF PageBase
  <2>5. QED BY <2>2, <2>3, <2>4
<1>5. /\ (WindowSettled(query)' <=> WindowSettled(query)) /\ (WindowInOrder' <=> WindowInOrder)
      /\ (IsTrail' <=> IsTrail) /\ Matching(query)' = Matching(query)
      /\ \A n : BalanceUpToAsOf(query.account, n, query.asOf)' = BalanceUpToAsOf(query.account, n, query.asOf)
      /\ \A S : ReplayAsOf(query.account, S)' = ReplayAsOf(query.account, S)
  BY <1>1, ReadsStay
<1>6. Clean' <=> Clean
  BY <1>1, <1>5 DEF Clean, NoProcessAhead
<1>7. PageBase' = PageBase
  <2>1. LastOf(query, cursor)' = LastOf(query, cursor)
    BY <1>1 DEF LastOf, Before, FeedBefore, AccountBefore, timelineVars, tables
  <2>2. BalanceUpToAsOf(query.account, LastOf(query, cursor), query.asOf)'
          = BalanceUpToAsOf(query.account, LastOf(query, cursor), query.asOf)
    BY <1>1, <2>1 DEF BalanceUpToAsOf, EntriesAsOf, PostedBy, timelineVars, tables
  <2>3. ReplayAsOf(query.account, {F - 1 : F \in query.from})'
          = ReplayAsOf(query.account, {F - 1 : F \in query.from})
    BY <1>1 DEF ReplayAsOf, EntriesAsOf, PostedBy, timelineVars, tables
  <2>4. QED BY <1>1, <2>2, <2>3 DEF PageBase
<1>8. TrailInv'
  BY <1>1, <1>2, <1>4, <1>5, <1>6, <1>7 DEF TrailInv
<1>9. RunningBalancesAreReplays'
  BY <1>1, <1>2, <1>5 DEF RunningBalancesAreReplays, NoProcessAhead
<1>10. CloseInv'
  BY <1>1 DEF CloseInv
<1>11. QED BY <1>8, <1>9, <1>10 DEF RunsInv

\* The rows of a page, when they are read.
LEMMA ReadKeepsRuns ==
  ASSUME TimelineInv, RowsInv, WalkInv, RunsInv, ReadRows
  PROVE  RunsInv'
<1>1. /\ pc = "rows" /\ pc' = "page"
      /\ UNCHANGED <<timelineVars, query, cursor, base, delivered, balance, asked>>
  BY DEF ReadRows
<1>2. TrailInv /\ RunningBalancesAreReplays /\ CloseInv
  BY DEF RunsInv
<1>3. query \in Query
  BY <1>1 DEF WalkInv
<1>4. /\ (WindowSettled(query)' <=> WindowSettled(query)) /\ (WindowInOrder' <=> WindowInOrder)
      /\ (IsTrail' <=> IsTrail) /\ Matching(query)' = Matching(query) /\ Own' = Own
      /\ OwnSide' = OwnSide
      /\ \A n : BalanceUpToAsOf(query.account, n, query.asOf)' = BalanceUpToAsOf(query.account, n, query.asOf)
      /\ \A S : ReplayAsOf(query.account, S)' = ReplayAsOf(query.account, S)
  BY <1>1, ReadsStay
<1>5. Clean' <=> Clean
  BY <1>1, <1>4 DEF Clean, NoProcessAhead
<1>6. rows' \subseteq Matching(query)
  BY RowsRead DEF Remaining
<1>7. ASSUME IsTrail PROVE rows' \in SUBSET DOMAIN Own
  BY <1>6, <1>7 DEF Matching, MatchingEntries, IsTrail, Own
<1>8. \A n : runningBalance(n)' = base + SumAfter(OwnSide, Restrict(Own, rows'), 0)[n]
  BY <1>1, <1>4 DEF runningBalance, Own, OwnSide
<1>9. TrailInv'
  <2>1. asked'.settled => pc' # "idle" /\ query'.kind = "audit" /\ WindowSettled(query)'
    BY <1>1, <1>2, <1>4 DEF TrailInv
  <2>2. IsTrail => (cursor \cup rows)' \subseteq Matching(query)'
    BY <1>1, <1>2, <1>4, <1>6 DEF TrailInv
  <2>3. IsTrail /\ Clean => \A n \in rows' :
          runningBalance(n)' = BalanceUpToAsOf(query.account, n, query.asOf)'
    BY <1>2, <1>4, <1>8, PageRuns
  <2>4. QED BY <1>1, <1>4, <1>5, <2>1, <2>2, <2>3 DEF TrailInv
<1>10. RunningBalancesAreReplays'
  BY <1>1, <1>2, <1>4 DEF RunningBalancesAreReplays, NoProcessAhead
<1>11. CloseInv'
  <2> SUFFICES ASSUME query.kind = "audit", NEW T \in query.asOf \cup query.to, EndsAt(T)', ~more'
               PROVE  LastRunning' = ReplayAsOf(query.account, {T})'
    BY <1>1 DEF CloseInv
  <2>1. IsTrail /\ EndsAt(T)
    BY <1>1, <1>4 DEF EndsAt, NoProcessAhead, IsTrail
  <2>2. Clean /\ (query.asOf = {} \/ query.to = {}) /\ \A F \in query.from : F <= T
    BY <2>1 DEF EndsAt, Clean
  <2>3. base + ReplayBalance(OwnSide, Restrict(Own, rows')) = ReplayAsOf(query.account, {T})
    BY <1>2, <2>1, <2>2, PageRuns
  <2>4. base \in Int
    <3>1. Amounts(Own) /\ DOMAIN Own = 1..Len(Own) /\ Len(Own) \in Nat
      BY <1>3, <2>1, TrailFacts
    <3>2. base = ReplayBalance(OwnSide, Restrict(Own, Prior)) /\ Prior \in SUBSET DOMAIN Own
      BY <1>2, <2>1, <2>2, <3>1, PageFacts DEF Prior, Counted
    <3>3. Amounts(Restrict(Own, Prior)) /\ DOMAIN Restrict(Own, Prior) \subseteq 1..Len(Own)
      BY <3>1, <3>2, RowsOf
    <3>4. QED BY <3>1, <3>2, <3>3, ReplayIsSumUpTo, SumAfterType
  <2>5. PICK page \in SUBSET DOMAIN Own : page = rows'
    BY <1>7, <2>1
  <2>6. (IF page = {} THEN base ELSE base + SumAfter(OwnSide, Restrict(Own, page), 0)[LastOf(query, page)])
          = base + ReplayBalance(OwnSide, Restrict(Own, page))
    BY <1>3, <2>1, <2>4, LastOfPage
  <2>7. LastOf(query, rows)' = LastOf(query, page)
    BY <1>1, <2>1, <2>5 DEF LastOf, Before, IsTrail
  <2>8. LastRunning' = base + ReplayBalance(OwnSide, Restrict(Own, page))
    BY <1>1, <1>8, <2>5, <2>6, <2>7 DEF LastRunning
  <2>9. QED BY <1>4, <2>3, <2>5, <2>8
<1>12. QED BY <1>9, <1>10, <1>11 DEF RunsInv

\* A page delivered.
LEMMA DeliverKeepsRuns ==
  ASSUME TimelineInv, RowsInv, WalkInv, RunsInv, DeliverPage \/ ExportGoesOn \/ DeliverLastPage
  PROVE  RunsInv'
<1>1. /\ pc = "page" /\ delivered' = Append(delivered, Items)
      /\ UNCHANGED <<timelineVars, query, asked>>
  BY DEF DeliverPage, ExportGoesOn, DeliverLastPage
<1>2. TrailInv /\ RunningBalancesAreReplays /\ CloseInv
  BY DEF RunsInv
<1>3. query \in Query /\ (more => rows # {}) /\ rows \subseteq Listed(query)
  BY <1>1 DEF WalkInv
<1>4. /\ (WindowSettled(query)' <=> WindowSettled(query)) /\ (WindowInOrder' <=> WindowInOrder)
      /\ (IsTrail' <=> IsTrail) /\ Matching(query)' = Matching(query) /\ Own' = Own
      /\ \A n : BalanceUpToAsOf(query.account, n, query.asOf)' = BalanceUpToAsOf(query.account, n, query.asOf)
      /\ \A S : ReplayAsOf(query.account, S)' = ReplayAsOf(query.account, S)
  BY <1>1, ReadsStay
<1>5. Clean' <=> Clean
  BY <1>1, <1>4 DEF Clean, NoProcessAhead
<1>6. IsTrail => /\ cursor \cup rows \subseteq Matching(query)
                 /\ Clean => \A n \in rows :
                      runningBalance(n) = BalanceUpToAsOf(query.account, n, query.asOf)
  BY <1>1, <1>2 DEF TrailInv
<1>7. asked'.settled => query'.kind = "audit" /\ WindowSettled(query)'
  BY <1>1, <1>2, <1>4 DEF TrailInv
<1>8. RunningBalancesAreReplays'
  <2> SUFFICES ASSUME IsTrail, Clean, NEW i \in DOMAIN delivered', NEW n \in DOMAIN delivered'[i]
               PROVE  delivered'[i][n] = BalanceUpToAsOf(query.account, n, query.asOf)
    BY <1>1, <1>4, <1>5 DEF RunningBalancesAreReplays, Clean, NoProcessAhead
  <2>1. /\ DOMAIN delivered' = 1..(Len(delivered) + 1) /\ Len(delivered) \in Nat
        /\ DOMAIN delivered = 1..Len(delivered)
        /\ \A j \in DOMAIN delivered : delivered'[j] = delivered[j]
        /\ delivered'[Len(delivered) + 1] = Items
    BY <1>1, DeliverEffect
  <2>2. CASE i \in DOMAIN delivered
    BY <1>2, <2>1, <2>2 DEF RunningBalancesAreReplays, Clean
  <2>3. CASE i = Len(delivered) + 1
    <3>1. n \in rows /\ delivered'[i] = Items
      BY <2>1, <2>3, ItemsAreRows
    <3>2. Items[n] = runningBalance(n)
      BY <3>1 DEF Items, TrailItems, IsTrail
    <3>3. QED BY <1>6, <3>1, <3>2
  <2>4. QED BY <2>1, <2>2, <2>3
<1>9. CASE more
  <2>1. /\ cursor' = {LastOf(query, rows)} /\ rows' = {}
        /\ pc' = IF query.kind = "audit" THEN "base" ELSE "rows"
        /\ query.kind = "csv" => base' = LastRunning
    BY <1>1, <1>9 DEF DeliverPage, ExportGoesOn, DeliverLastPage
  <2>2. CASE IsTrail
    <3>1. PICK last \in rows : last = LastOf(query, rows)
      <4>1. IsFiniteSet(rows) /\ Ordered(query, rows)
        BY <1>3, ListedKeys, OrderedSubset, FS_Subset
      <4>2. QED BY <1>3, <1>9, <4>1, LastKey
    <3>2. LastOf(query, cursor)' = last
      BY <2>1, <3>1 DEF LastOf
    <3>3. cursor' = {last}
      BY <2>1, <3>1
    <3>4. Clean => runningBalance(last) = BalanceUpToAsOf(query.account, last, query.asOf)
      BY <1>6, <2>2, <3>1
    <3>5. LastRunning = runningBalance(last)
      BY <1>3, <1>9, <3>1 DEF LastRunning
    <3>6. PageBase' = BalanceUpToAsOf(query.account, last, query.asOf)
      <4>1. PageBase' = BalanceUpToAsOf(query.account, last, query.asOf)'
        BY <1>1, <3>2, <3>3 DEF PageBase, BalanceUpToAsOf, EntriesAsOf, PostedBy
      <4>2. QED BY <1>4, <4>1
    <3>7. (cursor \cup rows)' \subseteq Matching(query)'
      BY <1>4, <1>6, <2>1, <2>2, <3>1, <3>3
    <3>8. TrailInv'
      BY <1>1, <1>5, <1>7, <2>1, <2>2, <3>4, <3>5, <3>6, <3>7 DEF TrailInv, IsTrail
    <3>9. QED BY <1>8, <2>1, <3>8 DEF RunsInv, CloseInv
  <2>3. CASE ~IsTrail
    BY <1>4, <1>7, <1>8, <2>1, <2>3 DEF RunsInv, CloseInv, TrailInv
  <2>4. QED BY <2>2, <2>3
<1>10. CASE ~more
  <2>1. /\ UNCHANGED <<cursor, base, rows>> /\ pc' = "done"
        /\ balance' = IF query.kind = "audit" THEN BalanceAsOf(query.account, windowEnd(query)) ELSE 0
    BY <1>1, <1>10 DEF DeliverPage, ExportGoesOn, DeliverLastPage
  <2>2. TrailInv'
    BY <1>1, <1>4, <1>6, <1>7, <2>1 DEF TrailInv
  <2>3. CloseInv'
    <3> SUFFICES ASSUME query.kind = "audit", NEW T \in query.asOf \cup query.to, EndsAt(T)'
                 PROVE  LastRunning' = balance'
      BY <1>1, <2>1 DEF CloseInv
    <3>1. EndsAt(T) /\ IsTrail
      BY <1>1, <1>4 DEF EndsAt, NoProcessAhead, IsTrail
    <3>2. LastRunning = ReplayAsOf(query.account, {T})
      BY <1>1, <1>2, <1>10, <3>1 DEF CloseInv
    <3>3. /\ query.account \in Account
          /\ query.asOf \in SUBSET Int /\ query.to \in SUBSET Int
          /\ (\A S, U \in query.asOf : S = U) /\ \A S, U \in query.to : S = U
      BY <1>3, <3>1, TrailFacts, TimesAreSets
    <3>4. windowEnd(query) = {T} /\ T \in Int
      BY <3>1, <3>3 DEF windowEnd, EndsAt
    <3>5. balance' = ReplayAsOf(query.account, {T})
      BY <2>1, <3>1, <3>3, <3>4, BalanceAsOfIsReplay DEF EndsAt
    <3>6. LastRunning' = LastRunning
      <4>1. LastOf(query, rows)' = LastOf(query, rows)
        BY <1>1, <2>1, <3>1 DEF LastOf, Before, IsTrail
      <4>2. \A n : runningBalance(n)' = runningBalance(n)
        BY <1>1, <2>1 DEF runningBalance, timelineVars, tables
      <4>3. QED BY <2>1, <4>1, <4>2 DEF LastRunning
    <3>7. QED BY <3>2, <3>5, <3>6
  <2>4. QED BY <1>8, <2>2, <2>3 DEF RunsInv
<1>11. QED BY <1>9, <1>10

\* What the running balances rest on is inductive.
LEMMA RunsInvariant == Spec => []RunsInv
<1>1. ASSUME TimelineInv, RowsInv, WalkInv, RunsInv, [Next]_vars
      PROVE  RunsInv'
  <2>1. CASE UNCHANGED readVars
    BY <1>1, <2>1, WritersKeepRuns
  <2>2. ASSUME NEW q \in Query, Ask(q) PROVE RunsInv'
    BY <1>1, <2>2, AskKeepsRuns
  <2>3. CASE ReadBase
    BY <1>1, <2>3, BaseKeepsRuns
  <2>4. CASE ReadRows
    BY <1>1, <2>4, ReadKeepsRuns
  <2>5. CASE DeliverPage \/ ExportGoesOn \/ DeliverLastPage
    BY <1>1, <2>5, DeliverKeepsRuns
  <2>6. QED BY <1>1, <2>1, <2>2, <2>3, <2>4, <2>5 DEF Next, ReaderNext, vars
<1>2. QED BY <1>1, InitRunsInv, RowsInvariant, ReadsTimeline, ReadsPagesAdvance, PTL DEF Spec

\* RunningBalancesAreReplays, for every value of the constants: a page that starts
\* in the middle continues where the one before it stopped, whatever is committed
\* meanwhile.
THEOREM ReadsRunningBalances == Spec => []RunningBalancesAreReplays
<1>1. RunsInv => RunningBalancesAreReplays
  BY DEF RunsInv
<1>2. QED BY <1>1, RunsInvariant, PTL

\* TrailsCloseOnTheirBalance, for every value of the constants: the running balance
\* of the last row is the balance of the account at the end of the window.
THEOREM ReadsTrailsClose == Spec => []TrailsCloseOnTheirBalance
<1>1. RunsInv => TrailsCloseOnTheirBalance
  <2> SUFFICES ASSUME RunsInv, pc = "done", query.kind = "audit", NEW T \in query.asOf \cup query.to,
                      EndsAt(T)
               PROVE  LastRunning = balance
    BY DEF TrailsCloseOnTheirBalance, EndsAt
  <2>1. QED BY DEF RunsInv, CloseInv
<1>2. QED BY <1>1, RunsInvariant, PTL

=============================================================================
