---------------------------- MODULE ReplayProofs ----------------------------
(***************************************************************************)
(* Facts about the sums of module Replay, for every history, and about     *)
(* totals over finite sets.  The library states induction with an operator *)
(* parameter; here each induction is done by hand, as the least            *)
(* counterexample of a set of numbers.                                     *)
(***************************************************************************)
EXTENDS Replay, Functions, FiniteSetTheorems, WellFoundedInduction, TLAPS

\* A non-empty set of naturals has a least element.
LEMMA LeastNat ==
  ASSUME NEW T \in SUBSET Nat, T # {}
  PROVE  \E x \in T : \A y \in T : x <= y
<1>1. PICK x \in T : \A y \in T : ~ (<<y, x>> \in OpToRel(<, Nat))
  BY NatLessThanWellFounded, WFMin
<1>2. \A y \in T : ~ (y < x)
  BY <1>1 DEF OpToRel
<1>3. QED BY <1>2

\* The equation SumAfter is defined by, for a function on 0..n.
Sums(normalSide, log, lo, S, f) ==
  \A k \in S : f[k] = IF k <= lo THEN 0 ELSE f[k - 1] + SignedAmount(normalSide, log, k)

\* The equation has a solution on every initial segment.
LEMMA PartialSums ==
  ASSUME NEW normalSide, NEW log, NEW lo \in Nat
  PROVE  \A n \in Nat : \E f : f = [k \in 0..n |-> f[k]] /\ Sums(normalSide, log, lo, 0..n, f)
<1> DEFINE T == {n \in Nat : ~ \E f : f = [k \in 0..n |-> f[k]] /\ Sums(normalSide, log, lo, 0..n, f)}
<1>1. SUFFICES ASSUME T # {} PROVE FALSE
  OBVIOUS
<1>2. PICK n \in T : \A m \in T : n <= m
  BY <1>1, LeastNat
<1>3. n \in Nat
  OBVIOUS
<1>4. CASE n = 0
  <2> DEFINE g == [k \in 0..0 |-> 0]
  <2>1. g = [k \in 0..0 |-> g[k]]
    OBVIOUS
  <2>2. Sums(normalSide, log, lo, 0..0, g)
    BY DEF Sums
  <2>3. QED BY <2>1, <2>2, <1>4
<1>5. CASE n # 0
  <2>1. n - 1 \in Nat /\ n - 1 \notin T
    BY <1>2, <1>3, <1>5
  <2>2. PICK f : f = [k \in 0..(n-1) |-> f[k]] /\ Sums(normalSide, log, lo, 0..(n-1), f)
    BY <2>1
  <2> DEFINE v == IF n <= lo THEN 0 ELSE f[n - 1] + SignedAmount(normalSide, log, n)
             g == [k \in 0..n |-> IF k = n THEN v ELSE f[k]]
  <2>3. g = [k \in 0..n |-> g[k]]
    OBVIOUS
  <2>4. Sums(normalSide, log, lo, 0..n, g)
    <3>1. SUFFICES ASSUME NEW k \in 0..n
                   PROVE  g[k] = IF k <= lo THEN 0 ELSE g[k - 1] + SignedAmount(normalSide, log, k)
      BY DEF Sums
    <3>2. CASE k = n
      <4>1. g[n] = v
        BY <1>3
      <4>2. g[n - 1] = f[n - 1]
        BY <1>3, <1>5, <2>1
      <4> HIDE DEF g
      <4>3. QED BY <4>1, <4>2, <3>2
    <3>3. CASE k # n
      <4>1. k \in 0..(n-1)
        BY <1>3, <3>3
      <4>2. f[k] = IF k <= lo THEN 0 ELSE f[k - 1] + SignedAmount(normalSide, log, k)
        BY <4>1, <2>2 DEF Sums
      <4>3. g[k] = f[k]
        BY <3>3
      <4>4. k > lo => g[k - 1] = f[k - 1]
        BY <1>3, <4>1
      <4> HIDE DEF g
      <4>5. QED BY <4>2, <4>3, <4>4, <4>1
    <3>4. QED BY <3>2, <3>3
  <2>5. QED BY <2>3, <2>4, <1>3
<1>6. QED BY <1>4, <1>5

\* Two solutions agree where both are defined.
LEMMA SumsAgree ==
  ASSUME NEW normalSide, NEW log, NEW lo \in Nat, NEW n \in Nat, NEW m \in Nat, NEW f, NEW g,
         Sums(normalSide, log, lo, 0..n, f), Sums(normalSide, log, lo, 0..m, g)
  PROVE  \A k \in 0..n : k <= m => f[k] = g[k]
<1> DEFINE T == {k \in 0..n : k <= m /\ f[k] # g[k]}
<1>1. SUFFICES ASSUME T # {} PROVE FALSE
  OBVIOUS
<1>2. PICK k \in T : \A j \in T : k <= j
  <2>1. T \in SUBSET Nat
    OBVIOUS
  <2> HIDE DEF T
  <2>2. QED BY <1>1, <2>1, LeastNat
<1>3. k \in Nat /\ k <= n /\ k <= m
  OBVIOUS
<1>4. /\ f[k] = IF k <= lo THEN 0 ELSE f[k - 1] + SignedAmount(normalSide, log, k)
      /\ g[k] = IF k <= lo THEN 0 ELSE g[k - 1] + SignedAmount(normalSide, log, k)
  BY <1>3 DEF Sums
<1>5. CASE k <= lo
  BY <1>4, <1>5
<1>6. CASE k > lo
  <2>1. k - 1 \in 0..n /\ k - 1 <= m /\ k - 1 \notin T
    BY <1>2, <1>3, <1>6
  <2>2. f[k - 1] = g[k - 1]
    BY <2>1
  <2>3. QED BY <1>3, <1>4, <1>6, <2>2
<1>7. QED BY <1>3, <1>5, <1>6

\* SumAfter is the function its recursive definition says.
THEOREM SumAfterDef ==
  ASSUME NEW normalSide, NEW log, NEW lo \in Nat
  PROVE  LET s == SumAfter(normalSide, log, lo)
         IN  s = [hi \in Nat |-> IF hi <= lo THEN 0
                                 ELSE s[hi - 1] + SignedAmount(normalSide, log, hi)]
<1> DEFINE P(n) == CHOOSE f : f = [k \in 0..n |-> f[k]] /\ Sums(normalSide, log, lo, 0..n, f)
           h == [n \in Nat |-> P(n)[n]]
<1>1. \A n \in Nat : Sums(normalSide, log, lo, 0..n, P(n))
  BY PartialSums
<1>2. \A n \in Nat : h[n] = IF n <= lo THEN 0 ELSE h[n - 1] + SignedAmount(normalSide, log, n)
  <2>1. SUFFICES ASSUME NEW n \in Nat
                 PROVE  h[n] = IF n <= lo THEN 0 ELSE h[n - 1] + SignedAmount(normalSide, log, n)
    OBVIOUS
  <2> HIDE DEF P
  <2>2. P(n)[n] = IF n <= lo THEN 0 ELSE P(n)[n - 1] + SignedAmount(normalSide, log, n)
    BY <1>1 DEF Sums
  <2>3. n > lo => n - 1 \in Nat /\ P(n)[n - 1] = P(n - 1)[n - 1]
    <3>1. SUFFICES ASSUME n > lo PROVE n - 1 \in Nat /\ P(n)[n - 1] = P(n - 1)[n - 1]
      OBVIOUS
    <3>2. n - 1 \in Nat /\ n - 1 \in 0..n
      BY <3>1
    <3>3. Sums(normalSide, log, lo, 0..n, P(n)) /\ Sums(normalSide, log, lo, 0..(n-1), P(n-1))
      BY <1>1, <3>2
    <3>4. QED BY <3>2, <3>3, SumsAgree
  <2>4. QED BY <2>2, <2>3
<1> HIDE DEF h
<1>3. h = [hi \in Nat |-> IF hi <= lo THEN 0 ELSE h[hi - 1] + SignedAmount(normalSide, log, hi)]
  <2>1. h = [n \in Nat |-> h[n]]
    BY DEF h
  <2>2. QED BY <2>1, <1>2
<1>4. QED BY <1>3 DEF SumAfter

\* One step of the recursion.
LEMMA SumAfterStep ==
  ASSUME NEW normalSide, NEW log, NEW lo \in Nat, NEW hi \in Nat
  PROVE  SumAfter(normalSide, log, lo)[hi] =
           IF hi <= lo THEN 0
           ELSE SumAfter(normalSide, log, lo)[hi - 1] + SignedAmount(normalSide, log, hi)
BY SumAfterDef

\* The entries a sum may meet: amounts are integers.
Amounts(log) == \A n \in DOMAIN log : log[n].amount \in Int

LEMMA SignedAmountType ==
  ASSUME NEW normalSide, NEW log, NEW n, Amounts(log)
  PROVE  SignedAmount(normalSide, log, n) \in Int
BY DEF SignedAmount, Amounts

\* Sums are integers.
LEMMA SumAfterType ==
  ASSUME NEW normalSide, NEW log, Amounts(log), NEW lo \in Nat
  PROVE  \A hi \in Nat : SumAfter(normalSide, log, lo)[hi] \in Int
<1> DEFINE T == {n \in Nat : SumAfter(normalSide, log, lo)[n] \notin Int}
<1>1. SUFFICES ASSUME T # {} PROVE FALSE
  OBVIOUS
<1>2. PICK n \in T : \A m \in T : n <= m
  BY <1>1, LeastNat
<1>3. CASE n <= lo
  BY <1>3, SumAfterStep
<1>4. CASE n > lo
  <2>1. n - 1 \in Nat /\ n - 1 \notin T
    BY <1>2, <1>4
  <2>2. QED BY <2>1, <1>4, SumAfterStep, SignedAmountType
<1>5. QED BY <1>3, <1>4

\* A sum reads only the entries it adds: histories that agree after lo and up
\* to hi have the same sum.
LEMMA SumAfterCongruence ==
  ASSUME NEW normalSide, NEW log, NEW log2, NEW lo \in Nat, NEW hi \in Nat,
         \A n \in 1..hi : SignedAmount(normalSide, log2, n) = SignedAmount(normalSide, log, n)
  PROVE  SumAfter(normalSide, log2, lo)[hi] = SumAfter(normalSide, log, lo)[hi]
<1> DEFINE T == {n \in 0..hi : SumAfter(normalSide, log2, lo)[n] # SumAfter(normalSide, log, lo)[n]}
<1>1. SUFFICES ASSUME T # {} PROVE FALSE
  OBVIOUS
<1>2. PICK n \in T : \A m \in T : n <= m
  <2>1. T \in SUBSET Nat
    OBVIOUS
  <2> HIDE DEF T
  <2>2. QED BY <1>1, <2>1, LeastNat
<1>3. CASE n <= lo
  BY <1>3, SumAfterStep
<1>4. CASE n > lo
  <2>1. n - 1 \in 0..hi /\ n - 1 \notin T /\ n \in 1..hi
    BY <1>2, <1>4
  <2>2. SumAfter(normalSide, log2, lo)[n - 1] = SumAfter(normalSide, log, lo)[n - 1]
    BY <2>1
  <2>3. QED BY <2>1, <2>2, <1>4, SumAfterStep
<1>5. QED BY <1>3, <1>4

\* Splitting a sum at a snapshot: what comes before and what comes after.
THEOREM SumSplits ==
  ASSUME NEW normalSide, NEW log, Amounts(log), NEW s \in Nat
  PROVE  \A hi \in Nat : s <= hi =>
           SumAfter(normalSide, log, 0)[hi] =
             SumAfter(normalSide, log, 0)[s] + SumAfter(normalSide, log, s)[hi]
<1> DEFINE A(n) == SumAfter(normalSide, log, 0)[n]
           B(n) == SumAfter(normalSide, log, s)[n]
           T == {n \in Nat : s <= n /\ A(n) # A(s) + B(n)}
<1>1. SUFFICES ASSUME T # {} PROVE FALSE
  OBVIOUS
<1>2. PICK n \in T : \A m \in T : n <= m
  BY <1>1, LeastNat
<1>3. \A k \in Nat : A(k) \in Int /\ B(k) \in Int
  BY SumAfterType
<1>4. /\ B(n) = IF n <= s THEN 0 ELSE B(n - 1) + SignedAmount(normalSide, log, n)
      /\ A(n) = IF n <= 0 THEN 0 ELSE A(n - 1) + SignedAmount(normalSide, log, n)
  BY SumAfterStep
<1> HIDE DEF A, B
<1>5. CASE n <= s
  <2>1. n = s
    BY <1>5
  <2>2. QED BY <2>1, <1>3, <1>4
<1>6. CASE n > s
  <2>1. n - 1 \in Nat /\ n - 1 \notin T /\ s <= n - 1
    BY <1>2, <1>6
  <2>2. A(n - 1) = A(s) + B(n - 1)
    BY <2>1
  <2>3. SignedAmount(normalSide, log, n) \in Int
    BY SignedAmountType
  <2>4. QED BY <1>3, <1>4, <1>6, <2>1, <2>2, <2>3
<1>7. QED BY <1>5, <1>6

\* The last position of a history without gaps.
LEMMA LastSeqOfInterval ==
  ASSUME NEW n \in Nat
  PROVE  LastSeq(1..n) = n
<1>1. CASE n = 0
  BY <1>1 DEF LastSeq
<1>2. CASE n # 0
  <2>1. n \in 1..n /\ \A m \in 1..n : m <= n
    BY <1>2
  <2>2. \A x \in 1..n : (\A m \in 1..n : m <= x) => x = n
    BY <2>1
  <2>3. QED BY <2>1, <2>2 DEF LastSeq
<1>3. QED BY <1>1, <1>2

\* The latest of a bounded, non-empty set of positions is one of them.
LEMMA LastSeqOfBounded ==
  ASSUME NEW n \in Nat, NEW S \in SUBSET (1..n), S # {}
  PROVE  LastSeq(S) \in S /\ \A m \in S : m <= LastSeq(S)
<1> DEFINE T == {n - m : m \in S}
<1>1. T \in SUBSET Nat /\ T # {}
  <2>1. \A m \in S : m \in 1..n
    OBVIOUS
  <2>2. \A m \in 1..n : n - m \in Nat
    OBVIOUS
  <2>3. T \subseteq Nat
    BY <2>1, <2>2
  <2>4. PICK m : m \in S
    OBVIOUS
  <2>5. n - m \in T
    BY <2>4
  <2>6. QED BY <2>3, <2>5
<1>2. PICK x \in T : \A y \in T : x <= y
  <2> HIDE DEF T
  <2>1. QED BY <1>1, LeastNat
<1>3. PICK k \in S : x = n - k
  OBVIOUS
<1>4. \A m \in S : m <= k
  <2>1. SUFFICES ASSUME NEW m \in S PROVE m <= k
    OBVIOUS
  <2>2. n - m \in T
    OBVIOUS
  <2>3. n - k <= n - m
    BY <2>2, <1>2, <1>3
  <2>4. QED BY <2>3
<1>5. QED BY <1>3, <1>4 DEF LastSeq

\* A snapshot table is exact when every snapshot holds the replayed balance at
\* its position.
ExactSnapshots(normalSide, log, snaps, n) ==
  /\ DOMAIN snaps \subseteq 1..n
  /\ \A s \in DOMAIN snaps : snaps[s] = balanceUpToSeq(normalSide, log, s)

\* ledger.store.ts:360-364: over a history without gaps and exact snapshots, the
\* snapshot-backed balance is the full replay, whichever snapshots exist.
THEOREM SnapshotBackedBalance ==
  ASSUME NEW normalSide, NEW log, NEW snaps, NEW n \in Nat,
         Amounts(log), DOMAIN log = 1..n, ExactSnapshots(normalSide, log, snaps, n)
  PROVE  balancesFor(normalSide, log, snaps) = ReplayBalance(normalSide, log)
<1> DEFINE s == latestSnapshotSeq(snaps)
<1>1. LastSeq(DOMAIN log) = n
  BY LastSeqOfInterval
<1>2. ReplayBalance(normalSide, log) = SumAfter(normalSide, log, 0)[n]
  BY <1>1 DEF ReplayBalance, balanceUpToSeq
<1>3. CASE DOMAIN snaps = {}
  <2>1. s = 0
    BY <1>3 DEF latestSnapshotSeq, LastSeq
  <2>2. SumAfter(normalSide, log, 0)[n] \in Int
    BY SumAfterType
  <2>3. QED BY <2>1, <2>2, <1>1, <1>2 DEF balancesFor
<1>4. CASE DOMAIN snaps # {}
  <2>1. s \in DOMAIN snaps
    BY <1>4, LastSeqOfBounded DEF ExactSnapshots, latestSnapshotSeq
  <2>2. s \in 1..n /\ snaps[s] = SumAfter(normalSide, log, 0)[s]
    BY <2>1 DEF ExactSnapshots, balanceUpToSeq
  <2>3. balancesFor(normalSide, log, snaps) = snaps[s] + SumAfter(normalSide, log, s)[n]
    BY <2>2, <1>1 DEF balancesFor
  <2> HIDE DEF s
  <2>4. SumAfter(normalSide, log, 0)[n] =
          SumAfter(normalSide, log, 0)[s] + SumAfter(normalSide, log, s)[n]
    BY <2>2, SumSplits
  <2>5. QED BY <2>2, <2>3, <2>4, <1>2
<1>5. QED BY <1>3, <1>4

\* Appending an entry moves the balance by its signed amount, as
\* balanceAfterEntry predicts.
THEOREM BalanceAfterAppend ==
  ASSUME NEW normalSide, NEW log, NEW log2, NEW n \in Nat, NEW tx,
         NEW direction, NEW amount \in Int,
         Amounts(log), DOMAIN log = 1..n, DOMAIN log2 = 1..(n + 1),
         \A k \in 1..n : log2[k] = log[k],
         log2[n + 1] = [tx |-> tx, direction |-> direction, amount |-> amount]
  PROVE  ReplayBalance(normalSide, log2) =
           balanceAfterEntry(ReplayBalance(normalSide, log), normalSide, direction, amount)
<1>1. LastSeq(DOMAIN log) = n /\ LastSeq(DOMAIN log2) = n + 1
  BY LastSeqOfInterval
<1>2. SumAfter(normalSide, log2, 0)[n + 1] =
        SumAfter(normalSide, log2, 0)[n] + SignedAmount(normalSide, log2, n + 1)
  BY SumAfterStep
<1>3. SumAfter(normalSide, log2, 0)[n] = SumAfter(normalSide, log, 0)[n]
  <2>1. \A k \in 1..n : SignedAmount(normalSide, log2, k) = SignedAmount(normalSide, log, k)
    BY DEF SignedAmount
  <2>2. QED BY <2>1, SumAfterCongruence
<1>4. SignedAmount(normalSide, log2, n + 1) = IF direction = normalSide THEN amount ELSE -amount
  BY DEF SignedAmount
<1>5. SumAfter(normalSide, log, 0)[n] \in Int
  BY SumAfterType
<1>6. QED BY <1>1, <1>2, <1>3, <1>4, <1>5
       DEF ReplayBalance, balanceUpToSeq, balanceAfterEntry, balanceEffect

\* A history that ends at or before position n has its balance there.
LEMMA ReplayIsSumUpTo ==
  ASSUME NEW normalSide, NEW log, Amounts(log), NEW n \in Nat, DOMAIN log \subseteq 1..n
  PROVE  ReplayBalance(normalSide, log) = SumAfter(normalSide, log, 0)[n]
<1> DEFINE h == LastSeq(DOMAIN log)
           A(k) == SumAfter(normalSide, log, 0)[k]
           T == {k \in 0..n : h <= k /\ A(k) # A(h)}
<1> SUFFICES ASSUME A(h) # A(n) PROVE FALSE
  BY DEF ReplayBalance, balanceUpToSeq
<1>1. h \in 0..n /\ \A m \in DOMAIN log : m <= h
  <2>1. CASE DOMAIN log = {}
    BY <2>1 DEF LastSeq
  <2>2. CASE DOMAIN log # {}
    <3>1. h \in DOMAIN log /\ \A m \in DOMAIN log : m <= h
      BY <2>2, LastSeqOfBounded
    <3>2. QED BY <3>1
  <2>3. QED BY <2>1, <2>2
<1> HIDE DEF h, A
<1>2. T \in SUBSET Nat /\ T # {}
  BY <1>1
<1>3. PICK k \in T : \A m \in T : k <= m
  <2> HIDE DEF T
  <2>1. QED BY <1>2, LeastNat
<1>4. k \in Nat /\ k <= n /\ h <= k /\ A(k) # A(h) /\ k # h
  OBVIOUS
<1>5. k - 1 \in 0..n /\ h <= k - 1 /\ k - 1 < k
  BY <1>1, <1>4
<1>6. A(k - 1) = A(h)
  BY <1>3, <1>5
<1>7. SignedAmount(normalSide, log, k) = 0
  BY <1>1, <1>4 DEF SignedAmount
<1>8. A(k) = A(k - 1) + SignedAmount(normalSide, log, k)
  <2>1. ~(k <= 0)
    BY <1>1, <1>5
  <2>2. QED BY <1>4, <2>1, SumAfterStep DEF A
<1>9. A(h) \in Int
  BY <1>1, SumAfterType DEF A
<1>10. QED BY <1>4, <1>6, <1>7, <1>8, <1>9

\* The rows of a history at the positions in S.
LEMMA RowsOf ==
  ASSUME NEW normalSide, NEW log, Amounts(log), NEW S \in SUBSET DOMAIN log
  PROVE  /\ Amounts(Restrict(log, S)) /\ DOMAIN Restrict(log, S) = S
         /\ \A k : SignedAmount(normalSide, Restrict(log, S), k) =
                     IF k \in S THEN SignedAmount(normalSide, log, k) ELSE 0
BY DEF Amounts, Restrict, SignedAmount

\* A sum over two parts of the rows is the sum of their sums.
LEMMA SumOfParts ==
  ASSUME NEW normalSide, NEW log, Amounts(log), NEW n \in Nat,
         NEW A \in SUBSET DOMAIN log, NEW B \in SUBSET DOMAIN log, NEW C \in SUBSET DOMAIN log,
         A \cap B = {}, \A k \in 1..n : k \in C <=> k \in A \cup B
  PROVE  SumAfter(normalSide, Restrict(log, C), 0)[n] =
           SumAfter(normalSide, Restrict(log, A), 0)[n] + SumAfter(normalSide, Restrict(log, B), 0)[n]
<1> DEFINE amount(S, k) == SignedAmount(normalSide, Restrict(log, S), k)
           sum(S, k) == SumAfter(normalSide, Restrict(log, S), 0)[k]
           T == {k \in 0..n : sum(C, k) # sum(A, k) + sum(B, k)}
<1> SUFFICES ASSUME T # {} PROVE FALSE
  OBVIOUS
<1>1. \A S \in {A, B, C} : \A k \in Nat :
        /\ sum(S, k) \in Int /\ amount(S, k) \in Int
        /\ sum(S, k) = IF k <= 0 THEN 0 ELSE sum(S, k - 1) + amount(S, k)
  <2> TAKE S \in {A, B, C}
  <2>1. Amounts(Restrict(log, S))
    BY RowsOf
  <2>2. QED BY <2>1, SumAfterType, SumAfterStep, SignedAmountType
<1>2. \A k \in 1..n : amount(C, k) = amount(A, k) + amount(B, k)
  <2> TAKE k \in 1..n
  <2>1. SignedAmount(normalSide, log, k) \in Int
    BY SignedAmountType
  <2>2. \A S \in {A, B, C} :
          amount(S, k) = IF k \in S THEN SignedAmount(normalSide, log, k) ELSE 0
    BY RowsOf
  <2> HIDE DEF amount
  <2>3. QED BY <2>1, <2>2
<1> HIDE DEF amount, sum
<1>3. PICK k \in T : \A m \in T : k <= m
  <2>1. T \in SUBSET Nat
    OBVIOUS
  <2> HIDE DEF T
  <2>2. QED BY <2>1, LeastNat
<1>4. k \in Nat /\ k <= n /\ sum(C, k) # sum(A, k) + sum(B, k)
  OBVIOUS
<1>5. k > 0
  BY <1>1, <1>4
<1>6. k - 1 \in 0..n /\ k - 1 \notin T /\ k \in 1..n /\ k - 1 \in Nat
  BY <1>3, <1>4, <1>5
<1>7. sum(C, k - 1) = sum(A, k - 1) + sum(B, k - 1)
  BY <1>6
<1>8. QED BY <1>1, <1>2, <1>4, <1>5, <1>6, <1>7

\* The balance after the rows of P and those of R up to position n is the balance
\* after all the rows that count up to there.
LEMMA RunningOn ==
  ASSUME NEW normalSide, NEW log, Amounts(log), NEW n \in Nat,
         NEW P \in SUBSET DOMAIN log, NEW R \in SUBSET DOMAIN log, NEW C \in SUBSET DOMAIN log,
         P \cap R = {}, P \subseteq 1..n, \A k \in 1..n : k \in C <=> k \in P \cup R
  PROVE  ReplayBalance(normalSide, Restrict(log, P)) + SumAfter(normalSide, Restrict(log, R), 0)[n] =
           SumAfter(normalSide, Restrict(log, C), 0)[n]
<1>1. ReplayBalance(normalSide, Restrict(log, P)) = SumAfter(normalSide, Restrict(log, P), 0)[n]
  BY RowsOf, ReplayIsSumUpTo
<1>2. QED BY <1>1, SumOfParts

\* The balance of two parts of a history together.
LEMMA ReplayOfParts ==
  ASSUME NEW normalSide, NEW log, Amounts(log), NEW n \in Nat, DOMAIN log = 1..n,
         NEW P \in SUBSET DOMAIN log, NEW R \in SUBSET DOMAIN log, P \cap R = {}
  PROVE  ReplayBalance(normalSide, Restrict(log, P \cup R)) =
           ReplayBalance(normalSide, Restrict(log, P)) + ReplayBalance(normalSide, Restrict(log, R))
<1>1. \A S \in {P, R, P \cup R} :
        ReplayBalance(normalSide, Restrict(log, S)) = SumAfter(normalSide, Restrict(log, S), 0)[n]
  BY RowsOf, ReplayIsSumUpTo
<1>2. PICK C \in SUBSET DOMAIN log : C = P \cup R
  OBVIOUS
<1>3. SumAfter(normalSide, Restrict(log, C), 0)[n] =
        SumAfter(normalSide, Restrict(log, P), 0)[n] + SumAfter(normalSide, Restrict(log, R), 0)[n]
  <2>1. \A k \in 1..n : k \in C <=> k \in P \cup R
    BY <1>2
  <2>2. QED BY <2>1, SumOfParts
<1>4. QED BY <1>1, <1>2, <1>3

\* One entry more, after the others, whatever the gaps.
LEMMA ReplayOfAppended ==
  ASSUME NEW normalSide, NEW log, NEW log2, NEW n \in Nat, NEW e, e.amount \in Int,
         Amounts(log), DOMAIN log \subseteq 1..n, DOMAIN log2 = DOMAIN log \cup {n + 1},
         \A k \in DOMAIN log : log2[k] = log[k], log2[n + 1] = e
  PROVE  ReplayBalance(normalSide, log2) =
           balanceAfterEntry(ReplayBalance(normalSide, log), normalSide, e.direction, e.amount)
<1>1. Amounts(log2)
  BY DEF Amounts
<1>2. ReplayBalance(normalSide, log) = SumAfter(normalSide, log, 0)[n]
  BY ReplayIsSumUpTo
<1>3. ReplayBalance(normalSide, log2) = SumAfter(normalSide, log2, 0)[n + 1]
  <2>1. n + 1 \in Nat /\ DOMAIN log2 \subseteq 1..(n + 1)
    OBVIOUS
  <2>2. QED BY <1>1, <2>1, ReplayIsSumUpTo
<1>4. SumAfter(normalSide, log2, 0)[n] = SumAfter(normalSide, log, 0)[n]
  <2>1. \A k \in 1..n : SignedAmount(normalSide, log2, k) = SignedAmount(normalSide, log, k)
    BY DEF SignedAmount
  <2>2. QED BY <2>1, SumAfterCongruence
<1>5. SumAfter(normalSide, log2, 0)[n + 1]
        = SumAfter(normalSide, log2, 0)[n] + SignedAmount(normalSide, log2, n + 1)
  <2>1. n + 1 \in Nat /\ ~(n + 1 <= 0) /\ (n + 1) - 1 = n
    OBVIOUS
  <2>2. QED BY <2>1, SumAfterStep
<1>6. SignedAmount(normalSide, log2, n + 1) = IF e.direction = normalSide THEN e.amount ELSE -e.amount
  BY DEF SignedAmount
<1>7. SumAfter(normalSide, log, 0)[n] \in Int
  BY SumAfterType
<1>8. QED BY <1>2, <1>3, <1>4, <1>5, <1>6, <1>7 DEF balanceAfterEntry, balanceEffect

-----------------------------------------------------------------------------
(* Totals: the sum of a function over a finite set, SumFunctionOnSet of     *)
(* module Functions, which takes the elements out one by one.               *)

PickFrom(s) == CHOOSE x \in s : TRUE

\* The equation the fold is defined by, on a family of sets.
IsFold(h, family, it) ==
  \A s \in family : it[s] = IF s = {} THEN 0 ELSE h[PickFrom(s)] + it[s \ {PickFrom(s)}]

\* The subsets of S with at most n elements.
UpTo(S, n) == {s \in SUBSET S : Cardinality(s) <= n}

LEMMA OneOut ==
  ASSUME NEW s, IsFiniteSet(s), s # {}
  PROVE  /\ PickFrom(s) \in s /\ IsFiniteSet(s \ {PickFrom(s)})
         /\ Cardinality(s) \in Nat /\ Cardinality(s) # 0
         /\ Cardinality(s \ {PickFrom(s)}) = Cardinality(s) - 1
<1>1. PickFrom(s) \in s
  BY DEF PickFrom
<1>2. QED BY <1>1, FS_RemoveElement, FS_CardinalityType, FS_EmptySet

\* The equation has a solution.
LEMMA FoldExists ==
  ASSUME NEW h, NEW S, IsFiniteSet(S)
  PROVE  \E it : it = [s \in SUBSET S |-> it[s]] /\ IsFold(h, SUBSET S, it)
<1> DEFINE Solved(n) == \E it : it = [s \in UpTo(S, n) |-> it[s]] /\ IsFold(h, UpTo(S, n), it)
           T == {n \in Nat : ~Solved(n)}
<1>1. \A s \in SUBSET S : IsFiniteSet(s) /\ Cardinality(s) \in Nat /\ Cardinality(s) <= Cardinality(S)
  BY FS_Subset, FS_CardinalityType
<1>2. ASSUME NEW n \in Nat, \A m \in Nat : m < n => Solved(m)
      PROVE  Solved(n)
  <2>1. CASE n = 0
    <3> DEFINE g == [s \in UpTo(S, 0) |-> 0]
    <3>1. \A s \in UpTo(S, 0) : s = {}
      BY <1>1, FS_EmptySet DEF UpTo
    <3>2. g = [s \in UpTo(S, 0) |-> g[s]] /\ IsFold(h, UpTo(S, 0), g)
      BY <3>1 DEF IsFold
    <3>3. QED BY <2>1, <3>2
  <2>2. CASE n # 0
    <3>1. n - 1 \in Nat /\ Solved(n - 1)
      BY <1>2, <2>2
    <3>2. PICK f : f = [s \in UpTo(S, n - 1) |-> f[s]] /\ IsFold(h, UpTo(S, n - 1), f)
      BY <3>1
    <3> DEFINE v(s) == IF s = {} THEN 0 ELSE h[PickFrom(s)] + f[s \ {PickFrom(s)}]
               g == [s \in UpTo(S, n) |-> IF s \in UpTo(S, n - 1) THEN f[s] ELSE v(s)]
    <3>3. \A s \in UpTo(S, n) : s # {} => s \ {PickFrom(s)} \in UpTo(S, n - 1)
      <4> SUFFICES ASSUME NEW s \in UpTo(S, n), s # {} PROVE s \ {PickFrom(s)} \in UpTo(S, n - 1)
        OBVIOUS
      <4>1. s \in SUBSET S /\ Cardinality(s) <= n /\ IsFiniteSet(s)
        BY <1>1 DEF UpTo
      <4>2. Cardinality(s \ {PickFrom(s)}) = Cardinality(s) - 1 /\ Cardinality(s) \in Nat
        BY <4>1, OneOut
      <4>3. QED BY <4>1, <4>2 DEF UpTo
    <3>4. \A s \in UpTo(S, n) : g[s] = v(s)
      <4> TAKE s \in UpTo(S, n)
      <4>1. CASE s \in UpTo(S, n - 1)
        BY <3>2, <4>1 DEF IsFold
      <4>2. CASE s \notin UpTo(S, n - 1)
        BY <4>2
      <4>3. QED BY <4>1, <4>2
    <3>5. \A s \in UpTo(S, n) : s # {} => g[s \ {PickFrom(s)}] = f[s \ {PickFrom(s)}]
      <4>1. UpTo(S, n - 1) \subseteq UpTo(S, n)
        BY <1>1, <3>1 DEF UpTo
      <4>2. QED BY <3>3, <4>1
    <3>6. g = [s \in UpTo(S, n) |-> g[s]]
      OBVIOUS
    <3> HIDE DEF g
    <3>7. IsFold(h, UpTo(S, n), g)
      BY <3>4, <3>5 DEF IsFold
    <3>8. QED BY <3>6, <3>7
  <2>3. QED BY <2>1, <2>2
<1>3. \A n \in Nat : Solved(n)
  <2> SUFFICES ASSUME T # {} PROVE FALSE
    OBVIOUS
  <2> HIDE DEF Solved
  <2>1. PICK n \in T : \A m \in T : n <= m
    <3>1. T \in SUBSET Nat
      OBVIOUS
    <3> HIDE DEF T
    <3>2. QED BY <3>1, LeastNat
  <2>2. \A m \in Nat : m < n => Solved(m)
    BY <2>1
  <2>3. QED BY <1>2, <2>1, <2>2
<1>4. UpTo(S, Cardinality(S)) = SUBSET S
  BY <1>1 DEF UpTo
<1>5. Solved(Cardinality(S))
  BY <1>3, FS_CardinalityType
<1>6. QED BY <1>4, <1>5

\* Two solutions agree on the sets both are defined on.
LEMMA TotalsAgree ==
  ASSUME NEW h, NEW S, NEW R, NEW f, NEW g,
         IsFold(h, SUBSET S, f), IsFold(h, SUBSET R, g),
         NEW s \in SUBSET S, s \in SUBSET R, IsFiniteSet(s)
  PROVE  f[s] = g[s]
<1> DEFINE D == {u \in SUBSET s : f[u] # g[u]}
           T == {Cardinality(u) : u \in D}
<1> SUFFICES ASSUME s \in D PROVE FALSE
  OBVIOUS
<1>1. \A u \in D : u \in SUBSET s /\ IsFiniteSet(u) /\ Cardinality(u) \in Nat
  BY FS_Subset, FS_CardinalityType
<1>2. PICK n \in T : \A m \in T : n <= m
  <2>1. T \in SUBSET Nat /\ T # {}
    BY <1>1
  <2> HIDE DEF T
  <2>2. QED BY <2>1, LeastNat
<1>3. PICK u \in D : n = Cardinality(u)
  OBVIOUS
<1>4. /\ f[u] = IF u = {} THEN 0 ELSE h[PickFrom(u)] + f[u \ {PickFrom(u)}]
      /\ g[u] = IF u = {} THEN 0 ELSE h[PickFrom(u)] + g[u \ {PickFrom(u)}]
  BY DEF IsFold
<1>5. u # {}
  BY <1>4
<1>6. u \in SUBSET s /\ IsFiniteSet(u) /\ Cardinality(u) \in Nat
  BY <1>1
<1> DEFINE w == u \ {PickFrom(u)}
<1>7. w \in SUBSET s /\ Cardinality(w) = Cardinality(u) - 1
  BY <1>5, <1>6, OneOut
<1>8. w \notin D
  <2> SUFFICES ASSUME w \in D PROVE FALSE
    OBVIOUS
  <2>1. Cardinality(w) \in T
    OBVIOUS
  <2>2. n <= Cardinality(w)
    BY <1>2, <2>1
  <2>3. QED BY <1>3, <1>6, <1>7, <2>2
<1>9. f[w] = g[w]
  BY <1>7, <1>8
<1>10. QED BY <1>4, <1>5, <1>9

\* The total, as the fold defines it.
LEMMA TotalIsFold ==
  ASSUME NEW h, NEW S, IsFiniteSet(S)
  PROVE  \E it : SumFunctionOnSet(h, S) = it[S] /\ IsFold(h, SUBSET S, it)
<1> DEFINE Solves(it) == it = [s \in SUBSET S |-> IF s = {} THEN 0
                               ELSE h[PickFrom(s)] + it[s \ {PickFrom(s)}]]
           it0 == CHOOSE it : Solves(it)
<1>1. PICK it : it = [s \in SUBSET S |-> it[s]] /\ IsFold(h, SUBSET S, it)
  BY FoldExists
<1>2. Solves(it)
  BY <1>1 DEF IsFold
<1>3. Solves(it0)
  BY <1>2
<1>4. SumFunctionOnSet(h, S) = it0[S]
  BY DEF SumFunctionOnSet, FoldFunctionOnSet, MapThenFoldSet, PickFrom
<1>5. IsFold(h, SUBSET S, it0)
  <2> HIDE DEF it0
  <2>1. QED BY <1>3 DEF IsFold
<1>6. QED BY <1>4, <1>5

\* Nothing adds up to zero.
LEMMA TotalEmpty ==
  ASSUME NEW h
  PROVE  SumFunctionOnSet(h, {}) = 0
BY TotalIsFold, FS_EmptySet DEF IsFold

\* One element out, the one the fold picks.
LEMMA TotalPick ==
  ASSUME NEW h, NEW S, IsFiniteSet(S), S # {}
  PROVE  SumFunctionOnSet(h, S) = h[PickFrom(S)] + SumFunctionOnSet(h, S \ {PickFrom(S)})
<1> DEFINE R == S \ {PickFrom(S)}
<1>1. IsFiniteSet(R)
  BY OneOut
<1>2. PICK f : SumFunctionOnSet(h, S) = f[S] /\ IsFold(h, SUBSET S, f)
  BY TotalIsFold
<1>3. PICK g : SumFunctionOnSet(h, R) = g[R] /\ IsFold(h, SUBSET R, g)
  BY <1>1, TotalIsFold
<1>4. f[R] = g[R]
  <2>1. R \in SUBSET S /\ R \in SUBSET R
    OBVIOUS
  <2> HIDE DEF R
  <2>2. QED BY <1>1, <1>2, <1>3, <2>1, TotalsAgree
<1>5. f[S] = h[PickFrom(S)] + f[R]
  BY <1>2 DEF IsFold
<1>6. QED BY <1>2, <1>3, <1>4, <1>5

\* Every family of finite sets has a smallest one.
LEMMA SmallestSet ==
  ASSUME NEW F, F # {}, \A s \in F : IsFiniteSet(s)
  PROVE  \E s \in F : \A u \in F : Cardinality(s) <= Cardinality(u)
<1> DEFINE T == {Cardinality(s) : s \in F}
<1>1. T \in SUBSET Nat /\ T # {}
  BY FS_CardinalityType
<1>2. PICK n \in T : \A m \in T : n <= m
  <2> HIDE DEF T
  <2>1. QED BY <1>1, LeastNat
<1>3. QED BY <1>2

\* Totals of integers are integers.
LEMMA TotalType ==
  ASSUME NEW h, NEW S, IsFiniteSet(S), \A x \in S : h[x] \in Int
  PROVE  SumFunctionOnSet(h, S) \in Int
<1> DEFINE F == {s \in SUBSET S : SumFunctionOnSet(h, s) \notin Int}
<1> SUFFICES ASSUME S \in F PROVE FALSE
  OBVIOUS
<1>1. \A s \in F : IsFiniteSet(s)
  BY FS_Subset
<1>2. PICK s \in F : \A u \in F : Cardinality(s) <= Cardinality(u)
  <2> HIDE DEF F
  <2>1. QED BY <1>1, SmallestSet
<1>3. CASE s = {}
  BY <1>3, TotalEmpty
<1>4. CASE s # {}
  <2>1. /\ PickFrom(s) \in s /\ Cardinality(s) \in Nat
        /\ Cardinality(s \ {PickFrom(s)}) = Cardinality(s) - 1
    BY <1>1, <1>4, OneOut
  <2>2. s \ {PickFrom(s)} \notin F
    BY <1>2, <2>1
  <2>3. SumFunctionOnSet(h, s \ {PickFrom(s)}) \in Int
    BY <2>2
  <2>4. QED BY <1>1, <1>4, <2>1, <2>3, TotalPick
<1>5. QED BY <1>3, <1>4

\* One element out, whichever.
LEMMA TotalOut ==
  ASSUME NEW h, NEW S, IsFiniteSet(S), \A y \in S : h[y] \in Int, NEW x \in S
  PROVE  SumFunctionOnSet(h, S) = h[x] + SumFunctionOnSet(h, S \ {x})
<1> DEFINE Total(s) == SumFunctionOnSet(h, s)
           F == {s \in SUBSET S : \E e \in s : Total(s) # h[e] + Total(s \ {e})}
<1> SUFFICES ASSUME S \in F PROVE FALSE
  OBVIOUS
<1>1. \A s \in F : IsFiniteSet(s)
  BY FS_Subset
<1>2. PICK s \in F : \A u \in F : Cardinality(s) <= Cardinality(u)
  <2> HIDE DEF F
  <2>1. QED BY <1>1, SmallestSet
<1>3. PICK e \in s : Total(s) # h[e] + Total(s \ {e})
  OBVIOUS
<1>4. /\ PickFrom(s) \in s /\ Cardinality(s) \in Nat
      /\ Total(s) = h[PickFrom(s)] + Total(s \ {PickFrom(s)})
  BY <1>1, OneOut, TotalPick
<1>5. PICK y \in s : y = PickFrom(s)
  BY <1>4
<1>6. e # y
  BY <1>3, <1>4, <1>5
<1>7. \A a \in s : s \ {a} \notin F
  <2> TAKE a \in s
  <2>1. Cardinality(s \ {a}) = Cardinality(s) - 1
    BY <1>1, FS_RemoveElement
  <2>2. QED BY <1>2, <1>4, <2>1
<1>8. Total(s \ {y}) = h[e] + Total((s \ {y}) \ {e})
  BY <1>6, <1>7
<1>9. Total(s \ {e}) = h[y] + Total((s \ {e}) \ {y})
  BY <1>6, <1>7
<1>10. (s \ {y}) \ {e} = (s \ {e}) \ {y} /\ e \in S /\ y \in S
  OBVIOUS
<1>11. Total((s \ {y}) \ {e}) \in Int
  <2>1. IsFiniteSet((s \ {y}) \ {e}) /\ (s \ {y}) \ {e} \subseteq S
    BY <1>1, FS_Subset
  <2>2. QED BY <2>1, TotalType
<1>12. h[e] \in Int /\ h[y] \in Int
  BY <1>10
<1>13. Total(s) = h[y] + Total(s \ {y})
  BY <1>4, <1>5
<1>14. Total((s \ {e}) \ {y}) = Total((s \ {y}) \ {e})
  BY <1>10
<1> HIDE DEF Total, F
<1>15. QED BY <1>3, <1>8, <1>9, <1>11, <1>12, <1>13, <1>14

\* Functions that agree on a set have the same total over it.
LEMMA TotalCongruence ==
  ASSUME NEW h, NEW k, NEW S, IsFiniteSet(S), \A x \in S : h[x] \in Int /\ k[x] = h[x]
  PROVE  SumFunctionOnSet(k, S) = SumFunctionOnSet(h, S)
<1> DEFINE F == {s \in SUBSET S : SumFunctionOnSet(k, s) # SumFunctionOnSet(h, s)}
<1> SUFFICES ASSUME S \in F PROVE FALSE
  OBVIOUS
<1>1. \A s \in F : IsFiniteSet(s)
  BY FS_Subset
<1>2. PICK s \in F : \A u \in F : Cardinality(s) <= Cardinality(u)
  <2> HIDE DEF F
  <2>1. QED BY <1>1, SmallestSet
<1>3. s # {}
  BY TotalEmpty
<1>4. PICK y \in s : /\ y = PickFrom(s) /\ Cardinality(s) \in Nat
                     /\ Cardinality(s \ {y}) = Cardinality(s) - 1
  BY <1>1, <1>3, OneOut
<1>5. s \ {y} \notin F
  BY <1>2, <1>4
<1>6. SumFunctionOnSet(k, s \ {y}) = SumFunctionOnSet(h, s \ {y})
  BY <1>5
<1>7. QED BY <1>1, <1>3, <1>4, <1>6, TotalPick

\* A change at one element changes the total by as much.
LEMMA TotalChange ==
  ASSUME NEW h, NEW k, NEW S, IsFiniteSet(S), NEW x \in S,
         \A y \in S : h[y] \in Int /\ k[y] \in Int, \A y \in S \ {x} : k[y] = h[y]
  PROVE  SumFunctionOnSet(k, S) = SumFunctionOnSet(h, S) + k[x] - h[x]
<1>1. IsFiniteSet(S \ {x})
  BY FS_Subset
<1>2. SumFunctionOnSet(k, S \ {x}) = SumFunctionOnSet(h, S \ {x})
  BY <1>1, TotalCongruence
<1>3. SumFunctionOnSet(h, S \ {x}) \in Int
  BY <1>1, TotalType
<1>4. /\ SumFunctionOnSet(h, S) = h[x] + SumFunctionOnSet(h, S \ {x})
      /\ SumFunctionOnSet(k, S) = k[x] + SumFunctionOnSet(k, S \ {x})
  BY TotalOut
<1>5. QED BY <1>2, <1>3, <1>4

\* A change at two elements that cancels out leaves the total.
LEMMA TotalMove ==
  ASSUME NEW h, NEW k, NEW S, IsFiniteSet(S), NEW x \in S, NEW y \in S, x # y,
         \A z \in S : h[z] \in Int /\ k[z] \in Int, \A z \in S \ {x, y} : k[z] = h[z],
         k[x] + k[y] = h[x] + h[y]
  PROVE  SumFunctionOnSet(k, S) = SumFunctionOnSet(h, S)
<1>1. IsFiniteSet(S \ {x}) /\ y \in S \ {x}
  BY FS_Subset
<1>2. SumFunctionOnSet(k, S \ {x}) = SumFunctionOnSet(h, S \ {x}) + k[y] - h[y]
  <2>1. \A z \in (S \ {x}) \ {y} : k[z] = h[z]
    OBVIOUS
  <2>2. \A z \in S \ {x} : h[z] \in Int /\ k[z] \in Int
    OBVIOUS
  <2>3. QED BY <1>1, <2>1, <2>2, TotalChange
<1>3. SumFunctionOnSet(h, S \ {x}) \in Int
  BY <1>1, TotalType
<1>4. /\ SumFunctionOnSet(h, S) = h[x] + SumFunctionOnSet(h, S \ {x})
      /\ SumFunctionOnSet(k, S) = k[x] + SumFunctionOnSet(k, S \ {x})
  BY TotalOut
<1>5. QED BY <1>2, <1>3, <1>4

\* Totals of functions that are ordered point by point are ordered.
LEMMA TotalMonotonic ==
  ASSUME NEW h, NEW k, NEW S, IsFiniteSet(S),
         \A x \in S : h[x] \in Int /\ k[x] \in Int /\ h[x] <= k[x]
  PROVE  SumFunctionOnSet(h, S) <= SumFunctionOnSet(k, S)
<1> DEFINE F == {s \in SUBSET S : ~(SumFunctionOnSet(h, s) <= SumFunctionOnSet(k, s))}
<1> SUFFICES ASSUME S \in F PROVE FALSE
  OBVIOUS
<1>1. \A s \in F : IsFiniteSet(s)
  BY FS_Subset
<1>2. PICK s \in F : \A u \in F : Cardinality(s) <= Cardinality(u)
  <2> HIDE DEF F
  <2>1. QED BY <1>1, SmallestSet
<1>3. s # {}
  BY TotalEmpty
<1>4. PICK y \in s : /\ y = PickFrom(s) /\ Cardinality(s) \in Nat
                     /\ Cardinality(s \ {y}) = Cardinality(s) - 1
  BY <1>1, <1>3, OneOut
<1>5. s \ {y} \notin F
  BY <1>2, <1>4
<1>6. SumFunctionOnSet(h, s \ {y}) <= SumFunctionOnSet(k, s \ {y})
  BY <1>5
<1>7. /\ SumFunctionOnSet(h, s) = h[y] + SumFunctionOnSet(h, s \ {y})
      /\ SumFunctionOnSet(k, s) = k[y] + SumFunctionOnSet(k, s \ {y})
  BY <1>1, <1>3, <1>4, TotalPick
<1>8. IsFiniteSet(s \ {y}) /\ s \ {y} \subseteq S /\ y \in S
  BY <1>1, FS_Subset
<1>9. SumFunctionOnSet(h, s \ {y}) \in Int /\ SumFunctionOnSet(k, s \ {y}) \in Int
  BY <1>8, TotalType
<1>10. h[y] \in Int /\ k[y] \in Int /\ h[y] <= k[y]
  BY <1>8
<1>11. ~(SumFunctionOnSet(h, s) <= SumFunctionOnSet(k, s))
  OBVIOUS
<1> HIDE DEF F
<1>12. QED BY <1>6, <1>7, <1>9, <1>10, <1>11

\* The total of what is nothing everywhere, and of a function at one element.
LEMMA TotalZero ==
  ASSUME NEW h, NEW S, IsFiniteSet(S), \A x \in S : h[x] = 0
  PROVE  SumFunctionOnSet(h, S) = 0
<1> DEFINE F == {s \in SUBSET S : SumFunctionOnSet(h, s) # 0}
<1> SUFFICES ASSUME S \in F PROVE FALSE
  OBVIOUS
<1>1. \A s \in F : IsFiniteSet(s)
  BY FS_Subset
<1>2. PICK s \in F : \A u \in F : Cardinality(s) <= Cardinality(u)
  <2> HIDE DEF F
  <2>1. QED BY <1>1, SmallestSet
<1>3. s # {}
  BY TotalEmpty
<1>4. PICK y \in s : /\ y = PickFrom(s) /\ Cardinality(s) \in Nat
                     /\ Cardinality(s \ {y}) = Cardinality(s) - 1
  BY <1>1, <1>3, OneOut
<1>5. s \ {y} \notin F
  BY <1>2, <1>4
<1>6. SumFunctionOnSet(h, s \ {y}) = 0
  BY <1>5
<1>7. QED BY <1>1, <1>3, <1>4, <1>6, TotalPick

=============================================================================
