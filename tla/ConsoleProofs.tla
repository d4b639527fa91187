---------------------------- MODULE ConsoleProofs ----------------------------
(* Proofs about module Console, for every set of accounts and points in     *)
(* time, history, page size and number of writes: an answer that counts as  *)
(* fresh has the user's own writes, and the audit timeline is the history   *)
(* of its account from its first entry on.                                  *)
EXTENDS Console, ReplayProofs, FiniteSetTheorems, SequenceTheorems

-----------------------------------------------------------------------------
(* An interval in its order *)

\* An increasing sequence of as many members of an interval is the interval.
LEMMA IncreasingIsInterval ==
  ASSUME NEW lo \in Nat, NEW n \in Nat,
         NEW s \in [1 .. n -> (lo + 1) .. (lo + n)], \A i, j \in 1 .. n : i < j => s[i] < s[j]
  PROVE  s = [i \in 1 .. n |-> lo + i]
<1>1. \A i \in 1 .. n : s[i] \in Int /\ lo + 1 <= s[i] /\ s[i] <= lo + n
  <2> TAKE i \in 1 .. n
  <2>1. s[i] \in (lo + 1) .. (lo + n)
    OBVIOUS
  <2>2. QED BY <2>1
<1>2. \A i \in 1 .. n : lo + i <= s[i]
  <2> DEFINE T == {i \in 1 .. n : ~(lo + i <= s[i])}
  <2>1. SUFFICES ASSUME T # {} PROVE FALSE
    OBVIOUS
  <2>2. T \in SUBSET Nat
    OBVIOUS
  <2>3. PICK i \in T : \A j \in T : i <= j
    <3> HIDE DEF T
    <3>1. QED BY <2>1, <2>2, LeastNat
  <2>4. CASE i = 1
    BY <1>1, <2>4
  <2>5. CASE i # 1
    <3>1. i - 1 \in 1 .. n /\ i - 1 < i
      BY <2>5
    <3>2. i - 1 \notin T
      BY <2>3, <3>1
    <3>3. lo + (i - 1) <= s[i - 1] /\ s[i - 1] < s[i]
      BY <3>1, <3>2
    <3>4. QED BY <1>1, <3>1, <3>3
  <2>6. QED BY <2>4, <2>5
<1>3. \A i \in 1 .. n : s[i] <= lo + i
  <2> DEFINE T == {k \in 0 .. (n - 1) : ~(s[n - k] <= lo + (n - k))}
  <2>1. SUFFICES ASSUME T # {} PROVE FALSE
    <3> TAKE i \in 1 .. n
    <3>1. n - i \in 0 .. (n - 1) /\ n - (n - i) = i
      OBVIOUS
    <3>2. n - i \notin T
      BY <2>1
    <3>3. QED BY <3>1, <3>2
  <2>2. T \in SUBSET Nat
    OBVIOUS
  <2>3. PICK k \in T : \A j \in T : k <= j
    <3> HIDE DEF T
    <3>1. QED BY <2>1, <2>2, LeastNat
  <2>4. CASE k = 0
    BY <1>1, <2>4
  <2>5. CASE k # 0
    <3>1. k - 1 \in 0 .. (n - 1) /\ n - k \in 1 .. n /\ n - (k - 1) \in 1 .. n
          /\ n - k < n - (k - 1)
      BY <2>5
    <3>2. k - 1 \notin T
      BY <2>3, <3>1
    <3>3. s[n - (k - 1)] <= lo + (n - (k - 1)) /\ s[n - k] < s[n - (k - 1)]
      BY <3>1, <3>2
    <3>4. QED BY <1>1, <3>1, <3>3
  <2>6. QED BY <2>4, <2>5
<1>4. \A i \in 1 .. n : s[i] = lo + i
  <2> TAKE i \in 1 .. n
  <2>1. s[i] \in Int /\ lo + i <= s[i] /\ s[i] <= lo + i
    BY <1>1, <1>2, <1>3
  <2>2. QED BY <2>1
<1>5. QED BY <1>4

\* The positions after lo and up to hi, in their order.
LEMMA AscendingInterval ==
  ASSUME NEW lo \in Nat, NEW n \in Nat
  PROVE  Ascending((lo + 1) .. (lo + n)) = [i \in 1 .. n |-> lo + i]
<1> DEFINE S == (lo + 1) .. (lo + n)
           Increasing(s) == \A i, j \in DOMAIN s : i < j => s[i] < s[j]
           s0 == Ascending(S)
<1>1. Cardinality(S) = n
  BY FS_Interval
<1>2. [i \in 1 .. n |-> lo + i] \in [1 .. n -> S] /\ Increasing([i \in 1 .. n |-> lo + i])
  OBVIOUS
<1>3. s0 \in [1 .. n -> S] /\ Increasing(s0)
  BY <1>1, <1>2 DEF Ascending
<1>4. \A i, j \in 1 .. n : i < j => s0[i] < s0[j]
  BY <1>3
<1> HIDE DEF s0
<1>5. s0 = [i \in 1 .. n |-> lo + i]
  BY <1>3, <1>4, IncreasingIsInterval
<1>6. QED BY <1>5 DEF s0

\* An initial part of the history of the account, followed by what comes next,
\* is one.
LEMMA AppendNext ==
  ASSUME NEW lo \in Nat, NEW n \in Nat, NEW s, s = History(account, lo)
  PROVE  s \o Listed((lo + 1) .. (lo + n)) = History(account, lo + n)
<1> DEFINE E == [account: {account}, seq: Nat]
           t == [i \in 1 .. n |-> [account |-> account, seq |-> lo + i]]
<1>1. Listed((lo + 1) .. (lo + n)) = t
  <2> DEFINE r == Ascending((lo + 1) .. (lo + n))
  <2>1. r = [i \in 1 .. n |-> lo + i]
    BY AscendingInterval
  <2>2. Listed((lo + 1) .. (lo + n)) = [i \in DOMAIN r |-> [account |-> account, seq |-> r[i]]]
    BY DEF Listed
  <2> HIDE DEF r
  <2>3. QED BY <2>1, <2>2
<1>2. /\ s \in Seq(E) /\ Len(s) = lo /\ t \in Seq(E) /\ Len(t) = n
      /\ \A i \in 1 .. lo : s[i] = [account |-> account, seq |-> i]
      /\ \A i \in 1 .. n : t[i] = [account |-> account, seq |-> lo + i]
  BY DEF History
<1> DEFINE r == s \o t
<1> HIDE DEF t, E
<1>3. /\ r \in Seq(E) /\ Len(r) = Len(s) + Len(t)
      /\ \A i \in 1 .. Len(s) + Len(t) : r[i] = IF i <= Len(s) THEN s[i] ELSE t[i - Len(s)]
  BY <1>2, ConcatProperties, Zenon
<1> HIDE DEF r
<1>4. ASSUME NEW i \in 1 .. (lo + n)
      PROVE  r[i] = [account |-> account, seq |-> i]
  <2>1. CASE i <= lo
    <3>1. r[i] = s[i]
      BY <1>2, <1>3, <2>1
    <3>2. QED BY <1>2, <2>1, <3>1
  <2>2. CASE ~(i <= lo)
    <3>1. i \in Int /\ i - lo \in 1 .. n /\ lo + (i - lo) = i
      BY <2>2
    <3>2. r[i] = t[i - lo]
      BY <1>2, <1>3, <2>2
    <3>3. QED BY <1>2, <3>1, <3>2
  <2>3. QED BY <2>1, <2>2
<1>5. r = [i \in 1 .. (lo + n) |-> r[i]]
  BY <1>2, <1>3
<1>6. r = History(account, lo + n)
  BY <1>4, <1>5 DEF History
<1>7. QED BY <1>1, <1>6 DEF r

\* An initial part of the history is a prefix of a longer one.
LEMMA LongerHistory ==
  ASSUME NEW id, NEW s, NEW t, NEW m \in Nat, NEW n \in Nat, m <= n,
         s = History(id, m), t = History(id, n)
  PROVE  IsPrefix(s, t)
<1>1. SubSeq(s, 1, m) = s /\ SubSeq(t, 1, m) = s
  BY DEF History
<1>2. Len(s) = m /\ Len(t) = n
  BY DEF History
<1>3. QED BY <1>1, <1>2 DEF IsPrefix

-----------------------------------------------------------------------------
(* The cache *)

USE DEF QueryKey

\* What the ledger would answer is an answer, as it changed no more often than
\* there are writes.
LEMMA CountedAnswer ==
  ASSUME NEW answer \in [entries: 0 .. MaxEntries, changes: Nat],
         NEW W \in SUBSET Write, answer.changes <= Cardinality(W)
  PROVE  answer \in Answer
<1>1. Cardinality(W) <= Cardinality(Write) /\ Cardinality(W) \in Nat /\ Cardinality(Write) \in Nat
  BY ConsoleAssumption, FS_Subset, FS_CardinalityType
<1>2. answer.changes \in 0 .. Cardinality(Write)
  BY <1>1
<1>3. QED BY <1>2 DEF Answer

LEMMA ServerIsAnswer ==
  ASSUME LedgerKeepsWrites
  PROVE  server \in [Account -> Answer]
<1>1. ASSUME NEW x \in Account PROVE server[x] \in Answer
  BY CountedAnswer DEF LedgerKeepsWrites, Made
<1>2. QED BY <1>1 DEF LedgerKeepsWrites

\* Every query of the cache is about an account that is followed.
LEMMA KeysAreOfAccounts ==
  ASSUME TablesOK, CacheOK, NEW k \in QueryKey
  PROVE  k.account \in Account
<1>1. k \in Keys(study) /\ study \in Studies
  BY DEF TablesOK, CacheOK
<1>2. study.accounts \subseteq Account
  BY <1>1, ConsoleAssumption
<1>3. QED BY <1>1, <1>2 DEF Keys, AuditKey, BalanceKey, Query

\* A fetch keeps the data and is on its way from the present.
LEMMA FetchingEntry ==
  ASSUME NEW entry \in CacheEntry, NEW k, server[k.account] \in Answer
  PROVE  /\ Fetching(entry, k) \in CacheEntry
         /\ Fetching(entry, k).data = entry.data /\ Fetching(entry, k).fresh = entry.fresh
         /\ Fetching(entry, k).inFlight = {server[k.account]} /\ ~Fetching(entry, k).late
<1>1. {server[k.account]} \in SUBSET Answer
  OBVIOUS
<1>2. QED BY <1>1 DEF Fetching, CacheEntry

\* A step does not make an entry younger: unless it counts as late, what it
\* holds fresh it held or had on its way, and what is on its way was, or starts
\* from the present.
KeepsItsAge(k) ==
  ~cache'[k].late =>
    /\ cache'[k].fresh => \A answer \in cache'[k].data :
         ~cache[k].late /\ \/ cache[k].fresh /\ answer \in cache[k].data
                           \/ \E then \in cache[k].inFlight : AsNewAs(answer, then)
    /\ \A then \in cache'[k].inFlight :
         then = server[k.account] \/ (~cache[k].late /\ then \in cache[k].inFlight)

\* The queries of the cache are those of the study throughout.
KeysStay == cache' = [k \in QueryKey |-> cache'[k]]

\* One entry of the cache after a step.
EntrySteps(k) == EntryOK(cache'[k]) /\ KeepsItsAge(k)

\* An entry that stays as it is.
LEMMA EntryStays ==
  ASSUME NEW k \in QueryKey, CacheOK, cache'[k] = cache[k]
  PROVE  EntrySteps(k)
BY DEF EntrySteps, KeepsItsAge, CacheOK

\* A stale entry that is fetched.
LEMMA StaleFetched ==
  ASSUME NEW k \in QueryKey, CacheOK, server[k.account] \in Answer,
         ~cache[k].fresh, cache'[k] = Fetching(cache[k], k)
  PROVE  EntrySteps(k)
<1>1. cache[k] \in CacheEntry /\ EntryOK(cache[k])
  BY DEF CacheOK, EntryOK
<1>2. /\ cache'[k] \in CacheEntry
      /\ cache'[k].data = cache[k].data /\ cache'[k].fresh = cache[k].fresh
      /\ cache'[k].inFlight = {server[k.account]}
  BY <1>1, FetchingEntry
<1>3. QED BY <1>1, <1>2 DEF EntrySteps, KeepsItsAge, EntryOK, CacheEntry

\* Whatever becomes observed, entries stay or are fetched because they are stale.
LEMMA ObservingSteps ==
  ASSUME CacheOK, \A k \in QueryKey : server[k.account] \in Answer,
         NEW before, NEW after, cache' = Observing(cache, before, after)
  PROVE  KeysStay /\ \A k \in QueryKey : EntrySteps(k)
<1>1. KeysStay
  BY DEF Observing, KeysStay
<1>2. ASSUME NEW k \in QueryKey PROVE EntrySteps(k)
  <2>1. cache'[k] = cache[k] \/ (~cache[k].fresh /\ cache'[k] = Fetching(cache[k], k))
    BY DEF Observing
  <2>2. QED BY <2>1, EntryStays, StaleFetched
<1>3. QED BY <1>1, <1>2

\* Invalidation: an entry is kept, fetched again, or marked stale and, if an
\* answer is on its way, late.
LEMMA InvalidatedSteps ==
  ASSUME CacheOK, \A k \in QueryKey : server[k.account] \in Answer,
         NEW keys, NEW observed, cache' = Invalidated(keys, observed)
  PROVE  /\ KeysStay /\ \A k \in QueryKey : EntrySteps(k)
         /\ \A k \in QueryKey : k \in keys =>
              /\ ~cache'[k].fresh
              /\ cache'[k].late \/ cache'[k].inFlight \subseteq {server[k.account]}
<1>1. KeysStay
  BY DEF Invalidated, KeysStay
<1>2. ASSUME NEW k \in QueryKey
      PROVE  /\ EntrySteps(k)
             /\ k \in keys => /\ ~cache'[k].fresh
                              /\ cache'[k].late \/ cache'[k].inFlight \subseteq {server[k.account]}
  <2>1. cache[k] \in CacheEntry /\ EntryOK(cache[k])
    BY DEF CacheOK, EntryOK
  <2> DEFINE stale == [cache[k] EXCEPT !.fresh = FALSE]
             marked == [cache[k] EXCEPT !.fresh = FALSE, !.late = @ \/ cache[k].inFlight # {}]
  <2>2. \/ k \notin keys /\ cache'[k] = cache[k]
        \/ cache'[k] = Fetching(stale, k)
        \/ cache'[k] = marked
    BY DEF Invalidated
  <2>3. CASE k \notin keys /\ cache'[k] = cache[k]
    BY <2>3, EntryStays
  <2>4. CASE cache'[k] = Fetching(stale, k)
    <3>1. stale \in CacheEntry
      BY <2>1 DEF CacheEntry
    <3>2. stale.data = cache[k].data /\ ~stale.fresh /\ server[k.account] \in Answer
      BY <2>1 DEF CacheEntry
    <3> HIDE DEF stale
    <3>3. /\ cache'[k] \in CacheEntry
          /\ cache'[k].data = cache[k].data /\ ~cache'[k].fresh
          /\ cache'[k].inFlight = {server[k.account]}
      BY <2>4, <3>1, <3>2, FetchingEntry
    <3>4. QED BY <2>1, <3>3 DEF EntrySteps, KeepsItsAge, EntryOK, CacheEntry
  <2>5. CASE cache'[k] = marked
    <3>1. /\ cache'[k] \in CacheEntry
          /\ cache'[k].data = cache[k].data /\ ~cache'[k].fresh
          /\ cache'[k].inFlight = cache[k].inFlight
          /\ cache'[k].inFlight # {} => cache'[k].late
      BY <2>1, <2>5 DEF CacheEntry
    <3>2. EntryOK(cache'[k])
      BY <2>1, <3>1 DEF EntryOK
    <3>3. ~cache'[k].fresh /\ (cache'[k].late \/ cache'[k].inFlight = {})
      BY <3>1
    <3>4. QED BY <3>2, <3>3 DEF EntrySteps, KeepsItsAge
  <2>6. QED BY <2>2, <2>3, <2>4, <2>5
<1>3. QED BY <1>1, <1>2

\* A step on one entry.
LEMMA OneEntrySteps ==
  ASSUME CacheOK, NEW k \in QueryKey, NEW entry, cache' = [cache EXCEPT ![k] = entry],
         EntryOK(cache'[k]) /\ KeepsItsAge(k)
  PROVE  KeysStay /\ \A l \in QueryKey : EntrySteps(l)
<1>1. KeysStay
  BY DEF KeysStay
<1>2. ASSUME NEW l \in QueryKey PROVE EntrySteps(l)
  <2>1. CASE l = k
    BY <2>1 DEF EntrySteps
  <2>2. CASE l # k
    <3>1. cache'[l] = cache[l]
      BY <2>2
    <3>2. QED BY <3>1, EntryStays
  <2>3. QED BY <2>1, <2>2
<1>3. QED BY <1>1, <1>2

\* An answer that arrives is one, of the ledger since its fetch started.
LEMMA DeliverSteps ==
  ASSUME CacheOK, NEW k \in QueryKey, Deliver(k)
  PROVE  KeysStay /\ \A l \in QueryKey : EntrySteps(l)
<1>1. PICK then \in cache[k].inFlight, answer \in Answer :
        /\ AsNewAs(answer, then)
        /\ cache' = [cache EXCEPT ![k] = [@ EXCEPT !.data = {answer}, !.fresh = TRUE, !.inFlight = {}]]
  BY DEF Deliver, AsNewAs
<1>2. cache[k] \in CacheEntry
  BY DEF CacheOK
<1> DEFINE entry == [cache[k] EXCEPT !.data = {answer}, !.fresh = TRUE, !.inFlight = {}]
<1>3. cache' = [cache EXCEPT ![k] = entry] /\ cache'[k] = entry
  BY <1>1
<1>4. /\ entry \in CacheEntry /\ entry.data = {answer} /\ entry.inFlight = {}
      /\ entry.late <=> cache[k].late
  <2>1. {answer} \in SUBSET Answer
    OBVIOUS
  <2>2. QED BY <1>2, <2>1 DEF CacheEntry
<1> HIDE DEF entry
<1>5. EntryOK(entry)
  BY <1>4 DEF EntryOK
<1>6. KeepsItsAge(k)
  BY <1>1, <1>3, <1>4 DEF KeepsItsAge
<1>7. QED BY <1>3, <1>5, <1>6, OneEntrySteps

\* A fetch that fails, and time that passes, only take away.
LEMMA EntryFades ==
  ASSUME CacheOK, NEW k \in QueryKey, FetchFails(k) \/ GoStale(k) \/ Forget(k)
  PROVE  KeysStay /\ \A l \in QueryKey : EntrySteps(l)
<1>1. cache[k] \in CacheEntry /\ EntryOK(cache[k])
  BY DEF CacheOK
<1>2. CASE FetchFails(k)
  <2> DEFINE entry == [cache[k] EXCEPT !.inFlight = {}, !.late = @ /\ cache[k].fresh]
  <2>1. cache' = [cache EXCEPT ![k] = entry] /\ cache'[k] = entry
    BY <1>2 DEF FetchFails
  <2>2. /\ entry \in CacheEntry /\ entry.data = cache[k].data /\ entry.inFlight = {}
        /\ entry.fresh <=> cache[k].fresh
        /\ entry.late <=> cache[k].late /\ cache[k].fresh
    BY <1>1 DEF CacheEntry
  <2> HIDE DEF entry
  <2>3. EntryOK(entry) /\ KeepsItsAge(k)
    BY <1>1, <2>1, <2>2 DEF EntryOK, KeepsItsAge
  <2>4. QED BY <2>1, <2>3, OneEntrySteps
<1>3. CASE GoStale(k)
  <2> DEFINE entry == [cache[k] EXCEPT !.fresh = FALSE]
  <2>1. cache' = [cache EXCEPT ![k] = entry] /\ cache'[k] = entry
    BY <1>3 DEF GoStale
  <2>2. /\ entry \in CacheEntry /\ entry.data = cache[k].data /\ entry.inFlight = cache[k].inFlight
        /\ ~entry.fresh
        /\ entry.late <=> cache[k].late
    BY <1>1 DEF CacheEntry
  <2> HIDE DEF entry
  <2>3. EntryOK(entry) /\ KeepsItsAge(k)
    BY <1>1, <2>1, <2>2 DEF EntryOK, KeepsItsAge
  <2>4. QED BY <2>1, <2>3, OneEntrySteps
<1>4. CASE Forget(k)
  <2>1. cache' = [cache EXCEPT ![k] = NoData] /\ cache'[k] = NoData
    BY <1>4 DEF Forget
  <2>2. EntryOK(NoData) /\ NoData.inFlight = {} /\ ~NoData.fresh
    BY DEF EntryOK, CacheEntry, NoData
  <2>3. KeepsItsAge(k)
    BY <2>1, <2>2 DEF KeepsItsAge
  <2>4. QED BY <2>1, <2>2, <2>3, OneEntrySteps
<1>5. QED BY <1>2, <1>3, <1>4

\* Every step, as the cache sees it.
LEMMA CacheSteps ==
  ASSUME ConsoleInv, Next
  PROVE  study' = study /\ KeysStay /\ \A k \in QueryKey : EntrySteps(k)
<1>1. CacheOK /\ \A k \in QueryKey : server[k.account] \in Answer
  BY ServerIsAnswer, KeysAreOfAccounts DEF ConsoleInv
<1>2. study' = study
  BY DEF Next, Commit, Events, Deliver, Refetch, FetchFails, GoStale, Forget, Visit, MoveTo, PickAsOf,
    LoadMore, OpenModal, CloseModal, Submit, Apply, Acknowledge, Fail, OthersPost
<1>3. ASSUME NEW k \in QueryKey, Refetch(k)
      PROVE  KeysStay /\ \A l \in QueryKey : EntrySteps(l)
  <2>1. ~cache[k].fresh /\ cache' = [cache EXCEPT ![k] = Fetching(cache[k], k)]
    BY <1>3 DEF Refetch
  <2>2. cache'[k] = Fetching(cache[k], k)
    BY <2>1
  <2>3. EntrySteps(k)
    BY <1>1, <2>1, <2>2, StaleFetched
  <2>4. QED BY <1>1, <2>1, <2>3, OneEntrySteps DEF EntrySteps
<1>4. ASSUME NEW before, NEW after, cache' = Observing(cache, before, after)
      PROVE  KeysStay /\ \A l \in QueryKey : EntrySteps(l)
  BY <1>1, <1>4, ObservingSteps
<1>5. ASSUME cache' = cache
      PROVE  KeysStay /\ \A l \in QueryKey : EntrySteps(l)
  <2>1. KeysStay
    BY <1>1, <1>5 DEF KeysStay, CacheOK
  <2>2. QED BY <1>1, <1>5, <2>1, EntryStays
<1>6. ASSUME NEW w \in Write, Acknowledge(w)
      PROVE  KeysStay /\ \A l \in QueryKey : EntrySteps(l)
  BY <1>1, <1>6, InvalidatedSteps DEF Acknowledge
<1>7. CASE Commit
  BY <1>4, <1>7 DEF Commit
<1>8. CASE Events
  <2>1. ASSUME NEW k \in QueryKey, Deliver(k) \/ Refetch(k) \/ FetchFails(k) \/ GoStale(k) \/ Forget(k)
        PROVE  KeysStay /\ \A l \in QueryKey : EntrySteps(l)
    BY <1>1, <1>3, <2>1, DeliverSteps, EntryFades
  <2>2. ASSUME NEW p, NEW id, Visit(p, id) \/ MoveTo(id)
        PROVE  KeysStay /\ \A l \in QueryKey : EntrySteps(l)
    BY <1>4, <2>2 DEF Visit, MoveTo
  <2>3. ASSUME NEW when, PickAsOf(when)
        PROVE  KeysStay /\ \A l \in QueryKey : EntrySteps(l)
    BY <1>4, <2>3 DEF PickAsOf
  <2>4. CASE LoadMore
    BY <1>4, <2>4 DEF LoadMore
  <2>5. ASSUME NEW m, OpenModal(m)
        PROVE  KeysStay /\ \A l \in QueryKey : EntrySteps(l)
    BY <1>4, <2>5 DEF OpenModal
  <2>6. CASE \/ CloseModal \/ (\E id : OthersPost(id))
             \/ \E w \in Write : Submit(w) \/ Apply(w) \/ Fail(w)
    BY <1>5, <2>6 DEF CloseModal, OthersPost, Submit, Apply, Fail
  <2> DEFINE Steps == KeysStay /\ \A k \in QueryKey : EntrySteps(k)
  <2> HIDE DEF Steps
  <2>7. Steps
    BY <1>6, <1>8, <2>1, <2>2, <2>3, <2>4, <2>5, <2>6 DEF Events, Steps
  <2>8. QED BY <1>2, <2>7 DEF Steps
<1>9. QED BY <1>2, <1>7, <1>8 DEF Next

\* So the cache keeps its type.
LEMMA CacheKeeps ==
  ASSUME ConsoleInv, Next
  PROVE  CacheOK'
<1>1. study' = study /\ KeysStay /\ \A k \in QueryKey : EntryOK(cache'[k])
  BY CacheSteps DEF EntrySteps
<1>2. QueryKey = Keys(study)
  BY DEF ConsoleInv, CacheOK
<1>3. \A k \in QueryKey : cache'[k] \in CacheEntry
  BY <1>1 DEF EntryOK
<1>4. QED BY <1>1, <1>2, <1>3 DEF CacheOK, KeysStay

-----------------------------------------------------------------------------
(* The writes *)

\* What a step that leaves the ledger alone does to the writes: none is made,
\* and none is acknowledged but this one.
WritesStay(acknowledged) ==
  /\ writes' \in [Write -> WriteRow]
  /\ \A w \in Write :
       /\ writes'[w].made = writes[w].made
       /\ writes'[w].state \in {"none", "sent"} => writes[w].state \in {"none", "sent"}
       /\ writes'[w].state # "none" => writes'[w].kind \in Modal
       /\ writes[w].state # "none" =>
            /\ writes'[w].kind = writes[w].kind /\ writes'[w].of = writes[w].of
            /\ writes'[w].told = writes[w].told \/ writes[w].state \in {"sent", "applied"}
       /\ writes'[w].state = "ok" => writes[w].state = "ok" \/ w \in acknowledged

\* Those of the user, of a refusal, and of the answer to one write.
LEMMA WritesSteps ==
  ASSUME ConsoleInv, Next
  PROVE  /\ UNCHANGED writes \/ WritesStay({})
              \/ (\E w \in Write : Acknowledge(w) /\ WritesStay({w}))
              \/ \E w \in Write : Apply(w)
         /\ \/ server' = server \/ (\E id \in study.others : OthersPost(id))
            \/ \E w \in Write : Apply(w)
<1>1. /\ writes \in [Write -> WriteRow] /\ modal \in Modal \cup {"none"}
      /\ \A w \in Write : writes[w].state # "none" => writes[w].kind \in Modal
  BY DEF ConsoleInv, TablesOK, LedgerKeepsWrites
<1>2. \A w \in Write : writes[w] \in WriteRow
  BY <1>1
<1>11. study.accounts \subseteq Account /\ account \in Account
  BY ConsoleAssumption DEF ConsoleInv, TablesOK
<1>12. ASSUME NEW id \in Account, MoveTo(id) PROVE WritesStay({})
  <2>1. PICK stays \in Stays(id) : writes' = [w \in Write |-> Carried(w, id, stays)]
    BY <1>12 DEF MoveTo
  <2>2. ASSUME NEW w \in Write
        PROVE  LET row == Carried(w, id, stays) IN
               /\ row \in WriteRow /\ row.made = writes[w].made /\ row.state = writes[w].state
               /\ row.kind = writes[w].kind /\ row.of = writes[w].of
               /\ row.told = writes[w].told \/ w \in Pending
    BY <1>2, <2>2 DEF Carried, WriteRow
  <2>3. QED BY <1>1, <2>1, <2>2 DEF WritesStay, Pending
<1>3. ASSUME NEW p, NEW id, Visit(p, id) PROVE WritesStay({})
  <2>1. writes' = [w \in Write |-> [writes[w] EXCEPT !.from = IF writes[w].kind = "create" THEN @ ELSE "gone"]]
    BY <1>3 DEF Visit
  <2>2. QED BY <1>1, <1>2, <2>1 DEF WritesStay, WriteRow
<1>4. CASE CloseModal
  <2>1. writes' = [w \in Write |-> [writes[w] EXCEPT !.from = IF @ = "modal" THEN "page" ELSE @]]
    BY <1>4 DEF CloseModal
  <2>2. WritesStay({})
    BY <1>1, <1>2, <2>1 DEF WritesStay, WriteRow
  <2>3. QED BY <1>4, <2>2 DEF CloseModal
<1>5. ASSUME NEW w \in Write, Submit(w) PROVE WritesStay({})
  <2>1. /\ modal # "none" /\ writes[w].state = "none"
    BY <1>5 DEF Submit
  <2>2. modal \in Modal
    BY <1>1, <2>1
  <2>3. PICK ids \in Subjects(modal) :
          writes' = [writes EXCEPT ![w] = [@ EXCEPT !.state = "sent", !.kind = modal, !.from = "modal",
                                                    !.of = ids, !.told = ids]]
    BY <1>5 DEF Submit
  <2>4. ids \in SUBSET Account
    BY <1>11, <2>2, <2>3 DEF Subjects, Modal
  <2> DEFINE row == [writes[w] EXCEPT !.state = "sent", !.kind = modal, !.from = "modal",
                                     !.of = ids, !.told = ids]
  <2>5. row \in WriteRow /\ row.made = writes[w].made /\ row.state = "sent" /\ row.kind = modal
    BY <1>2, <2>2, <2>4 DEF WriteRow
  <2> HIDE DEF row
  <2>6. /\ writes' \in [Write -> WriteRow] /\ writes'[w] = row
        /\ \A v \in Write : v # w => writes'[v] = writes[v]
    BY <1>1, <2>3, <2>5 DEF row
  <2>7. QED BY <1>1, <2>1, <2>2, <2>5, <2>6 DEF WritesStay
<1>6. ASSUME NEW w \in Write, Acknowledge(w) PROVE WritesStay({w})
  <2>1. PICK hosts \in BOOLEAN :
          /\ writes[w].state = "applied"
          /\ writes' = [v \in Write |->
               IF v = w THEN [writes[v] EXCEPT !.state = "ok"]
               ELSE [writes[v] EXCEPT !.from = IF hosts /\ @ = "modal" THEN "page" ELSE @]]
    BY <1>6 DEF Acknowledge
  <2>2. ASSUME NEW v \in Write
        PROVE  /\ writes'[v] \in WriteRow /\ writes'[v].made = writes[v].made
               /\ writes'[v].kind = writes[v].kind /\ writes'[v].of = writes[v].of
               /\ writes'[v].told = writes[v].told
               /\ writes'[v].state = IF v = w THEN "ok" ELSE writes[v].state
    <3>1. CASE v = w
      BY <1>2, <2>1, <3>1 DEF WriteRow
    <3>2. CASE v # w
      BY <1>2, <2>1, <3>2 DEF WriteRow
    <3>3. QED BY <3>1, <3>2
  <2>3. writes' \in [Write -> WriteRow]
    BY <2>1, <2>2
  <2>4. QED BY <1>1, <2>1, <2>2, <2>3 DEF WritesStay
<1>7. ASSUME NEW w \in Write, Fail(w) PROVE WritesStay({})
  <2>1. /\ writes[w].state \in {"sent", "applied"}
        /\ writes' = [writes EXCEPT ![w].state = "failed"]
    BY <1>7 DEF Fail
  <2>2. QED BY <1>1, <1>2, <2>1 DEF WritesStay, WriteRow
<1>8. CASE Commit
  BY <1>8 DEF Commit
<1>9. CASE Events
  <2>1. ASSUME NEW k, Deliver(k) \/ Refetch(k) \/ FetchFails(k) \/ GoStale(k) \/ Forget(k)
        PROVE  UNCHANGED <<writes, server>>
    BY <2>1 DEF Deliver, Refetch, FetchFails, GoStale, Forget
  <2>2. ASSUME NEW p, NEW id \in Account, Visit(p, id) \/ MoveTo(id)
        PROVE  server' = server /\ WritesStay({})
    BY <1>3, <1>12, <2>2 DEF Visit, MoveTo
  <2>3. ASSUME NEW when, PickAsOf(when) PROVE UNCHANGED <<writes, server>>
    BY <2>3 DEF PickAsOf
  <2>4. CASE LoadMore
    BY <2>4 DEF LoadMore
  <2>5. ASSUME NEW m, OpenModal(m) PROVE UNCHANGED <<writes, server>>
    BY <2>5 DEF OpenModal, pageVars
  <2>6. ASSUME NEW w \in Write, Submit(w) \/ Fail(w) PROVE server' = server /\ WritesStay({})
    BY <1>5, <1>7, <2>6 DEF Submit, Fail
  <2>7. ASSUME NEW w \in Write, Acknowledge(w) PROVE server' = server /\ WritesStay({w})
    BY <1>6, <2>7 DEF Acknowledge
  <2>8. ASSUME NEW id, OthersPost(id) PROVE UNCHANGED writes
    BY <2>8 DEF OthersPost
  <2>9. QED BY <1>4, <1>9, <1>11, <2>1, <2>2, <2>3, <2>4, <2>5, <2>6, <2>7, <2>8 DEF Events
<1>10. QED BY <1>8, <1>9 DEF Next

\* What a change does to the ledger: no counter falls, and no row changes twice.
LEMMA ChangedLedger ==
  ASSUME NEW kind, NEW ids, NEW W \in SUBSET Write,
         server \in [Account -> [entries: 0 .. MaxEntries, changes: Nat]],
         \A x \in Account : server[x].changes <= Cardinality(W),
         kind \in Moves => \A x \in ids : server[x].entries < MaxEntries
  PROVE  /\ Changed(kind, ids) \in [Account -> [entries: 0 .. MaxEntries, changes: Nat]]
         /\ \A x \in Account : AsNewAs(Changed(kind, ids)[x], server[x])
         /\ \A x \in Account : Changed(kind, ids)[x].changes <= Cardinality(W) + 1
         /\ kind \in Moves =>
              \A x \in Account : Changed(kind, ids)[x].changes <= Cardinality(W)
<1>1. Cardinality(W) \in Nat
  BY ConsoleAssumption, FS_Subset, FS_CardinalityType
<1>2. ASSUME NEW x \in Account
      PROVE  /\ Changed(kind, ids)[x] \in [entries: 0 .. MaxEntries, changes: Nat]
             /\ AsNewAs(Changed(kind, ids)[x], server[x])
             /\ Changed(kind, ids)[x].changes <= Cardinality(W) + 1
             /\ kind \in Moves => Changed(kind, ids)[x].changes <= Cardinality(W)
  <2>1. server[x] \in [entries: 0 .. MaxEntries, changes: Nat] /\ server[x].changes <= Cardinality(W)
    OBVIOUS
  <2>2. CASE x \notin ids
    <3>1. Changed(kind, ids)[x] = server[x]
      BY <2>2 DEF Changed
    <3>2. QED BY <1>1, <2>1, <3>1, ConsoleAssumption DEF AsNewAs
  <2>3. CASE x \in ids /\ kind \in Moves
    <3>1. Changed(kind, ids)[x] = [server[x] EXCEPT !.entries = @ + 1] /\ server[x].entries < MaxEntries
      BY <2>3 DEF Changed
    <3>2. QED BY <1>1, <2>1, <3>1, ConsoleAssumption DEF AsNewAs
  <2>4. CASE x \in ids /\ kind \notin Moves
    <3>1. Changed(kind, ids)[x] = [server[x] EXCEPT !.changes = @ + 1]
      BY <2>4 DEF Changed
    <3>2. QED BY <1>1, <2>1, <2>4, <3>1, ConsoleAssumption DEF AsNewAs
  <2>5. QED BY <2>2, <2>3, <2>4
<1>3. Changed(kind, ids) = [x \in Account |-> Changed(kind, ids)[x]]
  BY DEF Changed
<1>4. QED BY <1>2, <1>3

\* The ledger keeps what writes made as long as it only grows.
LEMMA GrowingLedger ==
  ASSUME NEW made \in [Account -> Answer], NEW x \in Account,
         server \in [Account -> [entries: 0 .. MaxEntries, changes: Nat]],
         server' \in [Account -> [entries: 0 .. MaxEntries, changes: Nat]],
         AsNewAs(server[x], made[x]), AsNewAs(server'[x], server[x])
  PROVE  AsNewAs(server'[x], made[x])
<1>1. /\ made[x] \in Answer /\ server[x] \in [entries: 0 .. MaxEntries, changes: Nat]
      /\ server'[x] \in [entries: 0 .. MaxEntries, changes: Nat]
  OBVIOUS
<1>2. QED BY <1>1, ConsoleAssumption DEF AsNewAs, Answer

\* What a write makes: one entry, or one change of the row, of each account it
\* is about.
LEMMA ApplyEffect ==
  ASSUME ConsoleInv, NEW w \in Write, Apply(w)
  PROVE  /\ writes' \in [Write -> WriteRow]
         /\ writes[w].made = {} /\ writes'[w].made = {server'}
         /\ writes'[w].state = "applied" /\ writes'[w].kind = writes[w].kind /\ writes[w].kind \in Modal
         /\ \A v \in Write : v # w => writes'[v] = writes[v]
         /\ LedgerKeepsWrites'
<1>1. /\ writes \in [Write -> WriteRow]
      /\ server \in [Account -> [entries: 0 .. MaxEntries, changes: Nat]]
      /\ \A x \in Account : server[x].changes <= Cardinality(Made)
      /\ \A v \in Write : /\ writes[v].state \in {"none", "sent"} => writes[v].made = {}
                          /\ writes[v].state # "none" => writes[v].kind \in Modal
                          /\ \A made \in writes[v].made, x \in Account : AsNewAs(server[x], made[x])
  BY DEF ConsoleInv, TablesOK, LedgerKeepsWrites
<1>2. PICK ids :
        /\ writes[w].state = "sent"
        /\ writes[w].kind \in Moves => \A x \in ids : server[x].entries < MaxEntries
        /\ server' = Changed(writes[w].kind, ids)
        /\ writes' = [writes EXCEPT ![w] = [@ EXCEPT !.state = "applied", !.made = {server'}]]
  BY DEF Apply
<1>3. writes[w] \in WriteRow /\ writes[w].made = {} /\ writes[w].kind \in Modal
  BY <1>1, <1>2
<1>4. /\ server' \in [Account -> [entries: 0 .. MaxEntries, changes: Nat]]
      /\ \A x \in Account : server'[x].changes <= Cardinality(Made) + 1 /\ AsNewAs(server'[x], server[x])
  <2>1. Made \in SUBSET Write
    BY DEF Made
  <2>2. QED BY <1>1, <1>2, <2>1, ChangedLedger
<1>5. /\ writes'[w].made = {server'} /\ writes'[w].state = "applied"
      /\ writes'[w].kind = writes[w].kind /\ writes'[w].from = writes[w].from
      /\ DOMAIN writes' = Write
      /\ \A v \in Write : v # w => writes'[v] = writes[v]
  BY <1>1, <1>2, <1>3 DEF WriteRow
<1>6. Made' = Made \cup {w} /\ w \notin Made
  BY <1>3, <1>5 DEF Made
<1>7. Cardinality(Made') = Cardinality(Made) + 1 /\ Cardinality(Made) \in Nat
  <2>1. IsFiniteSet(Made)
    BY ConsoleAssumption, FS_Subset DEF Made
  <2>2. QED BY <1>6, <2>1, FS_AddElement, FS_CardinalityType
<1>8. \A x \in Account : server'[x].changes <= Cardinality(Made')
  BY <1>4, <1>7
<1>9. ASSUME NEW v \in Write
      PROVE  /\ writes'[v].state \in {"none", "sent"} => writes'[v].made = {}
             /\ writes'[v].state # "none" => writes'[v].kind \in Modal
             /\ \A made \in writes'[v].made, x \in Account : AsNewAs(server'[x], made[x])
  <2>1. CASE v = w
    <3>1. \A x \in Account : AsNewAs(server'[x], server'[x])
      <4>1. ASSUME NEW x \in Account PROVE AsNewAs(server'[x], server'[x])
        <5>1. server'[x] \in [entries: 0 .. MaxEntries, changes: Nat]
          BY <1>4
        <5>2. QED BY <5>1, ConsoleAssumption DEF AsNewAs
      <4>2. QED BY <4>1
    <3>2. QED BY <1>3, <1>5, <2>1, <3>1
  <2>2. CASE v # w
    <3>1. writes'[v] = writes[v] /\ writes[v] \in WriteRow
      BY <1>1, <1>5, <2>2
    <3>2. \A made \in writes[v].made : made \in [Account -> Answer]
      BY <3>1 DEF WriteRow
    <3>3. \A made \in writes[v].made, x \in Account : AsNewAs(server'[x], made[x])
      BY <1>1, <1>4, <3>2, GrowingLedger
    <3>4. QED BY <1>1, <3>1, <3>3
  <2>3. QED BY <2>1, <2>2
<1>10. LedgerKeepsWrites'
  BY <1>4, <1>8, <1>9 DEF LedgerKeepsWrites, AsNewAs
<1>11. writes' \in [Write -> WriteRow]
  <2>1. server' \in [Account -> Answer]
    <3>1. ASSUME NEW x \in Account PROVE server'[x] \in Answer
      BY <1>4, <1>8, CountedAnswer DEF Made
    <3>2. QED BY <1>4, <3>1
  <2>2. [writes[w] EXCEPT !.state = "applied", !.made = {server'}] \in WriteRow
    BY <1>3, <2>1 DEF WriteRow
  <2>3. QED BY <1>1, <1>2, <2>2
<1>12. QED BY <1>3, <1>5, <1>10, <1>11

\* The ledger keeps what its writes made.
LEMMA LedgerKeeps ==
  ASSUME ConsoleInv, Next
  PROVE  LedgerKeepsWrites'
<1>1. /\ server \in [Account -> [entries: 0 .. MaxEntries, changes: Nat]]
      /\ \A x \in Account : server[x].changes <= Cardinality(Made)
      /\ writes \in [Write -> WriteRow]
      /\ \A w \in Write : /\ writes[w].state \in {"none", "sent"} => writes[w].made = {}
                          /\ writes[w].state # "none" => writes[w].kind \in Modal
                          /\ \A made \in writes[w].made, x \in Account : AsNewAs(server[x], made[x])
  BY DEF ConsoleInv, TablesOK, LedgerKeepsWrites
<1>2. CASE \E w \in Write : Apply(w)
  BY <1>2, ApplyEffect
<1>3. ASSUME NEW id, OthersPost(id) PROVE LedgerKeepsWrites'
  <2>1. /\ server[id].entries < MaxEntries /\ UNCHANGED writes
        /\ server' = Changed("movement", {id})
    BY <1>3 DEF OthersPost
  <2>2. /\ server' \in [Account -> [entries: 0 .. MaxEntries, changes: Nat]]
        /\ \A x \in Account : server'[x].changes <= Cardinality(Made) /\ AsNewAs(server'[x], server[x])
    <3>1. Made \in SUBSET Write /\ "movement" \in Moves
      BY DEF Made, Moves
    <3>2. QED BY <1>1, <2>1, <3>1, ChangedLedger
  <2>3. ASSUME NEW w \in Write, NEW made \in writes[w].made, NEW x \in Account
        PROVE  AsNewAs(server'[x], made[x])
    <3>1. made \in [Account -> Answer]
      BY <1>1 DEF WriteRow
    <3>2. QED BY <1>1, <2>2, <3>1, GrowingLedger
  <2>4. Made' = Made
    BY <2>1 DEF Made
  <2>5. QED BY <1>1, <2>1, <2>2, <2>3, <2>4 DEF LedgerKeepsWrites, AsNewAs
<1>4. CASE server' = server /\ UNCHANGED writes
  BY <1>4 DEF ConsoleInv, LedgerKeepsWrites, Made, AsNewAs
<1>5. ASSUME server' = server, NEW acknowledged, WritesStay(acknowledged)
      PROVE  LedgerKeepsWrites'
  <2>1. \A w \in Write :
          /\ writes'[w].made = writes[w].made
          /\ writes'[w].state \in {"none", "sent"} => writes[w].state \in {"none", "sent"}
          /\ writes'[w].state # "none" => writes'[w].kind \in Modal
    BY <1>5 DEF WritesStay
  <2>2. Made' = Made
    BY <2>1 DEF Made
  <2>3. QED BY <1>1, <1>5, <2>1, <2>2 DEF LedgerKeepsWrites, AsNewAs
<1>6. ASSUME NEW id, OthersPost(id) PROVE UNCHANGED writes
  BY <1>6 DEF OthersPost
<1>7. QED BY <1>2, <1>3, <1>4, <1>5, <1>6, WritesSteps

\* A write that is acknowledged invalidates what shows it.
LEMMA AcknowledgedIsInvalidated ==
  ASSUME NEW write, write.kind \in Modal, NEW k \in QueryKey, ShowsWrite(write, k)
  PROVE  k \in InvalidatedBy(write.kind, write.told)
BY DEF Modal, OfAccount, Moves, ShowsWrite, InvalidatedBy, KeysOf, AllKeysOf, Moved, Transferred,
  Voided, StatusManaged, LimitManaged, Created

\* An answer as new as one that has a write has it.
LEMMA AsNewAsTransitive ==
  ASSUME NEW x \in Answer, NEW y \in Answer, NEW z \in Answer, AsNewAs(x, y), AsNewAs(y, z)
  PROVE  AsNewAs(x, z)
BY ConsoleAssumption DEF AsNewAs, Answer

\* What is fresh, or will be, keeps the writes that were acknowledged and has
\* those that are.
LEMMA OwnWritesKeep ==
  ASSUME ConsoleInv, Next
  PROVE  AnswersHaveOwnWrites'
<1> SUFFICES ASSUME NEW w \in Write, writes'[w].state = "ok",
                    NEW k \in QueryKey', ShowsWrite(writes'[w], k), ~cache'[k].late,
                    NEW made \in writes'[w].made
             PROVE  /\ cache'[k].fresh => \A answer \in cache'[k].data : AsNewAs(answer, made[k.account])
                    /\ \A then \in cache'[k].inFlight : AsNewAs(then, made[k.account])
  BY DEF AnswersHaveOwnWrites, AsNewAs
<1>1. k \in QueryKey /\ EntryOK(cache'[k]) /\ KeepsItsAge(k) /\ k.account \in Account
  <2>1. k \in QueryKey /\ EntryOK(cache'[k]) /\ KeepsItsAge(k)
    BY CacheSteps DEF KeysStay, EntrySteps
  <2>2. QED BY <2>1, KeysAreOfAccounts DEF ConsoleInv
<1>2. /\ writes \in [Write -> WriteRow] /\ EntryOK(cache[k]) /\ cache[k] \in CacheEntry
      /\ cache'[k] \in CacheEntry
  BY <1>1 DEF ConsoleInv, TablesOK, CacheOK, EntryOK
<1>3. \A made2 \in writes[w].made : AsNewAs(server[k.account], made2[k.account])
  BY <1>1 DEF ConsoleInv, LedgerKeepsWrites
<1> DEFINE Same == /\ writes'[w].kind = writes[w].kind /\ writes'[w].of = writes[w].of
                   /\ writes'[w].told = writes[w].told /\ writes'[w].made = writes[w].made
<1>4. CASE writes[w].state = "ok" /\ Same
  <2> DEFINE has == made[k.account]
  <2>1. made \in writes[w].made /\ has \in Answer
    BY <1>1, <1>2, <1>4 DEF WriteRow
  <2>2. ~cache[k].late => /\ cache[k].fresh => \A answer \in cache[k].data : AsNewAs(answer, has)
                          /\ \A then \in cache[k].inFlight : AsNewAs(then, has)
    <3>1. ShowsWrite(writes[w], k)
      BY <1>4 DEF ShowsWrite
    <3>2. QED BY <1>1, <1>4, <2>1, <3>1 DEF ConsoleInv, AnswersHaveOwnWrites
  <2> HIDE DEF has
  <2>3. ASSUME cache'[k].fresh, NEW answer \in cache'[k].data PROVE AsNewAs(answer, has)
    <3>1. answer \in Answer
      BY <1>2 DEF CacheEntry
    <3>2. CASE ~cache[k].late /\ cache[k].fresh /\ answer \in cache[k].data
      BY <2>2, <3>2
    <3>3. ASSUME ~cache[k].late, NEW then \in cache[k].inFlight, AsNewAs(answer, then)
          PROVE  AsNewAs(answer, has)
      <4>1. then \in Answer
        BY <1>2 DEF CacheEntry
      <4>2. QED BY <2>1, <2>2, <3>1, <3>3, <4>1, AsNewAsTransitive
    <3>4. ~cache[k].late /\ \/ cache[k].fresh /\ answer \in cache[k].data
                            \/ \E then \in cache[k].inFlight : AsNewAs(answer, then)
      BY <1>1, <2>3 DEF KeepsItsAge
    <3>5. QED BY <3>2, <3>3, <3>4
  <2>4. ASSUME NEW then \in cache'[k].inFlight PROVE AsNewAs(then, has)
    <3>1. then = server[k.account] \/ (~cache[k].late /\ then \in cache[k].inFlight)
      BY <1>1 DEF KeepsItsAge
    <3>2. AsNewAs(server[k.account], has)
      BY <1>3, <2>1 DEF has
    <3>3. QED BY <2>2, <3>1, <3>2
  <2>5. QED BY <2>3, <2>4 DEF has
<1>5. CASE Acknowledge(w) /\ WritesStay({w})
  <2>1. /\ writes[w].state = "applied"
        /\ cache' = Invalidated(InvalidatedBy(writes[w].kind, writes[w].told), Observed)
        /\ writes'[w] = [writes[w] EXCEPT !.state = "ok"]
    BY <1>5 DEF Acknowledge
  <2>2. writes[w].kind \in Modal /\ writes[w] \in WriteRow
    BY <1>2, <2>1 DEF ConsoleInv, LedgerKeepsWrites
  <2>3. Same
    BY <2>1, <2>2 DEF WriteRow
  <2>4. ShowsWrite(writes[w], k)
    BY <2>3 DEF ShowsWrite
  <2>5. k \in InvalidatedBy(writes[w].kind, writes[w].told)
    BY <1>1, <2>2, <2>4, AcknowledgedIsInvalidated
  <2>6. ~cache'[k].fresh /\ cache'[k].inFlight \subseteq {server[k.account]}
    BY <1>1, <2>1, <2>5, InvalidatedSteps, ServerIsAnswer, KeysAreOfAccounts DEF ConsoleInv
  <2>7. QED BY <1>3, <2>3, <2>6
<1>6. CASE UNCHANGED writes
  BY <1>4, <1>6
<1>7. CASE \E v \in Write : Apply(v)
  <2>1. PICK v \in Write : Apply(v)
    BY <1>7
  <2>2. w # v /\ writes'[w] = writes[w]
    BY <2>1, ApplyEffect
  <2>3. QED BY <1>4, <2>2
<1>8. ASSUME NEW acknowledged, WritesStay(acknowledged), w \notin acknowledged
      PROVE  writes[w].state = "ok" /\ Same
  BY <1>8 DEF WritesStay
<1>9. CASE WritesStay({})
  BY <1>4, <1>8, <1>9
<1> HIDE DEF Same
<1>10. ASSUME NEW v \in Write, Acknowledge(v), WritesStay({v})
       PROVE  /\ cache'[k].fresh => \A answer \in cache'[k].data : AsNewAs(answer, made[k.account])
              /\ \A then \in cache'[k].inFlight : AsNewAs(then, made[k.account])
  <2>1. CASE v = w
    BY <1>5, <1>10, <2>1
  <2>2. CASE v # w
    BY <1>4, <1>8, <1>10, <2>2
  <2>3. QED BY <2>1, <2>2
<1>11. QED BY <1>6, <1>7, <1>9, <1>10, WritesSteps

-----------------------------------------------------------------------------
(* The timeline *)

\* The page of the trail that is loaded, if any: what comes after the cursor, up
\* to the page size and the entries of the point in time.
IsPageUpTo(d, end) ==
  /\ d.view.items = {n \in 1 .. end : cursor < n /\ n <= cursor + AUDIT_PAGE}
  /\ d.view.nextCursor = IF cursor + AUDIT_PAGE < end THEN cursor + AUDIT_PAGE ELSE 0

LEMMA LoadedPage ==
  ASSUME TablesOK, CacheOK
  PROVE  \/ auditData = {}
         \/ \E end \in 0 .. MaxEntries :
              /\ asOf # Current => end <= EntriesBy[account][asOf]
              /\ \E d : auditData = {d} /\ IsPageUpTo(d, end)
<1> DEFINE k == AuditKey(account, asOf, cursor)
<1>1. CASE k \notin QueryKey \/ cache[k].data = {}
  BY <1>1 DEF auditData
<1>2. CASE k \in QueryKey /\ cache[k].data # {}
  <2>1. PICK answer \in cache[k].data : TRUE
    BY <1>2
  <2>2. cache[k].data = {answer} /\ answer \in Answer
    BY <1>2, <2>1 DEF CacheOK, EntryOK, CacheEntry
  <2> DEFINE d == [key |-> k, view |-> TrailPage(k, answer)]
             end == Entries(answer, account, asOf)
  <2>3. auditData = {d}
    BY <1>2, <2>2 DEF auditData
  <2>4. k.account = account /\ k.asOf = asOf /\ k.cursor = cursor
    BY DEF AuditKey
  <2>5. IsPageUpTo(d, end)
    BY <2>4 DEF IsPageUpTo, TrailPage
  <2>6. end \in 0 .. MaxEntries /\ (asOf # Current => end <= EntriesBy[account][asOf])
    <3>1. answer.entries \in 0 .. MaxEntries
      BY <2>2 DEF Answer
    <3>2. asOf # Current => EntriesBy[account][asOf] \in 0 .. MaxEntries
      BY ConsoleAssumption DEF TablesOK, Window
    <3>3. QED BY <3>1, <3>2, ConsoleAssumption DEF Entries
  <2>7. QED BY <2>3, <2>5, <2>6
<1>3. QED BY <1>1, <1>2

\* Appending the loaded page goes on where the timeline ends, and takes it to
\* the end of the page.
LEMMA AppendedGoesOn ==
  ASSUME TablesOK, CacheOK, Len(items) \in 0 .. MaxEntries, items = History(account, Len(items)),
         cursor <= Len(items),
         asOf # Current => Len(items) <= EntriesBy[account][asOf]
  PROVE  /\ Len(Appended) \in 0 .. MaxEntries /\ Appended = History(account, Len(Appended))
         /\ Len(items) <= Len(Appended)
         /\ asOf # Current => Len(Appended) <= EntriesBy[account][asOf]
         /\ \A d \in auditData : \A n \in d.view.items : n <= Len(Appended)
<1> DEFINE lo == Len(items)
           known == {items[i].seq : i \in DOMAIN items}
<1>1. lo \in 0 .. MaxEntries /\ lo \in Nat /\ items = History(account, lo)
  BY ConsoleAssumption
<1>2. known = 1 .. lo
  <2>1. DOMAIN items = 1 .. lo /\ \A i \in 1 .. lo : items[i].seq = i
    BY <1>1 DEF History
  <2>2. QED BY <2>1
<1>3. ASSUME NEW n \in Nat, Loaded \ (1 .. lo) = (lo + 1) .. (lo + n)
      PROVE  Appended = History(account, lo + n) /\ Len(Appended) = lo + n
  <2>1. Appended = items \o Listed((lo + 1) .. (lo + n))
    BY <1>2, <1>3 DEF Appended
  <2>2. Appended = History(account, lo + n)
    BY <1>1, <2>1, AppendNext
  <2>3. QED BY <1>1, <2>2 DEF History
<1>4. CASE auditData = {}
  <2>1. Loaded \ (1 .. lo) = (lo + 1) .. (lo + 0)
    BY <1>1, <1>4 DEF Loaded
  <2>2. Appended = History(account, lo) /\ Len(Appended) = lo
    BY <1>1, <1>3, <2>1
  <2>3. QED BY <1>1, <1>4, <2>2
<1>5. ASSUME NEW end \in 0 .. MaxEntries, asOf # Current => end <= EntriesBy[account][asOf],
             NEW d, auditData = {d}, IsPageUpTo(d, end)
      PROVE  /\ Len(Appended) \in 0 .. MaxEntries /\ Appended = History(account, Len(Appended))
             /\ Len(items) <= Len(Appended)
             /\ asOf # Current => Len(Appended) <= EntriesBy[account][asOf]
             /\ \A x \in auditData : \A n \in x.view.items : n <= Len(Appended)
  <2> DEFINE last == IF end <= cursor + AUDIT_PAGE THEN end ELSE cursor + AUDIT_PAGE
             n == IF lo < last THEN last - lo ELSE 0
  <2>1. /\ cursor \in Nat /\ AUDIT_PAGE \in Nat /\ end \in Nat /\ MaxEntries \in Nat
        /\ asOf # Current => EntriesBy[account][asOf] \in Nat
    BY ConsoleAssumption DEF TablesOK, Cursor, Window
  <2>2. last \in Nat /\ last <= end /\ n \in Nat
    BY <1>1, <2>1
  <2>3. Loaded = {m \in 1 .. end : cursor < m /\ m <= cursor + AUDIT_PAGE}
    BY <1>5 DEF Loaded, IsPageUpTo
  <2>4. Loaded \ (1 .. lo) = (lo + 1) .. (lo + n)
    <3>1. ASSUME NEW m \in Loaded \ (1 .. lo) PROVE m \in (lo + 1) .. (lo + n)
      BY <1>1, <2>1, <2>3, <3>1
    <3>2. ASSUME NEW m \in (lo + 1) .. (lo + n) PROVE m \in Loaded \ (1 .. lo)
      <4>1. m \in Nat /\ lo < m /\ m <= last
        BY <1>1, <2>2, <3>2
      <4>2. QED BY <1>1, <2>1, <2>2, <2>3, <4>1
    <3>3. QED BY <3>1, <3>2
  <2> HIDE DEF n
  <2>5. Appended = History(account, lo + n) /\ Len(Appended) = lo + n
    BY <1>3, <2>2, <2>4
  <2>6. /\ lo + n = IF lo < last THEN last ELSE lo
        /\ \A m \in Loaded : m \in Nat /\ m <= last
    BY <1>1, <2>1, <2>2, <2>3 DEF n
  <2>7. \A x \in auditData : \A m \in x.view.items : m <= Len(Appended)
    <3>1. \A x \in auditData : \A m \in x.view.items : m \in Loaded
      BY DEF Loaded
    <3>2. QED BY <1>1, <2>2, <2>5, <2>6, <3>1
  <2>8. QED BY <1>1, <1>5, <2>1, <2>2, <2>5, <2>6, <2>7
<1>6. QED BY <1>4, <1>5, LoadedPage

\* A step keeps the timeline an initial part of the history, and the cursor at
\* most its end.
LEMMA TimelineKeeps ==
  ASSUME ConsoleInv, Next
  PROVE  TimelineJoins'
<1>1. TablesOK /\ CacheOK /\ TimelineJoins
  BY DEF ConsoleInv
<1>2. CASE Commit
  <2>1. /\ items' = IF seen.window # {window} THEN <<>> ELSE Appended
        /\ cursor' = IF seen.window # {window} THEN 0 ELSE cursor
        /\ seen' = Effects /\ account' = account /\ asOf' = asOf
    BY <1>2 DEF Commit
  <2>2. seen'.data = auditData /\ seen'.window = {window} /\ window' = window
    BY <2>1 DEF Effects, window
  <2>3. CASE seen.window # {window}
    <3>1. items' = <<>> /\ cursor' = 0 /\ Len(items') = 0 /\ items' = History(account, 0)
      BY <2>1, <2>3 DEF History
    <3>2. account \in Account /\ (asOf # Current => EntriesBy[account][asOf] \in Nat)
      BY <1>1, ConsoleAssumption DEF TablesOK, Window
    <3>3. QED BY <2>1, <2>2, <3>1, <3>2, ConsoleAssumption DEF TimelineJoins
  <2>4. CASE seen.window = {window}
    <3>1. /\ cursor <= Len(items) /\ items = History(account, Len(items))
          /\ asOf # Current => Len(items) <= EntriesBy[account][asOf]
          /\ Len(items) \in 0 .. MaxEntries /\ Len(items) \in Nat /\ cursor \in Nat
      BY <1>1, <2>4, ConsoleAssumption DEF TimelineJoins, TablesOK, Cursor
    <3>2. /\ Len(Appended) \in 0 .. MaxEntries /\ Appended = History(account, Len(Appended))
          /\ Len(items) <= Len(Appended)
          /\ asOf # Current => Len(Appended) <= EntriesBy[account][asOf]
          /\ \A d \in auditData : \A n \in d.view.items : n <= Len(Appended)
      BY <1>1, <3>1, AppendedGoesOn
    <3>3. items' = Appended /\ cursor' = cursor
      BY <2>1, <2>4
    <3>4. cursor' <= Len(items')
      BY <3>1, <3>2, <3>3, ConsoleAssumption
    <3>5. account \in Account
      BY <1>1 DEF TablesOK
    <3>6. QED BY <2>1, <2>2, <3>2, <3>3, <3>4, <3>5 DEF TimelineJoins
  <2>5. QED BY <2>3, <2>4
<1>3. CASE ~CommitDue /\ Events
  <2> DEFINE Same == UNCHANGED <<account, asOf, cursor, items, seen>>
  <2>1. CASE Same
    BY <1>1, <2>1 DEF TimelineJoins, window
  \* The page shows the timeline of another window: it is of some account still.
  <2> DEFINE Turns == /\ page = "detail" /\ window' # window
                      /\ UNCHANGED <<cursor, items, seen>>
  <2>2. ASSUME Turns PROVE TimelineJoins'
    <3>1. seen.window = {window} /\ seen' = seen
      BY <1>3, <2>2 DEF CommitDue, Effects
    <3>2. seen'.window # {window'}
      BY <2>2, <3>1
    <3>3. Len(items) \in 0 .. MaxEntries /\ \E x \in Account : items = History(x, Len(items))
      BY <1>1 DEF TimelineJoins
    <3>4. items # <<>> => \A d \in seen.data : \A n \in d.view.items : n <= Len(items)
      BY <1>1 DEF TimelineJoins
    <3>5. QED BY <2>2, <3>2, <3>3, <3>4 DEF TimelineJoins
  <2>3. ASSUME NEW p, NEW id \in Account, Visit(p, id) PROVE TimelineJoins'
    <3>1. /\ items' = <<>> /\ Len(items') = 0 /\ items' = History(id, 0) /\ account' = id
          /\ seen' = NotRun /\ asOf' = Current /\ cursor' = 0
      BY <2>3 DEF Visit, History
    <3>2. seen'.window # {window'} /\ seen'.data = {}
      BY <3>1 DEF NotRun
    <3>3. QED BY <3>1, <3>2, ConsoleAssumption DEF TimelineJoins
  <2>4. ASSUME NEW id, MoveTo(id) PROVE Turns
    BY <2>4 DEF MoveTo, window
  <2>5. ASSUME NEW when, PickAsOf(when) PROVE Turns
    BY <2>5 DEF PickAsOf, window
  <2>6. CASE LoadMore
    <3>1. PICK after \in nextCursor :
            /\ page = "detail" /\ items # <<>> /\ cursor' = after
            /\ UNCHANGED <<account, asOf, items, seen>>
      BY <2>6 DEF LoadMore
    <3>2. seen.data = auditData /\ seen.window = {window}
      BY <1>3, <3>1 DEF CommitDue, Effects
    <3>3. PICK d \in auditData : after = d.view.nextCursor /\ after # 0
      BY <3>1 DEF nextCursor
    <3>4. PICK end \in 0 .. MaxEntries : IsPageUpTo(d, end)
      BY <1>1, <3>3, LoadedPage
    <3>5. cursor \in Nat /\ AUDIT_PAGE \in Nat \ {0} /\ end \in Nat
      BY <1>1, ConsoleAssumption DEF TablesOK, Cursor
    <3>6. after = cursor + AUDIT_PAGE /\ after < end
      BY <3>3, <3>4, <3>5 DEF IsPageUpTo
    <3>7. after \in d.view.items
      BY <3>4, <3>5, <3>6 DEF IsPageUpTo
    <3>8. after <= Len(items)
      BY <1>1, <3>1, <3>2, <3>3, <3>7 DEF TimelineJoins
    <3>9. QED BY <1>1, <3>1, <3>8 DEF TimelineJoins, window
  <2>7. ASSUME NEW k, Deliver(k) \/ Refetch(k) \/ FetchFails(k) \/ GoStale(k) \/ Forget(k)
        PROVE  Same
    BY <2>7 DEF Deliver, Refetch, FetchFails, GoStale, Forget, pageVars
  <2>8. ASSUME NEW m, OpenModal(m) PROVE Same
    BY <2>8 DEF OpenModal, pageVars
  <2>9. ASSUME NEW w, Submit(w) \/ Apply(w) \/ Acknowledge(w) \/ Fail(w)
        PROVE  Same
    BY <2>9 DEF Submit, Apply, Acknowledge, Fail, pageVars
  <2>10. ASSUME CloseModal \/ \E id : OthersPost(id) PROVE Same
    BY <2>10 DEF CloseModal, OthersPost, pageVars
  <2>11. study.accounts \subseteq Account
    BY <1>1, ConsoleAssumption DEF TablesOK
  <2> HIDE DEF Same, Turns
  <2>12. QED
    BY <1>3, <2>1, <2>2, <2>3, <2>4, <2>5, <2>6, <2>7, <2>8, <2>9, <2>10, <2>11 DEF Events
<1>4. QED BY <1>2, <1>3 DEF Next

\* What the user sees keeps its type.
LEMMA TablesKeep ==
  ASSUME ConsoleInv, Next
  PROVE  TablesOK'
<1>1. /\ study \in Studies /\ writes \in [Write -> WriteRow]
      /\ account \in Account /\ asOf \in Window /\ cursor \in Cursor
      /\ page \in Page /\ modal \in Modal \cup {"none"} /\ study.accounts \subseteq Account
      /\ study.pages \subseteq Page /\ study.modals \subseteq Modal /\ study.times \subseteq Window
  BY ConsoleAssumption DEF ConsoleInv, TablesOK
<1>2. study' = study
  BY CacheSteps
<1>3. writes' \in [Write -> WriteRow]
  BY <1>1, WritesSteps, ApplyEffect DEF WritesStay
<1>4. Current \in Window /\ 0 \in Cursor
  BY ConsoleAssumption DEF Window, Cursor
<1> DEFINE Typed == /\ account' \in Account /\ asOf' \in Window /\ cursor' \in Cursor
                     /\ page' \in Page /\ modal' \in Modal \cup {"none"}
<1>5. Typed
  <2>1. CASE Commit
    BY <1>1, <1>4, <2>1 DEF Commit
  <2>2. ASSUME NEW k, Deliver(k) \/ Refetch(k) \/ FetchFails(k) \/ GoStale(k) \/ Forget(k)
        PROVE  Typed
    BY <1>1, <2>2 DEF Deliver, Refetch, FetchFails, GoStale, Forget, pageVars
  <2>3. ASSUME NEW p \in study.pages, NEW id \in study.accounts, Visit(p, id) PROVE Typed
    BY <1>1, <1>4, <2>3 DEF Visit
  <2>4. ASSUME NEW id \in study.accounts, MoveTo(id) PROVE Typed
    BY <1>1, <2>4 DEF MoveTo
  <2>5. ASSUME NEW when \in study.times, PickAsOf(when) PROVE Typed
    BY <1>1, <2>5 DEF PickAsOf
  <2>6. CASE LoadMore
    <3>1. PICK after \in nextCursor : cursor' = after /\ UNCHANGED <<page, account, asOf, modal>>
      BY <2>6 DEF LoadMore
    <3>2. PICK d \in auditData : after = d.view.nextCursor /\ after # 0
      BY <3>1 DEF nextCursor
    <3>3. PICK end \in 0 .. MaxEntries : IsPageUpTo(d, end)
      BY <3>2, LoadedPage DEF ConsoleInv
    <3>4. after \in Cursor
      BY <1>1, <3>2, <3>3, ConsoleAssumption DEF IsPageUpTo, Cursor
    <3>5. QED BY <1>1, <3>1, <3>4
  <2>7. ASSUME NEW m \in study.modals, OpenModal(m) PROVE Typed
    BY <1>1, <2>7 DEF OpenModal, pageVars
  <2>8. ASSUME NEW w \in Write, Submit(w) \/ Apply(w) \/ Acknowledge(w) \/ Fail(w) PROVE Typed
    <3>1. modal' \in {modal, "none"} /\ UNCHANGED <<page, account, asOf, cursor>>
      BY <2>8 DEF Submit, Apply, Acknowledge, Fail, pageVars
    <3>2. QED BY <1>1, <3>1
  <2>9. ASSUME CloseModal \/ \E id : OthersPost(id) PROVE Typed
    BY <1>1, <2>9 DEF CloseModal, OthersPost, pageVars
  <2> HIDE DEF Typed
  <2>10. QED BY <2>1, <2>2, <2>3, <2>4, <2>5, <2>6, <2>7, <2>8, <2>9 DEF Next, Events
<1>6. QED BY <1>1, <1>2, <1>3, <1>5 DEF TablesOK

-----------------------------------------------------------------------------
(* The theorems *)

\* The browser starts on the dashboard, with what that page fetches on its way.
LEMMA InitConsoleInv == Init => ConsoleInv
<1> SUFFICES ASSUME Init PROVE ConsoleInv
  OBVIOUS
<1>1. /\ server \in [Account -> [entries: 0 .. MaxEntries, changes: Nat]]
      /\ \A x \in Account : server[x].changes <= Cardinality(Made)
  <2>1. Made = {}
    BY DEF Init, Made
  <2>2. QED BY <2>1, FS_EmptySet, ConsoleAssumption DEF Init
<1>2. LedgerKeepsWrites
  BY <1>1 DEF LedgerKeepsWrites, Init
<1>3. study.accounts \subseteq Account /\ account \in Account /\ server \in [Account -> Answer]
  BY <1>2, ServerIsAnswer, ConsoleAssumption DEF Init
<1>4. CacheOK
  <2>1. NoData \in CacheEntry /\ EntryOK(NoData)
    BY DEF NoData, CacheEntry, EntryOK
  <2>2. ASSUME NEW k \in Keys(study)
        PROVE  Fetching(NoData, k) \in CacheEntry /\ EntryOK(Fetching(NoData, k))
    <3>1. k.account \in Account
      BY <1>3 DEF Keys, AuditKey, BalanceKey, Query
    <3>2. server[k.account] \in Answer
      BY <1>3, <3>1
    <3>3. QED BY <2>1, <3>2, FetchingEntry DEF EntryOK
  <2>3. \A k \in Keys(study) : cache[k] = NoData \/ cache[k] = Fetching(NoData, k)
    BY DEF Init
  <2>4. DOMAIN cache = Keys(study) /\ cache = [k \in Keys(study) |-> cache[k]]
    BY DEF Init
  <2> HIDE DEF QueryKey
  <2>5. QED BY <2>1, <2>2, <2>3, <2>4 DEF CacheOK, QueryKey
<1>5. TablesOK
  BY <1>3, ConsoleAssumption DEF TablesOK, Init, Window, Cursor, Page, WriteRow
<1>6. AnswersHaveOwnWrites
  BY DEF AnswersHaveOwnWrites, Init
<1>7. TimelineJoins
  <2>1. items = <<>> /\ Len(items) = 0 /\ items = History(account, 0)
    BY DEF Init, History
  <2>2. seen.window # {window} /\ seen.data = {}
    BY DEF Init, NotRun
  <2>3. QED BY <1>3, <2>1, <2>2, ConsoleAssumption DEF TimelineJoins
<1>8. QED BY <1>2, <1>4, <1>5, <1>6, <1>7 DEF ConsoleInv

\* The inductive invariant holds throughout, for every set of accounts and points
\* in time, page size, history and number of writes.
THEOREM ConsoleInvariant == Spec => []ConsoleInv
<1>1. Init => ConsoleInv
  BY InitConsoleInv
<1>2. ASSUME ConsoleInv, [Next]_vars
      PROVE  ConsoleInv'
  <2>1. CASE UNCHANGED vars
    BY <1>2, <2>1 DEF vars, ConsoleInv, TablesOK, CacheOK, LedgerKeepsWrites, Made,
      AnswersHaveOwnWrites, TimelineJoins, window
  <2>2. CASE Next
    BY <1>2, <2>2, TablesKeep, CacheKeeps, LedgerKeeps, OwnWritesKeep, TimelineKeeps DEF ConsoleInv
  <2>3. QED BY <1>2, <2>1, <2>2
<1>3. QED BY <1>1, <1>2, PTL DEF Spec

\* TypeOK: at most one answer per query and none but what the ledger may give,
\* fresh ones are there, and the timeline is no longer than the history.
THEOREM ConsoleTypes == Spec => []TypeOK
<1>1. ASSUME ConsoleInv PROVE TypeOK
  <2>1. TablesOK /\ CacheOK /\ server \in [Account -> Answer] /\ Len(items) <= MaxEntries
    BY <1>1, ServerIsAnswer, ConsoleAssumption DEF ConsoleInv, TimelineJoins
  <2>2. ASSUME NEW S, \A x, y \in S : x = y
        PROVE  Cardinality(S) <= 1
    <3>1. CASE S = {}
      BY <3>1, FS_EmptySet
    <3>2. CASE S # {}
      <4>1. PICK x \in S : S = {x}
        BY <2>2, <3>2
      <4>2. QED BY <4>1, FS_Singleton
    <3>3. QED BY <3>1, <3>2
  <2>3. ASSUME NEW k \in QueryKey
        PROVE  /\ cache[k].data \subseteq Answer /\ Cardinality(cache[k].data) <= 1
               /\ cache[k].inFlight \subseteq Answer /\ Cardinality(cache[k].inFlight) <= 1
               /\ cache[k].fresh => cache[k].data # {}
    <3>1. EntryOK(cache[k])
      BY <2>1 DEF CacheOK
    <3>2. QED BY <2>2, <3>1 DEF EntryOK, CacheEntry
  <2>4. QED BY <2>1, <2>3 DEF TypeOK, TablesOK
<1>2. QED BY <1>1, ConsoleInvariant, PTL

\* FreshAnswersHaveOwnWrites: an answer that counts as fresh, unless it is late,
\* has every write the console was told of.
THEOREM ConsoleOwnWrites == Spec => []FreshAnswersHaveOwnWrites
<1>1. ASSUME ConsoleInv PROVE FreshAnswersHaveOwnWrites
  BY <1>1 DEF ConsoleInv, AnswersHaveOwnWrites, FreshAnswersHaveOwnWrites, AsNewAs
<1>2. QED BY <1>1, ConsoleInvariant, PTL

\* TimelineIsContiguous: the timeline is the history from its first entry on.
THEOREM ConsoleTimelineIsContiguous == Spec => []TimelineIsContiguous
<1>1. ASSUME ConsoleInv PROVE TimelineIsContiguous
  <2>1. PICK x \in Account : items = History(x, Len(items))
    BY <1>1 DEF ConsoleInv, TimelineJoins
  <2>2. \A i \in DOMAIN items : items[i].seq = i
    BY <2>1 DEF History
  <2>3. QED BY <2>2 DEF TimelineIsContiguous
<1>2. QED BY <1>1, ConsoleInvariant, PTL

\* TimelineIsOfItsWindow: it holds entries of the account that the page shows, and
\* none of after the point in time.
THEOREM ConsoleTimelineIsOfItsWindow == Spec => []TimelineIsOfItsWindow
<1>1. ASSUME ConsoleInv PROVE TimelineIsOfItsWindow
  <2> SUFFICES ASSUME page = "detail", ~CommitDue, NEW i \in DOMAIN items
               PROVE  /\ items[i].account = account
                      /\ asOf # Current => items[i].seq <= EntriesBy[account][asOf]
    BY DEF TimelineIsOfItsWindow
  <2>1. seen.window = {window}
    BY DEF CommitDue, Effects
  <2>2. /\ asOf # Current => Len(items) <= EntriesBy[account][asOf]
        /\ Len(items) \in 0 .. MaxEntries /\ items = History(account, Len(items))
    BY <1>1, <2>1 DEF ConsoleInv, TimelineJoins
  <2>3. i \in 1 .. Len(items) /\ items[i].account = account /\ items[i].seq = i
    BY <2>2 DEF History
  <2>4. asOf # Current => EntriesBy[account][asOf] \in Int
    BY <1>1, ConsoleAssumption DEF ConsoleInv, TablesOK, Window
  <2>5. QED BY <2>2, <2>3, <2>4, ConsoleAssumption
<1>2. QED BY <1>1, ConsoleInvariant, PTL

\* TimelineOnlyGrows: until another account or point in time is picked, or the page is left,
\* what the timeline shows stays in its place.
THEOREM ConsoleTimelineGrows == Spec => TimelineOnlyGrows
<1>1. ASSUME ConsoleInv, [Next]_vars, page' = page, seen.window = {window}
      PROVE  IsPrefix(items, items')
  <2>1. TablesOK /\ CacheOK /\ TimelineJoins
    BY <1>1 DEF ConsoleInv
  <2>2. Len(items) \in 0 .. MaxEntries /\ items = History(account, Len(items))
    BY <1>1, <2>1 DEF TimelineJoins
  <2>3. CASE items' = items
    <3>1. Len(items) \in Nat /\ Len(items) <= Len(items)
      BY <2>2, ConsoleAssumption
    <3>2. QED BY <2>2, <2>3, <3>1, LongerHistory
  <2>4. CASE Commit
    <3>1. items' = Appended
      BY <1>1, <2>4 DEF Commit
    <3>2. /\ cursor <= Len(items)
          /\ asOf # Current => Len(items) <= EntriesBy[account][asOf]
      BY <1>1, <2>1 DEF TimelineJoins
    <3>3. /\ Len(Appended) \in 0 .. MaxEntries /\ Appended = History(account, Len(Appended))
          /\ Len(items) <= Len(Appended)
      BY <2>1, <2>2, <3>2, AppendedGoesOn
    <3>4. /\ Len(items) \in Nat /\ Len(items') \in Nat /\ Len(items) <= Len(items')
          /\ items' = History(account, Len(items'))
      BY <2>2, <3>1, <3>3, ConsoleAssumption
    <3>5. QED BY <2>2, <3>4, LongerHistory
  <2>5. CASE \E p, id : Visit(p, id)
    BY <1>1, <2>5 DEF Visit
  <2>6. QED
    BY <1>1, <2>3, <2>4, <2>5 DEF Next, Events, Deliver, Refetch, FetchFails, GoStale, Forget,
      MoveTo, PickAsOf, LoadMore, OpenModal, CloseModal, Submit, Apply, Acknowledge, Fail,
      OthersPost, pageVars, vars
<1>2. QED BY <1>1, ConsoleInvariant, PTL DEF Spec, TimelineOnlyGrows

=============================================================================
