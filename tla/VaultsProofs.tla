---------------------------- MODULE VaultsProofs ----------------------------
(***************************************************************************)
(* Any number of calls, processes and currencies: the inductive invariant  *)
(* of module Vaults, and that it implements OneVault.                      *)
(***************************************************************************)
EXTENDS Vaults, TLAPS

Fault(c) == LockTimeout(c) \/ ConnectionLost(c)
AtProcess(p) == Restart(p) \/ clearCache(p)

LEMMA TypeStep == TypeOK /\ [Next]_vars => TypeOK'
<1> SUFFICES ASSUME TypeOK, [Next]_vars PROVE TypeOK'
  OBVIOUS
<1> USE DEF TypeOK, Id
<1>1. ASSUME NEW c \in Call, NEW id \in Id, Resolved(c, id),
             UNCHANGED cache \/ cache' = [cache EXCEPT ![process[c]][currency[c]] = id]
      PROVE  TypeOK'
  <2>1. cache' \in [Process -> [Currency -> Id]]
    <3>1. [cache EXCEPT ![process[c]][currency[c]] = id] \in [Process -> [Currency -> Id]]
      <4>1. [cache[process[c]] EXCEPT ![currency[c]] = id] \in [Currency -> Id]
        OBVIOUS
      <4>2. QED BY <4>1
    <3>2. QED BY <1>1, <3>1
  <2>2. QED BY <1>1, <2>1 DEF Resolved
<1>2. ASSUME NEW c \in Call,
             NEW code \in {"CONFLICT_SEQUENCE", "INTERNAL", "UNRESOLVED"}, Throw(c, code)
      PROVE  TypeOK'
  BY <1>2 DEF Throw
<1>3. ASSUME NEW c \in Call, Ask(c)
      PROVE  TypeOK'
  BY <1>1, <1>3 DEF Ask, Goto
<1>4. ASSUME NEW c \in Call, Find(c)
      PROVE  TypeOK'
  BY <1>1, <1>4 DEF Find, Goto, Remember, findByAccountNumber
<1>5. ASSUME NEW c \in Call, InsertIfAbsent(c)
      PROVE  TypeOK'
  BY <1>5 DEF InsertIfAbsent, Goto
<1>6. ASSUME NEW c \in Call, LockTimeout(c)
      PROVE  TypeOK'
  BY <1>2, <1>6, RetriesAssumption DEF LockTimeout
<1>7. ASSUME NEW c \in Call, Commit(c)
      PROVE  TypeOK'
  BY <1>7 DEF Commit, Goto
<1>8. ASSUME NEW c \in Call, Resolve(c)
      PROVE  TypeOK'
  BY <1>1, <1>2, <1>8 DEF Resolve, Remember, findByAccountNumber
<1>9. ASSUME NEW c \in Call, ConnectionLost(c)
      PROVE  TypeOK'
  BY <1>2, <1>9 DEF ConnectionLost
<1>10. ASSUME NEW p \in Process, AtProcess(p)
       PROVE  TypeOK'
  BY <1>10 DEF AtProcess, Restart, clearCache
<1>11. CASE UNCHANGED vars
  BY <1>11 DEF vars
<1>12. QED
  BY <1>3, <1>4, <1>5, <1>6, <1>7, <1>8, <1>9, <1>10, <1>11 DEF Next, Step, AtProcess

THEOREM VaultsTypeCorrect == Spec => []TypeOK
<1>1. Init => TypeOK
  BY RetriesAssumption DEF Init, TypeOK, Id
<1>2. QED BY <1>1, TypeStep, PTL DEF Spec

-----------------------------------------------------------------------------
(* The inductive invariant *)

LEMMA InitialVaults == Init => VaultsInv
BY NoVaultAssumption
DEF Init, VaultsInv, InsertsAreAlone, RowsAreUnique, LosersFindTheWinner, IdsAreVaults,
    HasInserted, findByAccountNumber

\* The ids of the rows of one currency.
LEMMA IdsOf ==
  ASSUME NEW R, NEW k, NEW i
  PROVE  i \in {row.id : row \in {w \in R : w.currency = k}} <=>
           \E v \in R : v.currency = k /\ v.id = i
<1>1. ASSUME NEW v \in R, v.currency = k
      PROVE  v.id \in {row.id : row \in {w \in R : w.currency = k}}
  <2>1. v \in {w \in R : w.currency = k}
    BY <1>1
  <2>2. QED BY <2>1
<1>2. QED BY <1>1

LEMMA FoundById ==
  ASSUME NEW v \in rows
  PROVE  v.id \in findByAccountNumber(v.currency)
BY IdsOf DEF findByAccountNumber

LEMMA SameRows ==
  ASSUME UNCHANGED rows, NEW k
  PROVE  findByAccountNumber(k)' = findByAccountNumber(k)
BY DEF findByAccountNumber

\* A step that neither inserts nor commits can at most end inserts.
LEMMA NothingInserted ==
  ASSUME TypeOK, VaultsInv, UNCHANGED <<rows, currency, insertedId>>,
         \A d \in Call : pc'[d] = pc[d] \/ pc'[d] \in {"find", "insert", "done"}
  PROVE  InsertsAreAlone' /\ RowsAreUnique' /\ LosersFindTheWinner'
<1>1. \A d \in Call : HasInserted(d)' => HasInserted(d)
  BY DEF HasInserted
<1>2. \A k : findByAccountNumber(k)' = findByAccountNumber(k)
  BY SameRows
<1>3. InsertsAreAlone' /\ RowsAreUnique'
  BY <1>1, <1>2 DEF VaultsInv, InsertsAreAlone, RowsAreUnique
<1>4. LosersFindTheWinner'
  BY <1>2 DEF VaultsInv, LosersFindTheWinner
<1>5. QED BY <1>3, <1>4

\* Throwing an error closes the transaction and touches nothing else.
LEMMA ThrowKeepsInv ==
  ASSUME TypeOK, VaultsInv, NEW c \in Call, NEW code, Throw(c, code)
  PROVE  VaultsInv'
<1>1. \A d \in Call : pc'[d] = IF d = c THEN "done" ELSE pc[d]
  BY DEF TypeOK, Throw
<1>2. InsertsAreAlone' /\ RowsAreUnique' /\ LosersFindTheWinner'
  BY <1>1, NothingInserted DEF Throw
<1>3. IdsAreVaults'
  BY <1>1, SameRows DEF Throw, VaultsInv, IdsAreVaults
<1>4. QED BY <1>2, <1>3 DEF VaultsInv

\* So does an answer that names a committed row of the currency.
LEMMA AnswerKeepsInv ==
  ASSUME TypeOK, VaultsInv, NEW c \in Call, NEW id \in findByAccountNumber(currency[c]),
         Resolved(c, id),
         UNCHANGED cache \/ cache' = [cache EXCEPT ![process[c]][currency[c]] = id]
  PROVE  VaultsInv'
<1>1. /\ \A d \in Call : pc'[d] = IF d = c THEN "done" ELSE pc[d]
      /\ \A d \in Call : result'[d] = IF d = c THEN id ELSE result[d]
      /\ UNCHANGED <<rows, currency>>
  BY DEF TypeOK, Resolved
<1>2. InsertsAreAlone' /\ RowsAreUnique' /\ LosersFindTheWinner'
  BY <1>1, NothingInserted DEF Resolved
<1>3. \A p \in Process, k \in Currency :
        cache'[p][k] = cache[p][k] \/ (k = currency[c] /\ cache'[p][k] = id)
  BY DEF TypeOK
<1>4. IdsAreVaults'
  BY <1>1, <1>3, SameRows DEF VaultsInv, IdsAreVaults
<1>5. QED BY <1>2, <1>4 DEF VaultsInv

\* So does going on to a statement before the insert.
LEMMA GotoKeepsInv ==
  ASSUME TypeOK, VaultsInv, NEW c \in Call, pc[c] # "done", NEW statement \in {"find", "insert"},
         Goto(c, statement), UNCHANGED <<rows, cache, insertedId, attempt>>
  PROVE  VaultsInv'
<1>1. \A d \in Call : pc'[d] = IF d = c THEN statement ELSE pc[d]
  BY DEF TypeOK, Goto
<1>2. InsertsAreAlone' /\ RowsAreUnique' /\ LosersFindTheWinner'
  BY <1>1, NothingInserted DEF Goto
<1>3. IdsAreVaults'
  BY <1>1, SameRows DEF Goto, VaultsInv, IdsAreVaults
<1>4. QED BY <1>2, <1>3 DEF VaultsInv

\* The insert is alone because it waited for the open one, and finds no row
\* because it looked.
LEMMA InsertKeepsInv ==
  ASSUME TypeOK, VaultsInv, NEW c \in Call, InsertIfAbsent(c)
  PROVE  VaultsInv'
<1> USE DEF TypeOK, InsertIfAbsent, Goto
<1>1. \A k : findByAccountNumber(k)' = findByAccountNumber(k)
  BY DEF findByAccountNumber
<1>2. \A d \in Call : HasInserted(d)' =>
        IF d = c THEN findByAccountNumber(currency[c]) = {} ELSE HasInserted(d)
  BY NoVaultAssumption DEF HasInserted
<1>3. \A d \in Call : HasInserted(d) /\ d # c => currency[d] # currency[c]
  BY DEF WaitsForInsert
<1>4. InsertsAreAlone'
  <2> SUFFICES ASSUME NEW d \in Call, HasInserted(d)'
               PROVE  /\ findByAccountNumber(currency[d]) = {}
                      /\ \A e \in Call : HasInserted(e)' /\ currency[e] = currency[d] => e = d
    BY <1>1 DEF InsertsAreAlone
  <2>1. QED BY <1>2, <1>3 DEF VaultsInv, InsertsAreAlone
<1>5. RowsAreUnique'
  BY DEF VaultsInv, RowsAreUnique
<1>6. LosersFindTheWinner'
  BY <1>1, NoVaultAssumption DEF VaultsInv, LosersFindTheWinner
<1>7. IdsAreVaults'
  BY <1>1 DEF VaultsInv, IdsAreVaults
<1>8. QED BY <1>4, <1>5, <1>6, <1>7 DEF VaultsInv

\* A row that becomes visible is the first of its currency: its insert was
\* open until now, so it was the only one.
LEMMA CommitKeepsInv ==
  ASSUME TypeOK, VaultsInv, NEW c \in Call, Commit(c)
  PROVE  VaultsInv'
<1> USE DEF TypeOK, Commit, Goto
<1>1. insertedId[c] \in {c, NoVault}
  BY DEF VaultsInv, LosersFindTheWinner
<1>2. CASE insertedId[c] = NoVault
  <2>1. rows' = rows
    BY <1>2
  <2>2. \A k : findByAccountNumber(k)' = findByAccountNumber(k)
    BY <2>1 DEF findByAccountNumber
  <2>3. \A d \in Call : HasInserted(d)' => HasInserted(d)
    BY DEF HasInserted
  <2>4. InsertsAreAlone' /\ RowsAreUnique'
    BY <2>1, <2>2, <2>3 DEF VaultsInv, InsertsAreAlone, RowsAreUnique
  <2>5. LosersFindTheWinner' /\ IdsAreVaults'
    BY <1>2, <2>2, NoVaultAssumption DEF VaultsInv, LosersFindTheWinner, IdsAreVaults
  <2>6. QED BY <2>4, <2>5 DEF VaultsInv
<1>3. CASE insertedId[c] = c
  <2>1. HasInserted(c) /\ rows' = rows \cup {[id |-> c, currency |-> currency[c]]}
    BY <1>3, NoVaultAssumption DEF HasInserted
  <2>2. \A k : findByAccountNumber(k)' =
          findByAccountNumber(k) \cup (IF k = currency[c] THEN {c} ELSE {})
    <3> HIDE DEF TypeOK, Commit, Goto
    <3>1. ASSUME NEW k, NEW i
          PROVE  (\E v \in rows' : v.currency = k /\ v.id = i) <=>
                   (\E v \in rows : v.currency = k /\ v.id = i) \/ (k = currency[c] /\ i = c)
      <4> DEFINE row == [id |-> c, currency |-> currency[c]]
      <4>1. row.id = c /\ row.currency = currency[c] /\ rows' = rows \cup {row}
        BY <2>1
      <4> HIDE DEF row
      <4>2. QED BY <4>1
    <3>2. ASSUME NEW k, NEW i
          PROVE  i \in findByAccountNumber(k)' <=>
                   i \in findByAccountNumber(k) \/ (k = currency[c] /\ i = c)
      BY <3>1, IdsOf DEF findByAccountNumber
    <3>3. QED BY <3>2
  <2>3. \A d \in Call : HasInserted(d)' => HasInserted(d) /\ d # c
    BY DEF HasInserted
  <2>4. \A d \in Call : HasInserted(d)' => currency[d] # currency[c]
    BY <2>1, <2>3 DEF VaultsInv, InsertsAreAlone
  <2>5. InsertsAreAlone'
    BY <2>2, <2>3, <2>4 DEF VaultsInv, InsertsAreAlone
  <2>6. \A v \in rows : v.currency # currency[c]
    <3>1. findByAccountNumber(currency[c]) = {}
      BY <2>1 DEF VaultsInv, InsertsAreAlone
    <3>2. ASSUME NEW v \in rows, v.currency = currency[c]
          PROVE  FALSE
      BY <3>1, <3>2, FoundById
    <3>3. QED BY <3>2
  <2>7. RowsAreUnique'
    BY <2>1, <2>6 DEF VaultsInv, RowsAreUnique
  <2>8. LosersFindTheWinner' /\ IdsAreVaults'
    BY <1>3, <2>2 DEF VaultsInv, LosersFindTheWinner, IdsAreVaults
  <2>9. QED BY <2>5, <2>7, <2>8 DEF VaultsInv
<1>4. QED BY <1>1, <1>2, <1>3

LEMMA ProcessKeepsInv ==
  ASSUME TypeOK, VaultsInv, NEW p \in Process, AtProcess(p)
  PROVE  VaultsInv'
<1> USE DEF TypeOK, AtProcess, Restart, clearCache, InFlight
<1>1. \A k : findByAccountNumber(k)' = findByAccountNumber(k)
  BY DEF findByAccountNumber
<1>2. \A c \in Call : pc'[c] = pc[c] \/ pc'[c] = "done"
  OBVIOUS
<1>3. InsertsAreAlone' /\ RowsAreUnique' /\ LosersFindTheWinner'
  BY <1>2, NothingInserted
<1>4. IdsAreVaults'
  BY <1>1, <1>2 DEF VaultsInv, IdsAreVaults
<1>5. QED BY <1>3, <1>4 DEF VaultsInv

LEMMA VaultsStep == TypeOK /\ VaultsInv /\ [Next]_vars => VaultsInv'
<1> SUFFICES ASSUME TypeOK, VaultsInv, [Next]_vars PROVE VaultsInv'
  OBVIOUS
<1>1. ASSUME NEW c \in Call, Ask(c)
      PROVE  VaultsInv'
  <2>1. cache[process[c]][currency[c]] # NoVault =>
          cache[process[c]][currency[c]] \in findByAccountNumber(currency[c])
    BY DEF TypeOK, VaultsInv, IdsAreVaults
  <2>2. QED BY <1>1, <2>1, AnswerKeepsInv, GotoKeepsInv DEF Ask
<1>2. ASSUME NEW c \in Call, Find(c)
      PROVE  VaultsInv'
  BY <1>2, AnswerKeepsInv, GotoKeepsInv DEF Find, Remember, InFlight
<1>3. ASSUME NEW c \in Call, Resolve(c)
      PROVE  VaultsInv'
  <2>1. insertedId[c] # NoVault => insertedId[c] \in findByAccountNumber(currency[c])
    BY <1>3 DEF Resolve, VaultsInv, LosersFindTheWinner
  <2>2. QED BY <1>3, <2>1, AnswerKeepsInv, ThrowKeepsInv DEF Resolve, Remember
<1>4. ASSUME NEW c \in Call, LockTimeout(c)
      PROVE  VaultsInv'
  <2>1. CASE attempt[c] < TX_MAX_RETRIES /\ UNCHANGED <<rows, cache, process, currency, pc, insertedId, result>>
    BY <2>1 DEF VaultsInv, InsertsAreAlone, RowsAreUnique, LosersFindTheWinner, IdsAreVaults,
                HasInserted, findByAccountNumber
  <2>2. QED BY <1>4, <2>1, ThrowKeepsInv DEF LockTimeout
<1>5. ASSUME NEW c \in Call, ConnectionLost(c)
      PROVE  VaultsInv'
  BY <1>5, ThrowKeepsInv DEF ConnectionLost
<1>6. CASE UNCHANGED vars
  BY <1>6 DEF vars, VaultsInv, InsertsAreAlone, RowsAreUnique, LosersFindTheWinner,
              IdsAreVaults, HasInserted, findByAccountNumber
<1>7. QED
  BY <1>1, <1>2, <1>3, <1>4, <1>5, <1>6, InsertKeepsInv, CommitKeepsInv, ProcessKeepsInv
  DEF Next, Step, AtProcess

\* One row per currency, and every cache and every answer names it, however
\* many processes race, restart and lose connections.
THEOREM VaultsInvariant == Spec => []VaultsInv
<1>1. QED BY InitialVaults, VaultsStep, VaultsTypeCorrect, PTL DEF Spec

\* The re-read after a lost race always finds the winner's row.
THEOREM ReReadFindsTheWinner == Spec => []NeverUnresolved
<1>1. Init => NeverUnresolved
  BY DEF Init, NeverUnresolved
<1>2. TypeOK /\ VaultsInv /\ NeverUnresolved /\ [Next]_vars => NeverUnresolved'
  <2> SUFFICES ASSUME TypeOK, VaultsInv, NeverUnresolved, [Next]_vars, NEW d \in Call
               PROVE  error'[d] # "UNRESOLVED"
    BY DEF NeverUnresolved
  <2>1. ASSUME NEW c \in Call, Resolve(c)
        PROVE  error' = error
    BY <2>1 DEF Resolve, Remember, Resolved, VaultsInv, LosersFindTheWinner
  <2>2. ASSUME NEW c \in Call, Ask(c) \/ Find(c) \/ InsertIfAbsent(c) \/ Commit(c)
        PROVE  error' = error
    BY <2>2 DEF Ask, Find, InsertIfAbsent, Commit, Goto, Remember, Resolved
  <2>3. ASSUME NEW c \in Call, Fault(c)
        PROVE  error'[d] # "UNRESOLVED"
    BY <2>3 DEF Fault, LockTimeout, ConnectionLost, Throw, TypeOK, NeverUnresolved
  <2>4. ASSUME NEW p \in Process, AtProcess(p)
        PROVE  error'[d] # "UNRESOLVED"
    BY <2>4 DEF AtProcess, Restart, clearCache, TypeOK, NeverUnresolved
  <2>5. CASE UNCHANGED vars
    BY <2>5 DEF vars, NeverUnresolved
  <2>6. QED BY <2>1, <2>2, <2>3, <2>4, <2>5 DEF Next, Step, Fault, AtProcess, NeverUnresolved
<1>3. QED BY <1>1, <1>2, VaultsTypeCorrect, VaultsInvariant, PTL DEF Spec

-----------------------------------------------------------------------------
(* Refinement *)

LEMMA InitRefines == Init => One!Init
BY DEF Init, One!Init, Told

\* An answer that names a committed row tells of that vault.
LEMMA AnswerTells ==
  ASSUME TypeOK, VaultsInv, NEW c \in Call, pc[c] # "done",
         NEW id \in findByAccountNumber(currency[c]), Resolved(c, id)
  PROVE  One!Next
<1>1. [id |-> id, currency |-> currency[c]] \in rows
  BY DEF findByAccountNumber, TypeOK
<1>2. id # NoVault /\ result[c] = NoVault
  BY <1>1, NoVaultAssumption DEF TypeOK, VaultsInv, IdsAreVaults
<1>3. Told' = Told \cup {[id |-> id, currency |-> currency[c]]}
  BY <1>2 DEF Told, Resolved, TypeOK
<1>4. QED BY <1>1, <1>3 DEF One!Next, One!Tell, Resolved

LEMMA CommitCreates ==
  ASSUME TypeOK, VaultsInv, NEW c \in Call, Commit(c)
  PROVE  One!Next \/ UNCHANGED One!vars
<1>1. Told' = Told
  BY DEF Commit, Goto, Told
<1>2. CASE insertedId[c] = NoVault
  BY <1>1, <1>2 DEF Commit, One!vars
<1>3. CASE insertedId[c] = c
  <2>1. rows' = rows \cup {[id |-> c, currency |-> currency[c]]}
    BY <1>3, NoVaultAssumption DEF Commit
  <2>2. \A v \in rows : v.currency # currency[c]
    BY <1>3 DEF Commit, HasInserted, VaultsInv, InsertsAreAlone, findByAccountNumber
  <2>3. \A v \in rows : v.id # c
    BY <2>2 DEF VaultsInv, RowsAreUnique
  <2>4. currency[c] \in Currency
    BY DEF TypeOK
  <2>5. One!Create(c, currency[c])
    BY <1>1, <2>1, <2>2, <2>3 DEF One!Create
  <2>6. QED BY <2>4, <2>5 DEF One!Next
<1>4. QED BY <1>2, <1>3 DEF VaultsInv, LosersFindTheWinner

LEMMA StepRefines == TypeOK /\ VaultsInv /\ [Next]_vars => [One!Next]_One!vars
<1> SUFFICES ASSUME TypeOK, VaultsInv, [Next]_vars PROVE One!Next \/ UNCHANGED One!vars
  OBVIOUS
<1>1. (UNCHANGED <<rows, result, currency>>) => UNCHANGED One!vars
  BY DEF One!vars, Told
<1>2. ASSUME NEW c \in Call, Ask(c)
      PROVE  One!Next \/ UNCHANGED One!vars
  <2>1. cache[process[c]][currency[c]] # NoVault =>
          cache[process[c]][currency[c]] \in findByAccountNumber(currency[c])
    BY DEF TypeOK, VaultsInv, IdsAreVaults
  <2>2. QED BY <1>1, <1>2, <2>1, AnswerTells DEF Ask, Goto
<1>3. ASSUME NEW c \in Call, Find(c)
      PROVE  One!Next \/ UNCHANGED One!vars
  BY <1>1, <1>3, AnswerTells DEF Find, Goto, Remember
<1>4. ASSUME NEW c \in Call, Resolve(c)
      PROVE  One!Next \/ UNCHANGED One!vars
  <2>1. insertedId[c] # NoVault => insertedId[c] \in findByAccountNumber(currency[c])
    BY <1>4 DEF Resolve, VaultsInv, LosersFindTheWinner
  <2>2. QED BY <1>1, <1>4, <2>1, AnswerTells DEF Resolve, Remember, Throw
<1>5. ASSUME NEW c \in Call, InsertIfAbsent(c) \/ Fault(c)
      PROVE  UNCHANGED One!vars
  BY <1>1, <1>5 DEF InsertIfAbsent, Fault, LockTimeout, ConnectionLost, Goto, Throw
<1>6. ASSUME NEW p \in Process, AtProcess(p)
      PROVE  UNCHANGED One!vars
  BY <1>1, <1>6 DEF AtProcess, Restart, clearCache
<1>7. CASE UNCHANGED vars
  BY <1>1, <1>7 DEF vars
<1>8. QED
  BY <1>2, <1>3, <1>4, <1>5, <1>6, <1>7, CommitCreates DEF Next, Step, Fault, AtProcess

\* getInternalCashAccountId, as a whole, is one creation per currency and
\* answers that agree with it.
THEOREM VaultsImplementOneVault == Spec => ImplementsOneVault
<1>1. QED
  BY InitRefines, StepRefines, VaultsTypeCorrect, VaultsInvariant, PTL
  DEF Spec, ImplementsOneVault, One!Spec

=============================================================================
