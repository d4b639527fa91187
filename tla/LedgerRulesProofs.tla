-------------------------- MODULE LedgerRulesProofs --------------------------
(***************************************************************************)
(* The rules of posting and of closing an account, for every value of the  *)
(* constants: what the gate found under the locks is still true at the     *)
(* commit, because nobody else writes a row or a history whose row is      *)
(* locked.  For the same reason a row and its lifecycle events agree.      *)
(***************************************************************************)
EXTENDS LedgerSafetyProofs

TablesKept == UNCHANGED tables
Commits(r) == pc[r] = "commit" /\ Write(r) /\ pc'[r] \in {"done", "plan"}
Creates(r) == \E o \in Workload : ReceiveCreate(r, o)
KeptOrCommitted(r) == TablesKept \/ Commits(r) \/ Creates(r)

-----------------------------------------------------------------------------
(* Who writes the accounts and the histories *)

LEMMA AnswerEnds ==
  ASSUME TypeOK, NEW r \in Request, NEW code, NEW tx, Answer(r, code, tx)
  PROVE  pc'[r] = "done"
BY DEF Answer, TypeOK

LEMMA ReceiveWrites ==
  ASSUME NEW r \in Request, Receive(r)
  PROVE  TablesKept \/ Creates(r)
<1>1. ASSUME NEW o, NEW code, AnswerAtOnce(r, o, code)
      PROVE  TablesKept
  BY <1>1 DEF AnswerAtOnce, tables, TablesKept
<1>2. ASSUME NEW o, NEW statement, NEW ls, Begin(r, o, statement, ls)
      PROVE  TablesKept
  BY <1>2 DEF Begin, tables, TablesKept
<1>3. PICK o \in Workload : \/ ReceivePost(r, o) \/ ReceiveVoid(r, o) \/ ReceiveStatus(r, o)
                            \/ ReceiveLimit(r, o) \/ ReceiveCreate(r, o) \/ CreateLost(r, o)
  BY DEF Receive
<1>4. CASE ReceivePost(r, o)
  BY <1>1, <1>2, <1>4 DEF ReceivePost
<1>5. CASE ReceiveVoid(r, o)
  BY <1>1, <1>2, <1>5 DEF ReceiveVoid
<1>6. CASE ReceiveStatus(r, o)
  BY <1>1, <1>2, <1>6 DEF ReceiveStatus
<1>7. CASE ReceiveLimit(r, o)
  BY <1>2, <1>7 DEF ReceiveLimit
<1>8. CASE CreateLost(r, o)
  BY <1>1, <1>8 DEF CreateLost
<1>9. CASE ReceiveCreate(r, o)
  BY <1>9 DEF Creates
<1>10. QED BY <1>3, <1>4, <1>5, <1>6, <1>7, <1>8, <1>9

LEMMA StepWrites ==
  ASSUME TypeOK, NEW r \in Request, Step(r) \/ Fault(r)
  PROVE  TablesKept \/ Commits(r)
<1>1. ASSUME NEW code, EndUnwritten(r, code)
      PROVE  TablesKept
  BY <1>1 DEF EndUnwritten, tables, TablesKept
<1>2. CASE Lookup(r) \/ LockRow(r) \/ InsertTransaction(r) \/ Resolve(r)
  BY <1>2 DEF Lookup, LockRow, InsertTransaction, Resolve, tables, TablesKept
<1>3. CASE LockNothing(r)
  BY <1>1, <1>3 DEF LockNothing
<1>4. CASE CheckLegs(r)
  BY <1>1, <1>4 DEF CheckLegs, tables, TablesKept
<1>5. CASE CheckStatus(r)
  BY <1>1, <1>5 DEF CheckStatus, tables, TablesKept
<1>6. CASE CheckLimit(r)
  BY <1>1, <1>6 DEF CheckLimit, tables, TablesKept
<1>7. CASE MarkVoid(r)
  BY <1>1, <1>7 DEF MarkVoid, tables, TablesKept
<1>8. CASE Commit(r)
  <2>1. pc'[r] \in {"done", "plan"}
    BY <1>8, AnswerEnds DEF Commit, Goto, TypeOK
  <2>2. QED BY <1>8, <2>1 DEF Commit, Commits
<1>9. CASE CommitUnacknowledged(r)
  BY <1>9, AnswerEnds DEF CommitUnacknowledged, Commits
<1>10. CASE PlanSnapshot(r) \/ InsertSnapshot(r) \/ SnapshotFails(r)
  BY <1>10 DEF PlanSnapshot, InsertSnapshot, SnapshotFails, tables, TablesKept
<1>11. CASE LockTimeout(r)
  BY <1>1, <1>11 DEF LockTimeout, tables, TablesKept
<1>12. CASE ConnectionLost(r)
  BY <1>1, <1>12 DEF ConnectionLost
<1>13. QED BY <1>2, <1>3, <1>4, <1>5, <1>6, <1>7, <1>8, <1>9, <1>10, <1>11, <1>12 DEF Step, Fault

\* Nobody but its holder writes a row that is locked, nor its history.
LEMMA HeldRowKept ==
  ASSUME Inv, NEW r \in Request, KeptOrCommitted(r), NEW q \in Request, q # r,
         InTransaction(q), NEW a \in Targets(q)
  PROVE  accounts'[a] = accounts[a] /\ entries'[a] = entries[a]
<1>1. a \in Account /\ Exists(a) /\ lock[a] = q
  BY DEF Inv, LedgerInv, AllRowsAreHeld, Targets
<1>2. CASE TablesKept
  BY <1>2 DEF TablesKept, tables
<1>3. CASE Commits(r)
  <2>1. a \notin Targets(r)
    BY <1>1, <1>3 DEF Inv, LedgerInv, AllRowsAreHeld, InTransaction, Commits
  <2>2. QED BY <1>1, <1>3, <2>1, WriteEffect DEF Commits, KeptAt
<1>4. CASE Creates(r)
  BY <1>1, <1>4 DEF Creates, ReceiveCreate, Exists, Inv, TypeInv, TypeOK
<1>5. QED BY <1>2, <1>3, <1>4 DEF KeptOrCommitted

-----------------------------------------------------------------------------
(* What was cleared stays cleared *)

LEMMA BalanceKept ==
  ASSUME NEW a \in Account, entries'[a] = entries[a]
  PROVE  Serial!Balance(a)' = Serial!Balance(a)
BY DEF Serial!Balance, Serial!ReplayBalance, Serial!balanceUpToSeq, Serial!LastSeq,
   Serial!SumAfter, Serial!SignedAmount

\* The account of a status or limit change is locked inside its transaction,
\* and the change has no legs.
LEMMA ChangedAccountIsHeld ==
  ASSUME Inv, NEW r \in Request, InTransaction(r), op[r].kind \in {"status", "limit"}
  PROVE  /\ op[r].account \in Account /\ op[r].account \in Targets(r)
         /\ locked[r][op[r].account] = accounts[op[r].account]
         /\ DOMAIN legs[r] = {}
<1>1. PICK a \in Targets(r) : lock[a] = r
  BY DEF Inv, LedgerInv, AllRowsAreHeld
<1>2. a = op[r].account /\ a \in Account
  BY DEF Targets
<1>3. DOMAIN legs[r] = {}
  BY DEF Inv, LedgerInv, RowsExist, IsPost
<1>4. QED BY <1>1, <1>2, <1>3 DEF Inv, LedgerInv, HeldRowsAreCurrent

\* A request stays cleared while others act.
LEMMA OthersStayCleared ==
  ASSUME Inv, NEW r \in Request, KeptOrCommitted(r), OthersUntouched(r),
         NEW q \in Request, q # r, Cleared(q)
  PROVE  Cleared(q)'
<1>1. pc'[q] = pc[q] /\ op'[q] = op[q] /\ legs'[q] = legs[q]
  BY DEF OthersUntouched, Untouched
<1>2. CASE pc[q] \notin {"insert", "mark", "commit"}
  BY <1>1, <1>2 DEF Cleared
<1>3. CASE pc[q] \in {"insert", "mark", "commit"}
  <2>1. InTransaction(q)
    BY <1>3 DEF InTransaction
  <2>2. \A a \in DOMAIN legs[q] : a \in Account /\ a \in Targets(q)
    BY <2>1, LegsAreHeld
  <2>3. \A a \in DOMAIN legs[q] : MayPost(a, legs[q][a])'
    <3>1. SUFFICES ASSUME NEW a \in DOMAIN legs[q] PROVE MayPost(a, legs[q][a])'
      OBVIOUS
    <3>2. accounts'[a] = accounts[a] /\ entries'[a] = entries[a]
      BY <2>1, <2>2, HeldRowKept
    <3>3. MayPost(a, legs[q][a])
      BY <1>3 DEF Cleared
    <3>4. /\ accounts'[a] = accounts[a] /\ Serial!Balance(a)' = Serial!Balance(a)
          /\ legs'[q][a] = legs[q][a]
      BY <1>1, <2>2, <3>2, BalanceKept
    <3>5. QED BY <3>3, <3>4 DEF MayPost
  <2>4. ASSUME pc[q] = "commit", op[q].kind \in {"status", "limit"}
        PROVE  LET a == op[q].account
               IN  /\ accounts'[a] = accounts[a] /\ Serial!Balance(a)' = Serial!Balance(a)
                   /\ op'[q].account = a
    <3> DEFINE a == op[q].account
    <3>1. a \in Account /\ a \in Targets(q)
      BY <2>1, <2>4, ChangedAccountIsHeld
    <3>2. accounts'[a] = accounts[a] /\ entries'[a] = entries[a]
      BY <2>1, <3>1, HeldRowKept
    <3>3. QED BY <1>1, <3>1, <3>2, BalanceKept
  <2>5. QED BY <1>1, <1>3, <2>3, <2>4 DEF Cleared
<1>4. QED BY <1>2, <1>3

-----------------------------------------------------------------------------
(* Being cleared *)

\* The gate lets the legs of r pass: they may be posted.
LEMMA GateClears ==
  ASSUME Inv, NEW r \in Request, InTransaction(r), NEW a \in DOMAIN legs[r],
         LegOutcome(r, a) = "OK"
  PROVE  MayPost(a, legs[r][a])
<1>1. a \in Account /\ locked[r][a] = accounts[a]
  BY LegsAreHeld
<1>2. balancesFor(NormalSide[a], entries[a], snapshots[a]) = Serial!Balance(a)
  BY <1>1, ReplayedBalance
<1>3. QED BY <1>1, <1>2 DEF LegOutcome, MayPost

LEMMA ReceiveStatement ==
  ASSUME TypeOK, NEW r \in Request, Receive(r)
  PROVE  pc'[r] \in {"done", "lookup", "locking"}
<1>1. ASSUME NEW o, NEW code, AnswerAtOnce(r, o, code)
      PROVE  pc'[r] = "done"
  BY <1>1, AnswerEnds DEF AnswerAtOnce
<1>2. ASSUME NEW o, NEW statement, NEW ls, Begin(r, o, statement, ls)
      PROVE  pc'[r] = statement
  BY <1>2 DEF Begin, Goto, TypeOK
<1>3. PICK o \in Workload : \/ ReceivePost(r, o) \/ ReceiveVoid(r, o) \/ ReceiveStatus(r, o)
                            \/ ReceiveLimit(r, o) \/ ReceiveCreate(r, o) \/ CreateLost(r, o)
  BY DEF Receive
<1>4. CASE ReceivePost(r, o)
  BY <1>1, <1>2, <1>4 DEF ReceivePost
<1>5. CASE ReceiveVoid(r, o)
  BY <1>1, <1>2, <1>5 DEF ReceiveVoid
<1>6. CASE ReceiveStatus(r, o)
  BY <1>1, <1>2, <1>6 DEF ReceiveStatus
<1>7. CASE ReceiveLimit(r, o)
  BY <1>2, <1>7 DEF ReceiveLimit
<1>8. CASE CreateLost(r, o)
  BY <1>1, <1>8 DEF CreateLost
<1>9. CASE ReceiveCreate(r, o)
  BY <1>9, AnswerEnds DEF ReceiveCreate
<1>10. QED BY <1>3, <1>4, <1>5, <1>6, <1>7, <1>8, <1>9

\* r is cleared when it gets to its writes, and stays so on its way to the commit.
LEMMA SelfCleared ==
  ASSUME Inv, NEW r \in Request, Receive(r) \/ Step(r) \/ Fault(r), Cleared(r)
  PROVE  Cleared(r)'
<1>1. CASE pc'[r] \notin {"insert", "mark", "commit"}
  BY <1>1 DEF Cleared
<1>2. ASSUME NEW code, EndUnwritten(r, code)
      PROVE  Cleared(r)'
  BY <1>1, <1>2, AnswerEnds DEF EndUnwritten, Inv, TypeInv
<1>3. ASSUME NEW statement, Goto(r, statement)
      PROVE  pc'[r] = statement
  BY <1>3 DEF Goto, Inv, TypeInv, TypeOK
<1>4. ASSUME UNCHANGED <<accounts, entries, op, legs>>
      PROVE  /\ op'[r] = op[r] /\ legs'[r] = legs[r]
             /\ \A a \in Account : accounts'[a] = accounts[a] /\ Serial!Balance(a)' = Serial!Balance(a)
  BY <1>4, BalanceKept
<1>5. \A a \in DOMAIN legs[r] : a \in Account
  BY DEF Inv, TypeInv, TypeOK, IsLegs
<1>6. CASE CheckLegs(r)
  <2>1. InTransaction(r)
    BY <1>6 DEF CheckLegs, InTransaction
  <2>2. CASE /\ \A a \in DOMAIN legs[r] : LegOutcome(r, a) = "OK"
             /\ Goto(r, IF IsPost(op[r]) THEN "insert" ELSE "mark")
             /\ UNCHANGED <<tables, snapshots, lock, op, Locals>>
    <3>1. \A a \in DOMAIN legs[r] : MayPost(a, legs[r][a])
      BY <2>1, <2>2, GateClears
    <3>2. pc'[r] \in {"insert", "mark"}
      BY <2>2, <1>3
    <3>3. QED BY <2>2, <3>1, <3>2, <1>4, <1>5 DEF Cleared, MayPost, tables, Locals
  <2>3. QED BY <1>2, <1>6, <2>2 DEF CheckLegs
<1>7. CASE InsertTransaction(r) \/ MarkVoid(r)
  <2>1. /\ pc[r] \in {"insert", "mark"} /\ (IsPost(op[r]) \/ op[r].kind = "void")
    BY <1>7 DEF InsertTransaction, MarkVoid, Inv, TypeInv, StatementsFit, StatementFits
  <2>2. CASE Goto(r, "commit") /\ UNCHANGED <<tables, snapshots, op, Locals>>
    <3>1. \A a \in DOMAIN legs[r] : MayPost(a, legs[r][a])
      BY <2>1 DEF Cleared
    <3>2. \A a \in DOMAIN legs[r] : MayPost(a, legs[r][a])'
      BY <2>2, <3>1, <1>4, <1>5 DEF MayPost, tables, Locals
    <3>3. op[r].kind \notin {"status", "limit"}
      BY <2>1 DEF IsPost
    <3>4. QED BY <2>2, <3>2, <3>3, <1>4 DEF Cleared, tables, Locals
  <2>3. CASE Goto(r, "resolve")
    BY <1>1, <1>3, <2>3
  <2>4. QED BY <1>2, <1>7, <2>2, <2>3 DEF InsertTransaction, MarkVoid
<1>8. CASE CheckStatus(r) \/ CheckLimit(r)
  <2> DEFINE a == op[r].account
  <2>1. pc[r] = "check" /\ op[r].kind \in {"status", "limit"} /\ InTransaction(r)
    BY <1>8 DEF CheckStatus, CheckLimit, InTransaction
  <2>2. a \in Account /\ locked[r][a] = accounts[a] /\ DOMAIN legs[r] = {}
    BY <2>1, ChangedAccountIsHeld
  <2>3. balancesFor(NormalSide[a], entries[a], snapshots[a]) = Serial!Balance(a)
    BY <2>2, ReplayedBalance
  <2>4. CASE /\ Goto(r, "commit") /\ UNCHANGED <<tables, snapshots, lock, op, Locals>>
             /\ locked[r][a].status # "closed"
             /\ op[r].kind = "status" => /\ locked[r][a].status # op[r].status
                                         /\ ~MayNotClose(r, a)
    <3>1. op[r].kind = "status" /\ op[r].status = "closed" => Serial!Balance(a) = 0
      BY <2>3, <2>4 DEF MayNotClose
    <3>2. /\ op'[r] = op[r] /\ legs'[r] = legs[r]
          /\ accounts'[a] = accounts[a] /\ Serial!Balance(a)' = Serial!Balance(a)
      BY <2>2, <2>4, <1>4 DEF tables, Locals
    <3>3. /\ accounts[a].status # "closed"
          /\ op[r].kind = "status" => accounts[a].status # op[r].status
      BY <2>2, <2>4
    <3>4. QED BY <2>2, <3>1, <3>2, <3>3 DEF Cleared
  <2>5. QED BY <1>2, <1>8, <2>1, <2>4 DEF CheckStatus, CheckLimit
<1>9. CASE Receive(r)
  BY <1>1, <1>9, ReceiveStatement DEF Inv, TypeInv
<1>10. CASE Lookup(r) \/ LockRow(r) \/ Resolve(r)
  <2>1. pc'[r] \in {"done", "locking", "check"}
    BY <1>3, <1>10, AnswerEnds DEF Lookup, LockRow, Resolve, Inv, TypeInv
  <2>2. QED BY <1>1, <2>1
<1>11. CASE LockNothing(r) \/ LockTimeout(r) \/ ConnectionLost(r)
  BY <1>1, <1>2, <1>3, <1>11 DEF LockNothing, LockTimeout, ConnectionLost
<1>12. CASE Commit(r) \/ CommitUnacknowledged(r)
  <2>1. pc'[r] \in {"done", "plan"}
    BY <1>3, <1>12, AnswerEnds DEF Commit, CommitUnacknowledged, Inv, TypeInv
  <2>2. QED BY <1>1, <2>1
<1>13. CASE PlanSnapshot(r) \/ InsertSnapshot(r) \/ SnapshotFails(r)
  <2>1. pc'[r] \in {"done", "plan", "snapshot"}
    BY <1>3, <1>13, AnswerEnds DEF PlanSnapshot, InsertSnapshot, SnapshotFails, Inv, TypeInv
  <2>2. QED BY <1>1, <2>1
<1>14. QED BY <1>6, <1>7, <1>8, <1>9, <1>10, <1>11, <1>12, <1>13 DEF Step, Fault

-----------------------------------------------------------------------------
(* What a commit does to one account *)

PostedOn(r, a) ==
  /\ a \in DOMAIN legs[r] /\ AppendedAt(r, a) /\ MayPost(a, legs[r][a])
Changed(a) ==
  /\ accounts[a].status # "closed"
  /\ entries'[a] = entries[a]
  /\ accounts'[a].status = "closed" => accounts[a].status = "closed" \/ Serial!Balance(a) = 0

LEMMA CommitOnAccount ==
  ASSUME Inv, NEW r \in Request, Commits(r), Cleared(r), NEW a \in Account
  PROVE  PostedOn(r, a) \/ Changed(a) \/ KeptAt(a)
<1>1. InTransaction(r) /\ pc[r] = "commit" /\ Write(r)
  BY DEF Commits, InTransaction
<1>2. CASE a \in DOMAIN legs[r]
  BY <1>1, <1>2, WriteEffect DEF Cleared, PostedOn
<1>3. CASE a \notin DOMAIN legs[r] /\ op[r].kind \in {"status", "limit"}
  <2>1. /\ op[r].account \in Account /\ op[r].account \in Targets(r)
    BY <1>1, <1>3, ChangedAccountIsHeld
  <2>2. CASE a # op[r].account
    <3>1. a \notin Targets(r)
      BY <1>3, <2>2 DEF Targets
    <3>2. QED BY <1>1, <3>1, WriteEffect
  <2>3. CASE a = op[r].account
    <3>1. accounts[a].status # "closed"
      BY <1>1, <1>3, <2>3 DEF Cleared
    <3>2. accounts[a] \in AccountRow
      BY DEF Inv, TypeInv, TypeOK
    <3>3. CASE op[r].kind = "status"
      <4>1. /\ accounts'[a] = [accounts[a] EXCEPT !.status = op[r].status,
                 !.statusHistory = Append(locked[r][a].statusHistory, op[r].status)]
            /\ entries' = entries
        BY <1>1, <2>3, <3>3 DEF Write, WriteStatus, IsPost, Inv, TypeInv, TypeOK
      <4>2. accounts'[a].status = op[r].status
        BY <3>2, <4>1 DEF AccountRow
      <4>3. op[r].status = "closed" => Serial!Balance(a) = 0
        BY <1>1, <2>3, <3>3 DEF Cleared
      <4>4. QED BY <3>1, <4>1, <4>2, <4>3 DEF Changed
    <3>4. CASE op[r].kind = "limit"
      <4>1. /\ accounts'[a] = [accounts[a] EXCEPT !.overdraftLimit = op[r].overdraftLimit]
            /\ entries' = entries
        BY <1>1, <2>3, <3>4 DEF Write, WriteLimit, IsPost, Inv, TypeInv, TypeOK
      <4>2. accounts'[a].status = accounts[a].status
        BY <3>2, <4>1 DEF AccountRow
      <4>3. QED BY <3>1, <4>1, <4>2 DEF Changed
    <3>5. QED BY <1>3, <3>3, <3>4
  <2>4. QED BY <2>2, <2>3
<1>4. CASE a \notin DOMAIN legs[r] /\ op[r].kind \notin {"status", "limit"}
  <2>1. a \notin Targets(r)
    BY <1>4 DEF Targets
  <2>2. QED BY <1>1, <2>1, WriteEffect
<1>5. QED BY <1>2, <1>3, <1>4

\* An entry that is written finds its account active, and its new balance is
\* the one the gate computed.
LEMMA PostedBalance ==
  ASSUME Inv, NEW r \in Request, NEW a \in Account, PostedOn(r, a)
  PROVE  /\ accounts[a].status = "active" /\ accounts'[a].status = "active"
         /\ ReplayBalance(NormalSide[a], entries'[a]) >= -accounts[a].overdraftLimit
<1> DEFINE n == accounts[a].currentSequence
           leg == legs[r][a]
           before == ReplayBalance(NormalSide[a], entries[a])
           after == balanceAfterEntry(before, NormalSide[a], leg.direction, leg.amount)
<1>1. a \in DOMAIN legs[r] /\ AppendedAt(r, a) /\ MayPost(a, leg)
  BY DEF PostedOn
<1>2. leg \in Leg
  BY <1>1 DEF Inv, TypeInv, TypeOK, IsLegs
<1>3. /\ n \in Nat /\ DOMAIN entries[a] = 1..n /\ accounts[a].overdraftLimit \in Nat
      /\ accounts[a].status \in Status \cup {"absent"}
  BY DEF Inv, TypeInv, TypeOK, AccountRow, LedgerInv, ContiguousHistories
<1>4. accounts[a].status # "absent"
  BY <1>1 DEF Inv, LedgerInv, RowsExist, Exists
<1>5. before \in Int /\ after \in Int
  <2>1. Amounts(entries[a])
    BY HistoryAmounts DEF Inv, TypeInv, TypeOK
  <2>2. balanceUpToSeq(NormalSide[a], entries[a], n) \in Int
    BY <1>3, <2>1, SumAfterType DEF balanceUpToSeq
  <2>3. before \in Int
    BY <1>3, <2>2, LastSeqOfInterval DEF ReplayBalance
  <2>4. QED BY <1>2, <2>3 DEF balanceAfterEntry, Leg
<1>6. assertPostAllowed(accounts[a].status, after, accounts[a].overdraftLimit) = "OK"
  BY <1>1, SerialBalance DEF MayPost
<1>7. accounts[a].status = "active" /\ ~(after < -accounts[a].overdraftLimit)
  BY <1>3, <1>4, <1>6 DEF assertPostAllowed, Status
<1>8. ReplayBalance(NormalSide[a], entries'[a]) = after
  <2>1. Amounts(entries[a])
    BY HistoryAmounts DEF Inv, TypeInv, TypeOK
  <2>2. entries'[a] = ExtendLog(entries[a], n + 1,
                        [tx |-> r, direction |-> leg.direction, amount |-> leg.amount])
    BY <1>1 DEF AppendedAt
  <2>3. /\ DOMAIN entries'[a] = 1..(n + 1)
        /\ \A k \in 1..n : entries'[a][k] = entries[a][k]
        /\ entries'[a][n + 1] = [tx |-> r, direction |-> leg.direction, amount |-> leg.amount]
    BY <1>3, <2>2 DEF ExtendLog
  <2>4. leg.amount \in Int
    BY <1>2 DEF Leg
  <2> HIDE DEF n, leg
  <2>5. QED BY <1>3, <2>1, <2>3, <2>4, BalanceAfterAppend
<1>9. accounts'[a].status = accounts[a].status
  BY <1>1 DEF AppendedAt
<1>10. QED BY <1>3, <1>5, <1>7, <1>8, <1>9

-----------------------------------------------------------------------------
(* The theorems *)

LEMMA ActionWrites ==
  ASSUME TypeOK, NEW r \in Request, Receive(r) \/ Step(r) \/ Fault(r)
  PROVE  KeptOrCommitted(r) /\ OthersUntouched(r)
BY ReceiveWrites, StepWrites, ReceiveUntouched, StepUntouched DEF KeptOrCommitted

LEMMA InitialRules == Init => RulesInv
<1> SUFFICES ASSUME Init PROVE RulesInv
  OBVIOUS
<1>1. \A r \in Request : Cleared(r)
  BY DEF Init, Cleared
<1>2. \A a \in Account : accounts[a].status # "closed"
  BY DEF Init, InitialAccounts, NewRow, NoRow
<1>3. QED BY <1>1, <1>2 DEF RulesInv, ClosedAccountsAreEmpty

LEMMA RulesStep == Inv /\ RulesInv /\ [Next]_vars => RulesInv'
<1> SUFFICES ASSUME Inv, RulesInv, [Next]_vars PROVE RulesInv'
  OBVIOUS
<1>1. CASE UNCHANGED vars
  <2>1. \A a \in Account : accounts'[a] = accounts[a] /\ Serial!Balance(a)' = Serial!Balance(a)
    BY <1>1, BalanceKept DEF vars
  <2>2. UNCHANGED <<pc, op, legs>>
    BY <1>1 DEF vars
  <2>3. ClosedAccountsAreEmpty'
    BY <2>1 DEF RulesInv, ClosedAccountsAreEmpty
  <2>4. ASSUME NEW q \in Request PROVE Cleared(q)'
    <3>1. Cleared(q)
      BY DEF RulesInv
    <3>2. \A a \in DOMAIN legs[q] : a \in Account
      BY DEF Inv, TypeInv, TypeOK, IsLegs
    <3>3. pc[q] = "commit" /\ op[q].kind \in {"status", "limit"} => op[q].account \in Account
      BY ChangedAccountIsHeld DEF InTransaction
    <3>4. QED BY <2>1, <2>2, <3>1, <3>2, <3>3 DEF Cleared, MayPost
  <2>5. QED BY <2>3, <2>4 DEF RulesInv
<1>2. ASSUME NEW r \in Request, Receive(r) \/ Step(r) \/ Fault(r)
      PROVE  RulesInv'
  <2>1. KeptOrCommitted(r) /\ OthersUntouched(r)
    BY <1>2, ActionWrites DEF Inv, TypeInv
  <2>2. \A q \in Request : Cleared(q)'
    BY <1>2, <2>1, OthersStayCleared, SelfCleared DEF RulesInv
  <2>3. ASSUME NEW a \in Account, accounts'[a].status = "closed" PROVE Serial!Balance(a)' = 0
    <3>1. accounts[a].status = "closed" => Serial!Balance(a) = 0
      BY DEF RulesInv, ClosedAccountsAreEmpty
    <3>2. CASE KeptAt(a)
      BY <2>3, <3>1, <3>2, BalanceKept DEF KeptAt
    <3>3. CASE Commits(r)
      <4>1. CASE PostedOn(r, a)
        BY <2>3, <4>1, PostedBalance
      <4>2. CASE Changed(a)
        BY <2>3, <3>1, <4>2, BalanceKept DEF Changed
      <4>3. QED BY <3>2, <3>3, <4>1, <4>2, CommitOnAccount DEF RulesInv
    <3>4. CASE Creates(r)
      <4>1. PICK o \in Workload : ReceiveCreate(r, o)
        BY <3>4 DEF Creates
      <4>2. accounts' = [accounts EXCEPT ![o.account] = NewRow(o.overdraftLimit)] /\ entries' = entries
        BY <4>1 DEF ReceiveCreate
      <4>3. NewRow(o.overdraftLimit).status # "closed"
        BY DEF NewRow
      <4>4. a # o.account
        BY <2>3, <4>2, <4>3 DEF Inv, TypeInv, TypeOK
      <4>5. QED BY <3>2, <4>2, <4>4 DEF KeptAt, Inv, TypeInv, TypeOK
    <3>5. CASE TablesKept
      BY <3>2, <3>5 DEF TablesKept, KeptAt, tables
    <3>6. QED BY <2>1, <3>3, <3>4, <3>5 DEF KeptOrCommitted
  <2>4. QED BY <2>2, <2>3 DEF RulesInv, ClosedAccountsAreEmpty
<1>3. QED BY <1>1, <1>2 DEF Next

\* What the gate found under the locks is true until the commit acts on it, and
\* a closed account is empty.
THEOREM RulesInvariant == Spec => []RulesInv
<1>1. Spec => [](Inv /\ RulesInv)
  <2>1. Init => Inv /\ RulesInv
    BY InitialInv, InitialRules
  <2>2. Inv /\ RulesInv /\ [Next]_vars => (Inv /\ RulesInv)'
    BY InvStep, RulesStep
  <2>3. QED BY <2>1, <2>2, PTL DEF Spec
<1>2. QED BY <1>1, PTL

\* The race of a close with a post never leaves money on a closed account.
THEOREM ClosedStaysEmpty == Spec => []ClosedAccountsAreEmpty
<1>1. RulesInv => ClosedAccountsAreEmpty
  BY DEF RulesInv
<1>2. QED BY <1>1, RulesInvariant, PTL

LEMMA AllowedStep == Inv /\ RulesInv /\ [Next]_vars => PostsAreAllowedStep /\ ClosedIsFinalStep
<1> SUFFICES ASSUME Inv, RulesInv, [Next]_vars, NEW a \in Account
             PROVE  /\ entries'[a] # entries[a] =>
                         /\ accounts[a].status = "active"
                         /\ ReplayBalance(NormalSide[a], entries'[a]) >= -accounts[a].overdraftLimit
                    /\ accounts[a].status = "closed" => KeptAt(a)
  BY DEF PostsAreAllowedStep, ClosedIsFinalStep, KeptAt
<1>1. CASE KeptAt(a)
  BY <1>1 DEF KeptAt
<1>2. ASSUME NEW r \in Request, Receive(r) \/ Step(r) \/ Fault(r), ~KeptAt(a)
      PROVE  /\ accounts[a].status # "closed"
             /\ entries'[a] # entries[a] => PostedOn(r, a)
  <2>1. KeptOrCommitted(r)
    BY <1>2, ActionWrites DEF Inv, TypeInv
  <2>2. CASE Commits(r)
    <3>1. PostedOn(r, a) => accounts[a].status = "active"
      BY PostedBalance
    <3>2. QED BY <1>2, <2>2, <3>1, CommitOnAccount DEF RulesInv, Changed
  <2>3. CASE Creates(r)
    BY <1>2, <2>3 DEF Creates, ReceiveCreate, KeptAt, Exists, Inv, TypeInv, TypeOK
  <2>4. CASE TablesKept
    BY <1>2, <2>4 DEF TablesKept, KeptAt, tables
  <2>5. QED BY <2>1, <2>2, <2>3, <2>4 DEF KeptOrCommitted
<1>3. CASE UNCHANGED vars
  BY <1>1, <1>3 DEF vars, KeptAt
<1>4. QED BY <1>1, <1>2, <1>3, PostedBalance DEF Next

\* An entry only ever becomes visible on an active account, which it leaves
\* within its overdraft limit.
THEOREM EveryPostIsAllowed == Spec => PostsAreAllowed
<1>1. QED BY AllowedStep, LedgerInvariant, RulesInvariant, PTL DEF Spec, PostsAreAllowed, Inv

\* Nothing changes a closed account or its history.
THEOREM ClosingIsFinal == Spec => ClosedIsFinal
<1>1. QED BY AllowedStep, LedgerInvariant, RulesInvariant, PTL DEF Spec, ClosedIsFinal, Inv

-----------------------------------------------------------------------------
(* The fold of a stream of lifecycle events *)

\* The equation States is defined by, for a function on 0..n.
Folds(events, n, f) ==
  /\ f[0] = Unopened
  /\ \A k \in 1..n : f[k] = ApplyEvent(f[k - 1], events[k])

LEMMA PartialFolds ==
  ASSUME NEW events
  PROVE  \A n \in Nat : \E f : f = [k \in 0..n |-> f[k]] /\ Folds(events, n, f)
<1> DEFINE T == {n \in Nat : ~ \E f : f = [k \in 0..n |-> f[k]] /\ Folds(events, n, f)}
<1>1. SUFFICES ASSUME T # {} PROVE FALSE
  OBVIOUS
<1>2. PICK n \in T : \A m \in T : n <= m
  BY <1>1, LeastNat
<1>3. n \in Nat
  OBVIOUS
<1>4. CASE n = 0
  <2> DEFINE g == [k \in 0..0 |-> Unopened]
  <2>1. g = [k \in 0..0 |-> g[k]]
    OBVIOUS
  <2>2. Folds(events, 0, g)
    BY DEF Folds
  <2>3. QED BY <2>1, <2>2, <1>4
<1>5. CASE n # 0
  <2>1. n - 1 \in Nat /\ n - 1 \notin T
    BY <1>2, <1>3, <1>5
  <2>2. PICK f : f = [k \in 0..(n-1) |-> f[k]] /\ Folds(events, n - 1, f)
    BY <2>1
  <2> DEFINE v == ApplyEvent(f[n - 1], events[n])
             g == [k \in 0..n |-> IF k = n THEN v ELSE f[k]]
  <2>3. g = [k \in 0..n |-> g[k]]
    OBVIOUS
  <2>4. g[0] = Unopened
    BY <1>3, <1>5, <2>2 DEF Folds
  <2>5. ASSUME NEW k \in 1..n
        PROVE  g[k] = ApplyEvent(g[k - 1], events[k])
    <3>1. CASE k = n
      <4>1. g[n] = v
        BY <1>3
      <4>2. g[n - 1] = f[n - 1]
        BY <1>3, <1>5, <2>1
      <4> HIDE DEF g
      <4>3. QED BY <4>1, <4>2, <3>1
    <3>2. CASE k # n
      <4>1. k \in 1..(n-1)
        BY <1>3, <3>2
      <4>2. f[k] = ApplyEvent(f[k - 1], events[k])
        BY <4>1, <2>2 DEF Folds
      <4>3. g[k] = f[k]
        BY <3>2
      <4>4. g[k - 1] = f[k - 1]
        BY <1>3, <4>1
      <4> HIDE DEF g
      <4>5. QED BY <4>2, <4>3, <4>4
    <3>3. QED BY <3>1, <3>2
  <2>6. Folds(events, n, g)
    <3> HIDE DEF g
    <3>1. QED BY <2>4, <2>5 DEF Folds
  <2>7. QED BY <2>3, <2>6, <1>3
<1>6. QED BY <1>4, <1>5

\* Streams that agree up to a position fold to the same there.
LEMMA FoldsAgree ==
  ASSUME NEW es, NEW fs, NEW n \in Nat, NEW m \in Nat, NEW f, NEW g,
         Folds(es, n, f), Folds(fs, m, g), \A k \in 1..n : es[k] = fs[k]
  PROVE  \A k \in 0..n : k <= m => f[k] = g[k]
<1> DEFINE T == {k \in 0..n : k <= m /\ f[k] # g[k]}
<1>1. SUFFICES ASSUME T # {} PROVE FALSE
  OBVIOUS
<1>2. PICK k \in T : \A j \in T : k <= j
  <2>1. T \in SUBSET Nat
    OBVIOUS
  <2> HIDE DEF T
  <2>2. QED BY <1>1, <2>1, LeastNat
<1>3. k \in Nat /\ k <= n /\ k <= m /\ f[k] # g[k]
  OBVIOUS
<1>4. k # 0
  BY <1>3 DEF Folds
<1>5. f[k] = ApplyEvent(f[k - 1], es[k]) /\ g[k] = ApplyEvent(g[k - 1], fs[k]) /\ es[k] = fs[k]
  BY <1>3, <1>4 DEF Folds
<1>6. k - 1 \in 0..n /\ k - 1 <= m /\ k - 1 \notin T
  BY <1>2, <1>3, <1>4
<1>7. f[k - 1] = g[k - 1]
  BY <1>6
<1>8. QED BY <1>3, <1>5, <1>7

\* States is the function its recursive definition says.
LEMMA StatesDef ==
  ASSUME NEW events, NEW n \in Nat
  PROVE  Folds(events, n, States(events))
<1> DEFINE P(m) == CHOOSE f : f = [k \in 0..m |-> f[k]] /\ Folds(events, m, f)
           h == [m \in Nat |-> P(m)[m]]
<1>1. \A m \in Nat : Folds(events, m, P(m))
  BY PartialFolds
<1>2. \A m \in Nat : h[m] = IF m = 0 THEN Unopened ELSE ApplyEvent(h[m - 1], events[m])
  <2>1. SUFFICES ASSUME NEW m \in Nat
                 PROVE  h[m] = IF m = 0 THEN Unopened ELSE ApplyEvent(h[m - 1], events[m])
    OBVIOUS
  <2> HIDE DEF P
  <2>2. P(m)[m] = IF m = 0 THEN Unopened ELSE ApplyEvent(P(m)[m - 1], events[m])
    BY <1>1 DEF Folds
  <2>3. m # 0 => m - 1 \in Nat /\ P(m)[m - 1] = P(m - 1)[m - 1]
    <3>1. SUFFICES ASSUME m # 0 PROVE m - 1 \in Nat /\ P(m)[m - 1] = P(m - 1)[m - 1]
      OBVIOUS
    <3>2. m - 1 \in Nat /\ m - 1 \in 0..(m - 1) /\ m - 1 <= m
      BY <3>1
    <3>3. Folds(events, m, P(m)) /\ Folds(events, m - 1, P(m - 1))
      BY <1>1, <3>2
    <3>4. QED BY <3>2, <3>3, FoldsAgree
  <2>4. QED BY <2>2, <2>3
<1> HIDE DEF h
<1>3. h = [m \in Nat |-> IF m = 0 THEN Unopened ELSE ApplyEvent(h[m - 1], events[m])]
  <2>1. h = [m \in Nat |-> h[m]]
    BY DEF h
  <2>2. QED BY <2>1, <1>2
<1>4. States(events) = [m \in Nat |-> IF m = 0 THEN Unopened
                                      ELSE ApplyEvent(States(events)[m - 1], events[m])]
  BY <1>3 DEF States
<1>5. QED BY <1>4 DEF Folds

LEMMA FoldNothing == fold(<<>>) = Unopened
BY StatesDef DEF fold, Folds

\* One more event is applied to what the stream folded to.
LEMMA FoldAppend ==
  ASSUME NEW events \in Seq(AccountEvent), NEW e \in AccountEvent
  PROVE  fold(Append(events, e)) = ApplyEvent(fold(events), e)
<1> DEFINE n == Len(events)
           more == Append(events, e)
<1>1. n \in Nat /\ Len(more) = n + 1 /\ more[n + 1] = e /\ \A k \in 1..n : events[k] = more[k]
  OBVIOUS
<1> HIDE DEF n, more
<1>2. Folds(events, n, States(events)) /\ Folds(more, n + 1, States(more))
  BY <1>1, StatesDef
<1>3. States(events)[n] = States(more)[n]
  BY <1>1, <1>2, FoldsAgree
<1>4. States(more)[n + 1] = ApplyEvent(States(more)[n], more[n + 1])
  BY <1>1, <1>2 DEF Folds
<1>5. QED BY <1>1, <1>3, <1>4 DEF fold, n, more

-----------------------------------------------------------------------------
(* The row of an account and its events *)

Matches(row, events) ==
  fold(events) = [status |-> row.status, limit |-> row.overdraftLimit,
                  history |-> <<"active">> \o row.statusHistory]

LEMMA MatchesNew ==
  ASSUME NEW limit \in Nat
  PROVE  Matches(NewRow(limit), Append(<<>>, LimitEvent("account_opened", limit)))
<1> DEFINE e == LimitEvent("account_opened", limit)
<1>1. e \in AccountEvent /\ e.type = "account_opened" /\ e.overdraftLimit = limit
  BY DEF LimitEvent, AccountEvent
<1> HIDE DEF e
<1>2. fold(Append(<<>>, e)) = ApplyEvent(Unopened, e)
  <2>1. <<>> \in Seq(AccountEvent)
    OBVIOUS
  <2>2. QED BY <1>1, <2>1, FoldAppend, FoldNothing
<1>3. ApplyEvent(Unopened, e) = [status |-> "active", limit |-> limit, history |-> Append(<<>>, "active")]
  BY <1>1 DEF ApplyEvent, Unopened
<1>4. Append(<<>>, "active") = <<"active">> \o <<>>
  OBVIOUS
<1>5. QED BY <1>2, <1>3, <1>4 DEF Matches, NewRow, e

LEMMA HistoryAppend ==
  ASSUME NEW h \in Seq(Status), NEW status \in Status
  PROVE  Append(<<"active">> \o h, status) = <<"active">> \o Append(h, status)
<1>1. "active" \in Status
  BY DEF Status
<1>2. <<"active">> \in Seq(Status)
  BY <1>1
<1>3. QED BY <1>2

LEMMA MatchesStatus ==
  ASSUME NEW row \in AccountRow, NEW events \in Seq(AccountEvent), Matches(row, events),
         NEW status \in Status, NEW new \in AccountRow,
         new.status = status, new.overdraftLimit = row.overdraftLimit,
         new.statusHistory = Append(row.statusHistory, status)
  PROVE  Matches(new, Append(events, StatusEvent(status)))
<1> DEFINE e == StatusEvent(status)
<1>1. /\ e \in AccountEvent /\ e.type \notin {"limit_changed", "account_opened"}
      /\ status = CASE e.type = "account_frozen" -> "frozen"
                    [] e.type = "account_closed" -> "closed"
                    [] OTHER -> "active"
  BY DEF StatusEvent, AccountEvent, Status
<1> HIDE DEF e
<1>2. fold(Append(events, e)) = ApplyEvent(fold(events), e)
  BY <1>1, FoldAppend
<1>3. ApplyEvent(fold(events), e)
        = [status |-> status, limit |-> fold(events).limit,
           history |-> Append(fold(events).history, status)]
  BY <1>1 DEF ApplyEvent
<1>4. /\ fold(events).limit = row.overdraftLimit
      /\ fold(events).history = <<"active">> \o row.statusHistory
  BY DEF Matches
<1>5. row.statusHistory \in Seq(Status)
  BY DEF AccountRow
<1>6. Append(fold(events).history, status) = <<"active">> \o new.statusHistory
  BY <1>4, <1>5, HistoryAppend
<1>7. QED BY <1>2, <1>3, <1>4, <1>6 DEF Matches, e

LEMMA MatchesLimit ==
  ASSUME NEW row, NEW events \in Seq(AccountEvent), Matches(row, events),
         NEW limit \in Nat, NEW new,
         new.status = row.status, new.overdraftLimit = limit,
         new.statusHistory = row.statusHistory
  PROVE  Matches(new, Append(events, LimitEvent("limit_changed", limit)))
<1> DEFINE e == LimitEvent("limit_changed", limit)
<1>1. e \in AccountEvent /\ e.type = "limit_changed" /\ e.overdraftLimit = limit
  BY DEF LimitEvent, AccountEvent
<1> HIDE DEF e
<1>2. fold(Append(events, e)) = [fold(events) EXCEPT !.limit = limit]
  BY <1>1, FoldAppend DEF ApplyEvent
<1>3. [fold(events) EXCEPT !.limit = limit]
        = [status |-> row.status, limit |-> limit, history |-> <<"active">> \o row.statusHistory]
  <2> DEFINE h == <<"active">> \o row.statusHistory
  <2>1. fold(events) = [status |-> row.status, limit |-> row.overdraftLimit, history |-> h]
    BY DEF Matches
  <2> HIDE DEF h
  <2>2. [fold(events) EXCEPT !.limit = limit] = [status |-> row.status, limit |-> limit, history |-> h]
    BY <2>1
  <2>3. QED BY <2>2 DEF h
<1>4. QED BY <1>2, <1>3 DEF Matches, e

LEMMA OpInFlight ==
  ASSUME Inv, NEW r \in Request, pc[r] # "idle"
  PROVE  op[r] \in Op
BY WorkloadAssumption DEF Inv, TypeInv, StatementsFit, StatementFits

\* A step leaves the row's projected columns and its events alone, or appends
\* to the events what it does to the row.
LEMMA ProjectionKept ==
  ASSUME Inv, EventsInv, NEW r \in Request, KeptOrCommitted(r), NEW a \in Account
  PROVE  /\ ~Exists(a)' => accountEvents'[a] = <<>>
         /\ Exists(a)' /\ ~IsVault(a) => Matches(accounts'[a], accountEvents'[a])
<1>1. /\ accounts \in [Account -> AccountRow] /\ accounts[a] \in AccountRow
      /\ accountEvents \in [Account -> Seq(AccountEvent)] /\ accountEvents[a] \in Seq(AccountEvent)
  BY DEF Inv, TypeInv, TypeOK
<1>2. /\ ~Exists(a) => accountEvents[a] = <<>>
      /\ Exists(a) /\ ~IsVault(a) => Matches(accounts[a], accountEvents[a])
  BY DEF EventsInv, RowsAreProjections, RowMatchesEvents, Matches
<1>3. CASE /\ accountEvents'[a] = accountEvents[a]
           /\ accounts'[a].status = accounts[a].status
           /\ accounts'[a].overdraftLimit = accounts[a].overdraftLimit
           /\ accounts'[a].statusHistory = accounts[a].statusHistory
  BY <1>2, <1>3 DEF Exists, Matches
<1>4. CASE TablesKept
  BY <1>3, <1>4 DEF TablesKept, tables
<1>5. CASE Creates(r)
  <2>1. PICK o \in Workload : ReceiveCreate(r, o)
    BY <1>5 DEF Creates
  <2>2. o.overdraftLimit \in Nat /\ ~Exists(o.account)
    BY <2>1, WorkloadAssumption, OpOfKind DEF ReceiveCreate, CreateOp
  <2>3. CASE a = o.account
    <3>1. /\ accounts'[a] = NewRow(o.overdraftLimit)
          /\ accountEvents'[a] = Append(<<>>, LimitEvent("account_opened", o.overdraftLimit))
      BY <1>1, <1>2, <2>1, <2>2, <2>3 DEF ReceiveCreate
    <3>2. accounts'[a].status = "active"
      BY <3>1 DEF NewRow
    <3>3. QED BY <2>2, <3>1, <3>2, MatchesNew DEF Exists
  <2>4. CASE a # o.account
    BY <1>1, <1>3, <2>1, <2>4 DEF ReceiveCreate
  <2>5. QED BY <2>3, <2>4
<1>6. CASE Commits(r)
  <2>1. /\ op[r] \in Op /\ Write(r) /\ pc[r] = "commit"
        /\ IsPost(op[r]) \/ op[r].kind \in {"void", "status", "limit"}
    BY <1>6, OpInFlight DEF Commits, Inv, TypeInv, StatementsFit, StatementFits
  <2>2. CASE IsPost(op[r]) \/ op[r].kind = "void"
    <3>1. AppendEntries(r) /\ accountEvents' = accountEvents
      BY <2>1, <2>2 DEF Write, WritePost, WriteVoid, IsPost
    <3>2. accounts'[a] = IF a \in DOMAIN legs[r]
                         THEN [accounts[a] EXCEPT !.currentSequence = EntrySeq(r, a)]
                         ELSE accounts[a]
      BY <3>1 DEF AppendEntries, bumpSequences
    <3>3. QED BY <1>1, <1>3, <3>1, <3>2 DEF AccountRow
  <2>3. CASE op[r].kind \in {"status", "limit"}
    <3> DEFINE x == op[r].account
    <3>1. x \in Account /\ Exists(x) /\ locked[r][x] = accounts[x]
      <4>1. PICK b \in Targets(r) : b = x
        BY <2>1, <2>3 DEF Inv, LedgerInv, AllRowsAreHeld, InTransaction, Targets
      <4>2. lock[x] = r
        BY <2>1, <4>1 DEF Inv, LedgerInv, AllRowsAreHeld, InTransaction
      <4>3. QED BY <4>1, <4>2 DEF Inv, LedgerInv, HeldRowsAreCurrent, Targets
    <3>2. CASE a # x
      <4>1. accounts'[a] = accounts[a] /\ accountEvents'[a] = accountEvents[a]
        BY <1>1, <2>1, <2>3, <3>1, <3>2 DEF Write, WriteStatus, WriteLimit, IsPost
      <4>2. QED BY <1>3, <4>1
    <3>3. CASE a = x /\ op[r].kind = "status"
      <4>1. op[r].status \in Status
        BY <2>1, <3>3, OpOfKind DEF StatusOp
      <4>2. /\ accounts'[a] = [accounts[a] EXCEPT !.status = op[r].status,
                 !.statusHistory = Append(accounts[a].statusHistory, op[r].status)]
            /\ accountEvents'[a] = Append(accountEvents[a], StatusEvent(op[r].status))
        BY <1>1, <2>1, <3>1, <3>3 DEF Write, WriteStatus, IsPost
      <4>3. /\ accounts'[a].status = op[r].status
            /\ accounts'[a].overdraftLimit = accounts[a].overdraftLimit
            /\ accounts'[a].statusHistory = Append(accounts[a].statusHistory, op[r].status)
            /\ accounts'[a].currentSequence = accounts[a].currentSequence
        BY <1>1, <4>2 DEF AccountRow
      <4>4. accounts'[a] \in AccountRow
        <5>1. Append(accounts[a].statusHistory, op[r].status) \in Seq(Status)
          BY <1>1, <4>1 DEF AccountRow
        <5>2. QED BY <1>1, <4>1, <4>2, <5>1 DEF AccountRow
      <4>5. accounts'[a].status # "absent"
        BY <4>1, <4>3 DEF Status
      <4>6. ~IsVault(a) => Matches(accounts'[a], accountEvents'[a])
        <5>1. SUFFICES ASSUME ~IsVault(a) PROVE Matches(accounts'[a], accountEvents'[a])
          OBVIOUS
        <5>2. Matches(accounts[a], accountEvents[a])
          BY <1>2, <3>1, <3>3, <5>1
        <5>3. Matches(accounts'[a], Append(accountEvents[a], StatusEvent(op[r].status)))
          BY <1>1, <4>1, <4>3, <4>4, <5>2, MatchesStatus
        <5>4. QED BY <4>2, <5>3
      <4>7. QED BY <4>5, <4>6 DEF Exists
    <3>4. CASE a = x /\ op[r].kind = "limit"
      <4>1. op[r].overdraftLimit \in Nat
        BY <2>1, <3>4, OpOfKind DEF LimitOp
      <4>2. /\ accounts'[a] = [accounts[a] EXCEPT !.overdraftLimit = op[r].overdraftLimit]
            /\ accountEvents'[a] =
                 Append(accountEvents[a], LimitEvent("limit_changed", op[r].overdraftLimit))
        BY <1>1, <2>1, <3>1, <3>4 DEF Write, WriteLimit, IsPost
      <4>3. /\ accounts'[a].status = accounts[a].status
            /\ accounts'[a].overdraftLimit = op[r].overdraftLimit
            /\ accounts'[a].statusHistory = accounts[a].statusHistory
        BY <1>1, <4>2 DEF AccountRow
      <4>4. ~IsVault(a) => Matches(accounts'[a], accountEvents'[a])
        <5>1. SUFFICES ASSUME ~IsVault(a) PROVE Matches(accounts'[a], accountEvents'[a])
          OBVIOUS
        <5>2. Matches(accounts[a], accountEvents[a])
          BY <1>2, <3>1, <3>4, <5>1
        <5>3. Matches(accounts'[a], Append(accountEvents[a],
                        LimitEvent("limit_changed", op[r].overdraftLimit)))
          BY <1>1, <4>1, <4>3, <5>2, MatchesLimit
        <5>4. QED BY <4>2, <5>3
      <4>5. QED BY <3>1, <3>4, <4>3, <4>4 DEF Exists
    <3>5. QED BY <2>3, <3>2, <3>3, <3>4
  <2>4. QED BY <2>1, <2>2, <2>3
<1>7. QED BY <1>4, <1>5, <1>6 DEF KeptOrCommitted

LEMMA EventsStep == Inv /\ EventsInv /\ [Next]_vars => EventsInv'
<1> SUFFICES ASSUME Inv, EventsInv, [Next]_vars PROVE EventsInv'
  OBVIOUS
<1>1. CASE UNCHANGED vars
  BY <1>1 DEF vars, EventsInv, RowsAreProjections, RowMatchesEvents, Exists
<1>2. ASSUME NEW r \in Request, Receive(r) \/ Step(r) \/ Fault(r)
      PROVE  EventsInv'
  <2>1. Inv /\ KeptOrCommitted(r)
    BY <1>2, ActionWrites DEF Inv, TypeInv
  <2>2. QED BY <2>1, ProjectionKept DEF EventsInv, RowsAreProjections, RowMatchesEvents, Matches
<1>3. QED BY <1>1, <1>2 DEF Next

LEMMA InitialEventsInv == Init => EventsInv
<1> SUFFICES ASSUME Init, NEW a \in Account
             PROVE  /\ ~Exists(a) => accountEvents[a] = <<>>
                    /\ Exists(a) /\ ~IsVault(a) => Matches(accounts[a], accountEvents[a])
  BY DEF EventsInv, RowsAreProjections, RowMatchesEvents, Matches
<1>1. CASE a \in Opened
  <2> DEFINE e == LimitEvent("account_opened", InitialLimit[a])
  <2>1. accounts[a] = NewRow(InitialLimit[a]) /\ accountEvents[a] = <<e>>
    BY <1>1 DEF Init, InitialAccounts, InitialEvents
  <2>2. InitialLimit[a] \in Nat
    BY OpenedAssumption
  <2> HIDE DEF e
  <2>3. <<e>> = Append(<<>>, e)
    OBVIOUS
  <2>4. Matches(accounts[a], accountEvents[a])
    BY <2>1, <2>2, <2>3, MatchesNew DEF e
  <2>5. Exists(a)
    BY <2>1 DEF Exists, NewRow
  <2>6. QED BY <2>4, <2>5
<1>2. CASE a \notin Opened
  <2>1. accountEvents[a] = <<>> /\ (~IsVault(a) => accounts[a] = NoRow)
    BY <1>2 DEF Init, InitialAccounts, InitialEvents
  <2>2. QED BY <2>1 DEF Exists, NoRow
<1>3. QED BY <1>1, <1>2

\* The row of a customer account never drifts from its stream of events.
THEOREM RowsNeverDrift == Spec => []RowsAreProjections
<1>1. Spec => []EventsInv
  BY InitialEventsInv, InitialInv, InvStep, EventsStep, PTL DEF Spec
<1>2. EventsInv => RowsAreProjections
  BY DEF EventsInv
<1>3. QED BY <1>1, <1>2, PTL

=============================================================================
