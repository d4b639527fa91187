------------------------- MODULE ReconciliationProofs -------------------------
(***************************************************************************)
(* What a reconciliation of module Reconciliation finds, for every value   *)
(* of the constants: transactions are what their requests asked for,       *)
(* balances respect limits their accounts have had, and money only moves.  *)
(***************************************************************************)
EXTENDS Reconciliation, LedgerTransactionsProofs

-----------------------------------------------------------------------------
(* Transactions and their requests *)

LEMMA RequestArrives ==
  ASSUME NEW r \in Request, Receive(r)
  PROVE  pc[r] = "idle"
BY DEF Receive, ReceivePost, ReceiveVoid, ReceiveStatus, ReceiveLimit, ReceiveCreate, CreateLost

LEMMA RequestKept ==
  ASSUME NEW r \in Request, Step(r) \/ Fault(r)
  PROVE  op' = op
<1>1. \A code : EndUnwritten(r, code) => op' = op
  BY DEF EndUnwritten
<1>2. CASE Step(r)
  BY <1>1, <1>2 DEF Step, Lookup, LockRow, LockNothing, CheckLegs, CheckStatus, CheckLimit,
    InsertTransaction, Resolve, MarkVoid, Commit, PlanSnapshot, InsertSnapshot
<1>3. CASE Fault(r)
  BY <1>1, <1>3 DEF Fault, LockTimeout, CommitUnacknowledged, ConnectionLost, SnapshotFails
<1>4. QED BY <1>2, <1>3

\* What a committed transaction was asked to do is on record.
LEMMA AskedStays ==
  ASSUME AllInv, NEW r \in Request, Receive(r) \/ Step(r) \/ Fault(r),
         NEW t \in TransactionIds
  PROVE  op'[t] = op[t]
<1>1. t \in Request /\ transactions[t].status # "none"
  BY DEF TransactionIds
<1>2. CASE t # r
  BY <1>1, <1>2, ActionKind DEF AllInv, OthersUntouched, Untouched
<1>3. CASE t = r
  <2>1. ~BeforeCommit(r)
    BY <1>1, <1>3 DEF AllInv, TransactionsInv, RowsAreCommits, NoTransaction
  <2>2. QED BY <2>1, RequestArrives, RequestKept DEF BeforeCommit
<1>4. QED BY <1>2, <1>3

LEMMA AskedStep ==
  ASSUME AllInv, WrittenAsAsked, NEW r \in Request, Receive(r) \/ Step(r) \/ Fault(r)
  PROVE  WrittenAsAsked'
<1> SUFFICES ASSUME NEW t \in Request, transactions'[t].status # "none"
             PROVE  AskedFor(op'[t], Serial!LegsWritten(t)')
  BY DEF WrittenAsAsked, TransactionIds, LegsOfTransaction, AskedFor
<1>1. Inv /\ TransactionsInv /\ Kinds(r)
  BY ActionKind DEF AllInv
<1>2. CASE t \in TransactionIds
  <2>1. op'[t] = op[t]
    BY <1>2, AskedStays
  <2>2. Serial!LegsWritten(t)' = Serial!LegsWritten(t)
    <3>1. CASE Quiet(r)
      BY <3>1, QuietRows, LegsWrittenKept DEF RowsStay
    <3>2. CASE Writes(r)
      <4>1. t # r
        BY <1>1, <1>2, <3>2, NothingYet DEF TransactionIds, NoTransaction
      <4>2. QED BY <1>1, <3>2, <4>1, LegsRead
    <3>3. QED BY <1>1, <3>1, <3>2 DEF Kinds, Quiet
  <2>3. QED BY <1>2, <2>1, <2>2 DEF WrittenAsAsked, LegsOfTransaction
<1>3. CASE t \notin TransactionIds
  <2>1. Writes(r)
    <3>1. CASE Quiet(r)
      BY <1>3, <3>1, QuietRows DEF RowsStay, TransactionIds
    <3>2. QED BY <1>1, <3>1 DEF Kinds, Quiet
  <2>2. t = r
    BY <1>1, <1>3, <2>1, OtherRows DEF TransactionIds
  <2>3. op'[t] = op[t]
    BY <2>1, <2>2, RequestArrives, RequestKept DEF Writes
  <2>4. Serial!LegsWritten(t)' = legs[t] /\ op[t] \in Op /\ Entitled(op[t], legs[t])
    BY <1>1, <2>1, <2>2, LegsRead, NothingYet
  <2>5. IsPost(op[t]) \/ op[t].kind = "void"
    BY <2>1, <2>2 DEF Writes
  <2>6. QED BY <2>3, <2>4, <2>5 DEF Entitled, AskedFor
<1>4. QED BY <1>2, <1>3

-----------------------------------------------------------------------------
(* Balances *)

LEMMA BalanceOf ==
  ASSUME Inv, NEW a \in Account
  PROVE  /\ Serial!Balance(a) \in Int
         /\ Serial!Balance(a) = ReplayBalance(NormalSide[a], entries[a])
         /\ DOMAIN entries[a] = {} => Serial!Balance(a) = 0
<1>1. accounts[a].currentSequence \in Nat /\ DOMAIN entries[a] = 1..accounts[a].currentSequence
  BY DEF Inv, TypeInv, TypeOK, AccountRow, LedgerInv, ContiguousHistories
<1>2. Amounts(entries[a])
  BY HistoryAmounts DEF Inv, TypeInv, TypeOK
<1>3. Serial!Balance(a) = ReplayBalance(NormalSide[a], entries[a])
  BY SerialBalance
<1>4. ReplayBalance(NormalSide[a], entries[a])
        = SumAfter(NormalSide[a], entries[a], 0)[accounts[a].currentSequence]
  BY <1>1, <1>2, ReplayIsSumUpTo
<1>5. SumAfter(NormalSide[a], entries[a], 0)[accounts[a].currentSequence] \in Int
  BY <1>1, <1>2, SumAfterType
<1>6. DOMAIN entries[a] = {} => Serial!Balance(a) = 0
  <2>1. SUFFICES ASSUME DOMAIN entries[a] = {} PROVE Serial!Balance(a) = 0
    OBVIOUS
  <2>2. ReplayBalance(NormalSide[a], entries[a]) = SumAfter(NormalSide[a], entries[a], 0)[0]
    BY <1>2, <2>1, ReplayIsSumUpTo
  <2>3. SumAfter(NormalSide[a], entries[a], 0)[0] = 0
    BY SumAfterStep
  <2>4. QED BY <1>3, <2>2, <2>3
<1>7. QED BY <1>3, <1>4, <1>5, <1>6

\* SerialBalance, after a step.
LEMMA SerialBalanceNext ==
  ASSUME NEW a \in Account
  PROVE  Serial!Balance(a)' = ReplayBalance(NormalSide[a], entries'[a])
BY DEF Serial!Balance, ReplayBalance, balanceUpToSeq, LastSeq, SumAfter, SignedAmount,
   Serial!ReplayBalance, Serial!balanceUpToSeq, Serial!LastSeq, Serial!SumAfter,
   Serial!SignedAmount

LEMMA BalanceOfNext ==
  ASSUME Inv', NEW a \in Account
  PROVE  Serial!Balance(a)' \in Int
<1>1. PICK n \in Nat : n = accounts'[a].currentSequence /\ DOMAIN entries'[a] = 1..n
  BY DEF Inv, TypeInv, TypeOK, AccountRow, LedgerInv, ContiguousHistories
<1>2. PICK log : log = entries'[a]
  OBVIOUS
<1>3. Amounts(log)
  BY <1>2, HistoryAmounts DEF Inv, TypeInv, TypeOK
<1>4. ReplayBalance(NormalSide[a], log) = SumAfter(NormalSide[a], log, 0)[n]
  BY <1>1, <1>2, <1>3, ReplayIsSumUpTo
<1>5. SumAfter(NormalSide[a], log, 0)[n] \in Int
  BY <1>3, SumAfterType
<1>6. QED BY <1>2, <1>4, <1>5, SerialBalanceNext

\* One that a leg is posted to changes by its amount.
LEMMA BalancePosted ==
  ASSUME Inv, Inv', NEW r \in Request, Writes(r), NEW a \in DOMAIN legs[r]
  PROVE  Serial!Balance(a)' =
           balanceAfterEntry(Serial!Balance(a), NormalSide[a], legs[r][a].direction, legs[r][a].amount)
<1>1. PICK n \in Nat : n = accounts[a].currentSequence /\ DOMAIN entries[a] = 1..n
  <2>1. a \in Account
    BY EntryAppended
  <2>2. QED BY <2>1 DEF Inv, TypeInv, TypeOK, AccountRow, LedgerInv, ContiguousHistories
<1>2. PICK e : e = [tx |-> r, direction |-> legs[r][a].direction, amount |-> legs[r][a].amount]
  OBVIOUS
<1>3. /\ a \in Account /\ legs[r][a] \in Leg
      /\ DOMAIN entries'[a] = DOMAIN entries[a] \cup {n + 1}
      /\ \A k \in DOMAIN entries[a] : entries'[a][k] = entries[a][k]
      /\ entries'[a][n + 1] = e
  BY <1>1, <1>2, EntryAppended
<1>4. e.amount \in Int /\ Amounts(entries[a])
  BY <1>2, <1>3, HistoryAmounts DEF Leg, Inv, TypeInv, TypeOK
<1>5. ReplayBalance(NormalSide[a], entries'[a]) =
        balanceAfterEntry(ReplayBalance(NormalSide[a], entries[a]), NormalSide[a], e.direction, e.amount)
  <2>1. PICK log : log = entries[a]
    OBVIOUS
  <2>2. PICK log2 : log2 = entries'[a]
    OBVIOUS
  <2>3. /\ e.amount \in Int /\ Amounts(log) /\ DOMAIN log \subseteq 1..n
        /\ DOMAIN log2 = DOMAIN log \cup {n + 1}
        /\ \A k \in DOMAIN log : log2[k] = log[k]
        /\ log2[n + 1] = e
    BY <1>1, <1>3, <1>4, <2>1, <2>2
  <2>4. ReplayBalance(NormalSide[a], log2) =
          balanceAfterEntry(ReplayBalance(NormalSide[a], log), NormalSide[a], e.direction, e.amount)
    BY <2>3, ReplayOfAppended
  <2>5. QED BY <2>1, <2>2, <2>4
<1>6. Serial!Balance(a) = ReplayBalance(NormalSide[a], entries[a])
  BY <1>3, SerialBalance
<1>7. Serial!Balance(a)' = ReplayBalance(NormalSide[a], entries'[a])
  BY <1>3, SerialBalanceNext
<1>8. QED BY <1>2, <1>5, <1>6, <1>7

-----------------------------------------------------------------------------
(* Limits *)

LimitKept(a) ==
  /\ accountEvents'[a] = accountEvents[a]
  /\ accounts'[a].overdraftLimit = accounts[a].overdraftLimit
  /\ Exists(a)' <=> Exists(a)
EventAdded(a, e) ==
  /\ entries'[a] = entries[a] /\ accountEvents'[a] = Append(accountEvents[a], e)
  /\ \/ Exists(a) /\ accounts'[a].overdraftLimit = accounts[a].overdraftLimit
     \/ /\ accounts'[a].overdraftLimit = e.overdraftLimit
        /\ (Exists(a) /\ e.type = "limit_changed") \/ DOMAIN entries[a] = {}

\* A limit only changes with an event that records it.
LEMMA LimitsChange ==
  ASSUME Inv, NEW r \in Request, KeptOrCommitted(r), NEW a \in Account
  PROVE  LimitKept(a) \/ \E e \in AccountEvent : EventAdded(a, e)
<1>1. /\ accounts \in [Account -> AccountRow] /\ accounts[a] \in AccountRow
      /\ accountEvents \in [Account -> Seq(AccountEvent)]
  BY DEF Inv, TypeInv, TypeOK
<1>2. CASE TablesKept
  BY <1>2 DEF TablesKept, tables, LimitKept, Exists
<1>3. CASE Creates(r)
  <2>1. PICK o \in Workload : ReceiveCreate(r, o)
    BY <1>3 DEF Creates
  <2>2. o.overdraftLimit \in Nat /\ ~Exists(o.account)
    BY <2>1, WorkloadAssumption, OpOfKind DEF ReceiveCreate, CreateOp
  <2>3. CASE a = o.account
    <3>1. PICK e \in AccountEvent : e = LimitEvent("account_opened", o.overdraftLimit)
      BY <2>2 DEF LimitEvent, AccountEvent
    <3>2. DOMAIN entries[a] = {}
      BY <2>2, <2>3 DEF Inv, LedgerInv, RowsExist, ContiguousHistories
    <3>3. /\ accounts'[a] = NewRow(o.overdraftLimit) /\ entries' = entries
          /\ accountEvents'[a] = Append(accountEvents[a], e)
      BY <1>1, <2>1, <2>3, <3>1 DEF ReceiveCreate
    <3>4. EventAdded(a, e)
      BY <3>1, <3>2, <3>3 DEF EventAdded, NewRow, LimitEvent
    <3>5. QED BY <3>4
  <2>4. CASE a # o.account
    BY <1>1, <2>1, <2>4 DEF ReceiveCreate, LimitKept, Exists
  <2>5. QED BY <2>3, <2>4
<1>4. CASE Commits(r)
  <2>1. /\ op[r] \in Op /\ Write(r) /\ InTransaction(r)
        /\ IsPost(op[r]) \/ op[r].kind \in {"void", "status", "limit"}
    BY <1>4, OpInFlight DEF Commits, Inv, TypeInv, StatementsFit, StatementFits, InTransaction
  <2>2. CASE IsPost(op[r]) \/ op[r].kind = "void"
    <3>1. AppendEntries(r) /\ accountEvents' = accountEvents
      BY <2>1, <2>2 DEF Write, WritePost, WriteVoid, IsPost
    <3>2. accounts'[a] = IF a \in DOMAIN legs[r]
                         THEN [accounts[a] EXCEPT !.currentSequence = EntrySeq(r, a)]
                         ELSE accounts[a]
      BY <3>1 DEF AppendEntries, bumpSequences
    <3>3. QED BY <1>1, <3>1, <3>2 DEF AccountRow, LimitKept, Exists
  <2>3. CASE op[r].kind \in {"status", "limit"}
    <3> DEFINE x == op[r].account
    <3>1. x \in Account /\ Exists(x)
      BY <2>1, <2>3, ChangedAccountIsHeld DEF Targets
    <3>2. CASE a # x
      BY <1>1, <2>1, <2>3, <3>1, <3>2 DEF Write, WriteStatus, WriteLimit, IsPost, LimitKept, Exists
    <3>3. CASE a = x /\ op[r].kind = "status"
      <4>1. PICK e \in AccountEvent : e = StatusEvent(op[r].status)
        BY DEF StatusEvent, AccountEvent
      <4>2. /\ accountEvents'[a] = Append(accountEvents[a], e) /\ entries' = entries
            /\ accounts'[a] = [accounts[a] EXCEPT !.status = op[r].status,
                 !.statusHistory = Append(locked[r][a].statusHistory, op[r].status)]
        BY <1>1, <2>1, <3>1, <3>3, <4>1 DEF Write, WriteStatus, IsPost
      <4>3. accounts'[a].overdraftLimit = accounts[a].overdraftLimit
        BY <1>1, <4>2 DEF AccountRow
      <4>4. EventAdded(a, e)
        BY <3>1, <3>3, <4>2, <4>3 DEF EventAdded
      <4>5. QED BY <4>4
    <3>4. CASE a = x /\ op[r].kind = "limit"
      <4>1. op[r].overdraftLimit \in Nat
        BY <2>1, <3>4, OpOfKind DEF LimitOp
      <4>2. PICK e \in AccountEvent : e = LimitEvent("limit_changed", op[r].overdraftLimit)
        BY <4>1 DEF LimitEvent, AccountEvent
      <4>3. /\ accountEvents'[a] = Append(accountEvents[a], e) /\ entries' = entries
            /\ accounts'[a].overdraftLimit = op[r].overdraftLimit
        BY <1>1, <2>1, <3>1, <3>4, <4>2 DEF Write, WriteLimit, IsPost, AccountRow
      <4>4. e.type = "limit_changed" /\ e.overdraftLimit = op[r].overdraftLimit
        BY <4>2 DEF LimitEvent
      <4>5. EventAdded(a, e)
        BY <3>1, <3>4, <4>3, <4>4 DEF EventAdded
      <4>6. QED BY <4>5
    <3>5. QED BY <2>3, <3>2, <3>3, <3>4
  <2>4. QED BY <2>1, <2>2, <2>3
<1>5. QED BY <1>2, <1>3, <1>4 DEF KeptOrCommitted

LEMMA LimitsStep ==
  ASSUME Inv, Inv', RulesInv, LimitsAreRespected, [Next]_vars,
         NEW r \in Request, KeptOrCommitted(r)
  PROVE  LimitsAreRespected'
<1> SUFFICES ASSUME NEW a \in Account
             PROVE  /\ Exists(a)' => accounts'[a].overdraftLimit \in RecordedLimits(a)'
                    /\ \E n \in LimitsEver(a)' : -n <= Serial!Balance(a)'
                    /\ ~LimitWasChanged(a)' => -accounts'[a].overdraftLimit <= Serial!Balance(a)'
  BY DEF LimitsAreRespected
<1>1. /\ Exists(a) => accounts[a].overdraftLimit \in RecordedLimits(a)
      /\ \E n \in LimitsEver(a) : -n <= Serial!Balance(a)
      /\ ~LimitWasChanged(a) => -accounts[a].overdraftLimit <= Serial!Balance(a)
  BY DEF LimitsAreRespected
<1>2. /\ accountEvents[a] \in Seq(AccountEvent) /\ accountEvents'[a] \in Seq(AccountEvent)
      /\ accounts'[a].overdraftLimit \in Nat
  BY DEF Inv, TypeInv, TypeOK, AccountRow
<1>3. CASE LimitKept(a)
  <2>1. /\ RecordedLimits(a)' = RecordedLimits(a) /\ LimitsEver(a)' = LimitsEver(a)
        /\ LimitWasChanged(a)' <=> LimitWasChanged(a)
    BY <1>3 DEF LimitKept, RecordedLimits, LimitsEver, LimitWasChanged
  <2>2. accounts'[a].overdraftLimit = accounts[a].overdraftLimit /\ (Exists(a)' <=> Exists(a))
    BY <1>3 DEF LimitKept
  <2>3. CASE entries'[a] = entries[a]
    <3>1. Serial!Balance(a)' = Serial!Balance(a)
      BY <2>3, BalanceKept
    <3>2. QED BY <1>1, <2>1, <2>2, <3>1
  <2>4. CASE entries'[a] # entries[a]
    <3>1. ReplayBalance(NormalSide[a], entries'[a]) >= -accounts[a].overdraftLimit
      BY <2>4, AllowedStep DEF PostsAreAllowedStep
    <3>2. Serial!Balance(a)' = ReplayBalance(NormalSide[a], entries'[a])
      BY SerialBalanceNext
    <3>3. Serial!Balance(a)' \in Int
      BY BalanceOfNext
    <3>4. -accounts'[a].overdraftLimit <= Serial!Balance(a)'
      BY <1>2, <2>2, <3>1, <3>2, <3>3
    <3>5. accounts'[a].overdraftLimit \in LimitsEver(a)'
      BY DEF LimitsEver
    <3>6. QED BY <1>1, <2>1, <2>2, <3>4, <3>5
  <2>5. QED BY <2>3, <2>4
<1>4. ASSUME NEW e \in AccountEvent, EventAdded(a, e)
      PROVE  /\ Exists(a)' => accounts'[a].overdraftLimit \in RecordedLimits(a)'
             /\ \E n \in LimitsEver(a)' : -n <= Serial!Balance(a)'
             /\ ~LimitWasChanged(a)' => -accounts'[a].overdraftLimit <= Serial!Balance(a)'
  <2> DEFINE k == Len(accountEvents[a]) + 1
  <2>1. /\ k \in DOMAIN accountEvents'[a] /\ accountEvents'[a][k] = e
        /\ \A j \in DOMAIN accountEvents[a] :
             j \in DOMAIN accountEvents'[a] /\ accountEvents'[a][j] = accountEvents[a][j]
    BY <1>2, <1>4 DEF EventAdded
  <2> HIDE DEF k
  <2>2. RecordedLimits(a) \subseteq RecordedLimits(a)' /\ e.overdraftLimit \in RecordedLimits(a)'
    BY <2>1 DEF RecordedLimits
  <2>3. /\ LimitWasChanged(a) => LimitWasChanged(a)'
        /\ e.type = "limit_changed" => LimitWasChanged(a)'
    BY <2>1 DEF LimitWasChanged
  <2>4. Serial!Balance(a)' = Serial!Balance(a)
    BY <1>4, BalanceKept DEF EventAdded
  <2>5. CASE Exists(a)
    <3>1. LimitsEver(a) \subseteq LimitsEver(a)'
      BY <1>1, <2>2, <2>5 DEF LimitsEver
    <3>2. accounts'[a].overdraftLimit \in RecordedLimits(a)'
      <4>1. CASE accounts'[a].overdraftLimit = accounts[a].overdraftLimit
        BY <1>1, <2>2, <2>5, <4>1
      <4>2. CASE accounts'[a].overdraftLimit = e.overdraftLimit
        BY <2>2, <4>2
      <4>3. QED BY <1>4, <4>1, <4>2 DEF EventAdded
    <3>3. ~LimitWasChanged(a)' => -accounts'[a].overdraftLimit <= Serial!Balance(a)'
      <4>1. SUFFICES ASSUME ~LimitWasChanged(a)'
                     PROVE  -accounts'[a].overdraftLimit <= Serial!Balance(a)'
        OBVIOUS
      <4>2. CASE accounts'[a].overdraftLimit = accounts[a].overdraftLimit
        BY <1>1, <2>3, <2>4, <4>1, <4>2
      <4>3. CASE DOMAIN entries[a] = {}
        BY <1>2, <2>4, <4>3, BalanceOf
      <4>4. QED BY <1>4, <2>3, <4>1, <4>2, <4>3 DEF EventAdded
    <3>4. QED BY <1>1, <2>4, <3>1, <3>2, <3>3
  <2>6. CASE ~Exists(a)
    <3>1. accounts'[a].overdraftLimit = e.overdraftLimit /\ DOMAIN entries[a] = {}
      BY <1>4, <2>6 DEF EventAdded
    <3>2. -accounts'[a].overdraftLimit <= Serial!Balance(a)'
      BY <1>2, <2>4, <3>1, BalanceOf
    <3>3. QED BY <2>2, <3>1, <3>2 DEF LimitsEver
  <2>7. QED BY <2>5, <2>6
<1>5. QED BY <1>3, <1>4, LimitsChange

-----------------------------------------------------------------------------
(* Totals *)

\* In one pool the debit of a transaction takes away what its credit gives.
LEMMA DebtMoves ==
  ASSUME Inv, Inv', TransactionsInv, TransactionsInv', OnePool, NEW r \in Request, Writes(r)
  PROVE  \E d, c \in Account :
           /\ d # c /\ DOMAIN legs[r] = {d, c}
           /\ Debt(d)' + Debt(c)' = Debt(d) + Debt(c)
<1>1. transactions'[r].status # "none" /\ Serial!LegsWritten(r)' = legs[r]
  BY OwnRow, LegsRead
<1>2. IsDoubleEntry(legs[r])
  <2>1. IsDoubleEntry(Serial!LegsWritten(r))'
    BY <1>1 DEF TransactionsInv, RowsAreDoubleEntries
  <2>2. QED BY <1>1, <2>1 DEF IsDoubleEntry
<1>3. PICK d, c \in DOMAIN legs[r] :
        /\ DOMAIN legs[r] = {d, c} /\ d # c
        /\ legs[r][d].direction = "debit" /\ legs[r][c].direction = "credit"
        /\ CurrencyOf[d] = CurrencyOf[c] => legs[r][d].amount = legs[r][c].amount
  BY <1>2 DEF IsDoubleEntry
<1>4. d \in Account /\ c \in Account /\ legs[r][d] \in Leg /\ legs[r][c] \in Leg
  BY EntryAppended
<1>5. PICK n : n = legs[r][d].amount /\ n = legs[r][c].amount /\ n \in Int
  BY <1>3, <1>4 DEF OnePool, Leg
<1>6. /\ NormalSide[d] = "debit" /\ NormalSide[c] = "debit"
      /\ Serial!Balance(d) \in Int /\ Serial!Balance(c) \in Int
  BY <1>4, BalanceOf DEF OnePool
<1>7. /\ Serial!Balance(d)' = Serial!Balance(d) + n
      /\ Serial!Balance(c)' = Serial!Balance(c) - n
  <2>1. \A a \in DOMAIN legs[r] : Serial!Balance(a)' =
          balanceAfterEntry(Serial!Balance(a), NormalSide[a], legs[r][a].direction, legs[r][a].amount)
    BY BalancePosted
  <2>2. \A x : /\ balanceAfterEntry(x, "debit", "debit", n) = x + n
               /\ balanceAfterEntry(x, "debit", "credit", n) = x - n
    BY DEF balanceAfterEntry, balanceEffect
  <2>3. /\ Serial!Balance(d)' = balanceAfterEntry(Serial!Balance(d), "debit", "debit", n)
        /\ Serial!Balance(c)' = balanceAfterEntry(Serial!Balance(c), "debit", "credit", n)
    BY <1>3, <1>5, <1>6, <2>1
  <2>4. QED BY <2>2, <2>3
<1>8. Debt(d)' + Debt(c)' = Debt(d) + Debt(c)
  BY <1>5, <1>6, <1>7 DEF Debt
<1>9. QED BY <1>3, <1>4, <1>8

LEMMA DebtStep ==
  ASSUME Inv, Inv', TransactionsInv, TransactionsInv', NothingIsCreated, NEW r \in Request, Kinds(r)
  PROVE  NothingIsCreated'
<1> SUFFICES ASSUME OnePool
             PROVE  SumFunctionOnSet([a \in Account |-> Debt(a)'], Account) = 0
  BY DEF NothingIsCreated, OnePool
<1>1. PICK h : h = [a \in Account |-> Debt(a)]
  OBVIOUS
<1>2. PICK k : k = [a \in Account |-> Debt(a)']
  OBVIOUS
<1>3. SumFunctionOnSet(h, Account) = 0
  BY <1>1 DEF NothingIsCreated
<1>4. \A a \in Account : h[a] \in Int /\ k[a] \in Int
  BY <1>1, <1>2, BalanceOf, BalanceOfNext DEF Debt
<1>5. \A a \in Account : entries'[a] = entries[a] => k[a] = h[a]
  BY <1>1, <1>2, BalanceKept DEF Debt
<1>6. SumFunctionOnSet(k, Account) = SumFunctionOnSet(h, Account)
  <2>1. CASE Quiet(r)
    <3>1. \A a \in Account : h[a] \in Int /\ k[a] = h[a]
      BY <1>4, <1>5, <2>1, QuietRows DEF RowsStay
    <3>2. QED BY <3>1, ReconciliationAssumption, TotalCongruence
  <2>2. CASE Writes(r)
    <3>1. PICK d, c \in Account :
            /\ d # c /\ DOMAIN legs[r] = {d, c}
            /\ Debt(d)' + Debt(c)' = Debt(d) + Debt(c)
      BY <2>2, DebtMoves
    <3>2. k[d] + k[c] = h[d] + h[c]
      BY <1>1, <1>2, <3>1
    <3>3. \A a \in Account \ {d, c} : k[a] = h[a]
      BY <1>5, <2>2, <3>1, EntriesWritten DEF KeptAt
    <3>4. QED BY <1>4, <3>1, <3>2, <3>3, ReconciliationAssumption, TotalMove
  <2>3. QED BY <2>1, <2>2 DEF Kinds, Quiet
<1>7. QED BY <1>2, <1>3, <1>6

-----------------------------------------------------------------------------
(* The invariant *)

LEMMA InitialReconciliation == Init => ReconciliationInv
<1> SUFFICES ASSUME Init PROVE ReconciliationInv
  OBVIOUS
<1>1. Inv
  BY InitialInv
<1>2. WrittenAsAsked
  BY DEF Init, WrittenAsAsked, TransactionIds, NoTransaction
<1>3. \A a \in Account : Serial!Balance(a) = 0
  BY <1>1, BalanceOf DEF Init
<1>4. LimitsAreRespected
  <2> SUFFICES ASSUME NEW a \in Account
               PROVE  /\ Exists(a) => accounts[a].overdraftLimit \in RecordedLimits(a)
                      /\ -accounts[a].overdraftLimit <= Serial!Balance(a)
    BY DEF LimitsAreRespected, LimitsEver
  <2>1. accounts[a].overdraftLimit \in Nat /\ Serial!Balance(a) = 0
    BY <1>1, <1>3 DEF Inv, TypeInv, TypeOK, AccountRow
  <2>2. CASE a \in Opened
    <3>1. /\ accounts[a].overdraftLimit = InitialLimit[a]
          /\ accountEvents[a] = <<LimitEvent("account_opened", InitialLimit[a])>>
      BY <2>2 DEF Init, InitialAccounts, InitialEvents, NewRow
    <3>2. 1 \in DOMAIN accountEvents[a] /\ accountEvents[a][1].overdraftLimit = InitialLimit[a]
      BY <3>1 DEF LimitEvent
    <3>3. QED BY <2>1, <3>1, <3>2 DEF RecordedLimits
  <2>3. CASE a \notin Opened
    <3>1. accounts[a] = IF IsVault(a) THEN NewRow(VaultLimit) ELSE NoRow
      BY <2>3 DEF Init, InitialAccounts
    <3>2. QED BY <2>1, <3>1 DEF Exists, NoRow, NewRow, RecordedLimits
  <2>4. QED BY <2>2, <2>3
<1>5. NothingIsCreated
  <2>1. PICK h : h = [a \in Account |-> Debt(a)]
    OBVIOUS
  <2>2. \A a \in Account : h[a] = 0
    BY <1>3, <2>1 DEF Debt
  <2>3. SumFunctionOnSet(h, Account) = 0
    BY <2>2, ReconciliationAssumption, TotalZero
  <2>4. QED BY <2>1, <2>3 DEF NothingIsCreated
<1>6. QED BY <1>2, <1>4, <1>5 DEF ReconciliationInv

LEMMA ReconciliationStep == AllInv /\ ReconciliationInv /\ [Next]_vars => ReconciliationInv'
<1> SUFFICES ASSUME AllInv, ReconciliationInv, [Next]_vars PROVE ReconciliationInv'
  OBVIOUS
<1>1. Inv /\ RulesInv /\ TransactionsInv /\ Inv' /\ TransactionsInv'
  BY InvStep, TransactionsStep DEF AllInv
<1>2. WrittenAsAsked /\ LimitsAreRespected /\ NothingIsCreated
  BY DEF ReconciliationInv
<1>3. CASE UNCHANGED vars
  <2>1. UNCHANGED <<accounts, transactions, entries, accountEvents, op>>
    BY <1>3 DEF vars
  <2>2. WrittenAsAsked'
    BY <1>2, <2>1, LegsWrittenKept DEF WrittenAsAsked, TransactionIds, AskedFor, LegsOfTransaction
  <2>3. \A a \in Account : Serial!Balance(a)' = Serial!Balance(a)
    BY <2>1, BalanceKept
  <2>4. LimitsAreRespected'
    BY <1>2, <2>1, <2>3
      DEF LimitsAreRespected, Exists, RecordedLimits, LimitsEver, LimitWasChanged
  <2>5. NothingIsCreated'
    BY <1>2, <2>3 DEF NothingIsCreated, OnePool, Debt
  <2>6. QED BY <2>2, <2>4, <2>5 DEF ReconciliationInv
<1>4. ASSUME NEW r \in Request, Receive(r) \/ Step(r) \/ Fault(r)
      PROVE  ReconciliationInv'
  <2>1. Kinds(r) /\ KeptOrCommitted(r)
    BY <1>1, <1>4, ActionKind, ActionWrites DEF Inv, TypeInv
  <2>2. QED BY <1>1, <1>2, <1>4, <2>1, AskedStep, LimitsStep, DebtStep DEF ReconciliationInv
<1>5. QED BY <1>3, <1>4 DEF Next

LEMMA ReconciliationInvariant == Spec => [](AllInv /\ ReconciliationInv)
<1>1. Init => ReconciliationInv
  BY InitialReconciliation
<1>2. AllInv /\ ReconciliationInv /\ [Next]_vars => ReconciliationInv'
  BY ReconciliationStep
<1>3. QED BY <1>1, <1>2, AllInvariant, PTL DEF Spec

-----------------------------------------------------------------------------
(* Balances are bounded *)

LEMMA LimitsAreNumbers ==
  ASSUME Inv, NEW a \in Account
  PROVE  IsFiniteSet(LimitsEver(a)) /\ LimitsEver(a) \subseteq Nat /\ LimitsEver(a) # {}
<1>1. accounts[a].overdraftLimit \in Nat /\ accountEvents[a] \in Seq(AccountEvent)
  BY DEF Inv, TypeInv, TypeOK, AccountRow
<1> DEFINE n == Len(accountEvents[a])
           FromEvents == {accountEvents[a][k].overdraftLimit : k \in DOMAIN accountEvents[a]}
           FromVault == {m \in {VaultLimit} : IsVault(a)}
           f == [k \in 1..n |-> accountEvents[a][k].overdraftLimit]
<1>2. n \in Nat /\ DOMAIN accountEvents[a] = 1..n
  BY <1>1
<1>3. FromEvents \subseteq Nat
  <2>1. \A k \in DOMAIN accountEvents[a] : accountEvents[a][k] \in AccountEvent
    BY <1>1
  <2> HIDE DEF n
  <2>2. QED BY <2>1 DEF AccountEvent
<1>4. IsFiniteSet(FromEvents)
  <2>1. f \in Surjection(1..n, FromEvents)
    BY <1>2 DEF Surjection
  <2> HIDE DEF f, FromEvents, n
  <2>2. IsFiniteSet(1..n)
    BY <1>2, FS_Interval
  <2>3. QED BY <2>1, <2>2, FS_Surjection
<1>5. IsFiniteSet(FromVault) /\ FromVault \subseteq Nat
  <2>1. FromVault \in SUBSET {VaultLimit}
    OBVIOUS
  <2>2. QED BY <2>1, FS_Singleton, FS_Subset, VaultAssumption
<1>6. LimitsEver(a) = {accounts[a].overdraftLimit} \cup (FromEvents \cup FromVault)
  BY DEF LimitsEver, RecordedLimits
<1> HIDE DEF FromEvents, FromVault
<1>7. IsFiniteSet(LimitsEver(a))
  <2>1. IsFiniteSet(FromEvents \cup FromVault)
    BY <1>4, <1>5, FS_Union
  <2>2. IsFiniteSet({accounts[a].overdraftLimit})
    BY FS_Singleton
  <2>3. QED BY <1>6, <2>1, <2>2, FS_Union
<1>8. QED BY <1>1, <1>3, <1>5, <1>6, <1>7

LEMMA MostOverdrawn ==
  ASSUME Inv, NEW a \in Account
  PROVE  MayBeOverdrawnBy(a) \in Nat /\ \A n \in LimitsEver(a) : n <= MayBeOverdrawnBy(a)
<1>1. LimitsEver(a) \subseteq Nat
  BY LimitsAreNumbers
<1>2. PICK m \in LimitsEver(a) : \A n \in LimitsEver(a) : ~(m < n)
  BY LimitsAreNumbers, Topmost
<1>3. \A n \in LimitsEver(a) : n <= m
  BY <1>1, <1>2
<1>4. QED BY <1>1, <1>3 DEF MayBeOverdrawnBy

\* Between accounts of one pool a balance never exceeds what all the others may
\* be overdrawn by.
THEOREM BalancesStayBounded == Spec => []BalancesAreBounded
<1>1. AllInv /\ ReconciliationInv => BalancesAreBounded
  <2> SUFFICES ASSUME AllInv, ReconciliationInv, OnePool, NEW a \in Account
               PROVE  Serial!Balance(a)
                        <= SumFunctionOnSet([b \in Account |-> MayBeOverdrawnBy(b)], Account \ {a})
    BY DEF BalancesAreBounded
  <2>1. Inv /\ LimitsAreRespected /\ NothingIsCreated
    BY DEF AllInv, ReconciliationInv
  <2>2. PICK h : h = [b \in Account |-> Debt(b)]
    OBVIOUS
  <2>3. PICK k : k = [b \in Account |-> MayBeOverdrawnBy(b)]
    OBVIOUS
  <2>4. \A b \in Account : h[b] \in Int /\ k[b] \in Int /\ h[b] <= k[b]
    <3> TAKE b \in Account
    <3>1. PICK n \in LimitsEver(b) : -n <= Serial!Balance(b)
      BY <2>1 DEF LimitsAreRespected
    <3>2. n \in Nat /\ MayBeOverdrawnBy(b) \in Nat /\ n <= MayBeOverdrawnBy(b)
      BY <2>1, LimitsAreNumbers, MostOverdrawn
    <3>3. Serial!Balance(b) \in Int
      BY <2>1, BalanceOf
    <3>4. QED BY <2>2, <2>3, <3>1, <3>2, <3>3 DEF Debt
  <2>5. IsFiniteSet(Account \ {a})
    BY ReconciliationAssumption, FS_RemoveElement
  <2>6. SumFunctionOnSet(h, Account) = h[a] + SumFunctionOnSet(h, Account \ {a})
    BY <2>4, ReconciliationAssumption, TotalOut
  <2>7. SumFunctionOnSet(h, Account) = 0 /\ h[a] = -Serial!Balance(a) /\ Serial!Balance(a) \in Int
    BY <2>1, <2>2, BalanceOf DEF NothingIsCreated, Debt
  <2>8. SumFunctionOnSet(h, Account \ {a}) <= SumFunctionOnSet(k, Account \ {a})
    BY <2>4, <2>5, TotalMonotonic
  <2>9. SumFunctionOnSet(h, Account \ {a}) \in Int /\ SumFunctionOnSet(k, Account \ {a}) \in Int
    BY <2>4, <2>5, TotalType
  <2>10. Serial!Balance(a) <= SumFunctionOnSet(k, Account \ {a})
    BY <2>6, <2>7, <2>8, <2>9
  <2>11. QED BY <2>3, <2>10
<1>2. QED BY <1>1, ReconciliationInvariant, PTL

-----------------------------------------------------------------------------
(* What a reconciliation reports *)

LEMMA TwoCurrencies ==
  ASSUME NEW x, NEW y
  PROVE  /\ Cardinality({x, y}) <= 1 <=> x = y
         /\ Cardinality({x, y}) > 1 <=> x # y
<1>1. IsFiniteSet({x}) /\ Cardinality({x}) = 1
  BY FS_Singleton
<1>2. Cardinality({x} \cup {y}) = IF y \in {x} THEN Cardinality({x}) ELSE Cardinality({x}) + 1
  BY <1>1, FS_AddElement
<1>3. {x} \cup {y} = {x, y}
  OBVIOUS
<1>4. QED BY <1>1, <1>2, <1>3

LEMMA TotalOfOne ==
  ASSUME NEW h, NEW x, h[x] \in Int
  PROVE  SumFunctionOnSet(h, {x}) = h[x]
<1>1. IsFiniteSet({x})
  BY FS_Singleton
<1>2. SumFunctionOnSet(h, {x}) = h[x] + SumFunctionOnSet(h, {x} \ {x})
  BY <1>1, TotalOut
<1>3. {x} \ {x} = {}
  OBVIOUS
<1>4. QED BY <1>2, <1>3, TotalEmpty

\* The debit and the credit of a transaction, and its currencies.
LEMMA TransactionShape ==
  ASSUME AllInv, NEW t \in TransactionIds
  PROVE  \E d, c \in Account :
           /\ d # c /\ DOMAIN LegsOfTransaction(t) = {d, c}
           /\ SumOf(t, "debit") = LegsOfTransaction(t)[d].amount
           /\ SumOf(t, "credit") = LegsOfTransaction(t)[c].amount
           /\ CurrencyOf[d] = CurrencyOf[c] =>
                LegsOfTransaction(t)[d].amount = LegsOfTransaction(t)[c].amount
           /\ Cardinality(CurrenciesOf(t)) <= 1 <=> CurrencyOf[d] = CurrencyOf[c]
           /\ Cardinality(CurrenciesOf(t)) > 1 <=> CurrencyOf[d] # CurrencyOf[c]
<1> DEFINE ls == LegsOfTransaction(t)
<1>1. t \in Request /\ transactions[t].status # "none" /\ Inv /\ TypeOK
  BY DEF TransactionIds, AllInv, Inv, TypeInv
<1>2. IsLegs(ls)
  BY <1>1, LegsWrittenType DEF LegsOfTransaction
<1>3. IsDoubleEntry(ls)
  BY <1>1 DEF AllInv, TransactionsInv, RowsAreDoubleEntries, LegsOfTransaction
<1> HIDE DEF ls
<1>4. PICK d, c \in DOMAIN ls :
        /\ DOMAIN ls = {d, c} /\ d # c
        /\ ls[d].direction = "debit" /\ ls[c].direction = "credit"
        /\ CurrencyOf[d] = CurrencyOf[c] => ls[d].amount = ls[c].amount
  BY <1>3 DEF IsDoubleEntry
<1>5. d \in Account /\ c \in Account /\ ls[d].amount \in Int /\ ls[c].amount \in Int
  BY <1>2 DEF IsLegs, Leg
<1>6. CurrenciesOf(t) = {CurrencyOf[d], CurrencyOf[c]}
  BY <1>4 DEF CurrenciesOf, ls
<1>7. /\ LegsIn(t, "debit") = {d} /\ LegsIn(t, "credit") = {c}
  BY <1>4 DEF LegsIn, ls
<1>8. SumOf(t, "debit") = ls[d].amount
  <2>1. PICK h : h = [a \in {d} |-> ls[a].amount]
    OBVIOUS
  <2>2. SumFunctionOnSet(h, {d}) = ls[d].amount
    BY <1>5, <2>1, TotalOfOne
  <2>3. QED BY <1>7, <2>1, <2>2 DEF SumOf, ls
<1>9. SumOf(t, "credit") = ls[c].amount
  <2>1. PICK h : h = [a \in {c} |-> ls[a].amount]
    OBVIOUS
  <2>2. SumFunctionOnSet(h, {c}) = ls[c].amount
    BY <1>5, <2>1, TotalOfOne
  <2>3. QED BY <1>7, <2>1, <2>2 DEF SumOf, ls
<1>10. /\ Cardinality(CurrenciesOf(t)) <= 1 <=> CurrencyOf[d] = CurrencyOf[c]
       /\ Cardinality(CurrenciesOf(t)) > 1 <=> CurrencyOf[d] # CurrencyOf[c]
  BY <1>6, TwoCurrencies
<1>11. ls = LegsOfTransaction(t)
  BY DEF ls
<1>12. QED BY <1>4, <1>5, <1>8, <1>9, <1>10, <1>11

\* Only a transfer between two currencies asks for more than one, and then for
\* its amount converted at its rate.
LEMMA TwoCurrenciesConvert ==
  ASSUME NEW o, NEW ls, AskedFor(o, ls), NEW a \in DOMAIN ls, NEW b \in DOMAIN ls,
         CurrencyOf[a] # CurrencyOf[b]
  PROVE  /\ o.kind = "transfer" /\ CrossCurrency(o)
         /\ {o.from, o.to} = DOMAIN ls
         /\ convertAt(ls[o.from].amount, o.rate) = ls[o.to].amount
<1>1. IsPost(o) /\ o \in Op /\ ls = LegsOf(o) /\ buildOutcome(o) = "OK"
  BY DEF AskedFor, SingleCurrency
<1>2. ASSUME o.kind # "transfer" PROVE FALSE
  <2>1. o.account \in Account /\ CurrencyOf[o.account] \in Currency
    BY <1>1, <1>2, OpOfKind, CurrencyAssumption DEF IsPost, MovementOp
  <2>2. CurrencyOf[Vault[CurrencyOf[o.account]]] = CurrencyOf[o.account]
    BY <2>1, VaultAssumption
  <2>3. DOMAIN ls = {o.account, Vault[CurrencyOf[o.account]]}
    BY <1>1, <1>2 DEF IsPost, LegsOf, buildDeposit, buildWithdrawal, Move
  <2>4. QED BY <2>2, <2>3
<1>3. o.kind = "transfer"
  BY <1>2
<1>4. ls = Move(o.from, o.amount, o.to,
                IF CrossCurrency(o) THEN convertAt(o.amount, o.rate) ELSE o.amount)
  BY <1>1, <1>3 DEF LegsOf, buildTransfer
<1>5. DOMAIN ls = {o.from, o.to} /\ o.from # o.to
  BY <1>1, <1>3, <1>4 DEF Move, buildOutcome
<1>6. CrossCurrency(o)
  BY <1>5 DEF CrossCurrency
<1>7. ls[o.from].amount = o.amount /\ ls[o.to].amount = convertAt(o.amount, o.rate)
  BY <1>4, <1>5, <1>6 DEF Move
<1>8. QED BY <1>3, <1>5, <1>6, <1>7

\* A reconciliation finds transactions balanced and histories without a gap, and
\* below their limit only accounts whose limit was changed.
THEOREM ReportsAreTrue == Spec => []ReportsOnlyLoweredLimits
<1>1. AllInv /\ ReconciliationInv => ReportsOnlyLoweredLimits
  <2> SUFFICES ASSUME AllInv, ReconciliationInv PROVE ReportsOnlyLoweredLimits
    OBVIOUS
  <2>1. Inv /\ WrittenAsAsked /\ LimitsAreRespected
    BY DEF AllInv, ReconciliationInv
  <2>2. UnbalancedTransactions = {}
    BY TransactionShape DEF UnbalancedTransactions
  <2>3. MisconvertedTransactions = {}
    <3>1. ASSUME NEW t \in TransactionIds, Cardinality(CurrenciesOf(t)) > 1
          PROVE  /\ HasFxMetadata(t)
                 /\ {op[t].from, op[t].to} = DOMAIN LegsOfTransaction(t)
                 /\ convertAt(LegsOfTransaction(t)[op[t].from].amount, op[t].rate)
                      = LegsOfTransaction(t)[op[t].to].amount
      <4>1. PICK d, c \in Account : /\ DOMAIN LegsOfTransaction(t) = {d, c}
                                   /\ CurrencyOf[d] # CurrencyOf[c]
        BY <3>1, TransactionShape
      <4>2. AskedFor(op[t], LegsOfTransaction(t))
        BY <2>1 DEF WrittenAsAsked
      <4>3. PICK ls : ls = LegsOfTransaction(t)
        OBVIOUS
      <4>4. PICK o : o = op[t]
        OBVIOUS
      <4>5. AskedFor(o, ls) /\ d \in DOMAIN ls /\ c \in DOMAIN ls /\ CurrencyOf[d] # CurrencyOf[c]
        BY <4>1, <4>2, <4>3, <4>4
      <4>6. /\ o.kind = "transfer" /\ CrossCurrency(o)
            /\ {o.from, o.to} = DOMAIN ls
            /\ convertAt(ls[o.from].amount, o.rate) = ls[o.to].amount
        BY <4>5, TwoCurrenciesConvert
      <4>7. QED BY <4>3, <4>4, <4>6 DEF HasFxMetadata
    <3>2. QED BY <3>1 DEF MisconvertedTransactions
  <2>4. GappedHistories = {}
    <3>1. ASSUME NEW a \in Account
          PROVE  Cardinality(DOMAIN entries[a]) = LastSeq(DOMAIN entries[a])
      <4>1. PICK n \in Nat : DOMAIN entries[a] = 1..n
        BY <2>1 DEF Inv, TypeInv, TypeOK, AccountRow, LedgerInv, ContiguousHistories
      <4>2. Cardinality(1..n) = n
        BY FS_Interval
      <4>3. QED BY <4>1, <4>2, LastSeqOfInterval
    <3>2. QED BY <3>1 DEF GappedHistories
  <2>5. ASSUME NEW a \in BelowOverdraftLimit PROVE LimitWasChanged(a)
    <3>1. a \in Account /\ Serial!Balance(a) < -accounts[a].overdraftLimit
      BY <2>5 DEF BelowOverdraftLimit
    <3>2. Serial!Balance(a) \in Int /\ accounts[a].overdraftLimit \in Nat
      BY <2>1, <3>1, BalanceOf DEF Inv, TypeInv, TypeOK, AccountRow
    <3>3. QED BY <2>1, <3>1, <3>2 DEF LimitsAreRespected
  <2>6. QED BY <2>2, <2>3, <2>4, <2>5 DEF ReportsOnlyLoweredLimits
<1>2. QED BY <1>1, ReconciliationInvariant, PTL

=============================================================================
