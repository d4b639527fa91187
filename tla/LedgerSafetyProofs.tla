------------------------- MODULE LedgerSafetyProofs -------------------------
(***************************************************************************)
(* Types and safety of module Ledger, for every set of accounts, requests, *)
(* references and operations, every snapshot configuration and every retry *)
(* budget: TypeInv, the inductive invariant LedgerInv and what follows     *)
(* from them.                                                              *)
(*                                                                         *)
(* The steps of a request fall into few classes as far as LedgerInv is     *)
(* concerned: it answers or restarts and releases its locks, it goes from  *)
(* one statement inside its transaction to another, it does something      *)
(* outside a transaction, it locks one row, or it writes.  There is one    *)
(* lemma per class.                                                        *)
(***************************************************************************)
EXTENDS LedgerProperties, ReplayProofs

-----------------------------------------------------------------------------
(* Double-entry transactions *)

LEMMA DivBounds ==
  ASSUME NEW n \in Nat, NEW d \in Nat \ {0}
  PROVE  /\ n \div d \in Nat
         /\ d * (n \div d) <= n /\ n < d * (n \div d) + d
OBVIOUS

LEMMA HalfBounds ==
  ASSUME NEW d \in Nat
  PROVE  /\ d \div 2 \in Nat /\ 2 * (d \div 2) <= d /\ d <= 2 * (d \div 2) + 1
OBVIOUS

\* A conversion (convertAt, for an FX transfer) is off by at most half a minor
\* unit, and an exact half goes up.
THEOREM ConversionRoundsHalfUp ==
  ASSUME NEW amount \in Nat, NEW rate \in Rate
  PROVE  LET exact == amount * rate.units
             converted == rate.denom * convertAt(amount, rate)
         IN  2 * (exact - converted) < rate.denom /\ 2 * (converted - exact) <= rate.denom
<1> DEFINE exact == amount * rate.units
           half == rate.denom \div 2
           quotient == convertAt(amount, rate)
           converted == rate.denom * quotient
<1>1. rate.denom \in Nat \ {0} /\ exact \in Nat
  BY DEF Rate
<1>2. half \in Nat /\ 2 * half <= rate.denom /\ rate.denom <= 2 * half + 1
  BY <1>1, HalfBounds
<1>3. quotient = (exact + half) \div rate.denom
  BY DEF convertAt, roundHalfUp
<1> HIDE DEF exact, half
<1>4. exact + half \in Nat
  BY <1>1, <1>2
<1> HIDE DEF quotient
<1>5. /\ quotient \in Nat
      /\ rate.denom * quotient <= exact + half /\ exact + half < rate.denom * quotient + rate.denom
  BY <1>1, <1>3, <1>4, DivBounds
<1>6. converted \in Nat /\ converted <= exact + half /\ exact + half < converted + rate.denom
  BY <1>1, <1>5
<1> HIDE DEF converted
<1>7. 2 * (exact - converted) < rate.denom /\ 2 * (converted - exact) <= rate.denom
  BY <1>1, <1>2, <1>6
<1>8. QED BY <1>7 DEF exact, converted, quotient

LEMMA ConvertAtType ==
  ASSUME NEW amount \in Nat, NEW rate \in Rate
  PROVE  convertAt(amount, rate) \in Nat
<1>1. rate.units \in Nat /\ rate.denom \in Nat /\ rate.denom > 0
  BY DEF Rate
<1>2. amount * rate.units \in Nat
  BY <1>1
<1> DEFINE d == rate.denom
           n == amount * rate.units + d \div 2
<1>3. n \in Nat
  BY <1>1, <1>2
<1>4. d \in Nat /\ d > 0
  BY <1>1
<1>5. convertAt(amount, rate) = n \div d
  BY DEF convertAt, roundHalfUp
<1> HIDE DEF n, d
<1>6. n \div d \in Nat
  BY <1>3, <1>4
<1>7. QED BY <1>5, <1>6

\* A request the builders accept gives legs of the right type, on its accounts.
LEMMA LegsOfType ==
  ASSUME NEW o \in Op, IsPost(o), buildOutcome(o) = "OK"
  PROVE  IsLegs(LegsOf(o))
<1>1. CASE o.kind = "transfer"
  <2>1. o \in TransferOp
    BY <1>1 DEF Op, PostOp, LifecycleOp, MovementOp, TransferOp, VoidOp, CreateOp, StatusOp, LimitOp
  <2>2. o.from \in Account /\ o.to \in Account /\ o.amount \in Nat \ {0} /\ o.rate \in Rate
    BY <2>1, RangeAssumption DEF TransferOp, Amount
  <2>3. convertAt(o.amount, o.rate) \in Nat
    BY <2>2, ConvertAtType
  <2>4. CrossCurrency(o) => convertAt(o.amount, o.rate) # 0
    BY <1>1, <2>2 DEF buildOutcome, Rate
  <2>5. QED BY <1>1, <2>2, <2>3, <2>4 DEF LegsOf, buildTransfer, Move, IsLegs, Leg, Side
<1>2. CASE o.kind \in {"deposit", "withdrawal"}
  <2>1. o \in MovementOp
    BY <1>2 DEF Op, PostOp, LifecycleOp, MovementOp, TransferOp, VoidOp, CreateOp, StatusOp, LimitOp
  <2>2. o.account \in Account /\ o.amount \in Nat \ {0}
    BY <2>1, RangeAssumption DEF MovementOp, Amount
  <2>3. Vault[CurrencyOf[o.account]] \in Account
    BY <2>2, VaultAssumption, CurrencyAssumption
  <2>4. QED BY <1>2, <2>2, <2>3 DEF LegsOf, buildDeposit, buildWithdrawal, Move, IsLegs, Leg, Side
<1>3. QED BY <1>1, <1>2 DEF IsPost

LEMMA ReversalLegsType ==
  ASSUME NEW ls, IsLegs(ls)
  PROVE  IsLegs(ReversalLegs(ls))
<1>1. \A a \in DOMAIN ls : ls[a] \in Leg
  BY DEF IsLegs
<1>2. \A a \in DOMAIN ls : [ls[a] EXCEPT !.direction = Opposite(@)] \in Leg
  BY <1>1 DEF Leg, Side, Opposite
<1>3. QED BY <1>2 DEF IsLegs, ReversalLegs

LEMMA LegsWrittenType ==
  ASSUME TypeOK, NEW t
  PROVE  IsLegs(Serial!LegsWritten(t))
<1> DEFINE At(a) == {n \in DOMAIN entries[a] : entries[a][n].tx = t}
           e(a) == entries[a][CHOOSE n \in At(a) : TRUE]
<1>1. \A a \in Account : At(a) # {} => e(a) \in Entry
  BY DEF TypeOK, IsHistory
<1>2. \A a \in Account : At(a) # {} =>
        [direction |-> e(a).direction, amount |-> e(a).amount] \in Leg
  BY <1>1 DEF Entry, Leg
<1>3. Serial!LegsWritten(t) = [a \in {b \in Account : At(b) # {}} |->
        [direction |-> e(a).direction, amount |-> e(a).amount]]
  BY DEF Serial!LegsWritten
<1> HIDE DEF e, At
<1>4. QED BY <1>2, <1>3 DEF IsLegs

LEMMA ExtendHistory ==
  ASSUME NEW log, IsHistory(log), NEW n \in Nat \ {0}, NEW e \in Entry
  PROVE  IsHistory(ExtendLog(log, n, e))
BY DEF IsHistory, ExtendLog

LEMMA ExtendSnapshots ==
  ASSUME NEW snaps, IsSnapshots(snaps), NEW n \in Nat \ {0}, NEW b \in Int
  PROVE  IsSnapshots(ExtendLog(snaps, n, b))
BY DEF IsSnapshots, ExtendLog

LEMMA HistoryAmounts ==
  ASSUME NEW log, IsHistory(log)
  PROVE  Amounts(log)
BY DEF IsHistory, Amounts, Entry

-----------------------------------------------------------------------------
(* Type correctness *)

TypeInv == TypeOK /\ StatementsFit

LEMMA OpOfKind ==
  ASSUME NEW o \in Op
  PROVE  /\ o.kind \in {"deposit", "withdrawal"} => o \in MovementOp
         /\ o.kind = "transfer" => o \in TransferOp
         /\ o.kind = "void" => o \in VoidOp
         /\ o.kind = "create" => o \in CreateOp
         /\ o.kind = "status" => o \in StatusOp
         /\ o.kind = "limit" => o \in LimitOp
BY DEF Op, PostOp, LifecycleOp, MovementOp, TransferOp, VoidOp, CreateOp, StatusOp, LimitOp

LEMMA ReferenceOfPost ==
  ASSUME NEW o \in Op, IsPost(o)
  PROVE  o.reference \in Ref \cup {NoRef}
BY OpOfKind DEF IsPost, MovementOp, TransferOp

LEMMA RowTypes ==
  /\ NoRow \in AccountRow
  /\ \A n \in Nat : NewRow(n) \in AccountRow
  /\ \A n \in Nat : NewRow(n).status = "active" /\ NewRow(n).currentSequence = 0
<1>1. <<>> \in Seq(Status)
  OBVIOUS
<1>2. NoRow \in AccountRow
  BY <1>1 DEF NoRow, AccountRow
<1>3. QED BY <1>1, <1>2 DEF AccountRow, Status, NewRow

LEMMA InitialTypes == Init => TypeInv
<1> SUFFICES ASSUME Init PROVE TypeInv
  OBVIOUS
<1>1. NoRow \in AccountRow /\ \A n \in Nat : NewRow(n) \in AccountRow
  BY RowTypes
<1>2. accounts \in [Account -> AccountRow]
  BY <1>1, OpenedAssumption, VaultAssumption DEF Init, InitialAccounts
<1>3. accountEvents \in [Account -> Seq(AccountEvent)]
  <2>1. \A e \in AccountEvent : <<e>> \in Seq(AccountEvent)
    OBVIOUS
  <2>2. \A n \in Nat : LimitEvent("account_opened", n) \in AccountEvent
    BY DEF LimitEvent, AccountEvent
  <2>3. <<>> \in Seq(AccountEvent)
    OBVIOUS
  <2>4. QED BY <2>1, <2>2, <2>3, OpenedAssumption DEF Init, InitialEvents
<1>4. TypeOK
  BY <1>1, <1>2, <1>3, ConfigAssumption
     DEF Init, TypeOK, NoTransaction, TransactionRow, TransactionType, IsHistory, IsSnapshots,
         IsLegs, Statement, NoLocks, NoSnapshot, NoResult, Code
<1>5. StatementsFit
  BY DEF Init, StatementsFit, StatementFits
<1>6. QED BY <1>4, <1>5 DEF TypeInv

\* Answering a request keeps the types of its locals.
LEMMA AnswerTypes ==
  ASSUME TypeOK, NEW r \in Request, NEW code \in Code, NEW tx \in Request \cup {NoRequest},
         Answer(r, code, tx)
  PROVE  /\ pc' \in [Request -> Statement] /\ pc' = [pc EXCEPT ![r] = "done"]
         /\ legs' = [q \in Request |-> legs'[q]] /\ \A q \in Request : IsLegs(legs'[q])
         /\ locked' \in [Request -> [Account -> AccountRow]]
         /\ attempt' \in [Request -> 0..TX_MAX_RETRIES]
         /\ pending' \in [Request -> SUBSET Account]
         /\ planned' \in [Request -> [account: Account \cup {0}, seq: Nat, balance: Int]]
         /\ planned' = [planned EXCEPT ![r] = NoSnapshot]
         /\ result' \in [Request -> [code: Code, tx: Request \cup {NoRequest}]]
<1>1. NoLocks \in [Account -> AccountRow]
  BY DEF NoLocks, NoRow, AccountRow, Status
<1>2. IsLegs(<<>>)
  BY DEF IsLegs
<1>3. NoSnapshot \in [account: Account \cup {0}, seq: Nat, balance: Int]
  BY DEF NoSnapshot
<1>4. 0 \in 0..TX_MAX_RETRIES
  BY ConfigAssumption
<1>5. QED BY <1>1, <1>2, <1>3, <1>4 DEF TypeOK, Answer, Statement

LEMMA ReleaseType ==
  ASSUME TypeOK, NEW r \in Request, Release(r)
  PROVE  lock' \in [Account -> Request \cup {NoRequest}]
BY DEF TypeOK, Release

\* A request that is answered fits its operation.
LEMMA AnswerFits ==
  ASSUME TypeInv, NEW r \in Request, NEW o \in Workload,
         pc' = [pc EXCEPT ![r] = "done"], planned' = [planned EXCEPT ![r] = NoSnapshot],
         (op' = op /\ op[r] \in Workload) \/ op' = [op EXCEPT ![r] = o]
  PROVE  StatementsFit'
<1> SUFFICES ASSUME NEW q \in Request
             PROVE  StatementFits(q)'
  BY DEF StatementsFit
<1>1. CASE q = r
  BY <1>1 DEF TypeInv, TypeOK, StatementFits
<1>2. CASE q # r
  <2>1. pc'[q] = pc[q] /\ planned'[q] = planned[q] /\ op'[q] = op[q]
    BY <1>2 DEF TypeInv, TypeOK
  <2>2. StatementFits(q)
    BY DEF TypeInv, StatementsFit
  <2>3. QED BY <2>1, <2>2 DEF StatementFits, IsPost
<1>3. QED BY <1>1, <1>2

LEMMA EndUnwrittenTypes ==
  ASSUME TypeInv, NEW r \in Request, NEW code \in Code, pc[r] # "idle",
         EndUnwritten(r, code)
  PROVE  TypeInv'
<1>1. TypeOK'
  BY AnswerTypes, ReleaseType DEF TypeInv, EndUnwritten, TypeOK, tables
<1>2. /\ pc' = [pc EXCEPT ![r] = "done"] /\ planned' = [planned EXCEPT ![r] = NoSnapshot]
      /\ op' = op
  BY AnswerTypes DEF TypeInv, EndUnwritten
<1>3. StatementsFit'
  BY <1>2, AnswerFits DEF TypeInv, StatementsFit, StatementFits
<1>4. QED BY <1>1, <1>3 DEF TypeInv

LEMMA AnswerAtOnceTypes ==
  ASSUME TypeInv, NEW r \in Request, NEW o \in Workload, NEW code \in Code, AnswerAtOnce(r, o, code)
  PROVE  TypeInv'
<1>1. TypeOK'
  BY AnswerTypes, WorkloadAssumption DEF TypeInv, AnswerAtOnce, TypeOK, tables
<1>2. /\ pc' = [pc EXCEPT ![r] = "done"] /\ planned' = [planned EXCEPT ![r] = NoSnapshot]
      /\ op' = [op EXCEPT ![r] = o]
  BY AnswerTypes DEF TypeInv, AnswerAtOnce
<1>3. StatementsFit'
  BY <1>2, AnswerFits
<1>4. QED BY <1>1, <1>3 DEF TypeInv

LEMMA BeginTypes ==
  ASSUME TypeInv, NEW r \in Request, NEW o \in Workload, NEW ls, IsLegs(ls),
         NEW statement \in {"lookup", "locking"}, statement = "lookup" => IsPost(o),
         IsPost(o) \/ o.kind \in {"void", "status", "limit"},
         Begin(r, o, statement, ls)
  PROVE  TypeInv'
<1>1. TypeOK'
  BY WorkloadAssumption DEF TypeInv, Begin, TypeOK, tables, Goto, Statement
<1>2. StatementsFit'
  BY DEF TypeInv, Begin, TypeOK, StatementsFit, StatementFits, Goto
<1>3. QED BY <1>1, <1>2 DEF TypeInv

LEMMA ReceiveTypes ==
  ASSUME TypeInv, NEW r \in Request, Receive(r)
  PROVE  TypeInv'
<1>1. PICK o \in Workload : \/ ReceivePost(r, o) \/ ReceiveVoid(r, o) \/ ReceiveStatus(r, o)
                            \/ ReceiveLimit(r, o) \/ ReceiveCreate(r, o) \/ CreateLost(r, o)
  BY DEF Receive
<1>2. o \in Op
  BY WorkloadAssumption
<1>3. IsLegs(<<>>)
  BY DEF IsLegs
<1>4. CASE ReceivePost(r, o)
  <2>1. IsPost(o)
    BY <1>4 DEF ReceivePost
  <2>2. buildOutcome(o) \in Code
    BY DEF buildOutcome, Code
  <2>3. CASE AnswerAtOnce(r, o, "ACCOUNT_NOT_FOUND")
    BY <2>3, AnswerAtOnceTypes DEF Code
  <2>4. CASE AnswerAtOnce(r, o, buildOutcome(o))
    BY <2>2, <2>4, AnswerAtOnceTypes
  <2>5. CASE /\ buildOutcome(o) = "OK"
             /\ Begin(r, o, IF o.reference = NoRef THEN "locking" ELSE "lookup", LegsOf(o))
    <3>1. IsLegs(LegsOf(o))
      BY <1>2, <2>1, <2>5, LegsOfType
    <3>2. QED BY <2>1, <2>5, <3>1, BeginTypes
  <2>6. QED BY <1>4, <2>3, <2>4, <2>5 DEF ReceivePost
<1>5. CASE ReceiveVoid(r, o)
  <2> DEFINE reversal == ReversalLegs(Serial!LegsWritten(o.target))
  <2>1. IsLegs(reversal)
    BY LegsWrittenType, ReversalLegsType DEF TypeInv
  <2>2. o.kind = "void"
    BY <1>5 DEF ReceiveVoid
  <2>3. \/ AnswerAtOnce(r, o, "NOT_FOUND") \/ AnswerAtOnce(r, o, "INVALID_TRANSACTION")
        \/ AnswerAtOnce(r, o, "UNBALANCED_TRANSACTION") \/ Begin(r, o, "locking", reversal)
    BY <1>5 DEF ReceiveVoid
  <2> HIDE DEF reversal
  <2>4. QED BY <2>1, <2>2, <2>3, AnswerAtOnceTypes, BeginTypes DEF Code
<1>6. CASE ReceiveStatus(r, o)
  <2>1. o.kind = "status"
    BY <1>6 DEF ReceiveStatus
  <2>2. \/ AnswerAtOnce(r, o, "ACCOUNT_NOT_FOUND") \/ AnswerAtOnce(r, o, "INVALID_TRANSACTION")
        \/ AnswerAtOnce(r, o, "OK") \/ Begin(r, o, "locking", <<>>)
    BY <1>6 DEF ReceiveStatus
  <2>3. QED BY <1>3, <2>1, <2>2, AnswerAtOnceTypes, BeginTypes DEF Code
<1>7. CASE ReceiveLimit(r, o)
  BY <1>3, <1>7, BeginTypes DEF ReceiveLimit
<1>8. CASE ReceiveCreate(r, o)
  <2>1. o \in CreateOp
    BY <1>2, <1>8, OpOfKind DEF ReceiveCreate
  <2>2. o.account \in Account /\ o.overdraftLimit \in Nat
    BY <2>1 DEF CreateOp
  <2>3. NewRow(o.overdraftLimit) \in AccountRow
    BY <2>2, RowTypes
  <2>4. LimitEvent("account_opened", o.overdraftLimit) \in AccountEvent
    BY <2>2 DEF LimitEvent, AccountEvent
  <2>5. PICK code \in {"OK", "INTERNAL_ERROR"} : Answer(r, code, NoRequest)
    BY <1>8 DEF ReceiveCreate
  <2>6. code \in Code
    BY DEF Code
  <2>7. accountEvents' \in [Account -> Seq(AccountEvent)]
    BY <1>8, <2>2, <2>4 DEF ReceiveCreate, TypeInv, TypeOK
  <2>8. TypeOK'
    BY <1>2, <1>8, <2>2, <2>3, <2>5, <2>6, <2>7, AnswerTypes DEF ReceiveCreate, TypeInv, TypeOK
  <2>9. StatementsFit'
    <3>1. /\ pc' = [pc EXCEPT ![r] = "done"] /\ planned' = [planned EXCEPT ![r] = NoSnapshot]
          /\ op' = [op EXCEPT ![r] = o]
      BY <1>8, <2>5 DEF ReceiveCreate, Answer
    <3>2. QED BY <3>1, AnswerFits
  <2>10. QED BY <2>8, <2>9 DEF TypeInv
<1>9. CASE CreateLost(r, o)
  BY <1>9, AnswerAtOnceTypes DEF CreateLost, Code
<1>10. QED BY <1>1, <1>4, <1>5, <1>6, <1>7, <1>8, <1>9


\* A request moves from one statement of its handler to the next, and of its
\* locals only those named change.
LEMMA GotoFits ==
  ASSUME TypeInv, NEW r \in Request, NEW statement \in Statement, Goto(r, statement), op' = op,
         op[r] \in Workload,
         statement \in {"lookup", "insert", "resolve"} => IsPost(op[r]),
         statement = "mark" => op[r].kind = "void",
         statement \in {"plan", "snapshot"} => IsPost(op[r]) \/ op[r].kind = "void",
         statement \in {"locking", "check", "commit"} =>
           IsPost(op[r]) \/ op[r].kind \in {"void", "status", "limit"},
         statement = "snapshot" => planned'[r].account \in Account /\ planned'[r].seq # 0,
         \A q \in Request : q # r => planned'[q] = planned[q]
  PROVE  StatementsFit' /\ pc' \in [Request -> Statement]
<1>1. pc' \in [Request -> Statement]
  BY DEF TypeInv, TypeOK, Goto
<1>2. StatementsFit'
  <2> SUFFICES ASSUME NEW q \in Request
               PROVE  StatementFits(q)'
    BY DEF StatementsFit
  <2>1. CASE q = r
    <3>1. pc'[q] = statement
      BY <2>1 DEF TypeInv, TypeOK, Goto
    <3>2. QED BY <2>1, <3>1 DEF StatementFits, IsPost
  <2>2. CASE q # r
    <3>1. pc'[q] = pc[q] /\ planned'[q] = planned[q] /\ op'[q] = op[q]
      BY <2>2 DEF TypeInv, TypeOK, Goto
    <3>2. StatementFits(q)
      BY DEF TypeInv, StatementsFit
    <3>3. QED BY <3>1, <3>2 DEF StatementFits, IsPost
  <2>3. QED BY <2>1, <2>2
<1>3. QED BY <1>1, <1>2

\* The row lockForUpdate locks next is one of those it selects.
LEMMA NextRowType ==
  ASSUME NEW r, Unlocked(r) # {}
  PROVE  NextRow(r) \in Unlocked(r) /\ NextRow(r) \in Account
<1>1. Unlocked(r) \in SUBSET Nat
  BY AccountAssumption DEF Unlocked, Targets
<1>2. \E a \in Unlocked(r) : \A b \in Unlocked(r) : a <= b
  BY <1>1, LeastNat
<1>3. NextRow(r) \in Unlocked(r)
  BY <1>2 DEF NextRow
<1>4. QED BY <1>3 DEF Unlocked, Targets

LEMMA LookupTypes ==
  ASSUME TypeInv, NEW r \in Request, Lookup(r)
  PROVE  TypeInv'
<1>1. pc[r] = "lookup" /\ op[r] \in Workload /\ IsPost(op[r]) /\ UNCHANGED <<tables, snapshots, lock>>
  BY DEF Lookup, TypeInv, StatementsFit, StatementFits
<1>2. CASE Goto(r, "locking") /\ UNCHANGED <<Locals, op>>
  <2>1. StatementsFit' /\ pc' \in [Request -> Statement]
    BY <1>1, <1>2, GotoFits DEF Statement, Locals
  <2>2. TypeOK'
    BY <1>1, <1>2, <2>1 DEF TypeInv, TypeOK, tables, Locals
  <2>3. QED BY <2>1, <2>2 DEF TypeInv
<1>3. ASSUME NEW t \in Committed(op[r].reference), Answer(r, "OK", t), UNCHANGED op
      PROVE  TypeInv'
  <2>1. t \in Request \cup {NoRequest} /\ "OK" \in Code
    BY DEF Committed, Code
  <2>2. TypeOK'
    BY <1>1, <1>3, <2>1, AnswerTypes DEF TypeInv, TypeOK, tables
  <2>3. pc' = [pc EXCEPT ![r] = "done"] /\ planned' = [planned EXCEPT ![r] = NoSnapshot]
    BY <1>3 DEF Answer
  <2>4. StatementsFit'
    BY <1>1, <1>3, <2>3, AnswerFits
  <2>5. QED BY <2>2, <2>4 DEF TypeInv
<1>4. QED BY <1>2, <1>3 DEF Lookup

LEMMA LockRowTypes ==
  ASSUME TypeInv, NEW r \in Request, LockRow(r)
  PROVE  TypeInv'
<1> DEFINE a == NextRow(r)
<1>1. a \in Account
  BY NextRowType DEF LockRow
<1> HIDE DEF a
<1>2. /\ pc[r] = "locking" /\ op[r] \in Workload
      /\ IsPost(op[r]) \/ op[r].kind \in {"void", "status", "limit"}
  BY DEF LockRow, TypeInv, StatementsFit, StatementFits
<1>3. \E statement \in {"check", "locking"} : Goto(r, statement)
  BY DEF LockRow
<1>4. StatementsFit' /\ pc' \in [Request -> Statement]
  BY <1>2, <1>3, GotoFits DEF LockRow, Statement
<1>5. /\ lock' = [lock EXCEPT ![a] = r]
      /\ locked' = [locked EXCEPT ![r][a] = accounts[a]]
      /\ UNCHANGED <<tables, snapshots, op, legs, attempt, pending, planned, result>>
  BY DEF LockRow, a
<1>6. TypeOK'
  BY <1>1, <1>4, <1>5 DEF TypeInv, TypeOK, tables
<1>7. QED BY <1>4, <1>6 DEF TypeInv

LEMMA LockTimeoutTypes ==
  ASSUME TypeInv, NEW r \in Request, LockTimeout(r)
  PROVE  TypeInv'
<1>1. /\ pc[r] # "idle" /\ op[r] \in Workload
      /\ IsPost(op[r]) \/ op[r].kind \in {"void", "status", "limit"}
  BY DEF LockTimeout, WaitsForRow, WaitsForReference, TypeInv, StatementsFit, StatementFits
<1>2. CASE EndUnwritten(r, "CONFLICT_SEQUENCE")
  BY <1>1, <1>2, EndUnwrittenTypes DEF Code
<1>3. CASE /\ attempt[r] < TX_MAX_RETRIES
           /\ attempt' = [attempt EXCEPT ![r] = @ + 1]
           /\ locked' = [locked EXCEPT ![r] = NoLocks]
           /\ Release(r)
           /\ Goto(r, "locking")
           /\ UNCHANGED <<tables, snapshots, op, legs, pending, planned, result>>
  <2>1. StatementsFit' /\ pc' \in [Request -> Statement]
    BY <1>1, <1>3, GotoFits DEF Statement
  <2>2. NoLocks \in [Account -> AccountRow]
    BY RowTypes DEF NoLocks
  <2>3. attempt' \in [Request -> 0..TX_MAX_RETRIES]
    BY <1>3, ConfigAssumption DEF TypeInv, TypeOK
  <2>4. TypeOK'
    BY <1>3, <2>1, <2>2, <2>3, ReleaseType DEF TypeInv, TypeOK, tables
  <2>5. QED BY <2>1, <2>4 DEF TypeInv
<1>4. QED BY <1>2, <1>3 DEF LockTimeout

\* A step that only moves on to another statement.
LEMMA MoveOnTypes ==
  ASSUME TypeInv, NEW r \in Request, NEW statement \in Statement, Goto(r, statement),
         UNCHANGED <<tables, snapshots, lock, op, Locals>>, op[r] \in Workload,
         statement \in {"insert", "resolve"} => IsPost(op[r]),
         statement = "mark" => op[r].kind = "void",
         statement = "commit" => IsPost(op[r]) \/ op[r].kind \in {"void", "status", "limit"},
         statement \notin {"lookup", "locking", "check", "plan", "snapshot"}
  PROVE  TypeInv'
<1>1. StatementsFit' /\ pc' \in [Request -> Statement]
  BY GotoFits DEF Locals
<1>2. TypeOK'
  BY <1>1 DEF TypeInv, TypeOK, tables, Locals
<1>3. QED BY <1>1, <1>2 DEF TypeInv

LEMMA CheckTypes ==
  ASSUME TypeInv, NEW r \in Request, CheckLegs(r) \/ CheckStatus(r) \/ CheckLimit(r)
  PROVE  TypeInv'
<1>1. pc[r] # "idle" /\ op[r] \in Workload
  BY DEF CheckLegs, CheckStatus, CheckLimit, TypeInv, StatementsFit, StatementFits
<1>2. CASE CheckLegs(r)
  <2>1. \A a : LegOutcome(r, a) \in Code
    BY DEF LegOutcome, assertPostAllowed, Code
  <2>2. \/ \E statement \in {"insert", "mark"} :
             /\ statement = IF IsPost(op[r]) THEN "insert" ELSE "mark"
             /\ Goto(r, statement) /\ UNCHANGED <<tables, snapshots, lock, op, Locals>>
        \/ \E a \in DOMAIN legs[r] : EndUnwritten(r, LegOutcome(r, a))
    BY <1>2 DEF CheckLegs
  <2>3. IsPost(op[r]) \/ op[r].kind = "void"
    BY <1>2 DEF CheckLegs
  <2>4. QED BY <1>1, <2>1, <2>2, <2>3, MoveOnTypes, EndUnwrittenTypes DEF Statement
<1>3. CASE CheckStatus(r)
  <2>1. \/ EndUnwritten(r, "INVALID_TRANSACTION") \/ EndUnwritten(r, "OK")
        \/ Goto(r, "commit") /\ UNCHANGED <<tables, snapshots, lock, op, Locals>>
    BY <1>3 DEF CheckStatus
  <2>2. op[r].kind = "status"
    BY <1>3 DEF CheckStatus
  <2>3. QED BY <1>1, <2>1, <2>2, MoveOnTypes, EndUnwrittenTypes DEF Statement, Code
<1>4. CASE CheckLimit(r)
  <2>1. \/ EndUnwritten(r, "ACCOUNT_CLOSED")
        \/ Goto(r, "commit") /\ UNCHANGED <<tables, snapshots, lock, op, Locals>>
    BY <1>4 DEF CheckLimit
  <2>2. op[r].kind = "limit"
    BY <1>4 DEF CheckLimit
  <2>3. QED BY <1>1, <2>1, <2>2, MoveOnTypes, EndUnwrittenTypes DEF Statement, Code
<1>5. QED BY <1>2, <1>3, <1>4

LEMMA InsertTypes ==
  ASSUME TypeInv, NEW r \in Request,
         InsertTransaction(r) \/ Resolve(r) \/ MarkVoid(r) \/ LockNothing(r) \/ ConnectionLost(r)
  PROVE  TypeInv'
<1>1. pc[r] # "idle" /\ op[r] \in Workload
  BY DEF InsertTransaction, Resolve, MarkVoid, LockNothing, ConnectionLost, TypeInv, StatementsFit, StatementFits
<1>2. CASE InsertTransaction(r)
  <2>1. IsPost(op[r])
    BY <1>2 DEF InsertTransaction, TypeInv, StatementsFit, StatementFits
  <2>2. \E statement \in {"resolve", "commit"} : Goto(r, statement)
    BY <1>2 DEF InsertTransaction
  <2>3. StatementsFit' /\ pc' \in [Request -> Statement]
    BY <1>1, <1>2, <2>1, <2>2, GotoFits DEF InsertTransaction, Locals, Statement
  <2>4. lock' \in [Account -> Request \cup {NoRequest}]
    BY <1>2, ReleaseType DEF InsertTransaction, TypeInv, TypeOK
  <2>5. TypeOK'
    BY <1>2, <2>3, <2>4 DEF InsertTransaction, TypeInv, TypeOK, tables, Locals
  <2>6. QED BY <2>3, <2>5 DEF TypeInv
<1>3. CASE Resolve(r)
  <2>1. PICK t \in Committed(op[r].reference) : Answer(r, "OK", t)
    BY <1>3 DEF Resolve
  <2>2. t \in Request \cup {NoRequest} /\ "OK" \in Code
    BY DEF Committed, Code
  <2>3. TypeOK'
    BY <1>3, <2>1, <2>2, AnswerTypes DEF Resolve, TypeInv, TypeOK, tables
  <2>4. pc' = [pc EXCEPT ![r] = "done"] /\ planned' = [planned EXCEPT ![r] = NoSnapshot]
    BY <2>1 DEF Answer
  <2>5. StatementsFit'
    BY <1>1, <1>3, <2>4, AnswerFits DEF Resolve
  <2>6. QED BY <2>3, <2>5 DEF TypeInv
<1>4. CASE MarkVoid(r)
  <2>1. op[r].kind = "void"
    BY <1>4 DEF MarkVoid, TypeInv, StatementsFit, StatementFits
  <2>2. \/ Goto(r, "commit") /\ UNCHANGED <<tables, snapshots, lock, op, Locals>>
        \/ EndUnwritten(r, "INVALID_TRANSACTION")
    BY <1>4 DEF MarkVoid
  <2>3. QED BY <1>1, <2>1, <2>2, MoveOnTypes, EndUnwrittenTypes DEF Statement, Code
<1>5. CASE LockNothing(r)
  BY <1>1, <1>5, EndUnwrittenTypes DEF LockNothing, Code
<1>6. CASE ConnectionLost(r)
  BY <1>1, <1>6, EndUnwrittenTypes DEF ConnectionLost, Code
<1>7. QED BY <1>2, <1>3, <1>4, <1>5, <1>6


\* The columns the writes change, one at a time.
LEMMA SequenceUpdate ==
  ASSUME NEW row \in AccountRow, NEW n \in Nat
  PROVE  [row EXCEPT !.currentSequence = n] \in AccountRow
BY DEF AccountRow

LEMMA LimitUpdate ==
  ASSUME NEW row \in AccountRow, NEW n \in Nat
  PROVE  [row EXCEPT !.overdraftLimit = n] \in AccountRow
BY DEF AccountRow

LEMMA StatusUpdate ==
  ASSUME NEW row \in AccountRow, NEW s \in Status, NEW h \in Seq(Status)
  PROVE  [row EXCEPT !.status = s, !.statusHistory = h] \in AccountRow
BY DEF AccountRow

LEMMA VoidUpdate ==
  ASSUME NEW row \in TransactionRow
  PROVE  [row EXCEPT !.status = "void"] \in TransactionRow
BY DEF TransactionRow

\* The tables a commit leaves are of the right types.
LEMMA WriteTypes ==
  ASSUME TypeInv, NEW r \in Request, pc[r] = "commit", Write(r)
  PROVE  /\ accounts' \in [Account -> AccountRow]
         /\ transactions' \in [Request -> TransactionRow]
         /\ entries' = [a \in Account |-> entries'[a]]
         /\ \A a \in Account : IsHistory(entries'[a])
         /\ accountEvents' \in [Account -> Seq(AccountEvent)]
<1>1. /\ op[r] \in Op
      /\ IsPost(op[r]) \/ op[r].kind \in {"void", "status", "limit"}
  BY WorkloadAssumption DEF TypeInv, StatementsFit, StatementFits
<1>2. \A a \in Account : EntrySeq(r, a) \in Nat \ {0}
  BY DEF EntrySeq, TypeInv, TypeOK, AccountRow
<1>3. ASSUME AppendEntries(r)
      PROVE  /\ accounts' \in [Account -> AccountRow]
             /\ entries' = [a \in Account |-> entries'[a]]
             /\ \A a \in Account : IsHistory(entries'[a])
  <2>1. accounts' \in [Account -> AccountRow]
    <3>1. \A a \in Account : [accounts[a] EXCEPT !.currentSequence = EntrySeq(r, a)] \in AccountRow
      BY <1>2, SequenceUpdate DEF TypeInv, TypeOK
    <3>2. QED BY <1>3, <3>1 DEF AppendEntries, bumpSequences, TypeInv, TypeOK
  <2>2. entries' = [a \in Account |-> entries'[a]]
    BY <1>3 DEF AppendEntries, bumpSequences
  <2>3. ASSUME NEW a \in Account
        PROVE  IsHistory(entries'[a])
    <3>1. CASE a \in DOMAIN legs[r]
      <4> DEFINE e == [tx |-> r, direction |-> legs[r][a].direction, amount |-> legs[r][a].amount]
      <4>1. legs[r][a] \in Leg
        BY <3>1 DEF TypeInv, TypeOK, IsLegs
      <4>2. e \in Entry
        BY <4>1 DEF Entry, Leg
      <4>3. entries'[a] = ExtendLog(entries[a], EntrySeq(r, a), e)
        BY <1>3, <3>1 DEF AppendEntries, bumpSequences
      <4>4. IsHistory(entries[a])
        BY DEF TypeInv, TypeOK
      <4> HIDE DEF e
      <4>5. QED BY <1>2, <4>2, <4>3, <4>4, ExtendHistory
    <3>2. CASE a \notin DOMAIN legs[r]
      BY <1>3, <3>2 DEF AppendEntries, bumpSequences, TypeInv, TypeOK
    <3>3. QED BY <3>1, <3>2
  <2>4. QED BY <2>1, <2>2, <2>3
<1>4. ASSUME IsPost(op[r]) \/ op[r].kind = "void"
      PROVE  TransactionWritten(r) \in TransactionRow
  <2>1. CASE IsPost(op[r])
    <3>1. op[r].reference \in Ref \cup {NoRef}
      BY <1>1, <2>1, ReferenceOfPost
    <3>2. op[r].kind \in TransactionType
      BY <2>1 DEF IsPost, TransactionType
    <3>3. QED BY <2>1, <3>1, <3>2 DEF TransactionWritten, TransactionRow
  <2>2. CASE ~IsPost(op[r]) /\ op[r].kind = "void"
    <3>1. op[r].target \in Request
      BY <1>1, <2>2, OpOfKind DEF VoidOp
    <3>2. QED BY <2>2, <3>1 DEF TransactionWritten, TransactionRow, TransactionType
  <2>3. QED BY <1>4, <2>1, <2>2
<1>5. CASE IsPost(op[r])
  <2>1. WritePost(r)
    BY <1>5 DEF Write, IsPost
  <2>2. QED BY <1>3, <1>4, <1>5, <2>1 DEF WritePost, TypeInv, TypeOK
<1>6. CASE op[r].kind = "void"
  <2>1. WriteVoid(r)
    BY <1>6 DEF Write, IsPost
  <2>2. op[r].target \in Request
    BY <1>1, <1>6, OpOfKind DEF VoidOp
  <2>3. \A t \in Request : [transactions[t] EXCEPT !.status = "void"] \in TransactionRow
    BY VoidUpdate DEF TypeInv, TypeOK
  <2>4. transactions' = [transactions EXCEPT ![op[r].target].status = "void",
                                             ![r] = TransactionWritten(r)]
    BY <2>1 DEF WriteVoid
  <2>5. transactions' \in [Request -> TransactionRow]
    BY <1>4, <1>6, <2>2, <2>3, <2>4 DEF TypeInv, TypeOK
  <2>6. QED BY <1>3, <2>1, <2>5 DEF WriteVoid, TypeInv, TypeOK
<1>7. CASE op[r].kind = "status"
  <2> DEFINE a == op[r].account
  <2>1. a \in Account /\ op[r].status \in Status
    BY <1>1, <1>7, OpOfKind DEF StatusOp
  <2>2. WriteStatus(r)
    BY <1>7 DEF Write, IsPost
  <2>3. Append(locked[r][a].statusHistory, op[r].status) \in Seq(Status)
    <3>1. locked[r][a].statusHistory \in Seq(Status)
      BY <2>1 DEF TypeInv, TypeOK, AccountRow
    <3>2. QED BY <2>1, <3>1
  <2>4. accounts' \in [Account -> AccountRow]
    <3>1. accounts' = [accounts EXCEPT ![a] =
            [accounts[a] EXCEPT !.status = op[r].status,
               !.statusHistory = Append(locked[r][a].statusHistory, op[r].status)]]
      BY <2>1, <2>2 DEF WriteStatus, TypeInv, TypeOK
    <3>2. QED BY <2>1, <2>3, <3>1, StatusUpdate DEF TypeInv, TypeOK
  <2>5. StatusEvent(op[r].status) \in AccountEvent
    BY DEF StatusEvent, AccountEvent
  <2>6. accountEvents' \in [Account -> Seq(AccountEvent)]
    <3>1. accountEvents[a] \in Seq(AccountEvent)
      BY <2>1 DEF TypeInv, TypeOK
    <3>2. Append(accountEvents[a], StatusEvent(op[r].status)) \in Seq(AccountEvent)
      BY <2>5, <3>1
    <3>3. QED BY <2>1, <2>2, <3>2 DEF WriteStatus, TypeInv, TypeOK
  <2>7. QED BY <2>2, <2>4, <2>6 DEF WriteStatus, TypeInv, TypeOK
<1>8. CASE op[r].kind = "limit"
  <2> DEFINE a == op[r].account
             e == LimitEvent("limit_changed", op[r].overdraftLimit)
  <2>1. a \in Account /\ op[r].overdraftLimit \in Nat
    BY <1>1, <1>8, OpOfKind DEF LimitOp
  <2>2. WriteLimit(r)
    BY <1>8 DEF Write, IsPost
  <2>3. accounts' \in [Account -> AccountRow]
    <3>1. accounts' = [accounts EXCEPT ![a] =
            [accounts[a] EXCEPT !.overdraftLimit = op[r].overdraftLimit]]
      BY <2>1, <2>2 DEF WriteLimit, TypeInv, TypeOK
    <3>2. QED BY <2>1, <3>1, LimitUpdate DEF TypeInv, TypeOK
  <2>4. e \in AccountEvent
    BY <2>1 DEF LimitEvent, AccountEvent
  <2>5. accountEvents' \in [Account -> Seq(AccountEvent)]
    <3>1. accountEvents[a] \in Seq(AccountEvent)
      BY <2>1 DEF TypeInv, TypeOK
    <3>2. Append(accountEvents[a], e) \in Seq(AccountEvent)
      BY <2>4, <3>1
    <3>3. QED BY <2>1, <2>2, <3>2 DEF WriteLimit, TypeInv, TypeOK
  <2>6. QED BY <2>2, <2>3, <2>5 DEF WriteLimit, TypeInv, TypeOK
<1>9. QED BY <1>1, <1>5, <1>6, <1>7, <1>8

LEMMA CommitTypes ==
  ASSUME TypeInv, NEW r \in Request, Commit(r) \/ CommitUnacknowledged(r)
  PROVE  TypeInv'
<1>1. /\ pc[r] = "commit" /\ Write(r) /\ Release(r) /\ op[r] \in Workload
      /\ UNCHANGED <<snapshots, op>>
  BY DEF Commit, CommitUnacknowledged, TypeInv, StatementsFit, StatementFits
<1>2. lock' \in [Account -> Request \cup {NoRequest}]
  BY <1>1, ReleaseType DEF TypeInv
<1>3. ASSUME NEW code \in Code, Answer(r, code, NoRequest)
      PROVE  TypeInv'
  <2>1. TypeOK'
    BY <1>1, <1>2, <1>3, WriteTypes, AnswerTypes DEF TypeInv, TypeOK
  <2>2. pc' = [pc EXCEPT ![r] = "done"] /\ planned' = [planned EXCEPT ![r] = NoSnapshot]
    BY <1>3 DEF Answer
  <2>3. StatementsFit'
    BY <1>1, <2>2, AnswerFits
  <2>4. QED BY <2>1, <2>3 DEF TypeInv
<1>4. CASE /\ op[r].kind \notin {"status", "limit"}
           /\ Goto(r, "plan")
           /\ pending' = [pending EXCEPT ![r] = DOMAIN legs[r]]
           /\ UNCHANGED <<legs, locked, attempt, planned, result>>
  <2>1. IsPost(op[r]) \/ op[r].kind = "void"
    BY <1>1, <1>4 DEF TypeInv, StatementsFit, StatementFits
  <2>2. StatementsFit' /\ pc' \in [Request -> Statement]
    BY <1>1, <1>4, <2>1, GotoFits DEF Statement
  <2>3. DOMAIN legs[r] \subseteq Account
    BY DEF TypeInv, TypeOK, IsLegs
  <2>4. TypeOK'
    BY <1>1, <1>2, <1>4, <2>2, <2>3, WriteTypes DEF TypeInv, TypeOK
  <2>5. QED BY <2>2, <2>4 DEF TypeInv
<1>5. \/ Answer(r, "OK", NoRequest) \/ Answer(r, "INTERNAL_ERROR", NoRequest)
      \/ /\ op[r].kind \notin {"status", "limit"}
         /\ Goto(r, "plan")
         /\ pending' = [pending EXCEPT ![r] = DOMAIN legs[r]]
         /\ UNCHANGED <<legs, locked, attempt, planned, result>>
  BY DEF Commit, CommitUnacknowledged
<1>6. QED BY <1>3, <1>4, <1>5 DEF Code

LEMMA PlanSnapshotTypes ==
  ASSUME TypeInv, NEW r \in Request, PlanSnapshot(r)
  PROVE  TypeInv'
<1>1. /\ pc[r] = "plan" /\ op[r] \in Workload /\ (IsPost(op[r]) \/ op[r].kind = "void")
      /\ UNCHANGED <<tables, snapshots, lock, op>>
  BY DEF PlanSnapshot, TypeInv, StatementsFit, StatementFits
<1>2. CASE Answer(r, "OK", r)
  <2>1. "OK" \in Code
    BY DEF Code
  <2>2. TypeOK'
    BY <1>1, <1>2, <2>1, AnswerTypes DEF TypeInv, TypeOK, tables
  <2>3. pc' = [pc EXCEPT ![r] = "done"] /\ planned' = [planned EXCEPT ![r] = NoSnapshot]
    BY <1>2 DEF Answer
  <2>4. StatementsFit'
    BY <1>1, <2>3, AnswerFits
  <2>5. QED BY <2>2, <2>4 DEF TypeInv
<1>3. ASSUME NEW a \in pending[r],
             pending' = [pending EXCEPT ![r] = @ \ {a}],
             IF SnapshotDue(a, EntrySeq(r, a))
             THEN planned' = [planned EXCEPT ![r] = takeSnapshot(a, EntrySeq(r, a))]
                  /\ Goto(r, "snapshot")
             ELSE UNCHANGED <<planned, pc>>,
             UNCHANGED <<legs, locked, attempt, result>>
      PROVE  TypeInv'
  <2>1. a \in Account
    BY DEF TypeInv, TypeOK
  <2>2. CASE UNCHANGED <<planned, pc>>
    <3>1. TypeOK'
      BY <1>1, <1>3, <2>2 DEF TypeInv, TypeOK, tables
    <3>2. StatementsFit'
      BY <1>1, <2>2 DEF TypeInv, StatementsFit, StatementFits, IsPost
    <3>3. QED BY <3>1, <3>2 DEF TypeInv
  <2>3. CASE planned' = [planned EXCEPT ![r] = takeSnapshot(a, EntrySeq(r, a))]
             /\ Goto(r, "snapshot")
    <3>1. EntrySeq(r, a) \in Nat \ {0}
      BY <2>1 DEF EntrySeq, TypeInv, TypeOK, AccountRow
    <3>2. Amounts(entries[a])
      BY <2>1, HistoryAmounts DEF TypeInv, TypeOK
    <3>3. balanceUpToSeq(NormalSide[a], entries[a], EntrySeq(r, a)) \in Int
      BY <3>1, <3>2, SumAfterType DEF balanceUpToSeq
    <3>4. /\ takeSnapshot(a, EntrySeq(r, a)) \in [account: Account \cup {0}, seq: Nat, balance: Int]
          /\ takeSnapshot(a, EntrySeq(r, a)).account = a
          /\ takeSnapshot(a, EntrySeq(r, a)).seq = EntrySeq(r, a)
      BY <2>1, <3>1, <3>3 DEF takeSnapshot
    <3>5. /\ planned' \in [Request -> [account: Account \cup {0}, seq: Nat, balance: Int]]
          /\ planned'[r] = takeSnapshot(a, EntrySeq(r, a))
          /\ \A q \in Request : q # r => planned'[q] = planned[q]
      BY <2>3, <3>4 DEF TypeInv, TypeOK
    <3>6. StatementsFit' /\ pc' \in [Request -> Statement]
      BY <1>1, <2>1, <2>3, <3>1, <3>4, <3>5, GotoFits DEF Statement
    <3>7. TypeOK'
      BY <1>1, <1>3, <3>5, <3>6 DEF TypeInv, TypeOK, tables
    <3>8. QED BY <3>6, <3>7 DEF TypeInv
  <2>4. QED BY <1>3, <2>2, <2>3
<1>4. QED BY <1>2, <1>3 DEF PlanSnapshot

LEMMA InsertSnapshotTypes ==
  ASSUME TypeInv, NEW r \in Request, InsertSnapshot(r) \/ SnapshotFails(r)
  PROVE  TypeInv'
<1>1. /\ pc[r] = "snapshot" /\ op[r] \in Workload /\ (IsPost(op[r]) \/ op[r].kind = "void")
      /\ planned[r].account \in Account /\ planned[r].seq \in Nat \ {0} /\ planned[r].balance \in Int
  BY DEF InsertSnapshot, SnapshotFails, TypeInv, TypeOK, StatementsFit, StatementFits
<1>2. /\ planned' = [planned EXCEPT ![r] = NoSnapshot] /\ Goto(r, "plan")
      /\ UNCHANGED <<tables, lock, op, legs, locked, attempt, pending, result>>
  BY DEF InsertSnapshot, SnapshotFails
<1>3. StatementsFit' /\ pc' \in [Request -> Statement]
  <2>1. \A q \in Request : q # r => planned'[q] = planned[q]
    BY <1>2 DEF TypeInv, TypeOK
  <2>2. QED BY <1>1, <1>2, <2>1, GotoFits DEF Statement
<1>4. planned' \in [Request -> [account: Account \cup {0}, seq: Nat, balance: Int]]
  BY <1>2 DEF TypeInv, TypeOK, NoSnapshot
<1>5. snapshots' = [a \in Account |-> snapshots'[a]] /\ \A a \in Account : IsSnapshots(snapshots'[a])
  <2>1. CASE InsertSnapshot(r)
    <3> DEFINE p == planned[r]
               new == IF p.seq \in DOMAIN snapshots[p.account] THEN snapshots[p.account]
                      ELSE ExtendLog(snapshots[p.account], p.seq, p.balance)
    <3>1. IsSnapshots(new)
      BY <1>1, ExtendSnapshots DEF TypeInv, TypeOK
    <3>2. snapshots' = [snapshots EXCEPT ![p.account] = new]
      BY <2>1 DEF InsertSnapshot
    <3> HIDE DEF new, p
    <3>3. QED BY <3>1, <3>2 DEF TypeInv, TypeOK
  <2>2. CASE SnapshotFails(r)
    BY <2>2 DEF SnapshotFails, TypeInv, TypeOK
  <2>3. QED BY <2>1, <2>2
<1>6. TypeOK'
  BY <1>2, <1>3, <1>4, <1>5 DEF TypeInv, TypeOK, tables
<1>7. QED BY <1>3, <1>6 DEF TypeInv

LEMMA TypeStep == TypeInv /\ [Next]_vars => TypeInv'
<1> SUFFICES ASSUME TypeInv, [Next]_vars PROVE TypeInv'
  OBVIOUS
<1>1. CASE UNCHANGED vars
  <2>1. TypeOK'
    BY <1>1 DEF TypeInv, TypeOK, vars
  <2>2. StatementsFit'
    BY <1>1 DEF TypeInv, StatementsFit, StatementFits, vars, IsPost
  <2>3. QED BY <2>1, <2>2 DEF TypeInv
<1>2. ASSUME NEW r \in Request, Receive(r) \/ Step(r) \/ Fault(r)
      PROVE  TypeInv'
  BY <1>2, ReceiveTypes, LookupTypes, LockRowTypes, LockTimeoutTypes, CheckTypes, InsertTypes,
     CommitTypes, PlanSnapshotTypes, InsertSnapshotTypes DEF Step, Fault
<1>3. QED BY <1>1, <1>2 DEF Next

\* The tables and the locals of every request always have their types, and a
\* request is only ever at a statement of its own handler.
THEOREM TypeCorrect == Spec => [](TypeOK /\ StatementsFit)
<1>1. Spec => []TypeInv
  BY InitialTypes, TypeStep, PTL DEF Spec
<1>2. QED BY <1>1, PTL DEF TypeInv

-----------------------------------------------------------------------------
(* The inductive invariant *)

Inv == TypeInv /\ LedgerInv

-----------------------------------------------------------------------------
(* A step of one request leaves the locals of the others alone *)

Untouched(q) ==
  /\ pc'[q] = pc[q] /\ op'[q] = op[q] /\ legs'[q] = legs[q] /\ locked'[q] = locked[q]
  /\ pending'[q] = pending[q] /\ planned'[q] = planned[q]

OthersUntouched(r) == \A q \in Request : q # r => Untouched(q)

LEMMA AnswerUntouched ==
  ASSUME TypeOK, NEW r \in Request, NEW code, NEW tx, Answer(r, code, tx),
         op' = op \/ \E o : op' = [op EXCEPT ![r] = o]
  PROVE  /\ OthersUntouched(r) /\ pc'[r] = "done"
         /\ legs'[r] = <<>> /\ pending'[r] = {} /\ planned'[r] = NoSnapshot
BY DEF OthersUntouched, Untouched, Answer, TypeOK

LEMMA ReceiveUntouched ==
  ASSUME TypeOK, NEW r \in Request, Receive(r)
  PROVE  OthersUntouched(r)
<1>1. ASSUME NEW o, NEW code, NEW tx, Answer(r, code, tx), op' = [op EXCEPT ![r] = o]
      PROVE  OthersUntouched(r)
  BY <1>1, AnswerUntouched
<1>2. ASSUME NEW o, NEW code, AnswerAtOnce(r, o, code)
      PROVE  OthersUntouched(r)
  BY <1>2, <1>1 DEF AnswerAtOnce
<1>3. ASSUME NEW o, NEW statement, NEW ls, Begin(r, o, statement, ls)
      PROVE  OthersUntouched(r)
  BY <1>3 DEF Begin, Goto, OthersUntouched, Untouched, TypeOK
<1>4. PICK o \in Workload : \/ ReceivePost(r, o) \/ ReceiveVoid(r, o) \/ ReceiveStatus(r, o)
                            \/ ReceiveLimit(r, o) \/ ReceiveCreate(r, o) \/ CreateLost(r, o)
  BY DEF Receive
<1>5. CASE ReceivePost(r, o)
  BY <1>2, <1>3, <1>5 DEF ReceivePost
<1>6. CASE ReceiveVoid(r, o)
  BY <1>2, <1>3, <1>6 DEF ReceiveVoid
<1>7. CASE ReceiveStatus(r, o)
  BY <1>2, <1>3, <1>7 DEF ReceiveStatus
<1>8. CASE ReceiveLimit(r, o)
  BY <1>3, <1>8 DEF ReceiveLimit
<1>9. CASE ReceiveCreate(r, o)
  BY <1>1, <1>9 DEF ReceiveCreate
<1>10. CASE CreateLost(r, o)
  BY <1>2, <1>10 DEF CreateLost
<1>11. QED BY <1>4, <1>5, <1>6, <1>7, <1>8, <1>9, <1>10

LEMMA StepUntouched ==
  ASSUME TypeOK, NEW r \in Request, Step(r) \/ Fault(r)
  PROVE  OthersUntouched(r)
<1>1. ASSUME NEW code, NEW tx, Answer(r, code, tx), op' = op
      PROVE  OthersUntouched(r)
  BY <1>1, AnswerUntouched
<1>2. ASSUME NEW code, EndUnwritten(r, code)
      PROVE  OthersUntouched(r)
  BY <1>1, <1>2 DEF EndUnwritten
<1>3. ASSUME NEW statement, Goto(r, statement), UNCHANGED <<op, Locals>>
      PROVE  OthersUntouched(r)
  BY <1>3 DEF Goto, Locals, OthersUntouched, Untouched, TypeOK
<1>4. CASE Lookup(r)
  BY <1>1, <1>3, <1>4 DEF Lookup
<1>5. CASE LockRow(r)
  BY <1>5 DEF LockRow, Goto, OthersUntouched, Untouched, TypeOK
<1>6. CASE LockNothing(r)
  BY <1>2, <1>6 DEF LockNothing
<1>7. CASE CheckLegs(r)
  BY <1>2, <1>3, <1>7 DEF CheckLegs
<1>8. CASE CheckStatus(r)
  BY <1>2, <1>3, <1>8 DEF CheckStatus
<1>9. CASE CheckLimit(r)
  BY <1>2, <1>3, <1>9 DEF CheckLimit
<1>10. CASE InsertTransaction(r)
  BY <1>3, <1>10 DEF InsertTransaction
<1>11. CASE Resolve(r)
  BY <1>1, <1>11 DEF Resolve
<1>12. CASE MarkVoid(r)
  BY <1>2, <1>3, <1>12 DEF MarkVoid
<1>13. CASE Commit(r)
  <2>1. CASE Answer(r, "OK", NoRequest) /\ op' = op
    BY <1>1, <2>1
  <2>2. CASE /\ Goto(r, "plan") /\ op' = op
             /\ pending' = [pending EXCEPT ![r] = DOMAIN legs[r]]
             /\ UNCHANGED <<legs, locked, attempt, planned, result>>
    BY <2>2 DEF Goto, OthersUntouched, Untouched, TypeOK
  <2>3. QED BY <1>13, <2>1, <2>2 DEF Commit
<1>14. CASE CommitUnacknowledged(r)
  BY <1>1, <1>14 DEF CommitUnacknowledged
<1>15. CASE PlanSnapshot(r)
  <2>1. CASE Answer(r, "OK", r) /\ op' = op
    BY <1>1, <2>1
  <2>2. CASE \E a \in pending[r] :
          LET seq == EntrySeq(r, a)
          IN  /\ pending' = [pending EXCEPT ![r] = @ \ {a}]
              /\ IF SnapshotDue(a, seq)
                 THEN /\ planned' = [planned EXCEPT ![r] = takeSnapshot(a, seq)]
                      /\ Goto(r, "snapshot")
                 ELSE UNCHANGED <<planned, pc>>
              /\ UNCHANGED <<legs, locked, attempt, result>>
    BY <1>15, <2>2 DEF PlanSnapshot, Goto, OthersUntouched, Untouched, TypeOK
  <2>3. QED BY <1>15, <2>1, <2>2 DEF PlanSnapshot
<1>16. CASE InsertSnapshot(r) \/ SnapshotFails(r)
  BY <1>16 DEF InsertSnapshot, SnapshotFails, Goto, OthersUntouched, Untouched, TypeOK
<1>17. CASE LockTimeout(r)
  <2>1. CASE EndUnwritten(r, "CONFLICT_SEQUENCE")
    BY <1>2, <2>1
  <2>2. CASE /\ locked' = [locked EXCEPT ![r] = NoLocks]
             /\ Goto(r, "locking")
             /\ UNCHANGED <<op, legs, pending, planned>>
    BY <2>2 DEF Goto, OthersUntouched, Untouched, TypeOK
  <2>3. QED BY <1>17, <2>1, <2>2 DEF LockTimeout
<1>18. CASE ConnectionLost(r)
  BY <1>2, <1>18 DEF ConnectionLost
<1>19. QED BY <1>4, <1>5, <1>6, <1>7, <1>8, <1>9, <1>10, <1>11, <1>12, <1>13, <1>14, <1>15,
              <1>16, <1>17, <1>18 DEF Step, Fault

-----------------------------------------------------------------------------
(* The locks *)

LocksAreSound == HeldRowsAreCurrent /\ AllRowsAreHeld

\* The statements at which a request may hold locks.
MayHold(r) == pc[r] = "locking" \/ InTransaction(r)

LEMMA TargetsKept ==
  ASSUME NEW q, UNCHANGED accounts, op'[q] = op[q], legs'[q] = legs[q]
  PROVE  Targets(q)' = Targets(q)
BY DEF Targets, Exists

LEMMA OthersLocksKept ==
  ASSUME LocksAreSound, NEW r \in Request, OthersUntouched(r), UNCHANGED accounts,
         NEW q \in Request, q # r, \A a \in Account : lock[a] = q <=> lock'[a] = q
  PROVE  /\ \A a \in Account : lock'[a] = q =>
              MayHold(q)' /\ a \in Targets(q)' /\ locked'[q][a] = accounts'[a]
         /\ InTransaction(q)' => Targets(q)' # {} /\ \A a \in Targets(q)' : lock'[a] = q
<1>1. Untouched(q)
  BY DEF OthersUntouched
<1>2. Targets(q)' = Targets(q)
  BY <1>1, TargetsKept DEF Untouched
<1>3. (InTransaction(q)' <=> InTransaction(q)) /\ (MayHold(q)' <=> MayHold(q))
  BY <1>1 DEF Untouched, InTransaction, MayHold
<1>4. Targets(q) \subseteq Account
  BY DEF Targets
<1>5. QED BY <1>1, <1>2, <1>3, <1>4
          DEF LocksAreSound, HeldRowsAreCurrent, AllRowsAreHeld, Untouched, MayHold

\* What is left to show of a step of r that changes no account row.
LEMMA LocksKept ==
  ASSUME LocksAreSound, NEW r \in Request, OthersUntouched(r), UNCHANGED accounts,
         \A q \in Request : q # r => \A a \in Account : lock[a] = q <=> lock'[a] = q,
         \A a \in Account : lock'[a] = r =>
           MayHold(r)' /\ a \in Targets(r)' /\ locked'[r][a] = accounts'[a],
         InTransaction(r)' => Targets(r)' # {} /\ \A a \in Targets(r)' : lock'[a] = r
  PROVE  LocksAreSound'
<1>1. HeldRowsAreCurrent'
  BY OthersLocksKept DEF HeldRowsAreCurrent, MayHold
<1>2. AllRowsAreHeld'
  BY OthersLocksKept DEF AllRowsAreHeld
<1>3. QED BY <1>1, <1>2 DEF LocksAreSound

\* r ends its transaction, or its attempt.
LEMMA LocksReleased ==
  ASSUME LocksAreSound, NEW r \in Request, OthersUntouched(r), UNCHANGED accounts,
         Release(r), ~InTransaction(r)'
  PROVE  LocksAreSound'
<1>1. \A a \in Account : lock'[a] # r
  BY RequestAssumption DEF Release
<1>2. \A q \in Request : q # r => \A a \in Account : lock[a] = q <=> lock'[a] = q
  BY RequestAssumption DEF Release
<1>3. QED BY <1>1, <1>2, LocksKept

\* r goes from one statement of its transaction to another.
LEMMA LocksHeldOn ==
  ASSUME LocksAreSound, NEW r \in Request, OthersUntouched(r), UNCHANGED <<accounts, lock>>,
         InTransaction(r), op'[r] = op[r], legs'[r] = legs[r], locked'[r] = locked[r],
         InTransaction(r)'
  PROVE  LocksAreSound'
<1>1. Targets(r)' = Targets(r)
  BY TargetsKept
<1>2. QED BY <1>1, LocksKept DEF LocksAreSound, HeldRowsAreCurrent, AllRowsAreHeld, MayHold

\* r does something outside a transaction, or begins one.
LEMMA LocksElsewhere ==
  ASSUME LocksAreSound, NEW r \in Request, OthersUntouched(r), UNCHANGED <<accounts, lock>>,
         ~MayHold(r), ~InTransaction(r)'
  PROVE  LocksAreSound'
<1>1. \A a \in Account : lock[a] # r
  BY DEF LocksAreSound, HeldRowsAreCurrent, MayHold
<1>2. QED BY <1>1, LocksKept

\* r is granted one more lock.
LEMMA LocksGranted ==
  ASSUME TypeOK, LocksAreSound, NEW r \in Request, OthersUntouched(r), LockRow(r)
  PROVE  LocksAreSound'
<1> DEFINE a == NextRow(r)
<1>1. a \in Unlocked(r) /\ a \in Account
  BY NextRowType DEF LockRow
<1>2. /\ pc[r] = "locking" /\ lock[a] = NoRequest
      /\ lock' = [lock EXCEPT ![a] = r]
      /\ locked' = [locked EXCEPT ![r][a] = accounts[a]]
      /\ Goto(r, IF Unlocked(r) = {a} THEN "check" ELSE "locking")
      /\ UNCHANGED <<tables, op, legs>>
  BY DEF LockRow
<1> HIDE DEF a
<1>3. /\ lock'[a] = r /\ \A b \in Account : b # a => lock'[b] = lock[b]
      /\ locked'[r][a] = accounts[a] /\ \A b \in Account : b # a => locked'[r][b] = locked[r][b]
  BY <1>1, <1>2 DEF TypeOK
<1>4. pc'[r] = IF Unlocked(r) = {a} THEN "check" ELSE "locking"
  BY <1>2 DEF Goto, TypeOK
<1>5. UNCHANGED accounts /\ Targets(r)' = Targets(r)
  BY <1>2, TargetsKept DEF tables
<1>6. \A q \in Request : q # r => \A b \in Account : lock[b] = q <=> lock'[b] = q
  BY <1>2, <1>3, RequestAssumption
<1>7. ASSUME NEW b \in Account, lock'[b] = r
      PROVE  MayHold(r)' /\ b \in Targets(r)' /\ locked'[r][b] = accounts'[b]
  <2>1. MayHold(r)'
    BY <1>4 DEF MayHold, InTransaction
  <2>2. CASE b = a
    BY <1>1, <1>3, <1>5, <2>1, <2>2 DEF Unlocked
  <2>3. CASE b # a
    <3>1. lock[b] = r
      BY <1>3, <1>7, <2>3
    <3>2. b \in Targets(r) /\ locked[r][b] = accounts[b]
      BY <3>1 DEF LocksAreSound, HeldRowsAreCurrent
    <3>3. QED BY <1>3, <1>5, <2>1, <2>3, <3>2
  <2>4. QED BY <2>2, <2>3
<1>8. InTransaction(r)' => Targets(r)' # {} /\ \A b \in Targets(r)' : lock'[b] = r
  <2> SUFFICES ASSUME InTransaction(r)'
               PROVE  Targets(r) # {} /\ \A b \in Targets(r) : lock'[b] = r
    BY <1>5
  <2>1. Unlocked(r) = {a}
    BY <1>4 DEF InTransaction
  <2>2. \A b \in Targets(r) : b # a => lock[b] = r
    BY <2>1 DEF Unlocked
  <2>3. Targets(r) \subseteq Account
    BY DEF Targets
  <2>4. QED BY <1>1, <1>3, <2>2, <2>3 DEF Unlocked
<1>9. QED BY <1>5, <1>6, <1>7, <1>8, LocksKept

-----------------------------------------------------------------------------
(* The parts of the invariant that a step of r leaves to r *)

LEMMA RowsKept ==
  ASSUME RowsExist, NEW r \in Request, OthersUntouched(r), UNCHANGED accounts,
         \A a \in DOMAIN legs'[r] :
           Exists(a) /\ pc'[r] \notin {"idle", "done"} /\ (IsPost(op'[r]) \/ op'[r].kind = "void")
  PROVE  RowsExist'
<1>1. \A a : Exists(a)' <=> Exists(a)
  BY DEF Exists
<1>2. ASSUME NEW q \in Request, NEW a \in DOMAIN legs'[q]
      PROVE  /\ Exists(a) /\ pc'[q] \notin {"idle", "done"}
             /\ IsPost(op'[q]) \/ op'[q].kind = "void"
  <2>1. CASE q = r
    BY <2>1
  <2>2. CASE q # r
    BY <2>2 DEF RowsExist, OthersUntouched, Untouched
  <2>3. QED BY <2>1, <2>2
<1>3. QED BY <1>1, <1>2 DEF RowsExist, IsPost

LEMMA InFlightKept ==
  ASSUME SnapshotsInFlight, NEW r \in Request, OthersUntouched(r), UNCHANGED <<accounts, entries>>,
         \A a \in pending'[r] : /\ pc'[r] \in {"plan", "snapshot"}
                                /\ EntrySeq(r, a)' <= accounts[a].currentSequence,
         pc'[r] = "snapshot" =>
           LET a == planned'[r].account
           IN  /\ planned'[r].seq <= accounts[a].currentSequence
               /\ planned'[r].balance = balanceUpToSeq(NormalSide[a], entries[a], planned'[r].seq)
  PROVE  SnapshotsInFlight'
<1> SUFFICES ASSUME NEW q \in Request
             PROVE  /\ \A a \in pending'[q] :
                         /\ pc'[q] \in {"plan", "snapshot"}
                         /\ EntrySeq(q, a)' <= accounts[a].currentSequence
                    /\ pc'[q] = "snapshot" =>
                         LET a == planned'[q].account
                         IN  /\ planned'[q].seq <= accounts[a].currentSequence
                             /\ planned'[q].balance =
                                  balanceUpToSeq(NormalSide[a], entries[a], planned'[q].seq)
  BY DEF SnapshotsInFlight
<1>1. CASE q = r
  BY <1>1
<1>2. CASE q # r
  BY <1>2 DEF SnapshotsInFlight, OthersUntouched, Untouched, EntrySeq
<1>3. QED BY <1>1, <1>2

LEMMA HistoriesKept ==
  ASSUME ContiguousHistories, SnapshotsAreExact, UNCHANGED <<accounts, entries, snapshots>>
  PROVE  ContiguousHistories' /\ SnapshotsAreExact'
BY DEF ContiguousHistories, SnapshotsAreExact

-----------------------------------------------------------------------------
(* The classes of steps *)

\* r is answered, with or without the end of a transaction.
LEMMA AnsweredSafely ==
  ASSUME Inv, NEW r \in Request, NEW code, NEW tx, Answer(r, code, tx),
         op' = op \/ \E o : op' = [op EXCEPT ![r] = o],
         UNCHANGED <<tables, snapshots>>,
         Release(r) \/ (~MayHold(r) /\ lock' = lock)
  PROVE  LedgerInv'
<1>1. /\ OthersUntouched(r) /\ pc'[r] = "done"
      /\ legs'[r] = <<>> /\ pending'[r] = {}
  BY AnswerUntouched DEF Inv, TypeInv
<1>2. UNCHANGED <<accounts, entries>>
  BY DEF tables
<1>3. LocksAreSound'
  BY <1>1, <1>2, LocksReleased, LocksElsewhere DEF Inv, LedgerInv, LocksAreSound, InTransaction
<1>4. RowsExist'
  BY <1>1, <1>2, RowsKept DEF Inv, LedgerInv
<1>5. SnapshotsInFlight'
  BY <1>1, <1>2, InFlightKept DEF Inv, LedgerInv
<1>6. QED BY <1>2, <1>3, <1>4, <1>5, HistoriesKept DEF Inv, LedgerInv, LocksAreSound

LEMMA EndedSafely ==
  ASSUME Inv, NEW r \in Request, NEW code, EndUnwritten(r, code)
  PROVE  LedgerInv'
BY AnsweredSafely DEF EndUnwritten

LEMMA AtOnceSafely ==
  ASSUME Inv, NEW r \in Request, pc[r] = "idle", NEW o, NEW code, AnswerAtOnce(r, o, code)
  PROVE  LedgerInv'
BY AnsweredSafely DEF AnswerAtOnce, MayHold, InTransaction

\* r goes on to another statement and its locals stay as they are.
LEMMA MovedSafely ==
  ASSUME Inv, NEW r \in Request, NEW statement, Goto(r, statement),
         UNCHANGED <<tables, snapshots, op, Locals>>,
         pc[r] \notin {"idle", "done", "plan", "snapshot"},
         statement \notin {"idle", "done", "snapshot"},
         \/ lock' = lock /\ InTransaction(r) /\ InTransaction(r)'
         \/ lock' = lock /\ ~MayHold(r) /\ ~InTransaction(r)'
         \/ Release(r) /\ ~InTransaction(r)'
  PROVE  LedgerInv'
<1>1. OthersUntouched(r) /\ pc'[r] = statement
  BY DEF Goto, Locals, OthersUntouched, Untouched, Inv, TypeInv, TypeOK
<1>2. UNCHANGED <<accounts, entries, op, legs, locked, pending, planned>>
  BY DEF tables, Locals
<1>3. LocksAreSound'
  BY <1>1, <1>2, LocksHeldOn, LocksElsewhere, LocksReleased DEF Inv, LedgerInv, LocksAreSound
<1>4. RowsExist'
  BY <1>1, <1>2, RowsKept DEF Inv, LedgerInv, RowsExist
<1>5. SnapshotsInFlight'
  BY <1>1, <1>2, InFlightKept DEF Inv, LedgerInv, SnapshotsInFlight
<1>6. QED BY <1>2, <1>3, <1>4, <1>5, HistoriesKept DEF Inv, LedgerInv, LocksAreSound

\* r is received and goes on to its first statement.
LEMMA BegunSafely ==
  ASSUME Inv, NEW r \in Request, pc[r] = "idle", NEW o,
         NEW statement \in {"lookup", "locking"}, NEW ls, Begin(r, o, statement, ls),
         \A a \in DOMAIN ls : Exists(a) /\ (IsPost(o) \/ o.kind = "void")
  PROVE  LedgerInv'
<1>1. /\ OthersUntouched(r) /\ pc'[r] = statement /\ op'[r] = o /\ legs'[r] = ls
      /\ UNCHANGED <<accounts, entries, snapshots, lock, locked, pending, planned>>
  BY DEF Begin, Goto, OthersUntouched, Untouched, Inv, TypeInv, TypeOK, tables
<1>2. LocksAreSound'
  BY <1>1, LocksElsewhere DEF Inv, LedgerInv, LocksAreSound, MayHold, InTransaction
<1>3. RowsExist'
  BY <1>1, RowsKept DEF Inv, LedgerInv
<1>4. SnapshotsInFlight'
  BY <1>1, InFlightKept DEF Inv, LedgerInv, SnapshotsInFlight
<1>5. QED BY <1>1, <1>2, <1>3, <1>4, HistoriesKept DEF Inv, LedgerInv, LocksAreSound

-----------------------------------------------------------------------------
(* Requests arrive *)

\* The accounts of the legs of a request are there.
LEMMA LegsOfRows ==
  ASSUME RowsExist, NEW o \in Op, IsPost(o), \A a \in ReadAccounts(o) : Exists(a)
  PROVE  \A a \in DOMAIN LegsOf(o) : Exists(a)
<1>1. CASE o.kind = "transfer"
  BY <1>1 DEF ReadAccounts, LegsOf, buildTransfer, Move
<1>2. CASE o.kind \in {"deposit", "withdrawal"}
  <2>1. o.account \in Account
    BY <1>2, OpOfKind DEF MovementOp
  <2>2. Exists(o.account) /\ Exists(Vault[CurrencyOf[o.account]])
    BY <1>2, <2>1, CurrencyAssumption DEF ReadAccounts, RowsExist
  <2>3. QED BY <1>2, <2>2 DEF LegsOf, buildDeposit, buildWithdrawal, Move
<1>3. QED BY <1>1, <1>2 DEF IsPost

LEMMA ReversalRows ==
  ASSUME Inv, NEW t
  PROVE  \A a \in DOMAIN ReversalLegs(Serial!LegsWritten(t)) : Exists(a)
<1> SUFFICES ASSUME NEW a \in DOMAIN ReversalLegs(Serial!LegsWritten(t)) PROVE Exists(a)
  OBVIOUS
<1>1. a \in Account /\ DOMAIN entries[a] # {}
  BY DEF ReversalLegs, Serial!LegsWritten
<1>2. accounts[a].currentSequence # 0
  BY <1>1 DEF Inv, LedgerInv, ContiguousHistories
<1>3. QED BY <1>1, <1>2 DEF Inv, LedgerInv, RowsExist

\* A new account is nobody's yet.
LEMMA CreatedSafely ==
  ASSUME Inv, NEW r \in Request, NEW o \in Workload, ReceiveCreate(r, o)
  PROVE  LedgerInv'
<1> DEFINE x == o.account
<1>1. x \in Account /\ o.overdraftLimit \in Nat
  BY OpOfKind, WorkloadAssumption DEF ReceiveCreate, CreateOp
<1>2. PICK code : Answer(r, code, NoRequest)
  BY DEF ReceiveCreate
<1>3. /\ OthersUntouched(r) /\ pc[r] = "idle" /\ pc'[r] = "done"
      /\ legs'[r] = <<>> /\ pending'[r] = {}
      /\ UNCHANGED <<entries, snapshots, lock>>
  BY <1>2, AnswerUntouched DEF ReceiveCreate, Inv, TypeInv
<1>4. accounts' = [accounts EXCEPT ![x] = NewRow(o.overdraftLimit)] /\ ~Exists(x)
  BY DEF ReceiveCreate
<1> HIDE DEF x
<1>5. \A a \in Account : a # x => accounts'[a] = accounts[a]
  BY <1>1, <1>4 DEF Inv, TypeInv, TypeOK
<1>6. accounts'[x].currentSequence = 0 /\ accounts'[x].status = "active"
  BY <1>1, <1>4, RowTypes DEF Inv, TypeInv, TypeOK
<1>7. \A a \in Account : accounts'[a].currentSequence = accounts[a].currentSequence
  BY <1>1, <1>4, <1>5, <1>6 DEF Inv, LedgerInv, RowsExist
<1>8. \A a \in Account : Exists(a) => Exists(a)'
  BY <1>5, <1>6 DEF Exists
<1>9. \A q \in Request : DOMAIN legs[q] \subseteq Account /\ x \notin DOMAIN legs[q]
  BY <1>4 DEF Inv, LedgerInv, RowsExist, TypeInv, TypeOK, IsLegs
<1>10. RowsExist'
  <2>1. \A c \in Currency : Exists(Vault[c])'
    BY <1>8, VaultAssumption DEF Inv, LedgerInv, RowsExist
  <2>2. \A a \in Account : ~Exists(a)' => accounts'[a].currentSequence = 0
    BY <1>7, <1>8 DEF Inv, LedgerInv, RowsExist
  <2>3. ASSUME NEW q \in Request, NEW a \in DOMAIN legs'[q]
        PROVE  /\ Exists(a)' /\ pc'[q] \notin {"idle", "done"}
               /\ IsPost(op'[q]) \/ op'[q].kind = "void"
    <3>1. q # r
      BY <1>3, <2>3
    <3>2. Untouched(q)
      BY <1>3, <3>1 DEF OthersUntouched
    <3>3. a \in DOMAIN legs[q] /\ a \in Account
      BY <1>9, <2>3, <3>2 DEF Untouched
    <3>4. QED BY <1>8, <3>2, <3>3 DEF Inv, LedgerInv, RowsExist, Untouched
  <2>4. QED BY <2>1, <2>2, <2>3 DEF RowsExist, IsPost
<1>11. ASSUME NEW q \in Request, q # r
       PROVE  /\ \A a \in Targets(q) : a \in Targets(q)'
              /\ InTransaction(q) => Targets(q)' = Targets(q)
  <2>1. Untouched(q)
    BY <1>3, <1>11 DEF OthersUntouched
  <2>2. \A a \in Targets(q) : a \in Targets(q)'
    BY <1>8, <2>1 DEF Targets, Untouched
  <2>3. ASSUME InTransaction(q), x \in Targets(q)' PROVE FALSE
    <3>1. op[q].kind \in {"status", "limit"} /\ op[q].account = x
      BY <1>9, <2>1, <2>3 DEF Targets, Untouched
    <3>2. Targets(q) # {}
      BY <2>3 DEF Inv, LedgerInv, AllRowsAreHeld
    <3>3. QED BY <1>4, <3>1, <3>2 DEF Targets
  <2>4. \A a \in Account : a # x => (Exists(a)' <=> Exists(a))
    BY <1>5 DEF Exists
  <2>5. InTransaction(q) => Targets(q)' \subseteq Targets(q)
    BY <2>1, <2>3, <2>4 DEF Targets, Untouched
  <2>6. QED BY <2>2, <2>5
<1>12. HeldRowsAreCurrent'
  <2> SUFFICES ASSUME NEW a \in Account, NEW q \in Request, lock[a] = q
               PROVE  MayHold(q)' /\ a \in Targets(q)' /\ locked'[q][a] = accounts'[a]
    BY <1>3 DEF HeldRowsAreCurrent, MayHold
  <2>1. MayHold(q) /\ a \in Targets(q) /\ locked[q][a] = accounts[a]
    BY DEF Inv, LedgerInv, HeldRowsAreCurrent, MayHold
  <2>2. q # r
    BY <1>3, <2>1 DEF MayHold, InTransaction
  <2>3. a # x
    BY <1>4, <2>1 DEF Targets
  <2>4. QED BY <1>3, <1>5, <1>11, <2>1, <2>2, <2>3
            DEF OthersUntouched, Untouched, MayHold, InTransaction
<1>13. AllRowsAreHeld'
  <2> SUFFICES ASSUME NEW q \in Request, InTransaction(q)'
               PROVE  Targets(q)' # {} /\ \A a \in Targets(q)' : lock'[a] = q
    BY DEF AllRowsAreHeld
  <2>1. q # r /\ InTransaction(q)
    BY <1>3 DEF InTransaction, OthersUntouched, Untouched
  <2>2. QED BY <1>3, <1>11, <2>1 DEF Inv, LedgerInv, AllRowsAreHeld
<1>14. ContiguousHistories' /\ SnapshotsAreExact'
  BY <1>3, <1>7 DEF Inv, LedgerInv, ContiguousHistories, SnapshotsAreExact
<1>15. SnapshotsInFlight'
  <2> SUFFICES ASSUME NEW q \in Request
               PROVE  /\ \A a \in pending'[q] :
                           /\ pc'[q] \in {"plan", "snapshot"}
                           /\ EntrySeq(q, a)' <= accounts'[a].currentSequence
                      /\ pc'[q] = "snapshot" =>
                           LET a == planned'[q].account
                           IN  /\ planned'[q].seq <= accounts'[a].currentSequence
                               /\ planned'[q].balance =
                                    balanceUpToSeq(NormalSide[a], entries'[a], planned'[q].seq)
    BY DEF SnapshotsInFlight
  <2>1. CASE q = r
    BY <1>3, <2>1
  <2>2. CASE q # r
    <3>1. Untouched(q)
      BY <1>3, <2>2 DEF OthersUntouched
    <3>2. pending[q] \subseteq Account
      BY DEF Inv, TypeInv, TypeOK
    <3>3. pc[q] = "snapshot" => planned[q].account \in Account
      BY DEF Inv, TypeInv, StatementsFit, StatementFits
    <3>4. QED BY <1>3, <1>7, <3>1, <3>2, <3>3
              DEF Inv, LedgerInv, SnapshotsInFlight, Untouched, EntrySeq
  <2>3. QED BY <2>1, <2>2
<1>16. QED BY <1>10, <1>12, <1>13, <1>14, <1>15 DEF LedgerInv

LEMMA ReceivedSafely ==
  ASSUME Inv, NEW r \in Request, Receive(r)
  PROVE  LedgerInv'
<1>1. PICK o \in Workload : \/ ReceivePost(r, o) \/ ReceiveVoid(r, o) \/ ReceiveStatus(r, o)
                            \/ ReceiveLimit(r, o) \/ ReceiveCreate(r, o) \/ CreateLost(r, o)
  BY DEF Receive
<1>2. CASE ReceivePost(r, o)
  <2>1. pc[r] = "idle" /\ IsPost(o) /\ o \in Op
    BY <1>2, WorkloadAssumption DEF ReceivePost
  <2>2. CASE \E code : AnswerAtOnce(r, o, code)
    BY <2>1, <2>2, AtOnceSafely
  <2>3. CASE /\ \A a \in ReadAccounts(o) : Exists(a)
             /\ \E statement \in {"lookup", "locking"} : Begin(r, o, statement, LegsOf(o))
    <3>1. \A a \in DOMAIN LegsOf(o) : Exists(a)
      BY <2>1, <2>3, LegsOfRows DEF Inv, LedgerInv
    <3>2. QED BY <2>1, <2>3, <3>1, BegunSafely
  <2>4. QED BY <1>2, <2>2, <2>3 DEF ReceivePost
<1>3. CASE ReceiveVoid(r, o)
  <2> DEFINE reversal == ReversalLegs(Serial!LegsWritten(o.target))
  <2>1. pc[r] = "idle" /\ o.kind = "void"
    BY <1>3 DEF ReceiveVoid
  <2>2. (\E code : AnswerAtOnce(r, o, code)) \/ Begin(r, o, "locking", reversal)
    BY <1>3 DEF ReceiveVoid
  <2>3. \A a \in DOMAIN reversal : Exists(a)
    BY ReversalRows
  <2> HIDE DEF reversal
  <2>4. QED BY <2>1, <2>2, <2>3, AtOnceSafely, BegunSafely
<1>4. CASE ReceiveStatus(r, o) \/ ReceiveLimit(r, o)
  <2>1. pc[r] = "idle"
    BY <1>4 DEF ReceiveStatus, ReceiveLimit
  <2>2. (\E code : AnswerAtOnce(r, o, code)) \/ Begin(r, o, "locking", <<>>)
    BY <1>4 DEF ReceiveStatus, ReceiveLimit
  <2>3. DOMAIN <<>> = {}
    OBVIOUS
  <2>4. ASSUME Begin(r, o, "locking", <<>>) PROVE LedgerInv'
    BY <2>1, <2>3, <2>4, BegunSafely
  <2>5. QED BY <2>1, <2>2, <2>4, AtOnceSafely
<1>5. CASE ReceiveCreate(r, o)
  BY <1>5, CreatedSafely
<1>6. CASE CreateLost(r, o)
  BY <1>6, AtOnceSafely DEF CreateLost
<1>7. QED BY <1>1, <1>2, <1>3, <1>4, <1>5, <1>6

-----------------------------------------------------------------------------
(* COMMIT *)

\* A position that is already written keeps its balance when an entry is
\* appended behind it.
LEMMA BalanceBelowAppend ==
  ASSUME NEW normalSide, NEW log, NEW n \in Nat, NEW s \in Nat, s < n, NEW e
  PROVE  balanceUpToSeq(normalSide, ExtendLog(log, n, e), s) = balanceUpToSeq(normalSide, log, s)
<1>1. \A k \in 1..s : SignedAmount(normalSide, ExtendLog(log, n, e), k)
                        = SignedAmount(normalSide, log, k)
  BY DEF SignedAmount, ExtendLog
<1>2. QED BY <1>1, SumAfterCongruence DEF balanceUpToSeq

\* What a commit does to a row and its history.
AppendedAt(r, a) ==
  /\ accounts'[a].currentSequence = accounts[a].currentSequence + 1
  /\ accounts'[a].status = accounts[a].status
  /\ accounts'[a].overdraftLimit = accounts[a].overdraftLimit
  /\ entries'[a] = ExtendLog(entries[a], accounts[a].currentSequence + 1,
       [tx |-> r, direction |-> legs[r][a].direction, amount |-> legs[r][a].amount])
RewrittenAt(a) ==
  /\ accounts'[a].currentSequence = accounts[a].currentSequence
  /\ accounts'[a].status \in Status
  /\ entries'[a] = entries[a]
KeptAt(a) == accounts'[a] = accounts[a] /\ entries'[a] = entries[a]

\* A post or a void that commits writes on the rows it holds.
LEMMA LegsAreHeld ==
  ASSUME Inv, NEW r \in Request, InTransaction(r), NEW a \in DOMAIN legs[r]
  PROVE  /\ a \in Account /\ Exists(a) /\ a \in Targets(r)
         /\ lock[a] = r /\ locked[r][a] = accounts[a]
         /\ EntrySeq(r, a) = accounts[a].currentSequence + 1
<1>1. a \in Account
  BY DEF Inv, TypeInv, TypeOK, IsLegs
<1>2. Exists(a) /\ (IsPost(op[r]) \/ op[r].kind = "void")
  BY DEF Inv, LedgerInv, RowsExist
<1>3. a \in Targets(r)
  BY <1>1, <1>2 DEF Targets, IsPost
<1>4. lock[a] = r
  BY <1>3 DEF Inv, LedgerInv, AllRowsAreHeld
<1>5. locked[r][a] = accounts[a]
  BY <1>1, <1>4 DEF Inv, LedgerInv, HeldRowsAreCurrent
<1>6. QED BY <1>1, <1>2, <1>3, <1>4, <1>5 DEF EntrySeq

LEMMA AppendEffect ==
  ASSUME Inv, NEW r \in Request, pc[r] = "commit", AppendEntries(r)
  PROVE  \A a \in Account : IF a \in DOMAIN legs[r] THEN AppendedAt(r, a) ELSE KeptAt(a)
<1> SUFFICES ASSUME NEW a \in Account
             PROVE  IF a \in DOMAIN legs[r] THEN AppendedAt(r, a) ELSE KeptAt(a)
  OBVIOUS
<1>1. CASE a \in DOMAIN legs[r]
  <2>1. EntrySeq(r, a) = accounts[a].currentSequence + 1
    BY <1>1, LegsAreHeld DEF InTransaction
  <2>2. /\ accounts'[a] = [accounts[a] EXCEPT !.currentSequence = EntrySeq(r, a)]
        /\ entries'[a] = ExtendLog(entries[a], EntrySeq(r, a),
             [tx |-> r, direction |-> legs[r][a].direction, amount |-> legs[r][a].amount])
    BY <1>1 DEF AppendEntries, bumpSequences
  <2>3. accounts[a] \in AccountRow
    BY DEF Inv, TypeInv, TypeOK
  <2>4. QED BY <1>1, <2>1, <2>2, <2>3 DEF AppendedAt, AccountRow
<1>2. CASE a \notin DOMAIN legs[r]
  BY <1>2 DEF AppendEntries, bumpSequences, KeptAt
<1>3. QED BY <1>1, <1>2

LEMMA WriteEffect ==
  ASSUME Inv, NEW r \in Request, pc[r] = "commit", Write(r), NEW a \in Account
  PROVE  /\ IF a \in DOMAIN legs[r] THEN AppendedAt(r, a) ELSE RewrittenAt(a) \/ KeptAt(a)
         /\ a \notin Targets(r) => KeptAt(a)
<1>1. /\ op[r] \in Op
      /\ IsPost(op[r]) \/ op[r].kind \in {"void", "status", "limit"}
  BY WorkloadAssumption DEF Inv, TypeInv, StatementsFit, StatementFits
<1>2. a \in DOMAIN legs[r] => a \in Targets(r)
  BY LegsAreHeld DEF InTransaction
<1>3. CASE IsPost(op[r]) \/ op[r].kind = "void"
  <2>1. AppendEntries(r)
    BY <1>3 DEF Write, WritePost, WriteVoid, IsPost
  <2>2. QED BY <1>2, <2>1, AppendEffect
<1>4. CASE op[r].kind \in {"status", "limit"}
  <2>1. a \notin DOMAIN legs[r]
    BY <1>4 DEF Inv, LedgerInv, RowsExist, IsPost
  <2>2. \E b \in Targets(r) : b = op[r].account
    BY <1>4 DEF Inv, LedgerInv, AllRowsAreHeld, InTransaction, Targets
  <2>3. op[r].account \in Account /\ op[r].account \in Targets(r) /\ Exists(op[r].account)
    BY <2>2 DEF Targets
  <2>4. entries' = entries /\ \A b \in Account : b # op[r].account => accounts'[b] = accounts[b]
    BY <1>4, <2>3 DEF Write, WriteStatus, WriteLimit, IsPost, Inv, TypeInv, TypeOK
  <2>5. CASE a = op[r].account
    <3>1. accounts[a] \in AccountRow /\ accounts[a].status \in Status
      BY <2>3, <2>5 DEF Inv, TypeInv, TypeOK, AccountRow, Exists
    <3>2. CASE op[r].kind = "status"
      <4>1. op[r].status \in Status
        BY <1>1, <3>2, OpOfKind DEF StatusOp
      <4>2. accounts'[a] = [accounts[a] EXCEPT !.status = op[r].status,
              !.statusHistory = Append(locked[r][a].statusHistory, op[r].status)]
        BY <2>3, <2>5, <3>2 DEF Write, WriteStatus, IsPost, Inv, TypeInv, TypeOK
      <4>3. accounts'[a].currentSequence = accounts[a].currentSequence
            /\ accounts'[a].status = op[r].status
        BY <3>1, <4>2 DEF AccountRow
      <4>4. QED BY <2>1, <2>3, <2>4, <2>5, <4>1, <4>3 DEF RewrittenAt
    <3>3. CASE op[r].kind = "limit"
      <4>1. accounts'[a] = [accounts[a] EXCEPT !.overdraftLimit = op[r].overdraftLimit]
        BY <2>3, <2>5, <3>3 DEF Write, WriteLimit, IsPost, Inv, TypeInv, TypeOK
      <4>2. accounts'[a].currentSequence = accounts[a].currentSequence
            /\ accounts'[a].status = accounts[a].status
        BY <3>1, <4>1 DEF AccountRow
      <4>3. QED BY <2>1, <2>3, <2>4, <2>5, <3>1, <4>2 DEF RewrittenAt
    <3>4. QED BY <1>4, <3>2, <3>3
  <2>6. CASE a # op[r].account
    BY <2>1, <2>4, <2>6 DEF KeptAt
  <2>7. QED BY <2>5, <2>6
<1>5. QED BY <1>1, <1>3, <1>4

LEMMA CommittedSafely ==
  ASSUME Inv, NEW r \in Request, pc[r] = "commit", Write(r), Release(r), OthersUntouched(r),
         UNCHANGED snapshots,
         \/ pc'[r] = "done" /\ legs'[r] = <<>> /\ pending'[r] = {}
         \/ /\ pc'[r] = "plan" /\ op'[r] = op[r] /\ legs'[r] = legs[r] /\ locked'[r] = locked[r]
            /\ pending'[r] = DOMAIN legs[r]
  PROVE  LedgerInv'
<1>1. ASSUME NEW a \in Account
      PROVE  /\ (a \in DOMAIN legs[r] /\ AppendedAt(r, a))
                \/ (a \notin DOMAIN legs[r] /\ (RewrittenAt(a) \/ KeptAt(a)))
             /\ a \notin Targets(r) => KeptAt(a)
  BY WriteEffect
<1>2. ASSUME NEW a \in Account
      PROVE  accounts[a].currentSequence \in Nat
  BY DEF Inv, TypeInv, TypeOK, AccountRow
<1>3. ASSUME NEW a \in Account
      PROVE  /\ accounts[a].currentSequence <= accounts'[a].currentSequence
             /\ accounts'[a].currentSequence \in Nat
  <2>1. CASE AppendedAt(r, a)
    BY <1>2, <2>1 DEF AppendedAt
  <2>2. CASE RewrittenAt(a)
    BY <1>2, <2>2 DEF RewrittenAt
  <2>3. CASE KeptAt(a)
    BY <1>2, <2>3 DEF KeptAt
  <2>4. QED BY <1>1, <2>1, <2>2, <2>3
<1>4. ASSUME NEW a \in Account
      PROVE  Exists(a)' <=> Exists(a)
  <2>1. CASE a \in Targets(r)
    BY <1>1, <2>1, LegsAreHeld DEF AppendedAt, RewrittenAt, KeptAt, Targets, Exists, Status, InTransaction
  <2>2. CASE a \notin Targets(r)
    BY <1>1, <2>2 DEF KeptAt, Exists
  <2>3. QED BY <2>1, <2>2
<1>5. ASSUME NEW a \in Account, NEW q \in Request, q # r, lock[a] = q
      PROVE  accounts'[a] = accounts[a]
  <2>1. a \notin Targets(r)
    BY <1>5 DEF Inv, LedgerInv, AllRowsAreHeld, InTransaction
  <2>2. QED BY <1>1, <2>1 DEF KeptAt
<1>6. ASSUME NEW q \in Request, q # r
      PROVE  Untouched(q) /\ Targets(q)' = Targets(q)
  <2>1. Untouched(q)
    BY <1>6 DEF OthersUntouched
  <2>2. QED BY <1>4, <2>1 DEF Targets, Untouched
<1>7. ASSUME NEW q \in Request, NEW a \in DOMAIN legs[q] PROVE a \in Account
  BY <1>7 DEF Inv, TypeInv, TypeOK, IsLegs
<1>8. RowsExist'
  <2>1. \A c \in Currency : Exists(Vault[c])'
    BY <1>4, VaultAssumption DEF Inv, LedgerInv, RowsExist
  <2>2. ASSUME NEW a \in Account, ~Exists(a)'
        PROVE  accounts'[a].currentSequence = 0
    <3>1. ~Exists(a) /\ accounts[a].currentSequence = 0
      BY <1>4, <2>2 DEF Inv, LedgerInv, RowsExist
    <3>2. a \notin Targets(r)
      BY <3>1 DEF Targets
    <3>3. QED BY <1>1, <3>1, <3>2 DEF KeptAt
  <2>3. ASSUME NEW q \in Request, NEW a \in DOMAIN legs'[q]
        PROVE  /\ Exists(a)' /\ pc'[q] \notin {"idle", "done"}
               /\ IsPost(op'[q]) \/ op'[q].kind = "void"
    <3>1. CASE q = r
      <4>1. pc'[r] = "plan" /\ op'[r] = op[r] /\ legs'[r] = legs[r]
        BY <2>3, <3>1
      <4>2. a \in DOMAIN legs[r]
        BY <2>3, <3>1, <4>1
      <4>3. QED BY <1>4, <1>7, <3>1, <4>1, <4>2 DEF Inv, LedgerInv, RowsExist
    <3>2. CASE q # r
      <4>1. a \in DOMAIN legs[q]
        BY <1>6, <2>3, <3>2 DEF Untouched
      <4>2. QED BY <1>4, <1>6, <1>7, <3>2, <4>1 DEF Inv, LedgerInv, RowsExist, Untouched
    <3>3. QED BY <3>1, <3>2
  <2>4. QED BY <2>1, <2>2, <2>3 DEF RowsExist, IsPost
<1>9. HeldRowsAreCurrent'
  <2> SUFFICES ASSUME NEW a \in Account, NEW q \in Request, lock'[a] = q
               PROVE  MayHold(q)' /\ a \in Targets(q)' /\ locked'[q][a] = accounts'[a]
    BY DEF HeldRowsAreCurrent, MayHold
  <2>1. q # r /\ lock[a] = q
    BY RequestAssumption DEF Release
  <2>2. MayHold(q) /\ a \in Targets(q) /\ locked[q][a] = accounts[a]
    BY <2>1 DEF Inv, LedgerInv, HeldRowsAreCurrent, MayHold
  <2>3. QED BY <1>5, <1>6, <2>1, <2>2 DEF Untouched, MayHold, InTransaction
<1>10. AllRowsAreHeld'
  <2> SUFFICES ASSUME NEW q \in Request, InTransaction(q)'
               PROVE  Targets(q)' # {} /\ \A a \in Targets(q)' : lock'[a] = q
    BY DEF AllRowsAreHeld
  <2>1. q # r
    BY DEF InTransaction
  <2>2. InTransaction(q) /\ Targets(q)' = Targets(q)
    BY <1>6, <2>1 DEF Untouched, InTransaction
  <2>3. Targets(q) # {} /\ \A a \in Targets(q) : a \in Account /\ lock[a] = q
    BY <2>2 DEF Inv, LedgerInv, AllRowsAreHeld, Targets
  <2>4. QED BY <2>1, <2>2, <2>3 DEF Release
<1>11. ContiguousHistories'
  <2> SUFFICES ASSUME NEW a \in Account
               PROVE  DOMAIN entries'[a] = 1 .. accounts'[a].currentSequence
    BY DEF ContiguousHistories
  <2>1. DOMAIN entries[a] = 1 .. accounts[a].currentSequence
    BY DEF Inv, LedgerInv, ContiguousHistories
  <2>2. CASE AppendedAt(r, a)
    BY <1>2, <2>1, <2>2 DEF AppendedAt, ExtendLog
  <2>3. CASE RewrittenAt(a) \/ KeptAt(a)
    BY <2>1, <2>3 DEF RewrittenAt, KeptAt
  <2>4. QED BY <1>1, <2>2, <2>3
<1>12. ASSUME NEW a \in Account, NEW s \in Nat, s <= accounts[a].currentSequence
       PROVE  balanceUpToSeq(NormalSide[a], entries'[a], s) = balanceUpToSeq(NormalSide[a], entries[a], s)
  <2>1. CASE AppendedAt(r, a)
    BY <1>2, <1>12, <2>1, BalanceBelowAppend DEF AppendedAt
  <2>2. CASE RewrittenAt(a) \/ KeptAt(a)
    BY <2>2 DEF RewrittenAt, KeptAt
  <2>3. QED BY <1>1, <2>1, <2>2
<1>13. SnapshotsAreExact'
  <2> SUFFICES ASSUME NEW a \in Account, NEW s \in DOMAIN snapshots[a]
               PROVE  /\ s <= accounts'[a].currentSequence
                      /\ snapshots[a][s] = balanceUpToSeq(NormalSide[a], entries'[a], s)
    BY DEF SnapshotsAreExact
  <2>1. s \in Nat
    BY DEF Inv, TypeInv, TypeOK, IsSnapshots
  <2>2. /\ s <= accounts[a].currentSequence
        /\ snapshots[a][s] = balanceUpToSeq(NormalSide[a], entries[a], s)
    BY DEF Inv, LedgerInv, SnapshotsAreExact
  <2>3. accounts'[a].currentSequence \in Nat
    BY <1>3
  <2>4. QED BY <1>2, <1>3, <1>12, <2>1, <2>2, <2>3
<1>14. SnapshotsInFlight'
  <2> SUFFICES ASSUME NEW q \in Request
               PROVE  /\ \A a \in pending'[q] :
                           /\ pc'[q] \in {"plan", "snapshot"}
                           /\ EntrySeq(q, a)' <= accounts'[a].currentSequence
                      /\ pc'[q] = "snapshot" =>
                           LET a == planned'[q].account
                           IN  /\ planned'[q].seq <= accounts'[a].currentSequence
                               /\ planned'[q].balance =
                                    balanceUpToSeq(NormalSide[a], entries'[a], planned'[q].seq)
    BY DEF SnapshotsInFlight
  <2>1. CASE q = r
    <3>1. pc'[q] # "snapshot"
      BY <2>1
    <3>2. ASSUME NEW a \in pending'[q]
          PROVE  /\ pc'[q] \in {"plan", "snapshot"}
                 /\ EntrySeq(q, a)' <= accounts'[a].currentSequence
      <4>1. pc'[q] = "plan" /\ a \in DOMAIN legs[r] /\ locked'[r] = locked[r]
        BY <2>1, <3>2
      <4>2. a \in Account /\ EntrySeq(r, a) = accounts[a].currentSequence + 1
        BY <4>1, LegsAreHeld DEF InTransaction
      <4>3. accounts'[a].currentSequence = EntrySeq(r, a)
        BY <1>1, <4>1, <4>2 DEF AppendedAt
      <4>4. EntrySeq(r, a)' = EntrySeq(r, a)
        BY <4>1 DEF EntrySeq
      <4>5. QED BY <1>2, <2>1, <4>1, <4>2, <4>3, <4>4
    <3>3. QED BY <3>1, <3>2
  <2>2. CASE q # r
    <3>1. Untouched(q)
      BY <1>6, <2>2
    <3>2. ASSUME NEW a \in pending[q]
          PROVE  /\ pc[q] \in {"plan", "snapshot"}
                 /\ EntrySeq(q, a)' <= accounts'[a].currentSequence
      <4>1. a \in Account
        BY DEF Inv, TypeInv, TypeOK
      <4>2. pc[q] \in {"plan", "snapshot"} /\ EntrySeq(q, a) <= accounts[a].currentSequence
        BY DEF Inv, LedgerInv, SnapshotsInFlight
      <4>3. EntrySeq(q, a)' = EntrySeq(q, a) /\ EntrySeq(q, a) \in Nat
        BY <3>1, <4>1 DEF Untouched, EntrySeq, Inv, TypeInv, TypeOK, AccountRow
      <4>4. accounts'[a].currentSequence \in Nat
        BY <1>3, <4>1
      <4>5. QED BY <1>2, <1>3, <4>1, <4>2, <4>3, <4>4
    <3>3. ASSUME pc[q] = "snapshot"
          PROVE  LET a == planned[q].account
                 IN  /\ planned[q].seq <= accounts'[a].currentSequence
                     /\ planned[q].balance =
                          balanceUpToSeq(NormalSide[a], entries'[a], planned[q].seq)
      <4> DEFINE a == planned[q].account
      <4>1. a \in Account /\ planned[q].seq \in Nat
        BY <3>3 DEF Inv, TypeInv, TypeOK, StatementsFit, StatementFits
      <4>2. /\ planned[q].seq <= accounts[a].currentSequence
            /\ planned[q].balance = balanceUpToSeq(NormalSide[a], entries[a], planned[q].seq)
        BY <3>3 DEF Inv, LedgerInv, SnapshotsInFlight
      <4>3. accounts'[a].currentSequence \in Nat
        BY <1>3, <4>1
      <4> HIDE DEF a
      <4>4. /\ planned[q].seq <= accounts'[a].currentSequence
            /\ planned[q].balance = balanceUpToSeq(NormalSide[a], entries'[a], planned[q].seq)
        BY <1>2, <1>3, <1>12, <4>1, <4>2, <4>3
      <4>5. QED BY <4>4 DEF a
    <3>4. QED BY <3>1, <3>2, <3>3 DEF Untouched
  <2>3. QED BY <2>1, <2>2
<1>15. QED BY <1>8, <1>9, <1>10, <1>11, <1>13, <1>14 DEF LedgerInv

LEMMA CommitSafely ==
  ASSUME Inv, NEW r \in Request, Commit(r) \/ CommitUnacknowledged(r)
  PROVE  LedgerInv'
<1>1. pc[r] = "commit" /\ Write(r) /\ Release(r) /\ UNCHANGED <<snapshots, op>>
  BY DEF Commit, CommitUnacknowledged
<1>2. OthersUntouched(r)
  BY StepUntouched DEF Step, Fault, Inv, TypeInv
<1>3. ASSUME NEW code, Answer(r, code, NoRequest)
      PROVE  pc'[r] = "done" /\ legs'[r] = <<>> /\ pending'[r] = {}
  BY <1>1, <1>3, AnswerUntouched DEF Inv, TypeInv
<1>4. CASE /\ Goto(r, "plan") /\ pending' = [pending EXCEPT ![r] = DOMAIN legs[r]]
           /\ UNCHANGED <<legs, locked, attempt, planned, result>>
  <2>1. /\ pc'[r] = "plan" /\ op'[r] = op[r] /\ legs'[r] = legs[r] /\ locked'[r] = locked[r]
        /\ pending'[r] = DOMAIN legs[r]
    BY <1>1, <1>4 DEF Goto, Inv, TypeInv, TypeOK
  <2>2. QED BY <1>1, <1>2, <2>1, CommittedSafely
<1>5. CASE \E code : Answer(r, code, NoRequest)
  BY <1>1, <1>2, <1>3, <1>5, CommittedSafely
<1>6. QED BY <1>4, <1>5 DEF Commit, CommitUnacknowledged

-----------------------------------------------------------------------------
(* snapshotAfterCommit *)

\* What the snapshot steps of r leave alone.
LEMMA SnapshottingSafely ==
  ASSUME Inv, NEW r \in Request, OthersUntouched(r), UNCHANGED <<accounts, entries, lock>>,
         pc[r] \in {"plan", "snapshot"}, pc'[r] \in {"plan", "snapshot"},
         op'[r] = op[r], legs'[r] = legs[r], locked'[r] = locked[r],
         pending'[r] \subseteq pending[r],
         pc'[r] = "snapshot" =>
           LET a == planned'[r].account
           IN  /\ planned'[r].seq <= accounts[a].currentSequence
               /\ planned'[r].balance = balanceUpToSeq(NormalSide[a], entries[a], planned'[r].seq),
         SnapshotsAreExact'
  PROVE  LedgerInv'
<1>1. LocksAreSound'
  BY LocksElsewhere DEF Inv, LedgerInv, LocksAreSound, MayHold, InTransaction
<1>2. RowsExist'
  BY RowsKept DEF Inv, LedgerInv, RowsExist
<1>3. SnapshotsInFlight'
  <2>1. \A a \in pending'[r] : EntrySeq(r, a)' <= accounts[a].currentSequence
    BY DEF Inv, LedgerInv, SnapshotsInFlight, EntrySeq
  <2>2. QED BY <2>1, InFlightKept DEF Inv, LedgerInv
<1>4. ContiguousHistories'
  BY DEF Inv, LedgerInv, ContiguousHistories
<1>5. QED BY <1>1, <1>2, <1>3, <1>4 DEF LedgerInv, LocksAreSound

LEMMA PlanSafely ==
  ASSUME Inv, NEW r \in Request, PlanSnapshot(r)
  PROVE  LedgerInv'
<1>1. OthersUntouched(r)
  BY StepUntouched DEF Step, Inv, TypeInv
<1>2. pc[r] = "plan" /\ UNCHANGED <<tables, snapshots, lock, op>>
  BY DEF PlanSnapshot
<1>3. SnapshotsAreExact'
  BY <1>2, HistoriesKept DEF tables, Inv, LedgerInv
<1>4. CASE Answer(r, "OK", r)
  BY <1>2, <1>4, AnsweredSafely DEF MayHold, InTransaction
<1>5. ASSUME NEW a \in pending[r],
             pending' = [pending EXCEPT ![r] = @ \ {a}],
             IF SnapshotDue(a, EntrySeq(r, a))
             THEN planned' = [planned EXCEPT ![r] = takeSnapshot(a, EntrySeq(r, a))]
                  /\ Goto(r, "snapshot")
             ELSE UNCHANGED <<planned, pc>>,
             UNCHANGED <<legs, locked, attempt, result>>
      PROVE  LedgerInv'
  <2>1. pending'[r] \subseteq pending[r] /\ op'[r] = op[r] /\ legs'[r] = legs[r] /\ locked'[r] = locked[r]
    BY <1>2, <1>5 DEF Inv, TypeInv, TypeOK
  <2>2. CASE UNCHANGED <<planned, pc>>
    BY <1>1, <1>2, <1>3, <2>1, <2>2, SnapshottingSafely DEF tables
  <2>3. CASE planned' = [planned EXCEPT ![r] = takeSnapshot(a, EntrySeq(r, a))]
             /\ Goto(r, "snapshot")
    <3>1. pc'[r] = "snapshot" /\ planned'[r] = takeSnapshot(a, EntrySeq(r, a))
      BY <2>3 DEF Goto, Inv, TypeInv, TypeOK
    <3>2. EntrySeq(r, a) <= accounts[a].currentSequence
      BY DEF Inv, LedgerInv, SnapshotsInFlight
    <3>3. QED BY <1>1, <1>2, <1>3, <2>1, <3>1, <3>2, SnapshottingSafely DEF tables, takeSnapshot
  <2>4. QED BY <1>5, <2>2, <2>3
<1>6. QED BY <1>4, <1>5 DEF PlanSnapshot

LEMMA InsertSnapshotSafely ==
  ASSUME Inv, NEW r \in Request, InsertSnapshot(r) \/ SnapshotFails(r)
  PROVE  LedgerInv'
<1> DEFINE p == planned[r]
<1>1. OthersUntouched(r)
  BY StepUntouched DEF Step, Fault, Inv, TypeInv
<1>2. /\ pc[r] = "snapshot" /\ pc'[r] = "plan"
      /\ UNCHANGED <<tables, lock, op, legs, locked, pending>>
  BY DEF InsertSnapshot, SnapshotFails, Goto, Inv, TypeInv, TypeOK
<1>3. /\ p.account \in Account /\ p.seq <= accounts[p.account].currentSequence
      /\ p.balance = balanceUpToSeq(NormalSide[p.account], entries[p.account], p.seq)
  BY <1>2 DEF Inv, LedgerInv, SnapshotsInFlight, TypeInv, StatementsFit, StatementFits
<1>4. SnapshotsAreExact'
  <2> SUFFICES ASSUME NEW a \in Account, NEW s \in DOMAIN snapshots'[a]
               PROVE  /\ s <= accounts[a].currentSequence
                      /\ snapshots'[a][s] = balanceUpToSeq(NormalSide[a], entries[a], s)
    BY <1>2 DEF SnapshotsAreExact, tables
  <2> HIDE DEF p
  <2>1. CASE s \in DOMAIN snapshots[a] /\ snapshots'[a][s] = snapshots[a][s]
    BY <2>1 DEF Inv, LedgerInv, SnapshotsAreExact
  <2>2. CASE a = p.account /\ s = p.seq /\ snapshots'[a][s] = p.balance
    BY <1>3, <2>2
  <2>3. CASE SnapshotFails(r)
    BY <2>1, <2>3 DEF SnapshotFails
  <2>4. CASE InsertSnapshot(r)
    <3>1. snapshots' = [snapshots EXCEPT ![p.account] =
            IF p.seq \in DOMAIN @ THEN @ ELSE ExtendLog(@, p.seq, p.balance)]
      BY <2>4 DEF InsertSnapshot, p
    <3>2. CASE a = p.account /\ p.seq \notin DOMAIN snapshots[a]
      <4>1. snapshots'[a] = ExtendLog(snapshots[a], p.seq, p.balance)
        BY <3>1, <3>2 DEF Inv, TypeInv, TypeOK
      <4>2. QED BY <2>1, <2>2, <3>2, <4>1 DEF ExtendLog
    <3>3. CASE ~(a = p.account /\ p.seq \notin DOMAIN snapshots[a])
      <4>1. snapshots'[a] = snapshots[a]
        BY <1>3, <3>1, <3>3 DEF Inv, TypeInv, TypeOK
      <4>2. QED BY <2>1, <4>1
    <3>4. QED BY <3>2, <3>3
  <2>5. QED BY <2>3, <2>4
<1>5. QED BY <1>1, <1>2, <1>4, SnapshottingSafely DEF tables

-----------------------------------------------------------------------------
(* The invariant *)

LEMMA InitialInv == Init => Inv
<1> SUFFICES ASSUME Init PROVE Inv
  OBVIOUS
<1>1. TypeInv
  BY InitialTypes
<1>2. /\ accounts = InitialAccounts /\ lock = [a \in Account |-> NoRequest]
      /\ entries = [a \in Account |-> <<>>] /\ snapshots = [a \in Account |-> <<>>]
      /\ legs = [r \in Request |-> <<>>] /\ pc = [r \in Request |-> "idle"]
      /\ pending = [r \in Request |-> {}]
  BY DEF Init
<1>3. \A a \in Account : accounts[a].currentSequence = 0
  BY <1>2 DEF InitialAccounts, NewRow, NoRow
<1>4. \A c \in Currency : Exists(Vault[c])
  BY <1>2, VaultAssumption, OpenedAssumption DEF InitialAccounts, IsVault, NewRow, Exists
<1>5. RowsExist
  BY <1>2, <1>3, <1>4 DEF RowsExist
<1>6. HeldRowsAreCurrent
  BY <1>2, RequestAssumption DEF HeldRowsAreCurrent
<1>7. AllRowsAreHeld
  BY <1>2 DEF AllRowsAreHeld, InTransaction
<1>8. ContiguousHistories
  BY <1>2, <1>3 DEF ContiguousHistories
<1>9. SnapshotsAreExact /\ SnapshotsInFlight
  BY <1>2 DEF SnapshotsAreExact, SnapshotsInFlight
<1>10. QED BY <1>1, <1>5, <1>6, <1>7, <1>8, <1>9 DEF Inv, LedgerInv

LEMMA InsideSafely ==
  ASSUME Inv, NEW r \in Request,
         \/ Lookup(r) \/ LockNothing(r) \/ CheckLegs(r) \/ CheckStatus(r) \/ CheckLimit(r)
         \/ InsertTransaction(r) \/ Resolve(r) \/ MarkVoid(r) \/ ConnectionLost(r)
  PROVE  LedgerInv'
<1>1. CASE Lookup(r)
  BY <1>1, AnsweredSafely, MovedSafely DEF Lookup, MayHold, InTransaction, Goto, Inv, TypeInv, TypeOK
<1>2. CASE LockNothing(r) \/ ConnectionLost(r)
  BY <1>2, EndedSafely DEF LockNothing, ConnectionLost
<1>3. ASSUME InTransaction(r), NEW statement \in {"insert", "mark", "commit"},
             Goto(r, statement), UNCHANGED <<tables, snapshots, lock, op, Locals>>
      PROVE  LedgerInv'
  <2>1. pc'[r] = statement
    BY <1>3 DEF Goto, Inv, TypeInv, TypeOK
  <2>2. InTransaction(r)'
    BY <2>1 DEF InTransaction
  <2>3. pc[r] \notin {"idle", "done", "plan", "snapshot"}
    BY <1>3 DEF InTransaction
  <2>4. QED BY <1>3, <2>2, <2>3, MovedSafely
<1>4. CASE CheckLegs(r)
  BY <1>3, <1>4, EndedSafely DEF CheckLegs, InTransaction
<1>5. CASE CheckStatus(r)
  BY <1>3, <1>5, EndedSafely DEF CheckStatus, InTransaction
<1>6. CASE CheckLimit(r)
  BY <1>3, <1>6, EndedSafely DEF CheckLimit, InTransaction
<1>7. CASE MarkVoid(r)
  BY <1>3, <1>7, EndedSafely DEF MarkVoid, InTransaction
<1>8. CASE InsertTransaction(r)
  <2>1. CASE lock' = lock /\ Goto(r, "commit")
    BY <1>3, <1>8, <2>1 DEF InsertTransaction, InTransaction
  <2>2. CASE Release(r) /\ Goto(r, "resolve")
    <3>1. pc'[r] = "resolve"
      BY <2>2 DEF Goto, Inv, TypeInv, TypeOK
    <3>2. ~InTransaction(r)'
      BY <3>1 DEF InTransaction
    <3>3. QED BY <1>8, <2>2, <3>2, MovedSafely DEF InsertTransaction
  <2>3. QED BY <1>8, <2>1, <2>2 DEF InsertTransaction
<1>9. CASE Resolve(r)
  BY <1>9, AnsweredSafely DEF Resolve, MayHold, InTransaction
<1>10. QED BY <1>1, <1>2, <1>4, <1>5, <1>6, <1>7, <1>8, <1>9

LEMMA LockingSafely ==
  ASSUME Inv, NEW r \in Request, LockRow(r) \/ LockTimeout(r)
  PROVE  LedgerInv'
<1>1. OthersUntouched(r)
  BY StepUntouched DEF Step, Fault, Inv, TypeInv
<1>2. CASE EndUnwritten(r, "CONFLICT_SEQUENCE")
  BY <1>2, EndedSafely
<1>3. CASE /\ pc[r] \in {"locking", "insert"} /\ pc'[r] \in {"locking", "check"}
           /\ UNCHANGED <<tables, snapshots, op, legs, pending, planned>>
           /\ LocksAreSound'
  <2>1. RowsExist'
    BY <1>1, <1>3, RowsKept DEF Inv, LedgerInv, RowsExist, tables
  <2>2. SnapshotsInFlight'
    BY <1>1, <1>3, InFlightKept DEF Inv, LedgerInv, SnapshotsInFlight, tables
  <2>3. QED BY <1>3, <2>1, <2>2, HistoriesKept DEF Inv, LedgerInv, LocksAreSound, tables
<1>4. CASE LockRow(r)
  <2>1. LocksAreSound'
    BY <1>1, <1>4, LocksGranted DEF Inv, TypeInv, LedgerInv, LocksAreSound
  <2>2. QED BY <1>3, <1>4, <2>1 DEF LockRow, Goto, Inv, TypeInv, TypeOK
<1>5. CASE /\ WaitsForRow(r) \/ WaitsForReference(r)
           /\ Release(r) /\ Goto(r, "locking")
           /\ UNCHANGED <<tables, snapshots, op, legs, pending, planned, result>>
  <2>1. pc[r] \in {"locking", "insert"} /\ pc'[r] = "locking"
    BY <1>5 DEF WaitsForRow, WaitsForReference, Goto, Inv, TypeInv, TypeOK
  <2>2. LocksAreSound'
    BY <1>1, <1>5, <2>1, LocksReleased DEF Inv, LedgerInv, LocksAreSound, InTransaction, tables
  <2>3. QED BY <1>3, <1>5, <2>1, <2>2
<1>6. QED BY <1>2, <1>4, <1>5 DEF LockTimeout

LEMMA InvStep == Inv /\ [Next]_vars => Inv'
<1> SUFFICES ASSUME Inv, [Next]_vars PROVE Inv'
  OBVIOUS
<1>1. TypeInv'
  BY TypeStep DEF Inv
<1>2. ASSUME UNCHANGED vars PROVE LedgerInv'
  <2>1. RowsExist'
    BY <1>2 DEF vars, Inv, LedgerInv, RowsExist, Exists, IsPost
  <2>2. \A r \in Request : InTransaction(r)' = InTransaction(r) /\ Targets(r)' = Targets(r)
    BY <1>2 DEF vars, InTransaction, Targets, Exists
  <2>3. HeldRowsAreCurrent'
    BY <1>2, <2>2 DEF vars, Inv, LedgerInv, HeldRowsAreCurrent
  <2>4. AllRowsAreHeld'
    BY <1>2, <2>2 DEF vars, Inv, LedgerInv, AllRowsAreHeld
  <2>5. ContiguousHistories' /\ SnapshotsAreExact'
    BY <1>2 DEF vars, Inv, LedgerInv, ContiguousHistories, SnapshotsAreExact
  <2>6. \A r \in Request, a \in Account : EntrySeq(r, a)' = EntrySeq(r, a)
    BY <1>2 DEF vars, EntrySeq
  <2>7. SnapshotsInFlight'
    BY <1>2, <2>6 DEF vars, Inv, TypeInv, TypeOK, LedgerInv, SnapshotsInFlight
  <2>8. QED BY <2>1, <2>3, <2>4, <2>5, <2>7 DEF LedgerInv
<1>3. ASSUME NEW r \in Request, Receive(r) \/ Step(r) \/ Fault(r)
      PROVE  LedgerInv'
  BY <1>3, ReceivedSafely, InsideSafely, LockingSafely, CommitSafely, PlanSafely,
     InsertSnapshotSafely DEF Step, Fault
<1>4. LedgerInv'
  BY <1>2, <1>3 DEF Next
<1>5. QED BY <1>1, <1>4 DEF Inv

\* Nothing a request does, in whatever order, breaks the inductive invariant.
THEOREM LedgerInvariant == Spec => [](TypeInv /\ LedgerInv)
<1>1. Spec => []Inv
  BY InitialInv, InvStep, PTL DEF Spec
<1>2. QED BY <1>1, PTL DEF Inv

-----------------------------------------------------------------------------
(* What follows from the invariant *)

LEMMA SerialBalance ==
  ASSUME NEW a \in Account
  PROVE  Serial!Balance(a) = ReplayBalance(NormalSide[a], entries[a])
BY DEF Serial!Balance, ReplayBalance, balanceUpToSeq, LastSeq, SumAfter, SignedAmount,
   Serial!ReplayBalance, Serial!balanceUpToSeq, Serial!LastSeq, Serial!SumAfter,
   Serial!SignedAmount

LEMMA ReplayedBalance ==
  ASSUME Inv, NEW a \in Account
  PROVE  balancesFor(NormalSide[a], entries[a], snapshots[a]) = Serial!Balance(a)
<1>1. Amounts(entries[a])
  BY HistoryAmounts DEF Inv, TypeInv, TypeOK
<1>2. accounts[a].currentSequence \in Nat /\ DOMAIN entries[a] = 1 .. accounts[a].currentSequence
  BY DEF Inv, TypeInv, TypeOK, AccountRow, LedgerInv, ContiguousHistories
<1>3. ExactSnapshots(NormalSide[a], entries[a], snapshots[a], accounts[a].currentSequence)
  <2>1. DOMAIN snapshots[a] \subseteq Nat \ {0}
    BY DEF Inv, TypeInv, TypeOK, IsSnapshots
  <2>2. QED BY <1>2, <2>1 DEF ExactSnapshots, Inv, LedgerInv, SnapshotsAreExact
<1>4. QED BY <1>1, <1>2, <1>3, SnapshotBackedBalance, SerialBalance

LEMMA FreePositions == Inv => PositionsAreFree
<1> SUFFICES ASSUME Inv, NEW r \in Request, pc[r] = "commit", NEW a \in DOMAIN legs[r]
             PROVE  EntrySeq(r, a) \notin DOMAIN entries[a]
  BY DEF PositionsAreFree
<1>1. a \in Account /\ EntrySeq(r, a) = accounts[a].currentSequence + 1
  BY LegsAreHeld DEF InTransaction
<1>2. accounts[a].currentSequence \in Nat /\ DOMAIN entries[a] = 1 .. accounts[a].currentSequence
  BY <1>1 DEF Inv, TypeInv, TypeOK, AccountRow, LedgerInv, ContiguousHistories
<1>3. QED BY <1>1, <1>2

\* The locks a request holds inside its transaction are on the rows it read as
\* they still are: no update is lost.
THEOREM NoStaleLockedRow == Spec => []LockedRowsAreCurrent
<1>1. Inv => LockedRowsAreCurrent
  <2> SUFFICES ASSUME Inv, NEW r \in Request, InTransaction(r), NEW a \in Targets(r)
               PROVE  lock[a] = r /\ locked[r][a] = accounts[a]
    BY DEF LockedRowsAreCurrent
  <2>1. a \in Account /\ lock[a] = r
    BY DEF Inv, LedgerInv, AllRowsAreHeld, Targets
  <2>2. QED BY <2>1 DEF Inv, LedgerInv, HeldRowsAreCurrent
<1>2. QED BY <1>1, LedgerInvariant, PTL DEF Inv

\* No history ever has a gap, whatever requests race, fail or are retried.
THEOREM NoGaps == Spec => []ContiguousHistories
<1>1. LedgerInv => ContiguousHistories
  BY DEF LedgerInv
<1>2. QED BY <1>1, LedgerInvariant, PTL

\* An insert into entries never meets a row at its position.
THEOREM NoSequenceCollision == Spec => []PositionsAreFree
<1>1. QED BY FreePositions, LedgerInvariant, PTL DEF Inv

\* A snapshot never holds anything but the replayed balance at its position.
THEOREM SnapshotsStayExact == Spec => []SnapshotsAreExact
<1>1. LedgerInv => SnapshotsAreExact
  BY DEF LedgerInv
<1>2. QED BY <1>1, LedgerInvariant, PTL

\* The balance the services compute from a snapshot and the trailing entries is
\* the balance of a replay of the whole history.
THEOREM SnapshotsNeverChangeBalances == Spec => []BalancesAreReplays
<1>1. Inv => BalancesAreReplays
  BY ReplayedBalance DEF BalancesAreReplays
<1>2. QED BY <1>1, LedgerInvariant, PTL DEF Inv

=============================================================================
