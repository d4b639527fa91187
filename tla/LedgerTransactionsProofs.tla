---------------------- MODULE LedgerTransactionsProofs ----------------------
(***************************************************************************)
(* What the transactions of module Ledger are, for every value of the      *)
(* constants: complete double entries, one per reference, reversed at most *)
(* once, never changed but by their void, and what their requests were     *)
(* answered; why their requests never wait for each other in a circle; and *)
(* that the ledger implements the serial one of module SerialLedger: the   *)
(* tables change only when a request commits, and then as the serial       *)
(* ledger would change them in one step.                                   *)
(*                                                                         *)
(* A step of a request is of one of four kinds as far as its transaction   *)
(* is concerned: it begins, it moves on, it ends with nothing written to   *)
(* the log, or it writes its transaction.                                  *)
(***************************************************************************)
EXTENDS LedgerRulesProofs, FiniteSetTheorems

RowsStay == UNCHANGED <<transactions, entries>> /\ \A a \in Account : Exists(a) => Exists(a)'

AnswersUntouched(r) == \A q \in Request : q # r => result'[q] = result[q]

\* The request is one the service accepts, and these are its legs.
Entitled(o, ls) ==
  /\ IsPost(o) => /\ ls = LegsOf(o) /\ buildOutcome(o) = "OK"
                  /\ \A a \in ReadAccounts(o) : Exists(a)
  /\ o.kind = "void" => /\ transactions[o.target].status # "none"
                        /\ ls = ReversalLegs(Serial!LegsWritten(o.target))
                        /\ SingleCurrency(ls)

Begins(r) ==
  /\ UNCHANGED tables
  /\ pc[r] = "idle" /\ pc'[r] \in {"lookup", "locking"}
  /\ Entitled(op'[r], legs'[r])
  /\ result'[r] = result[r]

\* What insertTransaction and markTransactionVoid made sure of.
MayCommit(r) ==
  /\ IsPost(op[r]) /\ op[r].reference # NoRef =>
       Committed(op[r].reference) = {} /\ Inserted(op[r].reference) = {}
  /\ op[r].kind = "void" => transactions[op[r].target].status = "posted"

Moves(r) ==
  /\ UNCHANGED tables
  /\ pc[r] \notin {"idle", "done", "commit"} /\ pc'[r] \notin {"idle", "done"}
  /\ BeforeCommit(r)' <=> BeforeCommit(r)
  /\ pc'[r] = "commit" => MayCommit(r)
  /\ op'[r] = op[r] /\ legs'[r] = legs[r] /\ result'[r] = result[r]

Ends(r) ==
  /\ RowsStay
  /\ pc[r] # "done" /\ pc'[r] = "done"
  /\ result'[r].code \notin {"none", "OK", "INTERNAL_ERROR"} => BeforeCommit(r)
  /\ result'[r].code = "OK" /\ IsPost(op'[r]) /\ op'[r].reference # NoRef =>
       /\ op'[r] = op[r]
       /\ \/ result'[r].tx \in Committed(op[r].reference)
          \/ pc[r] = "plan" /\ result'[r].tx = r

Writes(r) ==
  /\ pc[r] = "commit" /\ (IsPost(op[r]) \/ op[r].kind = "void")
  /\ Write(r)
  /\ \/ pc'[r] = "done" /\ result'[r].code = "INTERNAL_ERROR"
     \/ pc'[r] = "plan" /\ result'[r] = result[r] /\ op'[r] = op[r]

Kinds(r) == Begins(r) \/ Moves(r) \/ Ends(r) \/ Writes(r)

-----------------------------------------------------------------------------
(* Every step is of one of the four kinds *)

LEMMA AnswerResult ==
  ASSUME TypeOK, NEW r \in Request, NEW code, NEW tx, Answer(r, code, tx)
  PROVE  /\ AnswersUntouched(r) /\ pc'[r] = "done"
         /\ result'[r].code = code /\ result'[r].tx = tx
BY DEF AnswersUntouched, Answer, TypeOK

\* An answer that is not OK, or is none of a post.
LEMMA EndKind ==
  ASSUME TypeOK, NEW r \in Request, NEW code, EndUnwritten(r, code), pc[r] # "done",
         code \in {"OK", "INTERNAL_ERROR"} \/ BeforeCommit(r),
         code # "OK" \/ ~IsPost(op[r])
  PROVE  Ends(r) /\ AnswersUntouched(r)
<1>1. /\ UNCHANGED <<accounts, transactions, entries, op>> /\ Answer(r, code, NoRequest)
  BY DEF EndUnwritten, tables
<1>2. RowsStay
  BY <1>1 DEF RowsStay, Exists
<1>3. QED BY <1>1, <1>2, AnswerResult DEF Ends

LEMMA AtOnceKind ==
  ASSUME TypeOK, NEW r \in Request, NEW o, NEW code, AnswerAtOnce(r, o, code), pc[r] = "idle",
         code # "OK" \/ ~IsPost(o)
  PROVE  Ends(r) /\ AnswersUntouched(r)
<1>1. /\ UNCHANGED <<accounts, transactions, entries>> /\ Answer(r, code, NoRequest)
      /\ op'[r] = o
  BY DEF AnswerAtOnce, tables, TypeOK
<1>2. RowsStay
  BY <1>1 DEF RowsStay, Exists
<1>3. BeforeCommit(r)
  BY DEF BeforeCommit
<1>4. QED BY <1>1, <1>2, <1>3, AnswerResult DEF Ends

LEMMA BeginKind ==
  ASSUME TypeOK, NEW r \in Request, NEW o, NEW statement \in {"lookup", "locking"}, NEW ls,
         Begin(r, o, statement, ls), pc[r] = "idle", Entitled(o, ls)
  PROVE  Begins(r) /\ AnswersUntouched(r)
BY DEF Begin, Goto, Begins, AnswersUntouched, TypeOK

LEMMA ReceiveKind ==
  ASSUME TypeOK, NEW r \in Request, Receive(r)
  PROVE  (Begins(r) \/ Ends(r)) /\ AnswersUntouched(r)
<1>1. PICK o \in Workload : \/ ReceivePost(r, o) \/ ReceiveVoid(r, o) \/ ReceiveStatus(r, o)
                            \/ ReceiveLimit(r, o) \/ ReceiveCreate(r, o) \/ CreateLost(r, o)
  BY DEF Receive
<1>2. CASE ReceivePost(r, o)
  <2>1. pc[r] = "idle" /\ IsPost(o) /\ o.kind # "void"
    BY <1>2 DEF ReceivePost, IsPost
  <2>2. CASE AnswerAtOnce(r, o, "ACCOUNT_NOT_FOUND")
    BY <2>1, <2>2, AtOnceKind
  <2>3. CASE AnswerAtOnce(r, o, buildOutcome(o)) /\ buildOutcome(o) # "OK"
    BY <2>1, <2>3, AtOnceKind
  <2>4. CASE /\ ~ \E a \in ReadAccounts(o) : ~Exists(a)
             /\ buildOutcome(o) = "OK"
             /\ Begin(r, o, IF o.reference = NoRef THEN "locking" ELSE "lookup", LegsOf(o))
    <3>1. Entitled(o, LegsOf(o))
      BY <2>1, <2>4 DEF Entitled
    <3>2. QED BY <2>1, <2>4, <3>1, BeginKind
  <2>5. QED BY <1>2, <2>2, <2>3, <2>4 DEF ReceivePost
<1>3. CASE ReceiveVoid(r, o)
  <2> DEFINE reversal == ReversalLegs(Serial!LegsWritten(o.target))
  <2>1. pc[r] = "idle" /\ o.kind = "void" /\ ~IsPost(o)
    BY <1>3 DEF ReceiveVoid, IsPost
  <2>2. CASE \/ AnswerAtOnce(r, o, "NOT_FOUND") \/ AnswerAtOnce(r, o, "INVALID_TRANSACTION")
             \/ AnswerAtOnce(r, o, "UNBALANCED_TRANSACTION")
    BY <2>1, <2>2, AtOnceKind
  <2>3. CASE /\ transactions[o.target].status # "none"
             /\ SingleCurrency(reversal) /\ Begin(r, o, "locking", reversal)
    <3>1. Entitled(o, reversal)
      BY <2>1, <2>3 DEF Entitled
    <3> HIDE DEF reversal
    <3>2. QED BY <2>1, <2>3, <3>1, BeginKind
  <2>4. QED BY <1>3, <2>2, <2>3 DEF ReceiveVoid, OneCurrencyBalanced
<1>4. CASE ReceiveStatus(r, o)
  <2>1. pc[r] = "idle" /\ ~IsPost(o) /\ o.kind # "void"
    BY <1>4 DEF ReceiveStatus, IsPost
  <2>2. Entitled(o, <<>>)
    BY <2>1 DEF Entitled
  <2>3. \/ AnswerAtOnce(r, o, "ACCOUNT_NOT_FOUND") \/ AnswerAtOnce(r, o, "INVALID_TRANSACTION")
        \/ AnswerAtOnce(r, o, "OK") \/ Begin(r, o, "locking", <<>>)
    BY <1>4 DEF ReceiveStatus
  <2>4. QED BY <2>1, <2>2, <2>3, AtOnceKind, BeginKind
<1>5. CASE ReceiveLimit(r, o)
  <2>1. pc[r] = "idle" /\ Entitled(o, <<>>)
    BY <1>5 DEF ReceiveLimit, Entitled, IsPost
  <2>2. QED BY <1>5, <2>1, BeginKind DEF ReceiveLimit
<1>6. CASE ReceiveCreate(r, o)
  <2>1. /\ pc[r] = "idle" /\ op'[r] = o /\ ~IsPost(o)
        /\ UNCHANGED <<transactions, entries>>
    BY <1>6 DEF ReceiveCreate, IsPost, TypeOK
  <2>2. PICK code \in {"OK", "INTERNAL_ERROR"} : Answer(r, code, NoRequest)
    BY <1>6 DEF ReceiveCreate
  <2>3. \A a \in Account : Exists(a) => Exists(a)'
    BY <1>6 DEF ReceiveCreate, Exists, NewRow, TypeOK
  <2>4. QED BY <2>1, <2>2, <2>3, AnswerResult DEF Ends, RowsStay
<1>7. CASE CreateLost(r, o)
  BY <1>7, AtOnceKind DEF CreateLost
<1>8. QED BY <1>1, <1>2, <1>3, <1>4, <1>5, <1>6, <1>7

LEMMA MoveKind ==
  ASSUME TypeOK, NEW r \in Request, NEW statement, Goto(r, statement),
         UNCHANGED <<tables, op, legs, result>>,
         pc[r] \notin {"idle", "done", "commit", "plan", "snapshot"},
         statement \notin {"idle", "done", "plan", "snapshot"},
         statement = "commit" => MayCommit(r)
  PROVE  Moves(r) /\ AnswersUntouched(r)
BY DEF Goto, Moves, BeforeCommit, AnswersUntouched, TypeOK

LEMMA CheckKind ==
  ASSUME TypeOK, NEW r \in Request, CheckLegs(r) \/ CheckStatus(r) \/ CheckLimit(r)
  PROVE  (Moves(r) \/ Ends(r)) /\ AnswersUntouched(r)
<1>1. pc[r] = "check" /\ BeforeCommit(r)
  BY DEF CheckLegs, CheckStatus, CheckLimit, BeforeCommit
<1>2. ASSUME NEW statement \in {"insert", "mark", "commit"},
             Goto(r, statement), UNCHANGED <<tables, op, Locals>>,
             statement = "commit" => op[r].kind \in {"status", "limit"}
      PROVE  Moves(r) /\ AnswersUntouched(r)
  BY <1>1, <1>2, MoveKind DEF MayCommit, IsPost, Locals
<1>3. CASE CheckLegs(r)
  BY <1>1, <1>2, <1>3, EndKind DEF CheckLegs
<1>4. CASE CheckStatus(r)
  <2>1. ~IsPost(op[r]) /\ op[r].kind = "status"
    BY <1>4 DEF CheckStatus, IsPost
  <2>2. QED BY <1>1, <1>2, <1>4, <2>1, EndKind DEF CheckStatus
<1>5. CASE CheckLimit(r)
  BY <1>1, <1>2, <1>5, EndKind DEF CheckLimit
<1>6. QED BY <1>3, <1>4, <1>5

LEMMA CommitKind ==
  ASSUME Inv, NEW r \in Request, Commit(r) \/ CommitUnacknowledged(r)
  PROVE  (Ends(r) \/ Writes(r)) /\ AnswersUntouched(r)
<1>1. /\ pc[r] = "commit" /\ Write(r) /\ op' = op /\ BeforeCommit(r) /\ InTransaction(r)
      /\ IsPost(op[r]) \/ op[r].kind \in {"void", "status", "limit"}
  BY DEF Commit, CommitUnacknowledged, BeforeCommit, InTransaction, Inv, TypeInv, StatementsFit,
         StatementFits
<1>2. AnswersUntouched(r)
  BY AnswerResult DEF Commit, CommitUnacknowledged, AnswersUntouched, Inv, TypeInv
<1>3. CASE op[r].kind \in {"status", "limit"}
  <2>1. /\ UNCHANGED <<transactions, entries>>
        /\ ~IsPost(op[r])
    BY <1>1, <1>3 DEF Write, WriteStatus, WriteLimit, IsPost
  <2>2. \A a \in Account : Exists(a) => Exists(a)'
    <3>1. SUFFICES ASSUME NEW a \in Account, Exists(a) PROVE Exists(a)'
      OBVIOUS
    <3>2. a \notin DOMAIN legs[r]
      BY <1>1, <1>3, ChangedAccountIsHeld
    <3>3. RewrittenAt(a) \/ KeptAt(a)
      BY <1>1, <3>2, WriteEffect
    <3>4. QED BY <3>1, <3>3 DEF RewrittenAt, KeptAt, Exists, Status
  <2>3. \E code \in {"OK", "INTERNAL_ERROR"} : Answer(r, code, NoRequest)
    BY <1>3 DEF Commit, CommitUnacknowledged
  <2>4. QED BY <1>1, <1>2, <2>1, <2>2, <2>3, AnswerResult DEF Ends, RowsStay, Inv, TypeInv
<1>4. CASE IsPost(op[r]) \/ op[r].kind = "void"
  <2>1. CASE Answer(r, "INTERNAL_ERROR", NoRequest)
    BY <1>1, <1>2, <1>4, <2>1, AnswerResult DEF Writes, Inv, TypeInv
  <2>2. CASE Goto(r, "plan") /\ result' = result
    BY <1>1, <1>2, <1>4, <2>2 DEF Writes, Goto, Inv, TypeInv, TypeOK
  <2>3. op[r].kind \notin {"status", "limit"}
    BY <1>4 DEF IsPost
  <2>4. QED BY <2>1, <2>2, <2>3 DEF Commit, CommitUnacknowledged
<1>5. QED BY <1>1, <1>3, <1>4

LEMMA SnapshotKind ==
  ASSUME TypeOK, NEW r \in Request, PlanSnapshot(r) \/ InsertSnapshot(r) \/ SnapshotFails(r)
  PROVE  (Moves(r) \/ Ends(r)) /\ AnswersUntouched(r)
<1>1. UNCHANGED <<tables, op>> /\ pc[r] \in {"plan", "snapshot"}
  BY DEF PlanSnapshot, InsertSnapshot, SnapshotFails
<1>2. CASE pc[r] = "plan" /\ Answer(r, "OK", r)
  <2>1. RowsStay
    BY <1>1 DEF RowsStay, Exists, tables
  <2>2. QED BY <1>1, <1>2, <2>1, AnswerResult DEF Ends
<1>3. CASE pc'[r] \in {"plan", "snapshot"} /\ UNCHANGED <<legs, result>>
  BY <1>1, <1>3 DEF Moves, BeforeCommit, AnswersUntouched
<1>4. \/ pc'[r] \in {"plan", "snapshot"} /\ UNCHANGED <<legs, result>>
      \/ pc[r] = "plan" /\ Answer(r, "OK", r)
  BY DEF PlanSnapshot, InsertSnapshot, SnapshotFails, Goto, TypeOK
<1>5. QED BY <1>2, <1>3, <1>4

LEMMA StepKind ==
  ASSUME Inv, NEW r \in Request, Step(r) \/ Fault(r)
  PROVE  (Moves(r) \/ Ends(r) \/ Writes(r)) /\ AnswersUntouched(r)
<1>1. TypeOK
  BY DEF Inv, TypeInv
<1>2. ASSUME NEW code, EndUnwritten(r, code), pc[r] # "done", code \in {"OK", "INTERNAL_ERROR"} \/ BeforeCommit(r),
             code # "OK" \/ ~IsPost(op[r])
      PROVE  Ends(r) /\ AnswersUntouched(r)
  BY <1>1, <1>2, EndKind
<1>3. ASSUME NEW t \in Committed(op[r].reference), pc[r] \in {"lookup", "resolve"},
             Answer(r, "OK", t), UNCHANGED <<tables, op>>
      PROVE  Ends(r) /\ AnswersUntouched(r)
  <2>1. RowsStay
    BY <1>3 DEF RowsStay, Exists, tables
  <2>2. QED BY <1>1, <1>3, <2>1, AnswerResult DEF Ends
<1>4. CASE Lookup(r)
  <2>1. CASE Goto(r, "locking") /\ UNCHANGED <<tables, op, Locals>>
    BY <1>1, <1>4, <2>1, MoveKind DEF Lookup, Locals
  <2>2. QED BY <1>3, <1>4, <2>1 DEF Lookup
<1>5. CASE Resolve(r)
  BY <1>3, <1>5 DEF Resolve
<1>6. CASE LockRow(r)
  BY <1>1, <1>6, MoveKind DEF LockRow
<1>7. CASE LockNothing(r)
  BY <1>2, <1>7 DEF LockNothing, BeforeCommit
<1>8. CASE CheckLegs(r) \/ CheckStatus(r) \/ CheckLimit(r)
  BY <1>1, <1>8, CheckKind
<1>9. CASE InsertTransaction(r)
  <2>1. op[r].kind # "void"
    BY <1>9 DEF InsertTransaction, Inv, TypeInv, StatementsFit, StatementFits, IsPost
  <2>2. CASE Goto(r, "resolve")
    BY <1>1, <1>9, <2>2, MoveKind DEF InsertTransaction, Locals
  <2>3. CASE Goto(r, "commit") /\ ~(op[r].reference # NoRef /\ Committed(op[r].reference) # {})
    <3>1. MayCommit(r)
      BY <1>9, <2>1, <2>3 DEF MayCommit, InsertTransaction, WaitsForReference
    <3>2. QED BY <1>1, <1>9, <2>3, <3>1, MoveKind DEF InsertTransaction, Locals
  <2>4. QED BY <1>9, <2>2, <2>3 DEF InsertTransaction
<1>10. CASE MarkVoid(r)
  <2>1. op[r].kind = "void" /\ ~IsPost(op[r]) /\ pc[r] = "mark" /\ BeforeCommit(r)
    BY <1>10 DEF MarkVoid, Inv, TypeInv, StatementsFit, StatementFits, IsPost, BeforeCommit
  <2>2. CASE EndUnwritten(r, "INVALID_TRANSACTION")
    BY <1>2, <2>1, <2>2
  <2>3. CASE /\ transactions[op[r].target].status = "posted"
             /\ Goto(r, "commit") /\ UNCHANGED <<tables, op, Locals>>
    BY <1>1, <2>1, <2>3, MoveKind DEF MayCommit, Locals
  <2>4. QED BY <1>10, <2>2, <2>3 DEF MarkVoid
<1>11. CASE Commit(r) \/ CommitUnacknowledged(r)
  BY <1>11, CommitKind
<1>12. CASE PlanSnapshot(r) \/ InsertSnapshot(r) \/ SnapshotFails(r)
  BY <1>1, <1>12, SnapshotKind
<1>13. CASE LockTimeout(r)
  <2>1. pc[r] \in {"locking", "insert"} /\ BeforeCommit(r)
    BY <1>13 DEF LockTimeout, WaitsForRow, WaitsForReference, BeforeCommit
  <2>2. CASE EndUnwritten(r, "CONFLICT_SEQUENCE")
    BY <1>2, <2>1, <2>2
  <2>3. CASE Goto(r, "locking") /\ UNCHANGED <<tables, op, legs, result>>
    BY <1>1, <2>1, <2>3, MoveKind
  <2>4. QED BY <1>13, <2>2, <2>3 DEF LockTimeout
<1>14. CASE ConnectionLost(r)
  BY <1>2, <1>14 DEF ConnectionLost
<1>15. QED BY <1>4, <1>5, <1>6, <1>7, <1>8, <1>9, <1>10, <1>11, <1>12, <1>13, <1>14 DEF Step, Fault

LEMMA ActionKind ==
  ASSUME Inv, NEW r \in Request, Receive(r) \/ Step(r) \/ Fault(r)
  PROVE  Kinds(r) /\ OthersUntouched(r) /\ AnswersUntouched(r)
BY ReceiveKind, StepKind, ReceiveUntouched, StepUntouched DEF Kinds, Inv, TypeInv

-----------------------------------------------------------------------------
(* Double entries *)

\* The builders make two legs, a debit and a credit, of equal amounts unless
\* they convert.
LEMMA LegsAreDouble ==
  ASSUME NEW o \in Op, IsPost(o), buildOutcome(o) = "OK"
  PROVE  IsDoubleEntry(LegsOf(o))
<1>1. ASSUME NEW from, NEW to, from # to, NEW n, NEW m, CurrencyOf[from] = CurrencyOf[to] => n = m
      PROVE  IsDoubleEntry(Move(from, n, to, m))
  <2> DEFINE ls == Move(from, n, to, m)
  <2>1. /\ DOMAIN ls = {to, from}
        /\ ls[to] = [direction |-> "debit", amount |-> m]
        /\ ls[from] = [direction |-> "credit", amount |-> n]
    BY <1>1 DEF Move
  <2> HIDE DEF ls
  <2>2. IsDoubleEntry(ls)
    BY <1>1, <2>1 DEF IsDoubleEntry
  <2>3. QED BY <2>2 DEF ls
<1>2. CASE o.kind = "transfer"
  <2>1. o.from # o.to
    BY <1>2 DEF buildOutcome
  <2>2. QED BY <1>1, <1>2, <2>1 DEF LegsOf, buildTransfer, CrossCurrency
<1>3. CASE o.kind \in {"deposit", "withdrawal"}
  <2>1. o.account # Vault[CurrencyOf[o.account]]
    BY <1>3 DEF buildOutcome
  <2>2. QED BY <1>1, <1>3, <2>1 DEF LegsOf, buildDeposit, buildWithdrawal
<1>4. QED BY <1>2, <1>3 DEF IsPost

LEMMA ReversalIsDouble ==
  ASSUME NEW ls, IsLegs(ls), IsDoubleEntry(ls)
  PROVE  IsDoubleEntry(ReversalLegs(ls))
<1>1. PICK d, c \in DOMAIN ls :
        /\ DOMAIN ls = {d, c} /\ d # c
        /\ ls[d].direction = "debit" /\ ls[c].direction = "credit"
        /\ CurrencyOf[d] = CurrencyOf[c] => ls[d].amount = ls[c].amount
  BY DEF IsDoubleEntry
<1> DEFINE rs == ReversalLegs(ls)
<1>2. ls[d] \in Leg /\ ls[c] \in Leg
  BY DEF IsLegs
<1>3. /\ DOMAIN rs = {c, d}
      /\ rs[c] = [ls[c] EXCEPT !.direction = Opposite(ls[c].direction)]
      /\ rs[d] = [ls[d] EXCEPT !.direction = Opposite(ls[d].direction)]
  BY <1>1 DEF ReversalLegs
<1>4. /\ rs[c].direction = "debit" /\ rs[d].direction = "credit"
      /\ rs[c].amount = ls[c].amount /\ rs[d].amount = ls[d].amount
  BY <1>1, <1>2, <1>3 DEF Leg, Opposite
<1> HIDE DEF rs
<1>5. IsDoubleEntry(rs)
  <2>1. c \in DOMAIN rs /\ d \in DOMAIN rs
    BY <1>3
  <2>2. CurrencyOf[c] = CurrencyOf[d] => rs[c].amount = rs[d].amount
    BY <1>1, <1>4
  <2>3. QED BY <1>1, <1>3, <1>4, <2>1, <2>2 DEF IsDoubleEntry
<1>6. QED BY <1>5 DEF rs

-----------------------------------------------------------------------------
(* What the transactions wrote, read back *)

WrittenAt(t, a) == {n \in DOMAIN entries[a] : entries[a][n].tx = t}

LEMMA LegsWrittenAt ==
  ASSUME NEW t
  PROVE  Serial!LegsWritten(t) =
           [a \in {b \in Account : WrittenAt(t, b) # {}} |->
              [direction |-> entries[a][CHOOSE n \in WrittenAt(t, a) : TRUE].direction,
               amount |-> entries[a][CHOOSE n \in WrittenAt(t, a) : TRUE].amount]]
BY DEF Serial!LegsWritten, WrittenAt

LEMMA LegsWrittenKept ==
  ASSUME UNCHANGED entries, NEW t
  PROVE  Serial!LegsWritten(t)' = Serial!LegsWritten(t)
BY DEF Serial!LegsWritten

-----------------------------------------------------------------------------
(* Steps that write nothing to the log *)

Quiet(r) == Begins(r) \/ Moves(r) \/ Ends(r)

LEMMA QuietRows ==
  ASSUME NEW r \in Request, Quiet(r)
  PROVE  RowsStay
BY DEF Quiet, Begins, Moves, Ends, RowsStay, tables, Exists

LEMMA CommittedKept ==
  ASSUME UNCHANGED transactions, NEW ref
  PROVE  Committed(ref)' = Committed(ref)
BY DEF Committed

LEMMA QuietCommits ==
  ASSUME Inv, TransactionsInv, NEW r \in Request, Quiet(r), OthersUntouched(r), AnswersUntouched(r)
  PROVE  RowsAreCommits'
<1>1. UNCHANGED <<transactions, entries>>
  BY QuietRows DEF RowsStay
<1>2. RowsAreCommits
  BY DEF TransactionsInv
<1>3. ASSUME NEW q \in Request
      PROVE  /\ BeforeCommit(q)' => transactions[q] = NoTransaction
             /\ pc'[q] # "done" => result'[q] = NoResult
             /\ pc'[q] \in {"plan", "snapshot"} =>
                  /\ transactions[q].status # "none"
                  /\ IsPost(op'[q]) => transactions[q].reference = op'[q].reference
  <2>1. /\ BeforeCommit(q) => transactions[q] = NoTransaction
        /\ pc[q] # "done" => result[q] = NoResult
        /\ pc[q] \in {"plan", "snapshot"} =>
             /\ transactions[q].status # "none"
             /\ IsPost(op[q]) => transactions[q].reference = op[q].reference
    BY <1>2 DEF RowsAreCommits
  <2>2. CASE q # r
    <3>1. pc'[q] = pc[q] /\ op'[q] = op[q] /\ result'[q] = result[q]
      BY <2>2 DEF OthersUntouched, Untouched, AnswersUntouched
    <3>2. QED BY <2>1, <3>1 DEF BeforeCommit
  <2>3. CASE q = r /\ Begins(r)
    BY <2>1, <2>3 DEF Begins, BeforeCommit
  <2>4. CASE q = r /\ Moves(r)
    BY <2>1, <2>4 DEF Moves, BeforeCommit
  <2>5. CASE q = r /\ Ends(r)
    BY <2>1, <2>5 DEF Ends, BeforeCommit
  <2>6. QED BY <2>2, <2>3, <2>4, <2>5 DEF Quiet
<1>4. QED BY <1>1, <1>2, <1>3 DEF RowsAreCommits

LEMMA QuietEntries ==
  ASSUME RowsAreDoubleEntries, NEW r \in Request, Quiet(r)
  PROVE  RowsAreDoubleEntries'
<1>1. UNCHANGED <<transactions, entries>>
  BY QuietRows DEF RowsStay
<1>2. ASSUME NEW t \in Request, IsDoubleEntry(Serial!LegsWritten(t))
      PROVE  IsDoubleEntry(Serial!LegsWritten(t))'
  <2>1. Serial!LegsWritten(t)' = Serial!LegsWritten(t)
    BY <1>1, LegsWrittenKept
  <2>2. QED BY <1>2, <2>1 DEF IsDoubleEntry
<1>3. QED BY <1>1, <1>2 DEF RowsAreDoubleEntries

\* What a request in flight is entitled to, it stays entitled to.
LEMMA EntitledStays ==
  ASSUME NEW o \in Op, NEW ls, Entitled(o, ls), \A a \in Account : Exists(a) => Exists(a)',
         o.kind = "void" => /\ transactions'[o.target].status # "none"
                            /\ Serial!LegsWritten(o.target)' = Serial!LegsWritten(o.target)
  PROVE  Entitled(o, ls)'
<1>1. IsPost(o) => \A a \in ReadAccounts(o) : a \in Account
  BY OpOfKind DEF IsPost, ReadAccounts, MovementOp, TransferOp
<1>2. QED BY <1>1 DEF Entitled

LEMMA LegsAreEntitled ==
  LegsAreOfTheRequest <=>
    \A r \in Request : pc[r] # "idle" /\ BeforeCommit(r) => Entitled(op[r], legs[r])
BY DEF LegsAreOfTheRequest, Entitled

LEMMA QuietLegs ==
  ASSUME Inv, Inv', TransactionsInv, NEW r \in Request, Quiet(r), OthersUntouched(r)
  PROVE  LegsAreOfTheRequest'
<1>1. RowsStay
  BY QuietRows
<1>2. ASSUME NEW o \in Op, NEW ls, Entitled(o, ls)
      PROVE  Entitled(o, ls)'
  BY <1>1, <1>2, EntitledStays, LegsWrittenKept DEF RowsStay, Entitled
<1>3. ASSUME NEW q \in Request, pc'[q] # "idle", BeforeCommit(q)',
             NEW o, NEW ls, o = op'[q], ls = legs'[q]
      PROVE  Entitled(o, ls)'
  <2>1. pc[q] # "idle" /\ BeforeCommit(q) => Entitled(op[q], legs[q])
    BY LegsAreEntitled DEF TransactionsInv
  <2>2. o \in Op
    BY <1>3, WorkloadAssumption DEF Inv, TypeInv, StatementsFit, StatementFits
  <2>3. CASE q # r
    <3>1. pc'[q] = pc[q] /\ op'[q] = op[q] /\ legs'[q] = legs[q]
      BY <2>3 DEF OthersUntouched, Untouched
    <3>2. Entitled(o, ls)
      BY <1>3, <2>1, <3>1 DEF BeforeCommit
    <3>3. QED BY <1>2, <2>2, <3>2
  <2>4. CASE q = r /\ Begins(r)
    BY <1>2, <1>3, <2>2, <2>4 DEF Begins
  <2>5. CASE q = r /\ Moves(r)
    <3>1. Entitled(o, ls)
      BY <1>3, <2>1, <2>5 DEF Moves
    <3>2. QED BY <1>2, <2>2, <3>1
  <2>6. CASE q = r /\ Ends(r)
    BY <1>3, <2>6 DEF Ends, BeforeCommit
  <2>7. QED BY <2>3, <2>4, <2>5, <2>6 DEF Quiet
<1>4. QED BY <1>3 DEF LegsAreOfTheRequest, Entitled

LEMMA QuietReferences ==
  ASSUME ReferencesAreUnique, NEW r \in Request, Quiet(r), OthersUntouched(r)
  PROVE  ReferencesAreUnique'
<1>1. UNCHANGED transactions /\ \A ref : Committed(ref)' = Committed(ref)
  BY QuietRows, CommittedKept DEF RowsStay
<1>2. \A q \in Request : q # r => pc'[q] = pc[q] /\ op'[q] = op[q]
  BY DEF OthersUntouched, Untouched
<1>3. ASSUME NEW q \in Request, NEW ref, ref = op'[q].reference, UsesReference(q)'
      PROVE  Committed(ref)' = {} /\ Inserted(ref)' = {q}
  <2>1. pc'[q] = "commit" /\ IsPost(op'[q]) /\ ref # NoRef
    BY <1>3 DEF UsesReference
  <2>2. \A u \in Request : u # r => (u \in Inserted(ref)' <=> u \in Inserted(ref))
    BY <1>2 DEF Inserted
  <2>3. Inserted(ref)' \subseteq Request /\ Inserted(ref) \subseteq Request /\ q \in Inserted(ref)'
    BY <1>3, <2>1 DEF Inserted
  <2>4. CASE q # r
    <3>1. Committed(ref) = {} /\ Inserted(ref) = {q}
      BY <1>2, <1>3, <2>4 DEF ReferencesAreUnique, UsesReference
    <3>2. r \notin Inserted(ref)'
      <4>1. SUFFICES ASSUME r \in Inserted(ref)' PROVE FALSE
        OBVIOUS
      <4>2. pc'[r] = "commit" /\ IsPost(op'[r]) /\ op'[r].reference = ref
        BY <4>1 DEF Inserted
      <4>3. Moves(r) /\ MayCommit(r) /\ op'[r] = op[r]
        BY <4>2 DEF Quiet, Begins, Moves, Ends
      <4>4. Inserted(ref) = {}
        BY <2>1, <4>2, <4>3 DEF MayCommit
      <4>5. QED BY <3>1, <4>4
    <3>3. QED BY <1>1, <2>2, <2>3, <2>4, <3>1, <3>2
  <2>5. CASE q = r
    <3>1. Moves(r) /\ MayCommit(r) /\ op'[r] = op[r]
      BY <2>1, <2>5 DEF Quiet, Begins, Moves, Ends
    <3>2. Committed(ref) = {} /\ Inserted(ref) = {}
      BY <1>3, <2>1, <2>5, <3>1 DEF MayCommit
    <3>3. QED BY <1>1, <2>2, <2>3, <2>5, <3>2
  <2>6. QED BY <2>4, <2>5
<1>4. QED BY <1>1, <1>3 DEF ReferencesAreUnique

LEMMA QuietReversals ==
  ASSUME ReversalsAreUnique, NEW r \in Request, Quiet(r), OthersUntouched(r)
  PROVE  ReversalsAreUnique'
<1>1. UNCHANGED <<transactions, entries>>
  BY QuietRows DEF RowsStay
<1>2. ASSUME NEW q \in Request, pc'[q] = "commit", op'[q].kind = "void"
      PROVE  transactions'[op'[q].target].status = "posted"
  <2>1. CASE q # r
    BY <1>1, <1>2, <2>1 DEF ReversalsAreUnique, OthersUntouched, Untouched
  <2>2. CASE q = r
    <3>1. Moves(r) /\ MayCommit(r) /\ op'[r] = op[r]
      BY <1>2, <2>2 DEF Quiet, Begins, Moves, Ends
    <3>2. QED BY <1>1, <1>2, <2>2, <3>1 DEF MayCommit
  <2>3. QED BY <2>1, <2>2
<1>3. ASSUME NEW t \in Request
      PROVE  Serial!LegsWritten(t)' = Serial!LegsWritten(t)
  BY <1>1, LegsWrittenKept
<1>4. ASSUME NEW t \in Request, NEW u \in Request, IsReversalOf(u, t)'
      PROVE  /\ transactions'[t].status = "void"
             /\ Serial!LegsWritten(u)' = ReversalLegs(Serial!LegsWritten(t)')
             /\ \A w \in Request : IsReversalOf(w, t)' => w = u
  BY <1>1, <1>3, <1>4 DEF ReversalsAreUnique, IsReversalOf
<1>5. ASSUME NEW t \in Request, transactions'[t].status = "void"
      PROVE  \E u \in Request : IsReversalOf(u, t)'
  BY <1>1, <1>5 DEF ReversalsAreUnique, IsReversalOf
<1>6. QED BY <1>2, <1>4, <1>5 DEF ReversalsAreUnique, ReversalLegs

LEMMA QuietAnswers ==
  ASSUME TransactionsInv, NEW r \in Request, Quiet(r), OthersUntouched(r), AnswersUntouched(r)
  PROVE  AnswersAreTrue'
<1>1. UNCHANGED transactions /\ \A ref : Committed(ref)' = Committed(ref)
  BY QuietRows, CommittedKept DEF RowsStay
<1>2. ASSUME NEW q \in Request, NEW ref, ref = op'[q].reference
      PROVE  /\ result'[q].code \notin {"none", "OK", "INTERNAL_ERROR"} =>
                  transactions[q].status = "none"
             /\ result'[q].code = "OK" /\ IsPost(op'[q]) /\ ref # NoRef =>
                  Committed(ref) = {result'[q].tx}
  <2>1. /\ result[q].code \notin {"none", "OK", "INTERNAL_ERROR"} => transactions[q].status = "none"
        /\ result[q].code = "OK" /\ IsPost(op[q]) /\ op[q].reference # NoRef =>
             Committed(op[q].reference) = {result[q].tx}
        /\ BeforeCommit(q) => transactions[q] = NoTransaction
        /\ pc[q] # "done" => result[q] = NoResult
        /\ pc[q] = "plan" /\ IsPost(op[q]) => transactions[q].reference = op[q].reference
        /\ transactions[q].reference # NoRef => Committed(transactions[q].reference) = {q}
    BY DEF TransactionsInv, AnswersAreTrue, RowsAreCommits, ReferencesAreUnique
  <2>2. CASE q # r
    BY <1>2, <2>1, <2>2 DEF OthersUntouched, Untouched, AnswersUntouched
  <2>3. CASE q = r /\ (Begins(r) \/ Moves(r))
    BY <2>1, <2>3 DEF Begins, Moves, NoResult
  <2>4. CASE q = r /\ Ends(r)
    <3>1. result'[q].code \notin {"none", "OK", "INTERNAL_ERROR"} => transactions[q].status = "none"
      BY <2>1, <2>4 DEF Ends, NoTransaction
    <3>2. ASSUME result'[q].code = "OK", IsPost(op'[q]), ref # NoRef
          PROVE  Committed(ref) = {result'[q].tx}
      <4>1. op'[r] = op[r] /\ (result'[r].tx \in Committed(ref) \/ (pc[r] = "plan" /\ result'[r].tx = r))
        BY <1>2, <2>4, <3>2 DEF Ends
      <4>2. CASE pc[r] = "plan" /\ result'[r].tx = r
        BY <1>2, <2>1, <2>4, <3>2, <4>1, <4>2
      <4>3. CASE result'[r].tx \in Committed(ref)
        <5>1. /\ result'[r].tx \in Request /\ transactions[result'[r].tx].reference = ref
          BY <4>3 DEF Committed
        <5>2. QED BY <2>4, <3>2, <5>1 DEF TransactionsInv, ReferencesAreUnique
      <4>4. QED BY <4>1, <4>2, <4>3
    <3>3. QED BY <3>1, <3>2
  <2>5. QED BY <2>2, <2>3, <2>4 DEF Quiet
<1>3. QED BY <1>1, <1>2 DEF AnswersAreTrue

LEMMA QuietKeeps ==
  ASSUME Inv, Inv', TransactionsInv, NEW r \in Request, Quiet(r), OthersUntouched(r), AnswersUntouched(r)
  PROVE  TransactionsInv'
BY QuietCommits, QuietEntries, QuietLegs, QuietReferences, QuietReversals, QuietAnswers
   DEF TransactionsInv

-----------------------------------------------------------------------------
(* The commit of a post or a void *)

\* r had written nothing.
LEMMA NothingYet ==
  ASSUME Inv, TransactionsInv, NEW r \in Request, Writes(r)
  PROVE  /\ transactions[r] = NoTransaction /\ result[r] = NoResult /\ InTransaction(r)
         /\ \A a \in Account : \A n \in DOMAIN entries[a] : entries[a][n].tx # r
         /\ Entitled(op[r], legs[r]) /\ op[r] \in Op
<1>1. pc[r] = "commit" /\ BeforeCommit(r) /\ InTransaction(r)
  BY DEF Writes, BeforeCommit, InTransaction
<1>2. transactions[r] = NoTransaction /\ result[r] = NoResult
  BY <1>1 DEF TransactionsInv, RowsAreCommits
<1>3. transactions[r].status = "none"
  BY <1>2 DEF NoTransaction
<1>4. \A a \in Account : \A n \in DOMAIN entries[a] : entries[a][n].tx # r
  BY <1>3 DEF TransactionsInv, RowsAreCommits
<1>5. Entitled(op[r], legs[r]) /\ op[r] \in Op
  BY <1>1, LegsAreEntitled, OpInFlight DEF TransactionsInv
<1>6. QED BY <1>1, <1>2, <1>4, <1>5

\* The rows of transactions after it.
LEMMA RowsWritten ==
  ASSUME Inv, TransactionsInv, NEW r \in Request, Writes(r)
  PROVE  /\ transactions'[r] = TransactionWritten(r)
         /\ op[r].kind = "void" => /\ op[r].target \in Request \ {r}
                                   /\ transactions[op[r].target].status = "posted"
         /\ \A t \in Request : t # r =>
              transactions'[t] = IF op[r].kind = "void" /\ t = op[r].target
                                 THEN [transactions[t] EXCEPT !.status = "void"]
                                 ELSE transactions[t]
<1>1. transactions[r].status = "none" /\ op[r] \in Op /\ transactions \in [Request -> TransactionRow]
  BY NothingYet DEF NoTransaction, Inv, TypeInv, TypeOK
<1>2. CASE IsPost(op[r])
  <2>1. op[r].kind # "void" /\ transactions' = [transactions EXCEPT ![r] = TransactionWritten(r)]
    BY <1>2 DEF Writes, Write, WritePost, IsPost
  <2>2. QED BY <1>1, <2>1
<1>3. CASE op[r].kind = "void"
  <2>1. op[r].target \in Request
    BY <1>1, <1>3, OpOfKind DEF VoidOp
  <2>2. transactions[op[r].target].status = "posted"
    BY <1>3 DEF TransactionsInv, ReversalsAreUnique, Writes
  <2>3. op[r].target # r
    BY <1>1, <2>2
  <2>4. transactions' = [transactions EXCEPT ![op[r].target].status = "void",
                                             ![r] = TransactionWritten(r)]
    BY <1>3 DEF Writes, Write, WriteVoid, IsPost
  <2>5. QED BY <1>1, <1>3, <2>1, <2>2, <2>3, <2>4
<1>4. QED BY <1>2, <1>3 DEF Writes

\* The histories after it.
LEMMA EntriesWritten ==
  ASSUME Inv, NEW r \in Request, Writes(r)
  PROVE  /\ AppendEntries(r)
         /\ \A a \in Account : Exists(a) => Exists(a)'
         /\ \A a \in Account : IF a \in DOMAIN legs[r] THEN AppendedAt(r, a) ELSE KeptAt(a)
<1>1. AppendEntries(r)
  BY DEF Writes, Write, WritePost, WriteVoid, IsPost
<1>2. \A a \in Account : IF a \in DOMAIN legs[r] THEN AppendedAt(r, a) ELSE KeptAt(a)
  BY <1>1, AppendEffect DEF Writes
<1>3. \A a \in Account : Exists(a) => Exists(a)'
  BY <1>2 DEF AppendedAt, KeptAt, Exists
<1>4. QED BY <1>1, <1>2, <1>3

\* The new entry is at a new position.
LEMMA EntryAppended ==
  ASSUME Inv, NEW r \in Request, Writes(r), NEW a \in DOMAIN legs[r]
  PROVE  LET next == accounts[a].currentSequence + 1
         IN  /\ a \in Account /\ next \notin DOMAIN entries[a] /\ legs[r][a] \in Leg
             /\ DOMAIN entries'[a] = DOMAIN entries[a] \cup {next}
             /\ \A n \in DOMAIN entries[a] : entries'[a][n] = entries[a][n]
             /\ entries'[a][next] = [tx |-> r, direction |-> legs[r][a].direction,
                                     amount |-> legs[r][a].amount]
<1>1. a \in Account /\ legs[r][a] \in Leg
  BY DEF Inv, TypeInv, TypeOK, IsLegs
<1>2. AppendedAt(r, a)
  BY <1>1, EntriesWritten
<1>3. accounts[a].currentSequence \in Nat /\ DOMAIN entries[a] = 1 .. accounts[a].currentSequence
  BY <1>1 DEF Inv, TypeInv, TypeOK, AccountRow, LedgerInv, ContiguousHistories
<1>4. accounts[a].currentSequence + 1 \notin DOMAIN entries[a]
  BY <1>3
<1>5. QED BY <1>1, <1>2, <1>4 DEF AppendedAt, ExtendLog

\* Every transaction reads back as before, and the new one as the legs of r.
LEMMA LegsRead ==
  ASSUME Inv, TransactionsInv, NEW r \in Request, Writes(r)
  PROVE  /\ Serial!LegsWritten(r)' = legs[r]
         /\ \A t \in Request : t # r => Serial!LegsWritten(t)' = Serial!LegsWritten(t)
<1>1. ASSUME NEW a \in Account, NEW t \in Request, t # r
      PROVE  /\ WrittenAt(t, a)' = WrittenAt(t, a)
             /\ \A n \in WrittenAt(t, a) : entries'[a][n] = entries[a][n]
  <2>1. CASE a \in DOMAIN legs[r]
    <3> DEFINE next == accounts[a].currentSequence + 1
    <3>1. /\ DOMAIN entries'[a] = DOMAIN entries[a] \cup {next}
          /\ \A n \in DOMAIN entries[a] : entries'[a][n] = entries[a][n]
          /\ entries'[a][next] = [tx |-> r, direction |-> legs[r][a].direction,
                                  amount |-> legs[r][a].amount]
      BY <2>1, EntryAppended
    <3> HIDE DEF next
    <3>2. entries'[a][next].tx = r
      BY <3>1
    <3>3. QED BY <1>1, <3>1, <3>2 DEF WrittenAt
  <2>2. CASE a \notin DOMAIN legs[r]
    BY <2>2, EntriesWritten DEF WrittenAt, KeptAt
  <2>3. QED BY <2>1, <2>2
<1>2. ASSUME NEW t \in Request, t # r
      PROVE  Serial!LegsWritten(t)' = Serial!LegsWritten(t)
  <2> DEFINE P(a) == CHOOSE n \in WrittenAt(t, a) : TRUE
             D == {b \in Account : WrittenAt(t, b) # {}}
  <2>1. D' = D
    BY <1>1, <1>2
  <2>2. ASSUME NEW a \in D
        PROVE  P(a)' = P(a) /\ entries'[a][P(a)] = entries[a][P(a)]
    <3>1. WrittenAt(t, a)' = WrittenAt(t, a) /\ WrittenAt(t, a) # {}
      BY <1>1, <1>2, <2>2
    <3>2. P(a)' = P(a) /\ P(a) \in WrittenAt(t, a)
      BY <3>1
    <3>3. QED BY <1>1, <1>2, <2>2, <3>2
  <2>3. Serial!LegsWritten(t)
          = [a \in D |-> [direction |-> entries[a][P(a)].direction, amount |-> entries[a][P(a)].amount]]
    BY LegsWrittenAt
  <2>4. Serial!LegsWritten(t)'
          = [a \in D' |-> [direction |-> entries'[a][P(a)'].direction,
                           amount |-> entries'[a][P(a)'].amount]]
    BY DEF Serial!LegsWritten, WrittenAt
  <2> HIDE DEF P, D
  <2>5. QED BY <2>1, <2>2, <2>3, <2>4
<1>3. Serial!LegsWritten(r)' = legs[r]
  <2> DEFINE P(a) == CHOOSE n \in WrittenAt(r, a)' : TRUE
             D == {b \in Account : WrittenAt(r, b)' # {}}
  <2>1. ASSUME NEW a \in Account, a \notin DOMAIN legs[r]
        PROVE  WrittenAt(r, a)' = {}
    BY <2>1, EntriesWritten, NothingYet DEF WrittenAt, KeptAt
  <2>2. ASSUME NEW a \in DOMAIN legs[r]
        PROVE  /\ WrittenAt(r, a)' = {accounts[a].currentSequence + 1}
               /\ [direction |-> entries'[a][P(a)].direction, amount |-> entries'[a][P(a)].amount]
                    = legs[r][a]
    <3> DEFINE next == accounts[a].currentSequence + 1
    <3>1. /\ a \in Account /\ legs[r][a] \in Leg
          /\ DOMAIN entries'[a] = DOMAIN entries[a] \cup {next}
          /\ \A n \in DOMAIN entries[a] : entries'[a][n] = entries[a][n]
          /\ entries'[a][next] = [tx |-> r, direction |-> legs[r][a].direction,
                                  amount |-> legs[r][a].amount]
      BY EntryAppended
    <3> HIDE DEF next
    <3>2. WrittenAt(r, a)' = {next}
      BY <3>1, NothingYet DEF WrittenAt
    <3>3. P(a) = next
      BY <3>2
    <3>4. QED BY <3>1, <3>2, <3>3 DEF Leg, next
  <2>3. D = DOMAIN legs[r]
    BY <2>1, <2>2 DEF Inv, TypeInv, TypeOK, IsLegs
  <2>4. Serial!LegsWritten(r)'
          = [a \in D |-> [direction |-> entries'[a][P(a)].direction, amount |-> entries'[a][P(a)].amount]]
    BY DEF Serial!LegsWritten, WrittenAt
  <2>5. legs[r] = [a \in DOMAIN legs[r] |-> legs[r][a]]
    BY DEF Inv, TypeInv, TypeOK, IsLegs
  <2> HIDE DEF P, D
  <2>6. QED BY <2>2, <2>3, <2>4, <2>5
<1>4. QED BY <1>2, <1>3

\* Of another transaction only the status changes, and only of the void's target.
LEMMA OtherRows ==
  ASSUME Inv, TransactionsInv, NEW r \in Request, Writes(r), NEW t \in Request, t # r
  PROVE  /\ transactions'[t].reference = transactions[t].reference
         /\ transactions'[t].original = transactions[t].original
         /\ transactions'[t].status # "none" <=> transactions[t].status # "none"
         /\ transactions[t].status = "void" => transactions'[t].status = "void"
         /\ op[r].kind = "void" /\ t = op[r].target => transactions'[t].status = "void"
         /\ ~(op[r].kind = "void" /\ t = op[r].target) => transactions'[t] = transactions[t]
<1>1. transactions[t] \in TransactionRow
  BY DEF Inv, TypeInv, TypeOK
<1>2. transactions'[t] = IF op[r].kind = "void" /\ t = op[r].target
                         THEN [transactions[t] EXCEPT !.status = "void"] ELSE transactions[t]
  BY RowsWritten
<1>3. op[r].kind = "void" => transactions[op[r].target].status = "posted"
  BY RowsWritten
<1>4. QED BY <1>1, <1>2, <1>3 DEF TransactionRow

LEMMA OwnRow ==
  ASSUME Inv, TransactionsInv, NEW r \in Request, Writes(r)
  PROVE  /\ transactions'[r].status = "posted"
         /\ transactions'[r].reference = IF IsPost(op[r]) THEN op[r].reference ELSE NoRef
         /\ transactions'[r].original = IF IsPost(op[r]) THEN NoRequest ELSE op[r].target
<1>1. transactions'[r] = TransactionWritten(r)
  BY RowsWritten
<1>2. CASE IsPost(op[r])
  BY <1>1, <1>2 DEF TransactionWritten
<1>3. CASE ~IsPost(op[r])
  BY <1>1, <1>3 DEF TransactionWritten
<1>4. QED BY <1>2, <1>3

LEMMA WriteCommits ==
  ASSUME Inv, TransactionsInv, NEW r \in Request, Writes(r), OthersUntouched(r), AnswersUntouched(r)
  PROVE  RowsAreCommits'
<1>1. \A a \in Account : \A n \in DOMAIN entries'[a] : transactions'[entries'[a][n].tx].status # "none"
  <2>1. ASSUME NEW a \in Account, NEW n \in DOMAIN entries[a]
        PROVE  transactions'[entries[a][n].tx].status # "none"
    <3>1. entries[a][n].tx \in Request
      BY DEF Inv, TypeInv, TypeOK, IsHistory, Entry
    <3>2. transactions[entries[a][n].tx].status # "none" /\ entries[a][n].tx # r
      BY NothingYet DEF TransactionsInv, RowsAreCommits
    <3>3. QED BY <3>1, <3>2, OtherRows
  <2>2. SUFFICES ASSUME NEW a \in Account, NEW n \in DOMAIN entries'[a]
                 PROVE  transactions'[entries'[a][n].tx].status # "none"
    OBVIOUS
  <2>3. CASE a \in DOMAIN legs[r]
    <3> DEFINE next == accounts[a].currentSequence + 1
    <3>1. /\ DOMAIN entries'[a] = DOMAIN entries[a] \cup {next}
          /\ \A k \in DOMAIN entries[a] : entries'[a][k] = entries[a][k]
          /\ entries'[a][next] = [tx |-> r, direction |-> legs[r][a].direction,
                                  amount |-> legs[r][a].amount]
      BY <2>3, EntryAppended
    <3> HIDE DEF next
    <3>2. entries'[a][next].tx = r /\ transactions'[r].status # "none"
      BY <3>1, OwnRow
    <3>3. QED BY <2>1, <2>2, <3>1, <3>2
  <2>4. CASE a \notin DOMAIN legs[r]
    BY <2>1, <2>2, <2>4, EntriesWritten DEF KeptAt
  <2>5. QED BY <2>3, <2>4
<1>2. ASSUME NEW t \in Request, transactions'[t].status = "none"
      PROVE  transactions'[t] = NoTransaction
  <2>1. t # r
    BY <1>2, OwnRow
  <2>2. transactions[t].status = "none" /\ transactions'[t] = transactions[t]
    BY <1>2, <2>1, OtherRows
  <2>3. QED BY <2>2 DEF TransactionsInv, RowsAreCommits
<1>3. ASSUME NEW q \in Request
      PROVE  /\ BeforeCommit(q)' => transactions'[q] = NoTransaction
             /\ pc'[q] # "done" => result'[q] = NoResult
             /\ pc'[q] \in {"plan", "snapshot"} =>
                  /\ transactions'[q].status # "none"
                  /\ IsPost(op'[q]) => transactions'[q].reference = op'[q].reference
  <2>1. /\ BeforeCommit(q) => transactions[q] = NoTransaction
        /\ pc[q] # "done" => result[q] = NoResult
        /\ pc[q] \in {"plan", "snapshot"} =>
             /\ transactions[q].status # "none"
             /\ IsPost(op[q]) => transactions[q].reference = op[q].reference
    BY DEF TransactionsInv, RowsAreCommits
  <2>2. CASE q # r
    <3>1. pc'[q] = pc[q] /\ op'[q] = op[q] /\ result'[q] = result[q]
      BY <2>2 DEF OthersUntouched, Untouched, AnswersUntouched
    <3>2. BeforeCommit(q)' <=> BeforeCommit(q)
      BY <3>1 DEF BeforeCommit
    <3>3. BeforeCommit(q) => transactions'[q] = NoTransaction
      <4>1. SUFFICES ASSUME BeforeCommit(q) PROVE transactions'[q] = NoTransaction
        OBVIOUS
      <4>2. transactions[q] = NoTransaction /\ transactions[q].status = "none"
        BY <2>1, <4>1 DEF NoTransaction
      <4>3. op[r].kind = "void" => q # op[r].target
        BY <4>2, RowsWritten
      <4>4. QED BY <2>2, <4>2, <4>3, OtherRows
    <3>4. QED BY <2>1, <2>2, <3>1, <3>2, <3>3, OtherRows
  <2>3. CASE q = r
    BY <2>1, <2>3, OwnRow DEF Writes, BeforeCommit
  <2>4. QED BY <2>2, <2>3
<1>4. QED BY <1>1, <1>2, <1>3 DEF RowsAreCommits

LEMMA WriteEntries ==
  ASSUME Inv, TransactionsInv, NEW r \in Request, Writes(r)
  PROVE  RowsAreDoubleEntries'
<1>1. ASSUME NEW a \in Account, NEW m \in DOMAIN entries'[a], NEW n \in DOMAIN entries'[a],
             entries'[a][m].tx = entries'[a][n].tx
      PROVE  m = n
  <2>1. \A k, l \in DOMAIN entries[a] : entries[a][k].tx = entries[a][l].tx => k = l
    BY DEF TransactionsInv, RowsAreDoubleEntries
  <2>2. CASE a \in DOMAIN legs[r]
    <3> DEFINE next == accounts[a].currentSequence + 1
    <3>1. /\ DOMAIN entries'[a] = DOMAIN entries[a] \cup {next}
          /\ \A k \in DOMAIN entries[a] : entries'[a][k] = entries[a][k]
          /\ entries'[a][next] = [tx |-> r, direction |-> legs[r][a].direction,
                                  amount |-> legs[r][a].amount]
      BY <2>2, EntryAppended
    <3> HIDE DEF next
    <3>2. entries'[a][next].tx = r /\ \A k \in DOMAIN entries[a] : entries'[a][k].tx # r
      BY <1>1, <3>1, NothingYet
    <3>3. QED BY <1>1, <2>1, <3>1, <3>2
  <2>3. CASE a \notin DOMAIN legs[r]
    BY <1>1, <2>1, <2>3, EntriesWritten DEF KeptAt
  <2>4. QED BY <2>2, <2>3
<1>2. IsDoubleEntry(legs[r])
  <2>1. Entitled(op[r], legs[r]) /\ op[r] \in Op
    BY NothingYet
  <2>2. CASE IsPost(op[r])
    BY <2>1, <2>2, LegsAreDouble DEF Entitled
  <2>3. CASE op[r].kind = "void"
    <3>1. op[r].target \in Request
      BY <2>3, RowsWritten
    <3>2. IsDoubleEntry(Serial!LegsWritten(op[r].target)) /\ IsLegs(Serial!LegsWritten(op[r].target))
      BY <2>1, <2>3, <3>1, LegsWrittenType
         DEF Entitled, TransactionsInv, RowsAreDoubleEntries, Inv, TypeInv
    <3>3. QED BY <2>1, <2>3, <3>2, ReversalIsDouble DEF Entitled
  <2>4. QED BY <2>2, <2>3 DEF Writes
<1>3. ASSUME NEW t \in Request, transactions'[t].status # "none"
      PROVE  IsDoubleEntry(Serial!LegsWritten(t))'
  <2>1. CASE t = r
    <3>1. Serial!LegsWritten(t)' = legs[r]
      BY <2>1, LegsRead
    <3>2. QED BY <1>2, <3>1 DEF IsDoubleEntry
  <2>2. CASE t # r
    <3>1. IsDoubleEntry(Serial!LegsWritten(t))
      BY <1>3, <2>2, OtherRows DEF TransactionsInv, RowsAreDoubleEntries
    <3>2. Serial!LegsWritten(t)' = Serial!LegsWritten(t)
      BY <2>2, LegsRead
    <3>3. QED BY <3>1, <3>2 DEF IsDoubleEntry
  <2>3. QED BY <2>1, <2>2
<1>4. QED BY <1>1, <1>3 DEF RowsAreDoubleEntries

LEMMA WriteLegs ==
  ASSUME Inv, TransactionsInv, NEW r \in Request, Writes(r), OthersUntouched(r)
  PROVE  LegsAreOfTheRequest'
<1>1. ASSUME NEW q \in Request, pc'[q] # "idle", BeforeCommit(q)',
             NEW o, NEW ls, o = op'[q], ls = legs'[q]
      PROVE  Entitled(o, ls)'
  <2>1. q # r
    BY <1>1 DEF Writes, BeforeCommit
  <2>2. pc'[q] = pc[q] /\ op'[q] = op[q] /\ legs'[q] = legs[q]
    BY <2>1 DEF OthersUntouched, Untouched
  <2>3. Entitled(o, ls) /\ o \in Op
    BY <1>1, <2>2, LegsAreEntitled, OpInFlight DEF TransactionsInv, BeforeCommit
  <2>4. ASSUME o.kind = "void"
        PROVE  /\ transactions'[o.target].status # "none"
               /\ Serial!LegsWritten(o.target)' = Serial!LegsWritten(o.target)
    <3>1. o.target \in Request /\ transactions[o.target].status # "none"
      BY <2>3, <2>4, OpOfKind DEF VoidOp, Entitled
    <3>2. o.target # r
      BY <3>1, NothingYet DEF NoTransaction
    <3>3. QED BY <3>1, <3>2, OtherRows, LegsRead
  <2>5. \A a \in Account : Exists(a) => Exists(a)'
    BY EntriesWritten
  <2>6. QED BY <2>3, <2>4, <2>5, EntitledStays
<1>2. QED BY <1>1 DEF LegsAreOfTheRequest, Entitled

\* r adds itself to the transactions of its reference, which had none.
LEMMA CommittedWith ==
  ASSUME Inv, TransactionsInv, NEW r \in Request, Writes(r), NEW ref, ref # NoRef
  PROVE  IF IsPost(op[r]) /\ op[r].reference = ref
         THEN Committed(ref) = {} /\ Inserted(ref) = {r} /\ Committed(ref)' = {r}
         ELSE Committed(ref)' = Committed(ref)
<1>1. \A t \in Request : t # r => transactions'[t].reference = transactions[t].reference
  BY OtherRows
<1>2. transactions[r].reference = NoRef
  BY NothingYet DEF NoTransaction
<1>3. transactions'[r].reference = IF IsPost(op[r]) THEN op[r].reference ELSE NoRef
  BY OwnRow
<1>4. CASE IsPost(op[r]) /\ op[r].reference = ref
  <2>1. Committed(ref) = {} /\ Inserted(ref) = {r}
    BY <1>4 DEF TransactionsInv, ReferencesAreUnique, UsesReference, Writes
  <2>2. \A t \in Request : t # r => t \notin Committed(ref)'
    BY <1>1, <2>1 DEF Committed
  <2>3. r \in Committed(ref)' /\ Committed(ref)' \subseteq Request
    BY <1>3, <1>4 DEF Committed
  <2>4. QED BY <1>4, <2>1, <2>2, <2>3
<1>5. CASE ~(IsPost(op[r]) /\ op[r].reference = ref)
  <2>1. transactions'[r].reference # ref
    BY <1>3, <1>5
  <2>2. QED BY <1>1, <1>2, <1>5, <2>1 DEF Committed
<1>6. QED BY <1>4, <1>5

LEMMA WriteReferences ==
  ASSUME Inv, TransactionsInv, NEW r \in Request, Writes(r), OthersUntouched(r)
  PROVE  ReferencesAreUnique'
<1>1. ASSUME NEW q \in Request, NEW ref, ref = transactions'[q].reference, ref # NoRef
      PROVE  Committed(ref)' = {q}
  <2>1. CASE q = r
    <3>1. IsPost(op[r]) /\ op[r].reference = ref
      BY <1>1, <2>1, OwnRow
    <3>2. QED BY <1>1, <2>1, <3>1, CommittedWith
  <2>2. CASE q # r
    <3>1. transactions[q].reference = ref
      BY <1>1, <2>2, OtherRows
    <3>2. Committed(ref) = {q}
      BY <1>1, <3>1 DEF TransactionsInv, ReferencesAreUnique
    <3>3. QED BY <1>1, <3>2, CommittedWith
  <2>3. QED BY <2>1, <2>2
<1>2. ASSUME NEW q \in Request, NEW ref, ref = op'[q].reference, UsesReference(q)'
      PROVE  Committed(ref)' = {} /\ Inserted(ref)' = {q}
  <2>1. q # r
    BY <1>2 DEF Writes, UsesReference
  <2>2. \A u \in Request : u # r => pc'[u] = pc[u] /\ op'[u] = op[u]
    BY DEF OthersUntouched, Untouched
  <2>3. UsesReference(q) /\ op[q].reference = ref /\ ref # NoRef
    BY <1>2, <2>1, <2>2 DEF UsesReference
  <2>4. Committed(ref) = {} /\ Inserted(ref) = {q}
    BY <2>3 DEF TransactionsInv, ReferencesAreUnique
  <2>5. Committed(ref)' = {}
    BY <2>1, <2>3, <2>4, CommittedWith
  <2>6. \A u \in Request : u # r => (u \in Inserted(ref)' <=> u \in Inserted(ref))
    BY <2>2 DEF Inserted
  <2>7. r \notin Inserted(ref)' /\ Inserted(ref)' \subseteq Request
    BY DEF Writes, Inserted
  <2>8. QED BY <2>1, <2>4, <2>5, <2>6, <2>7
<1>3. QED BY <1>1, <1>2 DEF ReferencesAreUnique

\* Two voids of one transaction exclude each other: they lock the same rows.
LEMMA OneVoidAtATime ==
  ASSUME Inv, TransactionsInv, NEW r \in Request, NEW q \in Request,
         pc[r] = "commit", op[r].kind = "void", pc[q] = "commit", op[q].kind = "void",
         op[r].target = op[q].target
  PROVE  q = r
<1>1. InTransaction(r) /\ InTransaction(q) /\ BeforeCommit(r) /\ BeforeCommit(q)
  BY DEF InTransaction, BeforeCommit
<1>2. legs[r] = legs[q]
  BY <1>1 DEF TransactionsInv, LegsAreOfTheRequest
<1>3. Targets(r) = Targets(q)
  BY <1>2 DEF Targets
<1>4. PICK a \in Targets(r) : lock[a] = r
  BY <1>1 DEF Inv, LedgerInv, AllRowsAreHeld
<1>5. lock[a] = q
  BY <1>1, <1>3, <1>4 DEF Inv, LedgerInv, AllRowsAreHeld
<1>6. QED BY <1>4, <1>5

LEMMA WriteReversals ==
  ASSUME Inv, TransactionsInv, NEW r \in Request, Writes(r), OthersUntouched(r)
  PROVE  ReversalsAreUnique'
<1>1. ASSUME NEW q \in Request, pc'[q] = "commit", op'[q].kind = "void"
      PROVE  transactions'[op'[q].target].status = "posted"
  <2>1. q # r
    BY <1>1 DEF Writes
  <2>2. pc[q] = "commit" /\ op[q].kind = "void" /\ op'[q] = op[q]
    BY <1>1, <2>1 DEF OthersUntouched, Untouched
  <2>3. transactions[op[q].target].status = "posted"
    BY <2>2 DEF TransactionsInv, ReversalsAreUnique
  <2>4. op[q].target \in Request
    BY <2>2, OpInFlight, OpOfKind DEF VoidOp
  <2>5. op[q].target # r
    BY <2>3, NothingYet DEF NoTransaction
  <2>6. ~(op[r].kind = "void" /\ op[q].target = op[r].target)
    BY <2>1, <2>2, OneVoidAtATime DEF Writes
  <2>7. QED BY <2>2, <2>3, <2>4, <2>5, <2>6, OtherRows
<1>2. ASSUME NEW t \in Request, transactions'[t].status = "void"
      PROVE  \E u \in Request : IsReversalOf(u, t)'
  <2>1. t # r
    BY <1>2, OwnRow
  <2>2. CASE op[r].kind = "void" /\ t = op[r].target
    <3>1. ~IsPost(op[r])
      BY <2>2 DEF IsPost
    <3>2. transactions'[r].original = t
      BY <2>2, <3>1, OwnRow
    <3>3. QED BY <3>2 DEF IsReversalOf
  <2>3. CASE ~(op[r].kind = "void" /\ t = op[r].target)
    <3>1. transactions[t].status = "void"
      BY <1>2, <2>1, <2>3, OtherRows
    <3>2. PICK u \in Request : transactions[u].original = t
      BY <3>1 DEF TransactionsInv, ReversalsAreUnique, IsReversalOf
    <3>3. u # r
      BY <3>2, NothingYet, RequestAssumption DEF NoTransaction
    <3>4. QED BY <3>2, <3>3, OtherRows DEF IsReversalOf
  <2>4. QED BY <2>2, <2>3
<1>3. ASSUME NEW t \in Request, NEW u \in Request, transactions'[u].original = t
      PROVE  /\ transactions'[t].status = "void"
             /\ Serial!LegsWritten(u)' = ReversalLegs(Serial!LegsWritten(t)')
             /\ \A w \in Request : transactions'[w].original = t => w = u
  <2>1. CASE u = r
    <3>1. op[r].kind = "void" /\ ~IsPost(op[r]) /\ t = op[r].target
      BY <1>3, <2>1, OwnRow, RequestAssumption DEF Writes, IsPost
    <3>2. t # r /\ transactions[t].status = "posted"
      BY <3>1, RowsWritten
    <3>3. transactions'[t].status = "void"
      BY <3>1, <3>2, OtherRows
    <3>4. legs[r] = ReversalLegs(Serial!LegsWritten(t))
      BY <3>1, NothingYet DEF Entitled
    <3>5. Serial!LegsWritten(r)' = legs[r] /\ Serial!LegsWritten(t)' = Serial!LegsWritten(t)
      BY <3>2, LegsRead
    <3>6. ASSUME NEW w \in Request, w # r PROVE transactions'[w].original # t
      <4>1. transactions[w].original # t
        BY <3>2 DEF TransactionsInv, ReversalsAreUnique, IsReversalOf
      <4>2. QED BY <3>6, <4>1, OtherRows
    <3>7. QED BY <2>1, <3>3, <3>4, <3>5, <3>6
  <2>2. CASE u # r
    <3>1. transactions[u].original = t
      BY <1>3, <2>2, OtherRows
    <3>2. /\ transactions[t].status = "void"
          /\ Serial!LegsWritten(u) = ReversalLegs(Serial!LegsWritten(t))
          /\ \A w \in Request : transactions[w].original = t => w = u
      BY <3>1 DEF TransactionsInv, ReversalsAreUnique, IsReversalOf
    <3>3. t # r
      BY <3>2, NothingYet DEF NoTransaction
    <3>4. transactions'[t].status = "void"
      BY <3>2, <3>3, OtherRows
    <3>5. transactions'[r].original # t
      BY <3>2, OwnRow, RowsWritten, RequestAssumption DEF Writes
    <3>6. /\ Serial!LegsWritten(u)' = Serial!LegsWritten(u)
          /\ Serial!LegsWritten(t)' = Serial!LegsWritten(t)
      BY <2>2, <3>3, LegsRead
    <3>7. QED BY <3>2, <3>4, <3>5, <3>6, OtherRows
  <2>3. QED BY <2>1, <2>2
<1>4. QED BY <1>1, <1>2, <1>3 DEF ReversalsAreUnique, IsReversalOf, ReversalLegs

LEMMA WriteAnswers ==
  ASSUME Inv, TransactionsInv, NEW r \in Request, Writes(r), OthersUntouched(r), AnswersUntouched(r)
  PROVE  AnswersAreTrue'
<1>1. ASSUME NEW q \in Request, NEW ref, ref = op'[q].reference
      PROVE  /\ result'[q].code \notin {"none", "OK", "INTERNAL_ERROR"} =>
                  transactions'[q].status = "none"
             /\ result'[q].code = "OK" /\ IsPost(op'[q]) /\ ref # NoRef =>
                  Committed(ref)' = {result'[q].tx}
  <2>1. CASE q = r
    BY <2>1, NothingYet DEF Writes, NoResult
  <2>2. CASE q # r
    <3>1. op'[q] = op[q] /\ result'[q] = result[q]
      BY <2>2 DEF OthersUntouched, Untouched, AnswersUntouched
    <3>2. /\ result[q].code \notin {"none", "OK", "INTERNAL_ERROR"} => transactions[q].status = "none"
          /\ result[q].code = "OK" /\ IsPost(op[q]) /\ ref # NoRef => Committed(ref) = {result[q].tx}
      BY <1>1, <3>1 DEF TransactionsInv, AnswersAreTrue
    <3>3. QED BY <2>2, <3>1, <3>2, OtherRows, CommittedWith
  <2>3. QED BY <2>1, <2>2
<1>2. QED BY <1>1 DEF AnswersAreTrue

LEMMA WriteKeeps ==
  ASSUME Inv, TransactionsInv, NEW r \in Request, Writes(r), OthersUntouched(r), AnswersUntouched(r)
  PROVE  TransactionsInv'
BY WriteCommits, WriteEntries, WriteLegs, WriteReferences, WriteReversals, WriteAnswers
   DEF TransactionsInv

-----------------------------------------------------------------------------
(* The invariant *)

LEMMA InitialTransactions == Init => TransactionsInv
<1> SUFFICES ASSUME Init PROVE TransactionsInv
  OBVIOUS
<1>1. /\ \A t \in Request : /\ transactions[t] = NoTransaction /\ pc[t] = "idle"
                            /\ result[t] = NoResult
      /\ \A a \in Account : entries[a] = <<>>
  BY DEF Init
<1>2. /\ NoTransaction.status = "none" /\ NoTransaction.reference = NoRef
      /\ NoTransaction.original = NoRequest /\ NoResult.code = "none"
  BY DEF NoTransaction, NoResult
<1>3. RowsAreCommits
  BY <1>1 DEF RowsAreCommits
<1>4. RowsAreDoubleEntries
  BY <1>1, <1>2 DEF RowsAreDoubleEntries
<1>5. LegsAreOfTheRequest
  BY <1>1 DEF LegsAreOfTheRequest
<1>6. ReferencesAreUnique
  BY <1>1, <1>2 DEF ReferencesAreUnique, UsesReference
<1>7. ReversalsAreUnique
  BY <1>1, <1>2, RequestAssumption DEF ReversalsAreUnique, IsReversalOf
<1>8. AnswersAreTrue
  BY <1>1, <1>2 DEF AnswersAreTrue
<1>9. QED BY <1>3, <1>4, <1>5, <1>6, <1>7, <1>8 DEF TransactionsInv

LEMMA TransactionsStep == Inv /\ TransactionsInv /\ [Next]_vars => TransactionsInv'
<1> SUFFICES ASSUME Inv, TransactionsInv, [Next]_vars PROVE TransactionsInv'
  OBVIOUS
<1>1. Inv'
  BY InvStep
<1>2. CASE UNCHANGED vars
  <2>1. UNCHANGED <<accounts, transactions, entries, pc, op, legs, result>>
    BY <1>2 DEF vars
  <2>2. \A t : Serial!LegsWritten(t)' = Serial!LegsWritten(t)
    BY <2>1 DEF Serial!LegsWritten
  <2>3. RowsAreCommits'
    BY <2>1 DEF TransactionsInv, RowsAreCommits, BeforeCommit
  <2>4. RowsAreDoubleEntries'
    <3>1. ASSUME NEW t \in Request, IsDoubleEntry(Serial!LegsWritten(t))
          PROVE  IsDoubleEntry(Serial!LegsWritten(t))'
      <4>1. Serial!LegsWritten(t)' = Serial!LegsWritten(t)
        BY <2>2
      <4>2. QED BY <3>1, <4>1 DEF IsDoubleEntry
    <3>2. QED BY <2>1, <3>1 DEF TransactionsInv, RowsAreDoubleEntries
  <2>5. LegsAreOfTheRequest'
    BY <2>1, <2>2 DEF TransactionsInv, LegsAreOfTheRequest, BeforeCommit, Exists
  <2>6. ReferencesAreUnique'
    BY <2>1 DEF TransactionsInv, ReferencesAreUnique, UsesReference, Committed, Inserted
  <2>7. ReversalsAreUnique'
    BY <2>1, <2>2 DEF TransactionsInv, ReversalsAreUnique, IsReversalOf
  <2>8. AnswersAreTrue'
    BY <2>1 DEF TransactionsInv, AnswersAreTrue, Committed
  <2>9. QED BY <2>3, <2>4, <2>5, <2>6, <2>7, <2>8 DEF TransactionsInv
<1>3. ASSUME NEW r \in Request, Receive(r) \/ Step(r) \/ Fault(r)
      PROVE  TransactionsInv'
  BY <1>1, <1>3, ActionKind, QuietKeeps, WriteKeeps DEF Kinds, Quiet
<1>4. QED BY <1>2, <1>3 DEF Next

AllInv == Inv /\ RulesInv /\ TransactionsInv

LEMMA AllInvariant == Spec => []AllInv
<1>1. Init => AllInv
  BY InitialInv, InitialRules, InitialTransactions DEF AllInv
<1>2. AllInv /\ [Next]_vars => AllInv'
  BY InvStep, RulesStep, TransactionsStep DEF AllInv
<1>3. QED BY <1>1, <1>2, PTL DEF Spec

\* The rows of transactions, their entries and the requests in flight agree.
THEOREM TransactionsInvariant == Spec => []TransactionsInv
<1>1. QED BY AllInvariant, PTL DEF AllInv

-----------------------------------------------------------------------------
(* What follows *)

\* A reference never moves money twice, and an OK names the transaction that has it.
THEOREM ReferencesMoveMoneyOnce == Spec => []ReferencesAreIdempotent
<1>1. TransactionsInv => ReferencesAreIdempotent
  BY DEF TransactionsInv, ReferencesAreUnique, AnswersAreTrue, ReferencesAreIdempotent
<1>2. QED BY <1>1, TransactionsInvariant, PTL

LEMMA NoEntries ==
  ASSUME RowsAreCommits, NEW t \in Request, transactions[t].status = "none"
  PROVE  EntriesOf(t) = {}
BY DEF RowsAreCommits, EntriesOf

\* A request answered with a status from 400 to 499 wrote nothing.
THEOREM RejectionIsAtomic == Spec => []RejectionsLeaveNoTrace
<1>1. TransactionsInv => RejectionsLeaveNoTrace
  <2> SUFFICES ASSUME TransactionsInv, NEW r \in Request, result[r].code # "none",
                      ResponseStatus(result[r].code) \in 400..499
               PROVE  transactions[r].status = "none" /\ EntriesOf(r) = {}
    BY DEF RejectionsLeaveNoTrace
  <2>1. result[r].code # "OK" /\ result[r].code # "INTERNAL_ERROR"
    BY DEF ResponseStatus
  <2>2. transactions[r].status = "none"
    BY <2>1 DEF TransactionsInv, AnswersAreTrue
  <2>3. QED BY <2>2, NoEntries DEF TransactionsInv
<1>2. QED BY <1>1, TransactionsInvariant, PTL

LEMMA CompleteEntries ==
  ASSUME TypeOK, RowsAreDoubleEntries, NEW t \in Request, transactions[t].status # "none"
  PROVE  \E x, y \in EntriesOf(t) :
           /\ EntriesOf(t) = {x, y} /\ x[1] # y[1]
           /\ entries[x[1]][x[2]].direction = "debit"
           /\ entries[y[1]][y[2]].direction = "credit"
           /\ CurrencyOf[x[1]] = CurrencyOf[y[1]] =>
                entries[x[1]][x[2]].amount = entries[y[1]][y[2]].amount
<1> DEFINE ls == Serial!LegsWritten(t)
           P(a) == CHOOSE n \in WrittenAt(t, a) : TRUE
<1>1. PICK d, c \in DOMAIN ls :
        /\ DOMAIN ls = {d, c} /\ d # c
        /\ ls[d].direction = "debit" /\ ls[c].direction = "credit"
        /\ CurrencyOf[d] = CurrencyOf[c] => ls[d].amount = ls[c].amount
  BY DEF RowsAreDoubleEntries, IsDoubleEntry
<1>2. /\ DOMAIN ls = {a \in Account : WrittenAt(t, a) # {}}
      /\ \A a \in DOMAIN ls : /\ ls[a].direction = entries[a][P(a)].direction
                              /\ ls[a].amount = entries[a][P(a)].amount
  BY LegsWrittenAt
<1>3. ASSUME NEW a \in DOMAIN ls
      PROVE  WrittenAt(t, a) = {P(a)} /\ a \in Account
  <2>1. a \in Account /\ P(a) \in WrittenAt(t, a)
    BY <1>2
  <2> HIDE DEF P
  <2>2. \A n \in WrittenAt(t, a) : n = P(a)
    BY <2>1 DEF RowsAreDoubleEntries, WrittenAt
  <2>3. QED BY <2>1, <2>2
<1> DEFINE x == <<d, P(d)>>
           y == <<c, P(c)>>
<1>4. /\ x[1] = d /\ x[2] = P(d) /\ y[1] = c /\ y[2] = P(c)
  OBVIOUS
<1>5. EntriesOf(t) = {x, y}
  <2>1. EntriesOf(t) = UNION {{<<a, n>> : n \in WrittenAt(t, a)} : a \in Account}
    BY DEF EntriesOf, WrittenAt
  <2>2. \A a \in Account : a \notin DOMAIN ls => WrittenAt(t, a) = {}
    BY <1>2
  <2> HIDE DEF ls, P
  <2>3. QED BY <1>1, <1>3, <2>1, <2>2
<1> HIDE DEF ls, P, x, y
<1>6. x \in EntriesOf(t) /\ y \in EntriesOf(t)
  BY <1>5
<1>7. /\ x[1] # y[1]
      /\ entries[x[1]][x[2]].direction = "debit"
      /\ entries[y[1]][y[2]].direction = "credit"
      /\ CurrencyOf[x[1]] = CurrencyOf[y[1]] =>
           entries[x[1]][x[2]].amount = entries[y[1]][y[2]].amount
  BY <1>1, <1>2, <1>4
<1>8. QED BY <1>5, <1>6, <1>7

\* No transfer is ever partial, and no entry stands alone.
THEOREM NoPartialTransaction == Spec => []TransactionsAreComplete
<1>1. AllInv => TransactionsAreComplete
  BY NoEntries, CompleteEntries
     DEF AllInv, Inv, TypeInv, TransactionsInv, TransactionsAreComplete
<1>2. QED BY <1>1, AllInvariant, PTL

\* A transaction is reversed at most once, by its mirror image, and exactly the
\* reversed ones are void.
THEOREM NoDoubleReversal == Spec => []VoidedOnce
<1>1. TransactionsInv => VoidedOnce
  <2> SUFFICES ASSUME TransactionsInv, NEW t \in Request
               PROVE  LET reversals == {u \in Request : transactions[u].original = t}
                      IN  /\ Cardinality(reversals)
                               = (IF transactions[t].status = "void" THEN 1 ELSE 0)
                          /\ \A u \in reversals :
                               Serial!LegsWritten(u) = ReversalLegs(Serial!LegsWritten(t))
    BY DEF VoidedOnce
  <2> DEFINE reversals == {u \in Request : transactions[u].original = t}
  <2>1. \A u \in reversals : /\ transactions[t].status = "void"
                             /\ Serial!LegsWritten(u) = ReversalLegs(Serial!LegsWritten(t))
                             /\ \A w \in reversals : w = u
    BY DEF TransactionsInv, ReversalsAreUnique, IsReversalOf
  <2>2. CASE transactions[t].status = "void"
    <3>1. PICK u \in Request : transactions[u].original = t
      BY <2>2 DEF TransactionsInv, ReversalsAreUnique, IsReversalOf
    <3>2. reversals = {u}
      BY <2>1, <3>1
    <3>3. Cardinality({u}) = 1
      BY FS_Singleton
    <3>4. QED BY <2>1, <2>2, <3>2, <3>3
  <2>3. CASE transactions[t].status # "void"
    <3>1. reversals = {}
      BY <2>1, <2>3
    <3>2. Cardinality({}) = 0
      BY FS_EmptySet
    <3>3. QED BY <2>1, <2>3, <3>1, <3>2
  <2>4. QED BY <2>2, <2>3
<1>2. QED BY <1>1, TransactionsInvariant, PTL

-----------------------------------------------------------------------------
(* The log *)

EventsExtended(a) ==
  /\ Len(accountEvents[a]) <= Len(accountEvents'[a])
  /\ \A n \in 1 .. Len(accountEvents[a]) : accountEvents'[a][n] = accountEvents[a][n]

LEMMA EventsOnlyAppended ==
  ASSUME Inv, NEW r \in Request, KeptOrCommitted(r), NEW a \in Account
  PROVE  EventsExtended(a)
<1>1. accountEvents \in [Account -> Seq(AccountEvent)]
  BY DEF Inv, TypeInv, TypeOK
<1>2. CASE accountEvents' = accountEvents
  BY <1>1, <1>2 DEF EventsExtended
<1>3. ASSUME NEW b, NEW e \in AccountEvent, accountEvents' = [accountEvents EXCEPT ![b] = Append(@, e)]
      PROVE  EventsExtended(a)
  BY <1>1, <1>3 DEF EventsExtended
<1>4. CASE TablesKept
  BY <1>2, <1>4 DEF TablesKept, tables
<1>5. CASE Creates(r)
  <2>1. PICK o \in Workload : ReceiveCreate(r, o)
    BY <1>5 DEF Creates
  <2>2. o.overdraftLimit \in Nat
    BY <2>1, WorkloadAssumption, OpOfKind DEF ReceiveCreate, CreateOp
  <2>3. LimitEvent("account_opened", o.overdraftLimit) \in AccountEvent
    BY <2>2 DEF LimitEvent, AccountEvent
  <2>4. QED BY <1>3, <2>1, <2>3 DEF ReceiveCreate
<1>6. CASE Commits(r)
  <2>1. op[r] \in Op /\ Write(r)
    BY <1>6, OpInFlight DEF Commits
  <2>2. CASE IsPost(op[r]) \/ op[r].kind = "void"
    BY <1>2, <2>1, <2>2 DEF Write, WritePost, WriteVoid, IsPost
  <2>3. CASE op[r].kind = "status"
    <3>1. StatusEvent(op[r].status) \in AccountEvent
      BY DEF StatusEvent, AccountEvent
    <3>2. QED BY <1>3, <2>1, <2>3, <3>1 DEF Write, WriteStatus, IsPost
  <2>4. CASE ~IsPost(op[r]) /\ op[r].kind \notin {"void", "status"}
    <3>1. op[r].kind = "limit"
      BY <1>6, <2>4 DEF Commits, Inv, TypeInv, StatementsFit, StatementFits
    <3>2. op[r].overdraftLimit \in Nat
      BY <2>1, <3>1, OpOfKind DEF LimitOp
    <3>3. LimitEvent("limit_changed", op[r].overdraftLimit) \in AccountEvent
      BY <3>2 DEF LimitEvent, AccountEvent
    <3>4. QED BY <1>3, <2>1, <2>4, <3>3 DEF Write, WriteLimit
  <2>5. QED BY <2>2, <2>3, <2>4
<1>7. QED BY <1>4, <1>5, <1>6 DEF KeptOrCommitted

LEMMA LogStep == AllInv /\ [Next]_vars => AppendOnlyStep
<1> SUFFICES ASSUME AllInv, [Next]_vars PROVE AppendOnlyStep
  OBVIOUS
<1>1. Inv /\ TransactionsInv
  BY DEF AllInv
<1>2. CASE UNCHANGED vars
  <2>1. \A a \in Account : accountEvents[a] \in Seq(AccountEvent)
    BY <1>1 DEF Inv, TypeInv, TypeOK
  <2>2. QED BY <1>2, <2>1 DEF vars, AppendOnlyStep
<1>3. ASSUME NEW r \in Request, Receive(r) \/ Step(r) \/ Fault(r)
      PROVE  AppendOnlyStep
  <2>1. Kinds(r) /\ KeptOrCommitted(r)
    BY <1>1, <1>3, ActionKind, ActionWrites DEF Inv, TypeInv
  <2>2. \A a \in Account : EventsExtended(a)
    BY <1>1, <2>1, EventsOnlyAppended
  <2>3. CASE Quiet(r)
    <3>1. UNCHANGED <<transactions, entries>>
      BY <2>3, QuietRows DEF RowsStay
    <3>2. QED BY <2>2, <3>1 DEF AppendOnlyStep, EventsExtended
  <2>4. CASE Writes(r)
    <3>1. ASSUME NEW a \in Account, NEW n \in DOMAIN entries[a]
          PROVE  n \in DOMAIN entries'[a] /\ entries'[a][n] = entries[a][n]
      <4>1. CASE a \in DOMAIN legs[r]
        <5> DEFINE next == accounts[a].currentSequence + 1
        <5>1. /\ DOMAIN entries'[a] = DOMAIN entries[a] \cup {next}
              /\ \A k \in DOMAIN entries[a] : entries'[a][k] = entries[a][k]
          BY <1>1, <2>4, <4>1, EntryAppended
        <5>2. QED BY <5>1
      <4>2. CASE a \notin DOMAIN legs[r]
        BY <1>1, <2>4, <4>2, EntriesWritten DEF KeptAt
      <4>3. QED BY <4>1, <4>2
    <3>2. ASSUME NEW t \in Request, transactions[t].status # "none"
          PROVE  transactions'[t] \in {transactions[t], [transactions[t] EXCEPT !.status = "void"]}
      <4>1. t # r
        BY <1>1, <2>4, <3>2, NothingYet DEF NoTransaction
      <4>2. QED BY <1>1, <2>4, <4>1, RowsWritten
    <3>3. QED BY <2>2, <3>1, <3>2 DEF AppendOnlyStep, EventsExtended
  <2>5. QED BY <2>1, <2>3, <2>4 DEF Kinds, Quiet
<1>4. QED BY <1>2, <1>3 DEF Next

\* Nothing in the log is ever changed or removed; of a transaction only the
\* status changes, once, from posted to void.
THEOREM LogIsAppendOnly == Spec => AppendOnly
<1>1. QED BY LogStep, AllInvariant, PTL DEF Spec, AppendOnly

-----------------------------------------------------------------------------
(* No deadlock *)

\* What a step does to the locks: it takes one, it releases those of its
\* request, or it leaves them, and then its request is not about to lock rows
\* while it holds some.
LocksMove(r) == \/ LockRow(r)
                \/ Release(r)
                \/ lock' = lock /\ (pc'[r] = "locking" => ~MayHold(r))

LEMMA AnswerMoves ==
  ASSUME TypeOK, NEW r \in Request, NEW code, NEW tx, Answer(r, code, tx), lock' = lock
  PROVE  LocksMove(r)
BY AnswerResult DEF LocksMove

LEMMA EndMoves ==
  ASSUME NEW r \in Request, NEW code, EndUnwritten(r, code)
  PROVE  LocksMove(r)
BY DEF EndUnwritten, LocksMove

LEMMA ReceiveMoves ==
  ASSUME TypeOK, NEW r \in Request, Receive(r)
  PROVE  LocksMove(r)
<1>1. pc[r] = "idle" /\ lock' = lock
  BY DEF Receive, ReceivePost, ReceiveVoid, ReceiveStatus, ReceiveLimit, ReceiveCreate, CreateLost,
         AnswerAtOnce, Begin
<1>2. QED BY <1>1 DEF LocksMove, MayHold, InTransaction

LEMMA StepMoves ==
  ASSUME TypeOK, NEW r \in Request, Step(r) \/ Fault(r)
  PROVE  LocksMove(r)
<1>1. ASSUME NEW statement, Goto(r, statement), statement # "locking", lock' = lock
      PROVE  LocksMove(r)
  BY <1>1 DEF Goto, LocksMove, TypeOK
<1>2. CASE Lookup(r)
  BY <1>2, AnswerMoves DEF Lookup, LocksMove, MayHold, InTransaction
<1>3. CASE LockRow(r) \/ Commit(r) \/ CommitUnacknowledged(r)
  BY <1>3 DEF Commit, CommitUnacknowledged, LocksMove
<1>4. CASE LockNothing(r) \/ ConnectionLost(r)
  BY <1>4, EndMoves DEF LockNothing, ConnectionLost
<1>5. CASE CheckLegs(r)
  <2>1. CASE /\ Goto(r, IF IsPost(op[r]) THEN "insert" ELSE "mark")
             /\ UNCHANGED <<tables, snapshots, lock, op, Locals>>
    BY <1>1, <2>1
  <2>2. CASE \E a \in DOMAIN legs[r] : EndUnwritten(r, LegOutcome(r, a))
    BY <2>2, EndMoves
  <2>3. QED BY <1>5, <2>1, <2>2 DEF CheckLegs
<1>6. CASE CheckStatus(r)
  BY <1>1, <1>6, EndMoves DEF CheckStatus
<1>7. CASE CheckLimit(r)
  BY <1>1, <1>7, EndMoves DEF CheckLimit
<1>8. CASE InsertTransaction(r)
  BY <1>1, <1>8 DEF InsertTransaction, LocksMove
<1>9. CASE Resolve(r)
  BY <1>9, AnswerMoves DEF Resolve
<1>10. CASE MarkVoid(r)
  BY <1>1, <1>10, EndMoves DEF MarkVoid
<1>11. CASE PlanSnapshot(r)
  <2>1. lock' = lock
    BY <1>11 DEF PlanSnapshot
  <2>2. pc[r] = "plan"
    BY <1>11 DEF PlanSnapshot
  <2>3. QED BY <2>1, <2>2 DEF LocksMove, MayHold, InTransaction
<1>12. CASE InsertSnapshot(r) \/ SnapshotFails(r)
  BY <1>12 DEF InsertSnapshot, SnapshotFails, LocksMove, MayHold, InTransaction
<1>13. CASE LockTimeout(r)
  BY <1>13, EndMoves DEF LockTimeout, LocksMove
<1>14. QED BY <1>2, <1>3, <1>4, <1>5, <1>6, <1>7, <1>8, <1>9, <1>10, <1>11, <1>12, <1>13
           DEF Step, Fault

\* Rows never disappear.
LEMMA RowsRemain ==
  ASSUME AllInv, NEW r \in Request, Kinds(r), NEW a \in Account, Exists(a)
  PROVE  Exists(a)'
<1>1. CASE Quiet(r)
  BY <1>1, QuietRows DEF RowsStay
<1>2. CASE Writes(r)
  BY <1>2, EntriesWritten DEF AllInv
<1>3. QED BY <1>1, <1>2 DEF Kinds, Quiet

\* A request that is locking, and is left alone, stays in order.
LEMMA OrderKept ==
  ASSUME Inv, TypeInv', NEW q \in Request, pc[q] = "locking", op'[q] = op[q], legs'[q] = legs[q],
         \A a \in Account : Exists(a) => Exists(a)',
         \A a \in Account : lock'[a] = q <=> lock[a] = q,
         \A a \in Targets(q), b \in Unlocked(q) : lock[a] = q => a < b
  PROVE  \A a \in Targets(q)', b \in Unlocked(q)' : lock'[a] = q => a < b
<1> SUFFICES ASSUME NEW a \in Targets(q)', NEW b \in Unlocked(q)', lock'[a] = q
             PROVE  a < b
  OBVIOUS
<1>1. a \in Account /\ b \in Account /\ b \in Targets(q)' /\ lock'[b] # q
  BY DEF Unlocked, Targets
<1>2. CASE op[q].kind \in {"status", "limit"}
  BY <1>1, <1>2 DEF Targets
<1>3. CASE op[q].kind \notin {"status", "limit"}
  <2>1. a \in DOMAIN legs[q] /\ b \in DOMAIN legs[q]
    BY <1>1, <1>3 DEF Targets
  <2>2. Exists(a) /\ Exists(b)
    BY <2>1 DEF Inv, LedgerInv, RowsExist
  <2>3. a \in Targets(q) /\ b \in Unlocked(q) /\ lock[a] = q
    BY <1>1, <1>3, <2>1, <2>2 DEF Targets, Unlocked
  <2>4. QED BY <2>3
<1>4. QED BY <1>2, <1>3

\* A lock that is granted is on the smallest of the rows its request wants.
LEMMA OrderGrows ==
  ASSUME Inv, NEW r \in Request, LockRow(r),
         \A a \in Targets(r), b \in Unlocked(r) : lock[a] = r => a < b
  PROVE  \A a \in Targets(r)', b \in Unlocked(r)' : lock'[a] = r => a < b
<1> DEFINE x == NextRow(r)
<1>1. x \in Unlocked(r) /\ \A b \in Unlocked(r) : x <= b
  <2>1. Unlocked(r) # {} /\ Unlocked(r) \in SUBSET Nat
    BY AccountAssumption DEF LockRow, Unlocked, Targets
  <2>2. \E a \in Unlocked(r) : \A b \in Unlocked(r) : a <= b
    BY <2>1, LeastNat
  <2>3. QED BY <2>2 DEF NextRow
<1>2. /\ lock' = [lock EXCEPT ![x] = r]
      /\ UNCHANGED <<tables, op, legs>>
  BY DEF LockRow
<1> HIDE DEF x
<1>3. Targets(r)' = Targets(r)
  BY <1>2, TargetsKept DEF tables
<1>4. \A a \in Account : lock'[a] = IF a = x THEN r ELSE lock[a]
  BY <1>2 DEF Inv, TypeInv, TypeOK
<1>5. \A b \in Unlocked(r)' : b \in Unlocked(r) /\ b # x /\ b \in Nat
  BY <1>3, <1>4, AccountAssumption DEF Unlocked, Targets
<1>6. x \in Nat
  BY <1>1, AccountAssumption DEF Unlocked, Targets
<1>7. \A b \in Unlocked(r)' : x < b
  BY <1>1, <1>5, <1>6
<1>8. QED BY <1>3, <1>4, <1>5, <1>7 DEF Targets

LEMMA ReleasedLocks ==
  ASSUME TypeOK, NEW r \in Request, Release(r)
  PROVE  \A a \in Account : lock'[a] # r
BY RequestAssumption DEF Release

LEMMA OthersLocks ==
  ASSUME TypeOK, NEW r \in Request, LocksMove(r), NEW q \in Request, q # r
  PROVE  \A a \in Account : lock'[a] = q <=> lock[a] = q
<1>1. CASE LockRow(r)
  BY <1>1, RequestAssumption DEF LockRow, TypeOK
<1>2. CASE Release(r)
  BY <1>2, RequestAssumption DEF Release
<1>3. QED BY <1>1, <1>2 DEF LocksMove

LEMMA OrderStep ==
  ASSUME AllInv, TypeInv', LocksInOrder, NEW r \in Request, Receive(r) \/ Step(r) \/ Fault(r)
  PROVE  LocksInOrder'
<1>1. Inv /\ TypeOK /\ Kinds(r) /\ OthersUntouched(r)
  BY ActionKind DEF AllInv, Inv, TypeInv
<1>2. LocksMove(r)
  BY <1>1, ReceiveMoves, StepMoves
<1>3. ASSUME NEW q \in Request, pc'[q] = "locking"
      PROVE  \A a \in Targets(q)', b \in Unlocked(q)' : lock'[a] = q => a < b
  <2>1. CASE q # r
    <3>1. pc[q] = "locking" /\ op'[q] = op[q] /\ legs'[q] = legs[q]
      BY <1>1, <1>3, <2>1 DEF OthersUntouched, Untouched
    <3>2. \A a \in Targets(q), b \in Unlocked(q) : lock[a] = q => a < b
      BY <3>1 DEF LocksInOrder
    <3>3. QED BY <1>1, <1>2, <2>1, <3>1, <3>2, OthersLocks, RowsRemain, OrderKept
  <2>2. CASE q = r /\ LockRow(r)
    <3>1. \A a \in Targets(r), b \in Unlocked(r) : lock[a] = r => a < b
      BY <2>2 DEF LockRow, LocksInOrder
    <3>2. QED BY <1>1, <2>2, <3>1, OrderGrows
  <2>3. CASE q = r /\ ~LockRow(r)
    <3>1. \A a \in Account : lock'[a] # r
      <4>1. CASE Release(r)
        BY <1>1, <4>1, ReleasedLocks
      <4>2. CASE lock' = lock /\ ~MayHold(r)
        BY <1>1, <4>2 DEF Inv, LedgerInv, HeldRowsAreCurrent, MayHold
      <4>3. QED BY <1>2, <1>3, <2>3, <4>1, <4>2 DEF LocksMove
    <3>2. QED BY <2>3, <3>1 DEF Targets
  <2>4. QED BY <2>1, <2>2, <2>3
<1>4. QED BY <1>3 DEF LocksInOrder

LEMMA FiniteStep ==
  ASSUME TypeOK, NEW r \in Request, LocksMove(r), IsFiniteSet(LockedRows)
  PROVE  IsFiniteSet(LockedRows')
<1>1. LockedRows' \in SUBSET (LockedRows \cup {NextRow(r)})
  <2>1. CASE LockRow(r)
    BY <2>1 DEF LockRow, LockedRows, TypeOK
  <2>2. CASE Release(r)
    BY <2>2 DEF Release, LockedRows
  <2>3. CASE lock' = lock
    BY <2>3 DEF LockedRows
  <2>4. QED BY <2>1, <2>2, <2>3 DEF LocksMove
<1>2. IsFiniteSet(LockedRows \cup {NextRow(r)})
  BY FS_AddElement
<1>3. QED BY <1>1, <1>2, FS_Subset

LEMMA LocksStep == AllInv /\ AllInv' /\ LocksInv /\ [Next]_vars => LocksInv'
<1> SUFFICES ASSUME AllInv, AllInv', LocksInv, [Next]_vars PROVE LocksInv'
  OBVIOUS
<1>1. TypeOK /\ TypeInv'
  BY DEF AllInv, Inv, TypeInv
<1>2. CASE UNCHANGED vars
  <2>1. LockedRows' = LockedRows
    BY <1>2 DEF vars, LockedRows
  <2>2. LocksInOrder'
    BY <1>2 DEF LocksInv, vars, LocksInOrder, Targets, Unlocked, Exists
  <2>3. QED BY <2>1, <2>2 DEF LocksInv
<1>3. ASSUME NEW r \in Request, Receive(r) \/ Step(r) \/ Fault(r)
      PROVE  LocksInv'
  <2>1. LocksMove(r)
    BY <1>1, <1>3, ReceiveMoves, StepMoves
  <2>2. QED BY <1>1, <1>3, <2>1, OrderStep, FiniteStep DEF LocksInv
<1>4. QED BY <1>2, <1>3 DEF Next

LEMMA InitialLocks == Init => LocksInv
<1> SUFFICES ASSUME Init PROVE LocksInv
  OBVIOUS
<1>1. LockedRows = {}
  BY DEF Init, LockedRows
<1>2. LocksInOrder
  BY DEF Init, LocksInOrder
<1>3. QED BY <1>1, <1>2, FS_EmptySet DEF LocksInv

\* A finite non-empty set of numbers has an element with none above it.
LEMMA Topmost ==
  ASSUME NEW S, IsFiniteSet(S), S \subseteq Nat, S # {}
  PROVE  \E x \in S : \A y \in S : ~(x < y)
<1> DEFINE Above(x) == {y \in S : x < y}
           T == {n \in Nat : \E x \in S : n = Cardinality(Above(x))}
<1>1. \A x \in S : IsFiniteSet(Above(x)) /\ Cardinality(Above(x)) \in Nat
  <2> TAKE x \in S
  <2>1. Above(x) \in SUBSET S
    OBVIOUS
  <2>2. IsFiniteSet(Above(x))
    BY <2>1, FS_Subset
  <2>3. QED BY <2>2, FS_CardinalityType
<1>2. T # {} /\ T \in SUBSET Nat
  BY <1>1
<1>3. PICK n \in T : \A m \in T : n <= m
  BY <1>2, LeastNat
<1>4. PICK x \in S : n = Cardinality(Above(x))
  OBVIOUS
<1>5. SUFFICES ASSUME NEW y \in S, x < y PROVE FALSE
  OBVIOUS
<1>6. Above(y) \in SUBSET Above(x) /\ y \in Above(x) /\ y \notin Above(y)
  <2>1. x \in Nat /\ y \in Nat /\ \A z \in S : z \in Nat
    OBVIOUS
  <2>2. \A z \in Above(y) : z \in S /\ x < z
    BY <1>5, <2>1
  <2>3. Above(y) \in SUBSET Above(x)
    BY <2>2
  <2>4. y \in Above(x)
    BY <1>5
  <2>5. y \notin Above(y)
    BY <2>1
  <2>6. QED BY <2>3, <2>4, <2>5
<1>7. Cardinality(Above(y)) \in T
  BY <1>1
<1>8. Cardinality(Above(x)) <= Cardinality(Above(y))
  BY <1>3, <1>4, <1>7
<1>9. /\ Cardinality(Above(y)) <= Cardinality(Above(x))
      /\ Cardinality(Above(x)) = Cardinality(Above(y)) => Above(x) = Above(y)
  BY <1>1, <1>6, FS_Subset
<1>10. Cardinality(Above(x)) = Cardinality(Above(y))
  <2> HIDE DEF Above
  <2>1. QED BY <1>1, <1>8, <1>9
<1>11. QED BY <1>6, <1>9, <1>10

CanMove(r) == /\ pc[r] \notin {"idle", "done"}
              /\ ~WaitsForRow(r) /\ ~WaitsForReference(r)
              /\ pc[r] = "snapshot" => lock[planned[r].account] = NoRequest

\* A request that holds a lock can move, or waits for a row above it that
\* another request holds.
LEMMA HolderWaitsAbove ==
  ASSUME AllInv, LocksInv, NEW a \in LockedRows, \A r \in Request : ~CanMove(r)
  PROVE  \E b \in LockedRows : a < b
<1>1. Inv /\ lock[a] \in Request /\ a \in Account
  BY DEF AllInv, Inv, TypeInv, TypeOK, LockedRows
<1> DEFINE q == lock[a]
<1>2. a \in Targets(q) /\ (pc[q] = "locking" \/ InTransaction(q))
  BY <1>1 DEF Inv, LedgerInv, HeldRowsAreCurrent
<1>3. pc[q] \notin {"check", "mark", "commit"}
  BY <1>1 DEF CanMove, WaitsForRow, WaitsForReference
<1>4. pc[q] # "insert"
  <2>1. SUFFICES ASSUME pc[q] = "insert" PROVE FALSE
    OBVIOUS
  <2>2. PICK w \in Request : pc[w] = "commit"
    BY <1>1, <2>1 DEF CanMove, WaitsForRow, WaitsForReference, Inserted
  <2>3. CanMove(w)
    BY <2>2 DEF CanMove, WaitsForRow, WaitsForReference
  <2>4. QED BY <2>3
<1>5. pc[q] = "locking"
  BY <1>2, <1>3, <1>4 DEF InTransaction
<1>6. WaitsForRow(q)
  BY <1>1, <1>5 DEF CanMove, WaitsForReference
<1>7. NextRow(q) \in Unlocked(q)
  BY <1>1, <1>6, NextRowType DEF WaitsForRow
<1>8. a < NextRow(q)
  BY <1>1, <1>2, <1>5, <1>7 DEF LocksInv, LocksInOrder
<1>9. NextRow(q) \in LockedRows
  BY <1>6, <1>7 DEF WaitsForRow, LockedRows, Unlocked, Targets
<1>10. QED BY <1>8, <1>9

LEMMA SomeoneMoves == AllInv /\ LocksInv => SomeoneCanMove
<1> SUFFICES ASSUME AllInv, LocksInv, NEW r \in Request, pc[r] \notin {"idle", "done"}
             PROVE  \E q \in Request : CanMove(q)
  BY DEF SomeoneCanMove, CanMove
<1>1. SUFFICES ASSUME \A q \in Request : ~CanMove(q) PROVE FALSE
  OBVIOUS
<1>2. LockedRows # {}
  <2>1. CASE WaitsForRow(r)
    <3>1. NextRow(r) \in Unlocked(r)
      BY <2>1, NextRowType DEF WaitsForRow
    <3>2. QED BY <2>1, <3>1 DEF WaitsForRow, LockedRows, Unlocked, Targets
  <2>2. CASE WaitsForReference(r)
    <3>1. PICK w \in Request : pc[w] = "commit"
      BY <2>2 DEF WaitsForReference, Inserted
    <3>2. QED BY <1>1, <3>1 DEF CanMove, WaitsForRow, WaitsForReference
  <2>3. CASE pc[r] = "snapshot" /\ lock[planned[r].account] # NoRequest
    <3>1. planned[r].account \in Account
      BY <2>3 DEF AllInv, Inv, TypeInv, StatementsFit, StatementFits
    <3>2. QED BY <2>3, <3>1 DEF LockedRows
  <2>4. QED BY <1>1, <2>1, <2>2, <2>3 DEF CanMove
<1>3. IsFiniteSet(LockedRows) /\ LockedRows \subseteq Nat
  BY AccountAssumption DEF LocksInv, LockedRows
<1>4. PICK a \in LockedRows : \A b \in LockedRows : ~(a < b)
  BY <1>2, <1>3, Topmost
<1>5. QED BY <1>1, <1>4, HolderWaitsAbove

\* Rows are locked in one order, so whoever is in flight, some request can
\* move: however many requests, accounts and references there are.
THEOREM NoDeadlock == Spec => []SomeoneCanMove
<1>1. Init => LocksInv
  BY InitialLocks
<1>2. Spec => []LocksInv
  BY <1>1, AllInvariant, LocksStep, PTL DEF Spec
<1>3. QED BY <1>2, AllInvariant, SomeoneMoves, PTL

-----------------------------------------------------------------------------
(* The serial ledger's copies of the definitions of LedgerSchema *)

LEMMA SerialSchema ==
  /\ \A o : Serial!IsPost(o) <=> IsPost(o)
  /\ \A o : Serial!ReadAccounts(o) = ReadAccounts(o)
  /\ \A n : Serial!NewRow(n) = NewRow(n)
  /\ \A type, n : Serial!LimitEvent(type, n) = LimitEvent(type, n)
  /\ \A s : Serial!StatusEvent(s) = StatusEvent(s)
  /\ \A ls : Serial!ReversalLegs(ls) = ReversalLegs(ls)
  /\ \A ls : Serial!SingleCurrency(ls) <=> SingleCurrency(ls)
  /\ \A log, n, e : Serial!ExtendLog(log, n, e) = ExtendLog(log, n, e)
<1>1. \A o : Serial!IsPost(o) <=> IsPost(o)
  BY DEF Serial!IsPost, IsPost
<1>2. \A o : Serial!ReadAccounts(o) = ReadAccounts(o)
  BY DEF Serial!ReadAccounts, ReadAccounts
<1>3. \A n : Serial!NewRow(n) = NewRow(n)
  BY DEF Serial!NewRow, NewRow
<1>4. \A type, n : Serial!LimitEvent(type, n) = LimitEvent(type, n)
  BY DEF Serial!LimitEvent, LimitEvent
<1>5. \A s : Serial!StatusEvent(s) = StatusEvent(s)
  BY DEF Serial!StatusEvent, StatusEvent
<1>6. \A ls : Serial!ReversalLegs(ls) = ReversalLegs(ls)
  BY DEF Serial!ReversalLegs, ReversalLegs, Serial!Opposite, Opposite
<1>7. \A ls : Serial!SingleCurrency(ls) <=> SingleCurrency(ls)
  BY DEF Serial!SingleCurrency, SingleCurrency
<1>8. \A log, n, e : Serial!ExtendLog(log, n, e) = ExtendLog(log, n, e)
  BY DEF Serial!ExtendLog, ExtendLog
<1>9. QED BY <1>1, <1>2, <1>3, <1>4, <1>5, <1>6, <1>7, <1>8

LEMMA SerialBuilders ==
  ASSUME NEW o
  PROVE  /\ Serial!LegsOf(o) = LegsOf(o)
         /\ Serial!buildOutcome(o) = buildOutcome(o)
<1>1. \A from, n, to, m : Serial!Move(from, n, to, m) = Move(from, n, to, m)
  BY DEF Serial!Move, Move
<1>2. \A n, rate : Serial!convertAt(n, rate) = convertAt(n, rate)
  BY DEF Serial!convertAt, convertAt, Serial!roundHalfUp, roundHalfUp
<1>3. Serial!CrossCurrency(o) <=> CrossCurrency(o)
  BY DEF Serial!CrossCurrency, CrossCurrency
<1>4. Serial!LegsOf(o) = LegsOf(o)
  <2>1. Serial!buildDeposit(o) = buildDeposit(o) /\ Serial!buildWithdrawal(o) = buildWithdrawal(o)
    BY <1>1 DEF Serial!buildDeposit, buildDeposit, Serial!buildWithdrawal, buildWithdrawal
  <2>2. Serial!buildTransfer(o) = buildTransfer(o)
    BY <1>1, <1>2, <1>3 DEF Serial!buildTransfer, buildTransfer
  <2>3. QED BY <2>1, <2>2 DEF Serial!LegsOf, LegsOf
<1>5. Serial!IsBalancedOp(o) <=> IsBalancedOp(o)
  <2>1. \A ls, rate, a : Serial!isBalancedAt(ls, rate, a) <=> isBalancedAt(ls, rate, a)
    BY <1>2 DEF Serial!isBalancedAt, isBalancedAt
  <2>2. \A ls : Serial!OneCurrencyBalanced(ls) <=> OneCurrencyBalanced(ls)
    BY DEF Serial!OneCurrencyBalanced, OneCurrencyBalanced, Serial!SingleCurrency, SingleCurrency,
      Serial!isBalanced, isBalanced
  <2>3. QED BY <1>3, <1>4, <2>1, <2>2 DEF Serial!IsBalancedOp, IsBalancedOp
<1>6. Serial!buildOutcome(o) = buildOutcome(o)
  BY <1>2, <1>3, <1>5 DEF Serial!buildOutcome, buildOutcome, Serial!OutOfRange, OutOfRange
<1>7. QED BY <1>4, <1>6

LEMMA SerialRules ==
  ASSUME NEW ls, \A a \in DOMAIN ls : MayPost(a, ls[a])
  PROVE  Serial!Allowed(ls)
<1>1. \A status, b, limit : Serial!assertPostAllowed(status, b, limit) = assertPostAllowed(status, b, limit)
  BY DEF Serial!assertPostAllowed, assertPostAllowed
<1>2. \A b, side, direction, n :
        Serial!balanceAfterEntry(b, side, direction, n) = balanceAfterEntry(b, side, direction, n)
  BY DEF Serial!balanceAfterEntry, balanceAfterEntry, Serial!balanceEffect, balanceEffect
<1>3. QED BY <1>1, <1>2 DEF Serial!Allowed, MayPost

LEMMA InitialTables == Init => Serial!Init
<1> SUFFICES ASSUME Init PROVE Serial!Init
  OBVIOUS
<1>1. Serial!InitialAccounts = InitialAccounts
  BY DEF Serial!InitialAccounts, InitialAccounts, Serial!NewRow, NewRow, Serial!NoRow, NoRow,
         Serial!IsVault, IsVault
<1>2. Serial!InitialEvents = InitialEvents
  BY DEF Serial!InitialEvents, InitialEvents, Serial!LimitEvent, LimitEvent
<1>3. Serial!NoTransaction = NoTransaction
  BY DEF Serial!NoTransaction, NoTransaction
<1>4. QED BY <1>1, <1>2, <1>3 DEF Init, Serial!Init

-----------------------------------------------------------------------------
(* A commit is a step of the serial ledger *)

LEMMA AppendsSerially ==
  ASSUME Inv, NEW r \in Request, Writes(r)
  PROVE  Serial!AppendLegs(r, legs[r])
<1>1. AppendEntries(r) /\ InTransaction(r)
  BY EntriesWritten DEF Writes, InTransaction
<1>2. \A a \in DOMAIN legs[r] : /\ EntrySeq(r, a) = accounts[a].currentSequence + 1
                                /\ a \in Account
  BY <1>1, LegsAreHeld
<1>3. \A a \in Account : a \in DOMAIN legs[r] =>
        [accounts[a] EXCEPT !.currentSequence = EntrySeq(r, a)]
          = [accounts[a] EXCEPT !.currentSequence = @ + 1]
  BY <1>2
<1>4. \A log, n, e : Serial!ExtendLog(log, n, e) = ExtendLog(log, n, e)
  BY SerialSchema
<1>5. accounts' = [a \in Account |->
        IF a \in DOMAIN legs[r] THEN [accounts[a] EXCEPT !.currentSequence = @ + 1] ELSE accounts[a]]
  BY <1>1, <1>3 DEF AppendEntries, bumpSequences
<1>6. entries' = [a \in Account |->
        IF a \in DOMAIN legs[r]
        THEN ExtendLog(entries[a], accounts[a].currentSequence + 1,
               [tx |-> r, direction |-> legs[r][a].direction, amount |-> legs[r][a].amount])
        ELSE entries[a]]
  BY <1>1, <1>2 DEF AppendEntries, bumpSequences
<1>7. QED BY <1>4, <1>5, <1>6 DEF Serial!AppendLegs

LEMMA ClearedLegs ==
  ASSUME RulesInv, NEW r \in Request, pc[r] = "commit"
  PROVE  Serial!Allowed(legs[r])
<1>1. \A a \in DOMAIN legs[r] : MayPost(a, legs[r][a])
  BY DEF RulesInv, Cleared
<1>2. QED BY <1>1, SerialRules

LEMMA PostsSerially ==
  ASSUME AllInv, NEW r \in Request, Writes(r), IsPost(op[r])
  PROVE  Serial!Post(r, op[r])
<1>1. Inv /\ RulesInv /\ TransactionsInv
  BY DEF AllInv
<1>2. /\ transactions[r].status = "none" /\ legs[r] = LegsOf(op[r])
      /\ buildOutcome(op[r]) = "OK" /\ \A a \in ReadAccounts(op[r]) : Exists(a)
  BY <1>1, NothingYet DEF Entitled, NoTransaction
<1>3. op[r].reference # NoRef => \A u \in Request : transactions[u].reference # op[r].reference
  BY <1>1 DEF TransactionsInv, ReferencesAreUnique, UsesReference, Committed, Writes
<1>4. Serial!Allowed(legs[r]) /\ Serial!AppendLegs(r, legs[r])
  BY <1>1, ClearedLegs, AppendsSerially DEF Writes
<1>5. /\ transactions' = [transactions EXCEPT ![r] =
           [status |-> "posted", type |-> op[r].kind, reference |-> op[r].reference,
            original |-> NoRequest]]
      /\ UNCHANGED accountEvents
  BY DEF Writes, Write, WritePost, TransactionWritten, IsPost
<1>6. /\ Serial!IsPost(op[r]) /\ Serial!buildOutcome(op[r]) = "OK"
      /\ Serial!LegsOf(op[r]) = legs[r]
      /\ \A a \in Serial!ReadAccounts(op[r]) : accounts[a].status # "absent"
  BY <1>2, SerialSchema, SerialBuilders DEF Exists
<1>7. QED BY <1>2, <1>3, <1>4, <1>5, <1>6 DEF Serial!Post

LEMMA VoidsSerially ==
  ASSUME AllInv, NEW r \in Request, Writes(r), op[r].kind = "void"
  PROVE  Serial!Void(r, op[r])
<1>1. Inv /\ RulesInv /\ TransactionsInv
  BY DEF AllInv
<1>2. /\ transactions[r].status = "none" /\ SingleCurrency(legs[r])
      /\ legs[r] = ReversalLegs(Serial!LegsWritten(op[r].target))
  BY <1>1, NothingYet DEF Entitled, NoTransaction
<1>3. transactions[op[r].target].status = "posted"
  BY <1>1, RowsWritten
<1>4. Serial!Allowed(legs[r]) /\ Serial!AppendLegs(r, legs[r])
  BY <1>1, ClearedLegs, AppendsSerially DEF Writes
<1>5. ~IsPost(op[r])
  BY DEF IsPost
<1>6. /\ transactions' = [transactions EXCEPT
           ![op[r].target].status = "void",
           ![r] = [status |-> "posted", type |-> "reversal", reference |-> NoRef,
                   original |-> op[r].target]]
      /\ UNCHANGED accountEvents
  BY <1>5 DEF Writes, Write, WriteVoid, TransactionWritten
<1>7. /\ legs[r] = Serial!ReversalLegs(Serial!LegsWritten(op[r].target))
      /\ Serial!SingleCurrency(legs[r])
  BY <1>2, SerialSchema
<1>8. QED BY <1>2, <1>3, <1>4, <1>6, <1>7 DEF Serial!Void

LEMMA ChangesSerially ==
  ASSUME AllInv, NEW r \in Request, pc[r] = "commit", Write(r), op[r].kind \in {"status", "limit"}
  PROVE  Serial!SetStatus(op[r]) \/ Serial!SetLimit(op[r])
<1> DEFINE a == op[r].account
<1>1. Inv /\ RulesInv
  BY DEF AllInv
<1>2. a \in Account /\ a \in Targets(r) /\ locked[r][a] = accounts[a]
  BY <1>1, ChangedAccountIsHeld DEF InTransaction
<1>3. accounts[a].status # "absent"
  BY <1>2 DEF Targets, Exists
<1>4. /\ accounts[a].status # "closed"
      /\ op[r].kind = "status" => accounts[a].status # op[r].status
      /\ op[r].kind = "status" /\ op[r].status = "closed" => Serial!Balance(a) = 0
  BY <1>1 DEF RulesInv, Cleared
<1>5. ~IsPost(op[r]) /\ op[r].kind # "void"
  BY DEF IsPost
<1>6. CASE op[r].kind = "status"
  <2>1. /\ accounts' = [accounts EXCEPT
             ![a].status = op[r].status,
             ![a].statusHistory = Append(accounts[a].statusHistory, op[r].status)]
        /\ accountEvents' = [accountEvents EXCEPT ![a] = Append(@, StatusEvent(op[r].status))]
        /\ UNCHANGED <<transactions, entries>>
    BY <1>2, <1>5, <1>6 DEF Write, WriteStatus
  <2>2. accounts' = [accounts EXCEPT ![a].status = op[r].status,
                                     ![a].statusHistory = Append(@, op[r].status)]
    BY <1>1, <1>2, <2>1 DEF Inv, TypeInv, TypeOK, AccountRow
  <2>3. Serial!StatusEvent(op[r].status) = StatusEvent(op[r].status)
    BY SerialSchema
  <2>4. QED BY <1>3, <1>4, <1>6, <2>1, <2>2, <2>3 DEF Serial!SetStatus
<1>7. CASE op[r].kind = "limit"
  <2>1. /\ accounts' = [accounts EXCEPT ![a].overdraftLimit = op[r].overdraftLimit]
        /\ accountEvents' = [accountEvents EXCEPT ![a] =
             Append(@, LimitEvent("limit_changed", op[r].overdraftLimit))]
        /\ UNCHANGED <<transactions, entries>>
    BY <1>5, <1>7 DEF Write, WriteLimit
  <2>2. Serial!LimitEvent("limit_changed", op[r].overdraftLimit)
          = LimitEvent("limit_changed", op[r].overdraftLimit)
    BY SerialSchema
  <2>3. QED BY <1>3, <1>4, <1>7, <2>1, <2>2 DEF Serial!SetLimit
<1>8. QED BY <1>6, <1>7

LEMMA CreatesSerially ==
  ASSUME NEW r \in Request, NEW o \in Workload, ReceiveCreate(r, o)
  PROVE  Serial!Create(o)
BY SerialSchema DEF ReceiveCreate, Exists, Serial!Create

LEMMA SerialStep == AllInv /\ [Next]_vars => [Serial!Next]_Serial!tables
<1> SUFFICES ASSUME AllInv, [Next]_vars PROVE [Serial!Next]_Serial!tables
  OBVIOUS
<1>1. CASE UNCHANGED vars
  BY <1>1 DEF vars, Serial!tables
<1>2. ASSUME NEW r \in Request, Receive(r) \/ Step(r) \/ Fault(r)
      PROVE  [Serial!Next]_Serial!tables
  <2>1. Inv /\ Kinds(r) /\ KeptOrCommitted(r)
    BY <1>2, ActionKind, ActionWrites DEF AllInv, Inv, TypeInv
  <2>2. CASE TablesKept
    BY <2>2 DEF TablesKept, tables, Serial!tables
  <2>3. CASE Creates(r)
    BY <2>3, CreatesSerially DEF Creates, Serial!Next
  <2>4. CASE Commits(r)
    <3>1. /\ pc[r] = "commit" /\ Write(r) /\ op[r] \in Workload
          /\ IsPost(op[r]) \/ op[r].kind \in {"void", "status", "limit"}
      BY <2>1, <2>4 DEF Commits, Inv, TypeInv, StatementsFit, StatementFits
    <3>2. CASE op[r].kind \in {"status", "limit"}
      BY <3>1, <3>2, ChangesSerially DEF Serial!Next
    <3>3. CASE IsPost(op[r]) \/ op[r].kind = "void"
      <4>1. CASE Writes(r)
        BY <3>1, <3>3, <4>1, PostsSerially, VoidsSerially DEF Serial!Next
      <4>2. CASE Quiet(r)
        <5>1. UNCHANGED <<transactions, entries>>
          BY <4>2, QuietRows DEF RowsStay
        <5>2. transactions[r].status = "none" /\ transactions \in [Request -> TransactionRow]
          <6>1. BeforeCommit(r)
            BY <3>1 DEF BeforeCommit
          <6>2. transactions[r] = NoTransaction
            BY <6>1 DEF AllInv, TransactionsInv, RowsAreCommits
          <6>3. QED BY <6>2 DEF NoTransaction, AllInv, Inv, TypeInv, TypeOK
        <5>3. transactions'[r].status = "posted"
          BY <3>1, <3>3, <5>2 DEF Write, WritePost, WriteVoid, TransactionWritten, IsPost
        <5>4. QED BY <5>1, <5>2, <5>3
      <4>3. QED BY <2>1, <4>1, <4>2 DEF Kinds, Quiet
    <3>4. QED BY <3>1, <3>2, <3>3
  <2>5. QED BY <2>1, <2>2, <2>3, <2>4 DEF KeptOrCommitted
<1>3. QED BY <1>1, <1>2 DEF Next

\* Every behaviour of the ledger is, as far as its tables show, one of the
\* serial ledger: every request takes effect atomically or not at all, judged
\* against the balances a replay gives.
THEOREM LedgerIsSerial == Spec => ImplementsSerialLedger
<1>1. QED BY InitialTables, SerialStep, AllInvariant, PTL
          DEF Spec, ImplementsSerialLedger, Serial!Spec

=============================================================================
