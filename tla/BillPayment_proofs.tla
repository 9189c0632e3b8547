-------------------------- MODULE BillPayment_proofs --------------------------
(***************************************************************************)
(* Theorems about BillPayment for every value of its constants.            *)
(***************************************************************************)
EXTENDS BillPayment, FiniteSetTheorems, TLAPS

-----------------------------------------------------------------------------
(***************************************************************************)
(* Type correctness                                                        *)
(***************************************************************************)

\* A write that changes a payment's row leaves every copy of the account typed.
LEMMA TouchType ==
  ASSUME TypeOK, NEW p, Touch(p)
  PROVE  account' \in Accounts /\ held' \in [Sessions -> Accounts]
<1>1. \A a \in Accounts : Newer(a, p) \in Accounts
  BY DEF Newer, Accounts
<1> QED
  BY <1>1 DEF TypeOK, Touch

LEMMA InitTypeOK == Init => TypeOK
<1> SUFFICES ASSUME Init PROVE TypeOK
  OBVIOUS
<1> USE DEF Init, Statuses, BillStatuses, Places, BankStates
<1>1. Fresh \in Accounts
  BY DEF Fresh, Accounts
<1>2. /\ bill \in [Bills -> BillStatuses]
      /\ pay \in [Payments -> Statuses]
      /\ billOf \in [Payments -> Bills \cup {NoBill}]
      /\ bank \in [Payments -> BankStates]
      /\ external \in [Payments -> BOOLEAN] /\ redirect \in [Payments -> BOOLEAN]
  OBVIOUS
<1>3. /\ pc \in [Sessions -> Places]
      /\ target \in [Sessions -> Bills \cup {NoBill}]
      /\ slot \in [Sessions -> Payments \cup {NoPayment}]
      /\ \A h \in Sessions : pc[h] = "idle"
      /\ held \in [Sessions -> Accounts]
      /\ seen \in [Sessions -> BankStates]
      /\ same \in [Sessions -> BOOLEAN] /\ matched \in [Sessions -> BOOLEAN]
  BY <1>1
<1>4. /\ account \in Accounts /\ snapshot \in SUBSET Payments
      /\ lock \in Sessions \cup {NoSession} /\ misreported \in SUBSET Payments
  BY <1>1
<1>5. syncing \in BOOLEAN /\ overlooked \in BOOLEAN /\ misled \in SUBSET Payments
  OBVIOUS
<1> QED
  BY <1>2, <1>3, <1>4, <1>5 DEF TypeOK

\* Every session's step keeps the types.
LEMMA SessionTypeOK ==
  ASSUME TypeOK, NEW h \in Sessions, SessionStep(h)
  PROVE  TypeOK'
<1> USE DEF TypeOK, vars, rows, cash, work, memory, history,
            Statuses, Dead, BillStatuses, Places, BankStates
<1>1. ASSUME NEW b \in Bills, LoadBill(h, b) PROVE TypeOK'
  BY <1>1 DEF LoadBill
<1>2. CASE LockRows(h)
  <2>1. Fresh \in Accounts
    BY DEF Fresh, Accounts
  <2>2. held' \in [Sessions -> Accounts]
    BY <1>2, <2>1 DEF LockRows
  <2>3. UNCHANGED <<rows, cash, bank, history>> /\ pc[h] = "approved"
    BY <1>2 DEF LockRows
  <2>4. CASE /\ lock' = h
             /\ pc' = [pc EXCEPT ![h] = "inserting"]
             /\ UNCHANGED <<target, slot, seen, same, matched>>
    BY <2>2, <2>3, <2>4
  <2>5. CASE Leave(h) /\ UNCHANGED lock
    BY <2>2, <2>3, <2>5 DEF Leave
  <2> QED BY <1>2, <2>4, <2>5 DEF LockRows
<1>3. ASSUME NEW p \in Payments, InsertIntent(h, p) PROVE TypeOK'
  BY <1>3, TouchType DEF InsertIntent
<1>4. CASE PostPayment(h)
  <2>1. PICK s \in {"none", "accepted"} : bank' = [bank EXCEPT ![slot[h]] = s]
    BY <1>4 DEF PostPayment
  <2>2. bank' \in [Payments -> BankStates]
    BY <2>1
  <2>3. pc[h] = "posting" /\ pc' = [pc EXCEPT ![h] = "answering"]
    BY <1>4 DEF PostPayment
  <2>4. UNCHANGED <<rows, cash, target, slot, held, seen, same, matched, lock, history>>
    BY <1>4 DEF PostPayment
  <2> QED BY <2>2, <2>3, <2>4
<1>5. CASE AnswerRejected(h)
  <2>1. slot[h] \in Payments
    BY <1>5 DEF AnswerRejected
  <2>2. misreported' \in SUBSET Payments
    BY <1>5, <2>1 DEF AnswerRejected, Misreport
  <2> QED BY <1>5, <2>2, TouchType DEF AnswerRejected, Leave, Misreport
<1>6. CASE AnswerUncertain(h)
  BY <1>6, TouchType DEF AnswerUncertain, Leave
<1>7. ASSUME NEW u \in BOOLEAN, AnswerCreated(h, u) PROVE TypeOK'
  BY <1>7, TouchType DEF AnswerCreated, Leave
<1>8. ASSUME NEW p \in Payments, RefreshPayment(h, p) \/ AuthorizationReturns(h, p) PROVE TypeOK'
  <2>1. same' \in [Sessions -> BOOLEAN]
    BY <1>8 DEF RefreshPayment, AuthorizationReturns, AskBank
  <2> QED BY <1>8, <2>1 DEF RefreshPayment, AuthorizationReturns, AskBank
<1>9. CASE WriteProviderStatus(h)
  BY <1>9, TouchType DEF WriteProviderStatus, ProviderStatus, Leave
<1>10. ASSUME NEW p \in Payments, FetchTransactions(h, p) PROVE TypeOK'
  <2>1. misled' \in SUBSET Payments /\ matched' \in [Sessions -> BOOLEAN]
    BY <1>10 DEF FetchTransactions
  <2> QED BY <1>10, <2>1 DEF FetchTransactions
<1>11. CASE WriteEvidence(h)
  BY <1>11, TouchType DEF WriteEvidence, Leave
<1>12. CASE Crash(h)
  BY <1>12 DEF Crash, Leave, Fresh, Accounts
<1> QED
  BY <1>1, <1>2, <1>3, <1>4, <1>5, <1>6, <1>7, <1>8, <1>9, <1>10, <1>11, <1>12
  DEF SessionStep

\* So does every step.
LEMMA NextTypeOK == TypeOK /\ [Next]_vars => TypeOK'
<1> SUFFICES ASSUME TypeOK, [Next]_vars PROVE TypeOK'
  OBVIOUS
<1> USE DEF TypeOK, vars, rows, cash, work, memory, history,
            Statuses, Dead, BankStates, Places
<1>1. ASSUME NEW h \in Sessions, SessionStep(h) PROVE TypeOK'
  BY <1>1, SessionTypeOK
<1>2. ASSUME NEW p \in Payments, AuthorizationFails(p) PROVE TypeOK'
  BY <1>2, TouchType DEF AuthorizationFails, Misreport
<1>3. ASSUME NEW p \in Payments, QuarantineStaleIntent(p) PROVE TypeOK'
  BY <1>3, TouchType DEF QuarantineStaleIntent, Quarantined
<1>4. ASSUME NEW p \in Payments, BankDecides(p) PROVE TypeOK'
  BY <1>4 DEF BankDecides
<1>5. CASE ReadBalance
  BY <1>5 DEF ReadBalance
<1>6. CASE StoreBalance
  BY <1>6 DEF StoreBalance, Accounts
<1>7. CASE UNCHANGED vars
  BY <1>7
<1> QED
  BY <1>1, <1>2, <1>3, <1>4, <1>5, <1>6, <1>7 DEF Next

\* Every variable of the payments keeps its type.
THEOREM TypeCorrect == Spec => []TypeOK
BY InitTypeOK, NextTypeOK, PTL DEF Spec

-----------------------------------------------------------------------------
(***************************************************************************)
(* The invariant behind PaidOnce                                           *)
(*                                                                         *)
(* PaidOnce is not inductive.  What keeps a bill from a second payment is  *)
(* that the duplicate check counts the first as active from the commit of  *)
(* its intent, before the bank is asked, for as long as the bank may hold  *)
(* it.  Only a wrong report of the bank ends this, so an Open payment, one *)
(* that the bank holds or is about to be asked for and that nobody called  *)
(* failed, stays active and alone.                                         *)
(***************************************************************************)
Creator(h) == pc[h] \in {"posting", "answering"}
Posting(p) == \E h \in Sessions : pc[h] = "posting" /\ slot[h] = p
Open(p) == p \notin misreported /\ (Held(p) \/ Posting(p))

\* A session works on a payment that has its row.
WorkInv ==
  \A h \in Sessions :
    pc[h] \notin {"idle", "approved", "inserting"} => pay[slot[h]] # "none"

\* A row exists before anything is known of its payment; the bank's page is
\* open only for a payment with an id.
RowInv ==
  \A p \in Payments :
    /\ pay[p] = "none" => bank[p] = "none" /\ billOf[p] = NoBill
    /\ pay[p] # "none" => billOf[p] \in Bills
    /\ bank[p] = "none" => ~ external[p]
    /\ redirect[p] => external[p]

\* One session creates a payment, and posts it once.
CreatorInv ==
  /\ \A g, h \in Sessions : Creator(g) /\ Creator(h) /\ slot[g] = slot[h] => g = h
  /\ \A h \in Sessions :
       /\ pc[h] = "posting" => bank[slot[h]] = "none"
       /\ Creator(h) => ~ external[slot[h]]
       /\ pc[h] \in {"polled", "returned"} => external[slot[h]]

\* The bank does not take back a final answer.
AnswerInv ==
  \A h \in Sessions : pc[h] \in {"polled", "returned"} /\ seen[h] \in {"settled", "rejected"} =>
    bank[slot[h]] = seen[h]

\* A session holds the lock when it is about to insert, and no open payment of
\* its bill appears meanwhile.
OpenInv ==
  /\ \A p \in Payments : Open(p) => Active(p)
  /\ \A p, q \in Payments : p # q /\ billOf[p] = billOf[q] /\ Open(p) => ~ Open(q)
  /\ \A h \in Sessions : pc[h] = "inserting" =>
       /\ lock = h
       /\ \A p \in Payments : billOf[p] = target[h] => ~ Open(p)

PaymentInv == WorkInv /\ RowInv /\ CreatorInv /\ AnswerInv /\ OpenInv

\* Leaving a session makes it idle and forgets its work.
LEMMA LeaveEffect ==
  ASSUME TypeOK, NEW h \in Sessions, Leave(h)
  PROVE  /\ pc'[h] = "idle"
         /\ \A g \in Sessions \ {h} :
              /\ pc'[g] = pc[g] /\ target'[g] = target[g] /\ slot'[g] = slot[g]
              /\ seen'[g] = seen[g] /\ matched'[g] = matched[g]
BY DEF TypeOK, Leave

\* A session that leaves disturbs no other's work.
LEMMA WorkLeaves ==
  ASSUME TypeOK, WorkInv, NEW h \in Sessions, Leave(h),
         \A p \in Payments : pay[p] # "none" => pay'[p] # "none"
  PROVE  WorkInv'
BY LeaveEffect DEF WorkInv, TypeOK

LEMMA CreatorLeaves ==
  ASSUME TypeOK, CreatorInv, NEW h \in Sessions, Leave(h), UNCHANGED <<external, bank>>
  PROVE  CreatorInv'
BY LeaveEffect DEF CreatorInv, Creator, TypeOK

\* Every session works on a payment that has its row.
LEMMA WorkStep == TypeOK /\ TypeOK' /\ WorkInv /\ RowInv /\ [Next]_vars => WorkInv'
<1> SUFFICES ASSUME TypeOK, TypeOK', WorkInv, RowInv, [Next]_vars PROVE WorkInv'
  OBVIOUS
<1> USE PaymentAssumption DEF WorkInv, RowInv, TypeOK, vars, rows, cash, work, memory, history
<1>1. ASSUME NEW h \in Sessions, NEW b \in Bills, LoadBill(h, b) PROVE WorkInv'
  BY <1>1 DEF LoadBill
<1>2. ASSUME NEW h \in Sessions, LockRows(h) PROVE WorkInv'
  BY <1>2, LeaveEffect DEF LockRows
<1>3. ASSUME NEW h \in Sessions, NEW p \in Payments, InsertIntent(h, p) PROVE WorkInv'
  BY <1>3 DEF InsertIntent
<1>4. ASSUME NEW h \in Sessions, PostPayment(h) PROVE WorkInv'
  BY <1>4 DEF PostPayment
<1>5. ASSUME NEW h \in Sessions, AnswerRejected(h) PROVE WorkInv'
  BY <1>5, LeaveEffect DEF AnswerRejected
<1>6. ASSUME NEW h \in Sessions, AnswerUncertain(h) PROVE WorkInv'
  BY <1>6, LeaveEffect DEF AnswerUncertain
<1>7. ASSUME NEW h \in Sessions, NEW u \in BOOLEAN, AnswerCreated(h, u) PROVE WorkInv'
  BY <1>7, LeaveEffect DEF AnswerCreated
<1>8. ASSUME NEW h \in Sessions, NEW p \in Payments,
             RefreshPayment(h, p) \/ AuthorizationReturns(h, p)
      PROVE  WorkInv'
  BY <1>8 DEF RefreshPayment, AuthorizationReturns, AskBank
<1>9. ASSUME NEW h \in Sessions, WriteProviderStatus(h) PROVE WorkInv'
  BY <1>9, LeaveEffect DEF WriteProviderStatus, ProviderStatus
<1>10. ASSUME NEW h \in Sessions, NEW p \in Payments, FetchTransactions(h, p) PROVE WorkInv'
  BY <1>10 DEF FetchTransactions
<1>11. ASSUME NEW h \in Sessions, WriteEvidence(h) PROVE WorkInv'
  <2>1. \A p \in Payments : pay'[p] \in {pay[p], "completed"}
    BY <1>11 DEF WriteEvidence
  <2>2. \A p \in Payments : pay[p] # "none" => pay'[p] # "none"
    BY <2>1
  <2> QED BY <1>11, <2>2, WorkLeaves DEF WriteEvidence
<1>12. ASSUME NEW h \in Sessions, Crash(h) PROVE WorkInv'
  BY <1>12, LeaveEffect DEF Crash
<1>13. ASSUME NEW p \in Payments, AuthorizationFails(p) PROVE WorkInv'
  BY <1>13 DEF AuthorizationFails, Dead
<1>14. ASSUME NEW p \in Payments, QuarantineStaleIntent(p) PROVE WorkInv'
  BY <1>14 DEF QuarantineStaleIntent, Quarantined
<1>15. CASE (\E p \in Payments : BankDecides(p)) \/ ReadBalance \/ StoreBalance
  BY <1>15 DEF BankDecides, ReadBalance, StoreBalance
<1>16. CASE UNCHANGED vars
  BY <1>16
<1> QED
  BY <1>1, <1>2, <1>3, <1>4, <1>5, <1>6, <1>7, <1>8, <1>9, <1>10, <1>11, <1>12, <1>13,
     <1>14, <1>15, <1>16
  DEF Next, SessionStep

\* Nothing is known of a payment before its row, nor of its id before the bank.
LEMMA RowStep ==
  TypeOK /\ TypeOK' /\ WorkInv /\ RowInv /\ CreatorInv /\ [Next]_vars => RowInv'
<1> SUFFICES ASSUME TypeOK, TypeOK', WorkInv, RowInv, CreatorInv, [Next]_vars PROVE RowInv'
  OBVIOUS
<1> USE PaymentAssumption DEF WorkInv, RowInv, TypeOK, vars, rows, cash, work, memory, history
<1>1. ASSUME NEW h \in Sessions, NEW b \in Bills, LoadBill(h, b) PROVE RowInv'
  BY <1>1 DEF LoadBill
<1>2. ASSUME NEW h \in Sessions, LockRows(h) PROVE RowInv'
  BY <1>2 DEF LockRows
<1>3. ASSUME NEW h \in Sessions, NEW p \in Payments, InsertIntent(h, p) PROVE RowInv'
  <2>1. /\ pay[p] = "none" /\ pay' = [pay EXCEPT ![p] = "creating"]
        /\ billOf' = [billOf EXCEPT ![p] = target[h]] /\ target[h] \in Bills
        /\ UNCHANGED <<external, redirect, bank>>
    BY <1>3 DEF InsertIntent
  <2>2. \A q \in Payments \ {p} : pay'[q] = pay[q] /\ billOf'[q] = billOf[q]
    BY <2>1
  <2>3. pay'[p] = "creating" /\ billOf'[p] \in Bills
    BY <2>1
  <2>4. ~ external[p] /\ UNCHANGED <<external, redirect, bank>>
    BY <2>1
  <2> QED BY <2>2, <2>3, <2>4
<1>4. ASSUME NEW h \in Sessions, PostPayment(h) PROVE RowInv'
  <2>1. PICK s \in {"none", "accepted"} : bank' = [bank EXCEPT ![slot[h]] = s]
    BY <1>4 DEF PostPayment
  <2>2. slot[h] \in Payments /\ ~ external[slot[h]] /\ pay[slot[h]] # "none"
    BY <1>4 DEF PostPayment, CreatorInv, Creator
  <2>3. UNCHANGED <<pay, billOf, external, redirect>>
    BY <1>4 DEF PostPayment
  <2> QED BY <2>1, <2>2, <2>3
<1>5. ASSUME NEW h \in Sessions, AnswerRejected(h) PROVE RowInv'
  BY <1>5 DEF AnswerRejected
<1>6. ASSUME NEW h \in Sessions, AnswerUncertain(h) PROVE RowInv'
  BY <1>6 DEF AnswerUncertain
<1>7. ASSUME NEW h \in Sessions, NEW u \in BOOLEAN, AnswerCreated(h, u) PROVE RowInv'
  BY <1>7 DEF AnswerCreated
<1>8. ASSUME NEW h \in Sessions, NEW p \in Payments,
             RefreshPayment(h, p) \/ AuthorizationReturns(h, p)
      PROVE  RowInv'
  BY <1>8 DEF RefreshPayment, AuthorizationReturns, AskBank
<1>9. ASSUME NEW h \in Sessions, WriteProviderStatus(h) PROVE RowInv'
  BY <1>9 DEF WriteProviderStatus, ProviderStatus
<1>10. ASSUME NEW h \in Sessions, NEW p \in Payments, FetchTransactions(h, p) PROVE RowInv'
  BY <1>10 DEF FetchTransactions
<1>11. ASSUME NEW h \in Sessions, WriteEvidence(h) PROVE RowInv'
  BY <1>11 DEF WriteEvidence
<1>12. ASSUME NEW h \in Sessions, Crash(h) PROVE RowInv'
  BY <1>12 DEF Crash
<1>13. ASSUME NEW p \in Payments, AuthorizationFails(p) PROVE RowInv'
  BY <1>13 DEF AuthorizationFails, Dead
<1>14. ASSUME NEW p \in Payments, QuarantineStaleIntent(p) PROVE RowInv'
  <2>1. /\ pay[p] = "creating" /\ pay' = [pay EXCEPT ![p] = "creation_uncertain"]
        /\ UNCHANGED <<billOf, external, redirect, bank>>
    BY <1>14 DEF QuarantineStaleIntent, Quarantined
  <2> QED BY <2>1
<1>15. CASE (\E p \in Payments : BankDecides(p)) \/ ReadBalance \/ StoreBalance
  BY <1>15 DEF BankDecides, ReadBalance, StoreBalance
<1>16. CASE UNCHANGED vars
  BY <1>16
<1> QED
  BY <1>1, <1>2, <1>3, <1>4, <1>5, <1>6, <1>7, <1>8, <1>9, <1>10, <1>11, <1>12, <1>13,
     <1>14, <1>15, <1>16
  DEF Next, SessionStep

\* A payment is created by one session, which posts it once.
LEMMA CreatorStep ==
  TypeOK /\ TypeOK' /\ WorkInv /\ RowInv /\ CreatorInv /\ [Next]_vars => CreatorInv'
<1> SUFFICES ASSUME TypeOK, TypeOK', WorkInv, RowInv, CreatorInv, [Next]_vars
             PROVE  CreatorInv'
  OBVIOUS
<1> USE PaymentAssumption
    DEF CreatorInv, Creator, TypeOK, vars, rows, cash, work, memory, history
<1>1. ASSUME NEW h \in Sessions, NEW b \in Bills, LoadBill(h, b) PROVE CreatorInv'
  BY <1>1 DEF LoadBill
<1>2. ASSUME NEW h \in Sessions, LockRows(h) PROVE CreatorInv'
  <2>1. UNCHANGED <<external, bank>>
    BY <1>2 DEF LockRows
  <2>2. CASE Leave(h)
    BY <2>1, <2>2, CreatorLeaves
  <2>3. CASE pc' = [pc EXCEPT ![h] = "inserting"] /\ UNCHANGED slot
    BY <2>1, <2>3
  <2> QED BY <1>2, <2>2, <2>3 DEF LockRows
<1>3. ASSUME NEW h \in Sessions, NEW p \in Payments, InsertIntent(h, p) PROVE CreatorInv'
  <2>1. /\ pc' = [pc EXCEPT ![h] = "posting"] /\ slot' = [slot EXCEPT ![h] = p]
        /\ UNCHANGED <<bank, external>>
    BY <1>3 DEF InsertIntent
  <2>2. bank[p] = "none" /\ ~ external[p]
    BY <1>3 DEF InsertIntent, RowInv
  <2>3. \A g \in Sessions : Creator(g) => slot[g] # p
    BY <1>3 DEF InsertIntent, WorkInv
  <2> QED BY <2>1, <2>2, <2>3
<1>4. ASSUME NEW h \in Sessions, PostPayment(h) PROVE CreatorInv'
  <2>1. PICK s \in {"none", "accepted"} : bank' = [bank EXCEPT ![slot[h]] = s]
    BY <1>4 DEF PostPayment
  <2>2. /\ pc[h] = "posting" /\ pc' = [pc EXCEPT ![h] = "answering"]
        /\ UNCHANGED <<slot, external>>
    BY <1>4 DEF PostPayment
  <2> QED BY <2>1, <2>2
<1>5. ASSUME NEW h \in Sessions, AnswerRejected(h) PROVE CreatorInv'
  BY <1>5, CreatorLeaves DEF AnswerRejected
<1>6. ASSUME NEW h \in Sessions, AnswerUncertain(h) PROVE CreatorInv'
  BY <1>6, CreatorLeaves DEF AnswerUncertain
<1>7. ASSUME NEW h \in Sessions, NEW u \in BOOLEAN, AnswerCreated(h, u) PROVE CreatorInv'
  <2>1. /\ pc'[h] = "idle"
        /\ \A g \in Sessions \ {h} : pc'[g] = pc[g] /\ slot'[g] = slot[g]
    BY <1>7, LeaveEffect DEF AnswerCreated
  <2>2. /\ external' = [external EXCEPT ![slot[h]] = TRUE] /\ UNCHANGED bank
        /\ pc[h] = "answering"
    BY <1>7 DEF AnswerCreated
  <2>3. \A g \in Sessions \ {h} : Creator(g) => slot[g] # slot[h]
    BY <2>2
  <2>4. \A g \in Sessions \ {h} : Creator(g) => external'[slot[g]] = external[slot[g]]
    BY <2>2, <2>3
  <2>5. \A q \in Payments : external[q] => external'[q]
    BY <2>2
  <2>6. \A f, g \in Sessions : (Creator(f) /\ Creator(g) /\ slot[f] = slot[g] => f = g)'
    BY <2>1
  <2>7. \A g \in Sessions :
          /\ pc'[g] = "posting" => bank'[slot'[g]] = "none"
          /\ Creator(g)' => ~ external'[slot'[g]]
    BY <2>1, <2>2, <2>4
  <2>8. \A g \in Sessions : pc'[g] \in {"polled", "returned"} => external'[slot'[g]]
    BY <2>1, <2>5
  <2> QED BY <2>6, <2>7, <2>8
<1>8. ASSUME NEW h \in Sessions, NEW p \in Payments,
             RefreshPayment(h, p) \/ AuthorizationReturns(h, p)
      PROVE  CreatorInv'
  BY <1>8 DEF RefreshPayment, AuthorizationReturns, AskBank
<1>9. ASSUME NEW h \in Sessions, WriteProviderStatus(h) PROVE CreatorInv'
  BY <1>9, CreatorLeaves DEF WriteProviderStatus
<1>10. ASSUME NEW h \in Sessions, NEW p \in Payments, FetchTransactions(h, p) PROVE CreatorInv'
  BY <1>10 DEF FetchTransactions
<1>11. ASSUME NEW h \in Sessions, WriteEvidence(h) PROVE CreatorInv'
  BY <1>11, CreatorLeaves DEF WriteEvidence
<1>12. ASSUME NEW h \in Sessions, Crash(h) PROVE CreatorInv'
  BY <1>12, CreatorLeaves DEF Crash
<1>13. ASSUME NEW p \in Payments, AuthorizationFails(p) \/ QuarantineStaleIntent(p)
       PROVE  CreatorInv'
  BY <1>13 DEF AuthorizationFails, QuarantineStaleIntent
<1>14. ASSUME NEW p \in Payments, BankDecides(p) PROVE CreatorInv'
  BY <1>14 DEF BankDecides
<1>15. CASE ReadBalance \/ StoreBalance
  BY <1>15 DEF ReadBalance, StoreBalance
<1>16. CASE UNCHANGED vars
  BY <1>16
<1> QED
  BY <1>1, <1>2, <1>3, <1>4, <1>5, <1>6, <1>7, <1>8, <1>9, <1>10, <1>11, <1>12, <1>13,
     <1>14, <1>15, <1>16
  DEF Next, SessionStep

\* What the bank has decided stays decided, in every step.
LEMMA BankIsFinal ==
  ASSUME TypeOK, CreatorInv, [Next]_vars, NEW p \in Payments, bank[p] \in {"settled", "rejected"}
  PROVE  bank'[p] = bank[p]
<1> USE DEF TypeOK, vars, rows, cash, work, memory, history
<1>1. ASSUME NEW h \in Sessions, PostPayment(h) PROVE bank'[p] = bank[p]
  <2>1. PICK s \in {"none", "accepted"} : bank' = [bank EXCEPT ![slot[h]] = s]
    BY <1>1 DEF PostPayment
  <2>2. slot[h] # p
    BY <1>1 DEF PostPayment, CreatorInv
  <2> QED BY <2>1, <2>2
<1>2. ASSUME NEW q \in Payments, BankDecides(q) PROVE bank'[p] = bank[p]
  BY <1>2 DEF BankDecides
<1>3. ASSUME NEW h \in Sessions, SessionStep(h), ~ PostPayment(h) PROVE bank' = bank
  BY <1>3
  DEF SessionStep, LoadBill, LockRows, InsertIntent, AnswerRejected, AnswerUncertain,
      AnswerCreated, RefreshPayment, AuthorizationReturns, AskBank, WriteProviderStatus,
      FetchTransactions, WriteEvidence, Crash
<1>4. ASSUME NEW q \in Payments, AuthorizationFails(q) \/ QuarantineStaleIntent(q)
      PROVE  bank' = bank
  BY <1>4 DEF AuthorizationFails, QuarantineStaleIntent
<1>5. CASE ReadBalance \/ StoreBalance \/ UNCHANGED vars
  BY <1>5 DEF ReadBalance, StoreBalance
<1> QED
  BY <1>1, <1>2, <1>3, <1>4, <1>5 DEF Next

\* A session that asked the bank nothing new knows what it knew.
LEMMA AnswerKept ==
  ASSUME TypeOK, CreatorInv, AnswerInv, [Next]_vars,
         \A g \in Sessions : pc'[g] \in {"polled", "returned"} =>
           pc'[g] = pc[g] /\ slot'[g] = slot[g] /\ seen'[g] = seen[g]
  PROVE  AnswerInv'
<1> SUFFICES ASSUME NEW g \in Sessions, pc'[g] \in {"polled", "returned"},
                    seen'[g] \in {"settled", "rejected"}
             PROVE  bank'[slot'[g]] = seen'[g]
  BY DEF AnswerInv
<1>1. slot'[g] = slot[g] /\ slot[g] \in Payments /\ bank[slot[g]] = seen[g] /\ seen'[g] = seen[g]
  BY DEF AnswerInv, TypeOK
<1> QED
  BY <1>1, BankIsFinal

\* A final answer in a session's memory is still the truth.
LEMMA AnswerStep == TypeOK /\ CreatorInv /\ AnswerInv /\ [Next]_vars => AnswerInv'
<1> SUFFICES ASSUME TypeOK, CreatorInv, AnswerInv, [Next]_vars PROVE AnswerInv'
  OBVIOUS
<1> DEFINE Kept(g) == pc'[g] \in {"polled", "returned"} =>
                        pc'[g] = pc[g] /\ slot'[g] = slot[g] /\ seen'[g] = seen[g]
<1>1. ASSUME NEW h \in Sessions, NEW p \in Payments,
             RefreshPayment(h, p) \/ AuthorizationReturns(h, p)
      PROVE  AnswerInv'
  <2>1. /\ slot' = [slot EXCEPT ![h] = p] /\ seen' = [seen EXCEPT ![h] = bank[p]]
        /\ \A g \in Sessions \ {h} : pc'[g] = pc[g]
        /\ UNCHANGED bank
    BY <1>1 DEF RefreshPayment, AuthorizationReturns, AskBank, TypeOK
  <2> QED BY <2>1 DEF AnswerInv, TypeOK
<1>2. ASSUME NEW h \in Sessions, Leave(h) PROVE \A g \in Sessions : Kept(g)
  BY <1>2, LeaveEffect
<1>3. ASSUME NEW h \in Sessions,
             \/ LockRows(h) \/ AnswerRejected(h) \/ AnswerUncertain(h)
             \/ \E u \in BOOLEAN : AnswerCreated(h, u)
             \/ WriteProviderStatus(h) \/ WriteEvidence(h) \/ Crash(h)
      PROVE  \A g \in Sessions : Kept(g)
  <2>1. CASE Leave(h)
    BY <2>1, <1>2
  <2>2. CASE ~ Leave(h)
    BY <1>3, <2>2
    DEF LockRows, AnswerRejected, AnswerUncertain, AnswerCreated, WriteProviderStatus,
        WriteEvidence, Crash, TypeOK
  <2> QED BY <2>1, <2>2
<1>4. ASSUME NEW h \in Sessions,
             \/ \E b \in Bills : LoadBill(h, b)
             \/ \E p \in Payments : InsertIntent(h, p) \/ FetchTransactions(h, p)
             \/ PostPayment(h)
      PROVE  \A g \in Sessions : Kept(g)
  BY <1>4 DEF LoadBill, InsertIntent, FetchTransactions, PostPayment, TypeOK
<1>5. ASSUME \/ \E p \in Payments : AuthorizationFails(p) \/ QuarantineStaleIntent(p)
                                    \/ BankDecides(p)
             \/ ReadBalance \/ StoreBalance \/ UNCHANGED vars
      PROVE  \A g \in Sessions : Kept(g)
  BY <1>5 DEF AuthorizationFails, QuarantineStaleIntent, BankDecides, ReadBalance,
              StoreBalance, vars, memory, work
<1> QED
  BY <1>1, <1>3, <1>4, <1>5, AnswerKept DEF Next, SessionStep

\* Open payments stay apart when none opens, none ends while it is open, and
\* no session takes the lock.
LEMMA OpenKept ==
  ASSUME TypeOK, TypeOK', OpenInv, UNCHANGED billOf,
         \A p \in Payments : Open(p)' => Open(p) /\ Active(p)',
         \A h \in Sessions : pc'[h] = "inserting" =>
           pc[h] = "inserting" /\ target'[h] = target[h] /\ lock' = lock
  PROVE  OpenInv'
<1>1. \A p \in Payments : (Open(p) => Active(p))'
  OBVIOUS
<1>2. \A p, q \in Payments :
        (p # q /\ billOf[p] = billOf[q] /\ Open(p) => ~ Open(q))'
  BY DEF OpenInv
<1>3. \A h \in Sessions : (pc[h] = "inserting" =>
        /\ lock = h
        /\ \A p \in Payments : billOf[p] = target[h] => ~ Open(p))'
  BY DEF OpenInv
<1> QED
  BY <1>1, <1>2, <1>3 DEF OpenInv

\* A session's step other than the duplicate check and the commit of an intent
\* opens no payment, and ends an open one only where the bank misreports it.
LEMMA SessionOpenStep ==
  ASSUME TypeOK, TypeOK', WorkInv, RowInv, CreatorInv, AnswerInv, OpenInv,
         NEW h \in Sessions, SessionStep(h)
  PROVE  OpenInv'
<1> USE DEF TypeOK, vars, rows, cash, work, memory, history, Open, Held, Posting, Active, Dead
<1>1. ASSUME NEW b \in Bills, LoadBill(h, b) PROVE OpenInv'
  <2>1. /\ pc' = [pc EXCEPT ![h] = "approved"] /\ target' = [target EXCEPT ![h] = b]
        /\ UNCHANGED <<pay, billOf, bank, slot, misreported, lock>> /\ pc[h] = "idle"
    BY <1>1 DEF LoadBill
  <2>2. \A p \in Payments : Open(p)' => Open(p) /\ Active(p)'
    BY <2>1 DEF OpenInv
  <2> QED BY <2>1, <2>2, OpenKept
<1>2. CASE LockRows(h)
  <2>1. pc[h] = "approved" /\ lock = NoSession /\ UNCHANGED <<pay, billOf, bank, misreported>>
    BY <1>2 DEF LockRows, LockFree
  <2>2. CASE Leave(h) /\ UNCHANGED lock
    <3>1. \A p \in Payments : Open(p)' => Open(p) /\ Active(p)'
      BY <2>1, <2>2, LeaveEffect DEF OpenInv
    <3> QED BY <2>1, <2>2, <3>1, LeaveEffect, OpenKept
  <2>3. CASE /\ ActiveOf(target[h]) = {} /\ lock' = h
             /\ pc' = [pc EXCEPT ![h] = "inserting"]
             /\ UNCHANGED <<target, slot>>
    <3>1. \A p \in Payments : Open(p)' => Open(p)
      BY <2>1, <2>3
    <3>2. \A p \in Payments : billOf[p] = target[h] => ~ Open(p)
      BY <2>3 DEF OpenInv, ActiveOf
    <3>3. \A g \in Sessions : pc[g] # "inserting"
      BY <2>1, PaymentAssumption DEF OpenInv
    <3> QED BY <2>1, <2>3, <3>1, <3>2, <3>3 DEF OpenInv
  <2> QED BY <1>2, <2>2, <2>3 DEF LockRows
<1>3. ASSUME NEW p \in Payments, InsertIntent(h, p) PROVE OpenInv'
  <2>1. /\ pc[h] = "inserting" /\ pc' = [pc EXCEPT ![h] = "posting"]
        /\ slot' = [slot EXCEPT ![h] = p]
        /\ pay' = [pay EXCEPT ![p] = "creating"]
        /\ billOf' = [billOf EXCEPT ![p] = target[h]]
        /\ UNCHANGED <<bank, target, misreported>>
    BY <1>3 DEF InsertIntent
  <2>2. pay[p] = "none" /\ ~ Open(p)
    BY <1>3 DEF InsertIntent, OpenInv
  <2>3. \A q \in Payments \ {p} : Open(q)' => Open(q)
    BY <2>1
  <2>4. \A q \in Payments : Open(q)' => Active(q)'
    BY <2>1, <2>3 DEF OpenInv
  <2>5. \A q \in Payments \ {p} : billOf[q] = target[h] => ~ Open(q)
    BY <2>1 DEF OpenInv
  <2>6. \A q, r \in Payments :
          (q # r /\ billOf[q] = billOf[r] /\ Open(q) => ~ Open(r))'
    <3>1. \A q \in Payments \ {p} : billOf'[q] = billOf[q]
      BY <2>1
    <3>2. billOf'[p] = target[h]
      BY <2>1
    <3>3. \A q, r \in Payments \ {p} :
            (q # r /\ billOf[q] = billOf[r] /\ Open(q) => ~ Open(r))'
      <4> HIDE DEF Open
      <4> QED BY <2>3, <3>1 DEF OpenInv
    <3>4. \A q \in Payments \ {p} : billOf'[q] = billOf'[p] => ~ Open(q)'
      <4> HIDE DEF Open
      <4> QED BY <2>3, <2>5, <3>1, <3>2
    <3> HIDE DEF Open
    <3> QED BY <3>3, <3>4
  <2>7. \A g \in Sessions : pc'[g] # "inserting"
    BY <2>1 DEF OpenInv
  <2> QED BY <2>4, <2>6, <2>7 DEF OpenInv
<1>4. CASE PostPayment(h)
  <2>1. PICK s \in {"none", "accepted"} : bank' = [bank EXCEPT ![slot[h]] = s]
    BY <1>4 DEF PostPayment
  <2>2. /\ pc[h] = "posting" /\ pc' = [pc EXCEPT ![h] = "answering"]
        /\ UNCHANGED <<pay, billOf, target, slot, misreported, lock>>
    BY <1>4 DEF PostPayment
  <2>3. \A p \in Payments : Open(p)' => Open(p)
    BY <2>1, <2>2
  <2> QED BY <2>2, <2>3, OpenKept DEF OpenInv
<1>5. CASE AnswerRejected(h)
  <2>1. PICK p \in Payments : p = slot[h]
    BY <1>5 DEF AnswerRejected
  <2>2. /\ pay' = [pay EXCEPT ![p] = "failed"] /\ pc[h] = "answering"
        /\ Leave(h) /\ UNCHANGED <<billOf, bank, lock>>
        /\ misreported' = IF Held(p) THEN misreported \cup {p} ELSE misreported
    BY <1>5, <2>1 DEF AnswerRejected, Misreport
  <2>3. \A q \in Payments : Open(q)' => Open(q)
    BY <2>2, LeaveEffect
  <2>4. \A g \in Sessions \ {h} : ~ (pc[g] = "posting" /\ slot[g] = p)
    BY <2>1, <2>2 DEF CreatorInv, Creator
  <2>5. ~ Open(p)'
    BY <2>2, <2>4, LeaveEffect
  <2>6. \A q \in Payments : Open(q)' => Active(q)'
    BY <2>2, <2>3, <2>5 DEF OpenInv
  <2> QED BY <2>2, <2>3, <2>6, LeaveEffect, OpenKept
<1>6. CASE AnswerUncertain(h) \/ (\E u \in BOOLEAN : AnswerCreated(h, u)) \/ WriteEvidence(h)
  <2>1. /\ \A p \in Payments :
             pay'[p] \in {pay[p], "creation_uncertain", "authorization_required",
                          "pending", "completed"}
        /\ Leave(h) /\ UNCHANGED <<billOf, bank, lock, misreported>>
    BY <1>6 DEF AnswerUncertain, AnswerCreated, WriteEvidence
  <2>2. \A p \in Payments : Open(p)' => Open(p)
    BY <2>1, LeaveEffect
  <2>3. \A p \in Payments : Open(p)' => Active(p)'
    BY <2>1, <2>2 DEF OpenInv
  <2> QED BY <2>1, <2>2, <2>3, LeaveEffect, OpenKept
<1>7. ASSUME NEW p \in Payments,
             RefreshPayment(h, p) \/ AuthorizationReturns(h, p) \/ FetchTransactions(h, p)
      PROVE  OpenInv'
  <2>1. /\ \A g \in Sessions : pc'[g] = pc[g] \/ pc'[g] \notin {"inserting", "posting"}
        /\ \A g \in Sessions : pc'[g] = "posting" => slot'[g] = slot[g]
        /\ UNCHANGED <<pay, billOf, bank, target, misreported, lock>>
    BY <1>7 DEF RefreshPayment, AuthorizationReturns, AskBank, FetchTransactions
  <2>2. \A q \in Payments : Open(q)' => Open(q)
    BY <2>1
  <2> QED BY <2>1, <2>2, OpenKept DEF OpenInv
<1>8. CASE WriteProviderStatus(h)
  <2>1. /\ slot[h] \in Payments /\ external[slot[h]] /\ Leave(h)
        /\ UNCHANGED <<billOf, bank, lock, misreported>>
        /\ \A p \in Payments \ {slot[h]} : pay'[p] = pay[p]
    BY <1>8 DEF WriteProviderStatus, CreatorInv
  <2>2. \A p \in Payments : Open(p)' => Open(p)
    BY <2>1, LeaveEffect
  <2>3. pay'[slot[h]] \in {pay[slot[h]], "completed", "pending"} \/ seen[h] = "rejected"
    BY <1>8 DEF WriteProviderStatus, ProviderStatus
  <2>4. seen[h] = "rejected" => ~ Open(slot[h])
    BY <1>8, <2>1 DEF WriteProviderStatus, AnswerInv, CreatorInv, Creator
  <2>5. \A p \in Payments : Open(p)' => Active(p)'
    BY <2>1, <2>2, <2>3, <2>4 DEF OpenInv
  <2> QED BY <2>1, <2>2, <2>5, LeaveEffect, OpenKept
<1>9. CASE Crash(h)
  <2>1. Leave(h) /\ UNCHANGED <<pay, billOf, bank, misreported>>
    BY <1>9 DEF Crash
  <2>2. \A p \in Payments : Open(p)' => Open(p)
    BY <2>1, LeaveEffect
  <2>3. \A g \in Sessions \ {h} : pc[g] = "inserting" => lock' = lock
    BY <1>9 DEF Crash, OpenInv
  <2>4. \A p \in Payments : Open(p)' => Open(p) /\ Active(p)'
    BY <2>1, <2>2 DEF OpenInv
  <2>5. \A g \in Sessions : pc'[g] = "inserting" =>
          pc[g] = "inserting" /\ target'[g] = target[g] /\ lock' = lock
    BY <2>1, <2>3, LeaveEffect
  <2>6. billOf' = billOf
    BY <2>1
  <2> HIDE DEF Open, Active
  <2> QED BY <2>4, <2>5, <2>6, OpenKept
<1> QED
  BY <1>1, <1>2, <1>3, <1>4, <1>5, <1>6, <1>7, <1>8, <1>9 DEF SessionStep

\* So does every other step.
LEMMA OpenStep ==
  TypeOK /\ TypeOK' /\ WorkInv /\ RowInv /\ CreatorInv /\ AnswerInv /\ OpenInv /\ [Next]_vars
    => OpenInv'
<1> SUFFICES ASSUME TypeOK, TypeOK', WorkInv, RowInv, CreatorInv, AnswerInv, OpenInv,
                    [Next]_vars
             PROVE  OpenInv'
  OBVIOUS
<1> USE DEF TypeOK, vars, rows, cash, work, memory, history, Open, Held, Posting, Active, Dead
<1>1. ASSUME NEW h \in Sessions, SessionStep(h) PROVE OpenInv'
  BY <1>1, SessionOpenStep
<1>2. ASSUME NEW p \in Payments, AuthorizationFails(p) PROVE OpenInv'
  <2>1. /\ external[p] /\ UNCHANGED <<billOf, bank, work>>
        /\ \A q \in Payments \ {p} : pay'[q] = pay[q]
        /\ misreported' = IF Held(p) THEN misreported \cup {p} ELSE misreported
    BY <1>2 DEF AuthorizationFails, Misreport, RowInv
  <2>2. \A q \in Payments : Open(q)' => Open(q)
    BY <2>1
  <2>3. ~ Open(p)'
    BY <2>1 DEF CreatorInv, Creator
  <2> QED BY <2>1, <2>2, <2>3, OpenKept DEF OpenInv
<1>3. ASSUME NEW p \in Payments, QuarantineStaleIntent(p) PROVE OpenInv'
  <2>1. /\ pay' = [pay EXCEPT ![p] = "creation_uncertain"]
        /\ UNCHANGED <<billOf, bank, work, misreported>>
    BY <1>3 DEF QuarantineStaleIntent, Quarantined
  <2>2. \A q \in Payments : Open(q)' => Open(q) /\ Active(q)'
    BY <2>1 DEF OpenInv
  <2> QED BY <2>1, <2>2, OpenKept
<1>4. ASSUME NEW p \in Payments, BankDecides(p) PROVE OpenInv'
  <2>1. bank[p] = "accepted" /\ UNCHANGED <<pay, billOf, work, misreported>>
    BY <1>4 DEF BankDecides
  <2>2. \A q \in Payments \ {p} : bank'[q] = bank[q]
    BY <1>4 DEF BankDecides
  <2>3. \A q \in Payments : Open(q)' => Open(q)
    BY <2>1, <2>2
  <2> QED BY <2>1, <2>3, OpenKept DEF OpenInv
<1>5. CASE ReadBalance \/ StoreBalance \/ UNCHANGED vars
  <2>1. UNCHANGED <<pay, billOf, bank, work, misreported>>
    BY <1>5 DEF ReadBalance, StoreBalance
  <2> QED BY <2>1, OpenKept DEF OpenInv
<1> QED
  BY <1>1, <1>2, <1>3, <1>4, <1>5 DEF Next

\* The invariant holds at first and in every reachable state.
THEOREM PaymentInvariant == Spec => [](TypeOK /\ PaymentInv)
<1>1. Init => PaymentInv
  BY PaymentAssumption
  DEF Init, PaymentInv, WorkInv, RowInv, CreatorInv, Creator, AnswerInv, OpenInv, Open, Held,
      Posting
<1>2. TypeOK /\ PaymentInv /\ [Next]_vars => PaymentInv'
  BY NextTypeOK, WorkStep, RowStep, CreatorStep, AnswerStep, OpenStep DEF PaymentInv
<1> QED
  BY <1>1, <1>2, InitTypeOK, NextTypeOK, PTL DEF Spec

\* No bill is paid twice unless the bank reported a payment it had as failed,
\* for any number of bills, payments and sessions.
THEOREM PaidOnceHolds == Spec => []PaidOnce
<1>1. TypeOK /\ PaymentInv => PaidOnce
  BY DEF PaymentInv, OpenInv, Open, PaidOnce
<1> QED
  BY <1>1, PaymentInvariant, PTL

-----------------------------------------------------------------------------
(***************************************************************************)
(* A paid bill has a settled payment or a misleading match                 *)
(*                                                                         *)
(* A bill is written paid from what a session remembers: the bank's answer *)
(* (AnswerInv) or the one row that matched (MatchInv).  Both stay true,    *)
(* because the bank does not take a settlement back, a payment keeps its   *)
(* bill, and a match that misled once is on record.                        *)
(***************************************************************************)
Evidenced(b) ==
  \E p \in Payments : billOf[p] = b /\ (bank[p] = "settled" \/ p \in misled)

MatchInv ==
  \A h \in Sessions : pc[h] = "evidence" /\ matched[h] => Evidenced(billOf[slot[h]])

\* A payment keeps its bill once it has a row.
LEMMA BillIsFinal ==
  ASSUME TypeOK, [Next]_vars, NEW p \in Payments, pay[p] # "none"
  PROVE  billOf'[p] = billOf[p]
<1> USE DEF TypeOK, vars, rows, cash, work, memory, history
<1>1. ASSUME NEW h \in Sessions, NEW q \in Payments, InsertIntent(h, q)
      PROVE  billOf'[p] = billOf[p]
  BY <1>1 DEF InsertIntent
<1>2. ASSUME NEW h \in Sessions, SessionStep(h), \A q \in Payments : ~ InsertIntent(h, q)
      PROVE  billOf' = billOf
  BY <1>2
  DEF SessionStep, LoadBill, LockRows, PostPayment, AnswerRejected, AnswerUncertain,
      AnswerCreated, RefreshPayment, AuthorizationReturns, AskBank, WriteProviderStatus,
      FetchTransactions, WriteEvidence, Crash
<1>3. ASSUME NEW q \in Payments,
             AuthorizationFails(q) \/ QuarantineStaleIntent(q) \/ BankDecides(q)
      PROVE  billOf' = billOf
  BY <1>3 DEF AuthorizationFails, QuarantineStaleIntent, BankDecides
<1>4. CASE ReadBalance \/ StoreBalance \/ UNCHANGED vars
  BY <1>4 DEF ReadBalance, StoreBalance
<1> QED
  BY <1>1, <1>2, <1>3, <1>4 DEF Next

\* A misleading match is never forgotten.
LEMMA MisledIsFinal ==
  ASSUME [Next]_vars
  PROVE  misled \subseteq misled'
<1> USE DEF vars, history
<1>1. ASSUME NEW h \in Sessions, SessionStep(h) PROVE misled \subseteq misled'
  BY <1>1
  DEF SessionStep, LoadBill, LockRows, InsertIntent, PostPayment, AnswerRejected,
      AnswerUncertain, AnswerCreated, RefreshPayment, AuthorizationReturns, AskBank,
      WriteProviderStatus, FetchTransactions, WriteEvidence, Crash, Misreport
<1>2. ASSUME NEW q \in Payments,
             AuthorizationFails(q) \/ QuarantineStaleIntent(q) \/ BankDecides(q)
      PROVE  misled' = misled
  BY <1>2 DEF AuthorizationFails, QuarantineStaleIntent, Quarantined, BankDecides, Misreport
<1>3. CASE ReadBalance \/ StoreBalance \/ UNCHANGED vars
  BY <1>3 DEF ReadBalance, StoreBalance
<1> QED
  BY <1>1, <1>2, <1>3 DEF Next

\* So a bill with a settled payment, or a misleading match, has it forever.
LEMMA EvidencedIsFinal ==
  ASSUME TypeOK, RowInv, CreatorInv, [Next]_vars, NEW b \in Bills, Evidenced(b)
  PROVE  Evidenced(b)'
<1>1. PICK p \in Payments : billOf[p] = b /\ (bank[p] = "settled" \/ p \in misled)
  BY DEF Evidenced
<1>2. pay[p] # "none"
  BY <1>1, PaymentAssumption DEF RowInv
<1>3. billOf'[p] = b
  BY <1>1, <1>2, BillIsFinal
<1>4. bank'[p] = "settled" \/ p \in misled'
  BY <1>1, BankIsFinal, MisledIsFinal
<1> QED
  BY <1>3, <1>4 DEF Evidenced

\* A session that found its transaction still has one behind it.
LEMMA MatchStep ==
  TypeOK /\ TypeOK' /\ PaymentInv /\ MatchInv /\ [Next]_vars => MatchInv'
<1> SUFFICES ASSUME TypeOK, TypeOK', PaymentInv, MatchInv, [Next]_vars,
                    NEW g \in Sessions, pc'[g] = "evidence", matched'[g]
             PROVE  Evidenced(billOf[slot[g]])'
  BY DEF MatchInv
<1> USE DEF PaymentInv
<1>1. CASE pc[g] = "evidence" /\ matched[g] /\ slot'[g] = slot[g]
  <2>1. PICK p \in Payments : p = slot[g] /\ pay[p] # "none"
    BY <1>1 DEF TypeOK, WorkInv
  <2>2. PICK b \in Bills : b = billOf[p] /\ Evidenced(b)
    BY <1>1, <2>1 DEF MatchInv, RowInv
  <2>3. Evidenced(b)' /\ billOf'[p] = b
    BY <2>1, <2>2, EvidencedIsFinal, BillIsFinal
  <2> QED BY <1>1, <2>1, <2>3
<1>2. ASSUME NEW p \in Payments, FetchTransactions(g, p) PROVE Evidenced(billOf[slot[g]])'
  <2>1. slot'[g] = p /\ UNCHANGED <<billOf, bank>>
    BY <1>2 DEF FetchTransactions, TypeOK, rows
  <2>2. PICK L \in Candidates(p) :
          /\ matched' = [matched EXCEPT ![g] = Cardinality(L) = 1]
          /\ misled' = IF Cardinality(L) = 1 /\ \E q \in L : ~ IsEvidence(q, p)
                       THEN misled \cup {p} ELSE misled
    BY <1>2 DEF FetchTransactions
  <2>3. Cardinality(L) = 1 /\ L # {}
    <3>1. matched'[g] <=> Cardinality(L) = 1
      BY <2>2, Zenon DEF TypeOK
    <3>2. Cardinality({}) = 0
      BY FS_EmptySet
    <3>3. Cardinality(L) = 1
      BY <3>1, Zenon
    <3> QED BY <3>2, <3>3
  <2>4. CASE \E q \in L : ~ IsEvidence(q, p)
    BY <2>1, <2>2, <2>3, <2>4 DEF Evidenced
  <2>5. CASE ~ \E q \in L : ~ IsEvidence(q, p)
    <3>1. PICK q \in Payments : bank[q] = "settled" /\ billOf[q] = billOf[p]
      BY <2>3, <2>5 DEF IsEvidence
    <3> QED BY <2>1, <3>1 DEF Evidenced
  <2> QED BY <2>4, <2>5
<1>3. ASSUME NEW h \in Sessions, Leave(h)
      PROVE  pc[g] = "evidence" /\ matched[g] /\ slot'[g] = slot[g]
  BY <1>3, LeaveEffect
<1>4. ASSUME NEW h \in Sessions, SessionStep(h),
             h = g => \A p \in Payments : ~ FetchTransactions(g, p)
      PROVE  pc[g] = "evidence" /\ matched[g] /\ slot'[g] = slot[g]
  <2>1. CASE Leave(h)
    BY <2>1, <1>3
  <2>2. ASSUME NEW b \in Bills, LoadBill(h, b)
        PROVE  pc[g] = "evidence" /\ matched[g] /\ slot'[g] = slot[g]
    BY <2>2 DEF LoadBill, TypeOK
  <2>3. ASSUME NEW p \in Payments, InsertIntent(h, p)
        PROVE  pc[g] = "evidence" /\ matched[g] /\ slot'[g] = slot[g]
    BY <2>3 DEF InsertIntent, TypeOK
  <2>4. CASE LockRows(h) \/ PostPayment(h)
    BY <2>1, <2>4 DEF LockRows, PostPayment, TypeOK
  <2>5. ASSUME NEW p \in Payments, RefreshPayment(h, p) \/ AuthorizationReturns(h, p)
        PROVE  pc[g] = "evidence" /\ matched[g] /\ slot'[g] = slot[g]
    BY <2>5 DEF RefreshPayment, AuthorizationReturns, AskBank, TypeOK
  <2>6. ASSUME NEW p \in Payments, FetchTransactions(h, p)
        PROVE  pc[g] = "evidence" /\ matched[g] /\ slot'[g] = slot[g]
    <3>1. h # g
      BY <1>4, <2>6
    <3>2. /\ pc' = [pc EXCEPT ![h] = "evidence"] /\ slot' = [slot EXCEPT ![h] = p]
          /\ \E b : matched' = [matched EXCEPT ![h] = b]
      BY <2>6 DEF FetchTransactions
    <3> QED BY <3>1, <3>2 DEF TypeOK
  <2>7. CASE \/ AnswerRejected(h) \/ AnswerUncertain(h) \/ (\E u \in BOOLEAN : AnswerCreated(h, u))
             \/ WriteProviderStatus(h) \/ WriteEvidence(h) \/ Crash(h)
    BY <2>1, <2>7
    DEF AnswerRejected, AnswerUncertain, AnswerCreated, WriteProviderStatus, WriteEvidence, Crash
  <2> QED BY <1>4, <2>2, <2>3, <2>4, <2>5, <2>6, <2>7 DEF SessionStep
<1>5. ASSUME \/ \E p \in Payments : AuthorizationFails(p) \/ QuarantineStaleIntent(p)
                                    \/ BankDecides(p)
             \/ ReadBalance \/ StoreBalance \/ UNCHANGED vars
      PROVE  pc[g] = "evidence" /\ matched[g] /\ slot'[g] = slot[g]
  BY <1>5 DEF AuthorizationFails, QuarantineStaleIntent, BankDecides, ReadBalance,
              StoreBalance, vars, memory, work
<1> QED
  BY <1>1, <1>2, <1>4, <1>5 DEF Next

\* A bill becomes paid on a settlement of its own.
LEMMA PaidStep ==
  TypeOK /\ TypeOK' /\ PaymentInv /\ MatchInv /\ PaidBillsWereSettled /\ [Next]_vars
    => PaidBillsWereSettled'
<1> SUFFICES ASSUME TypeOK, TypeOK', PaymentInv, MatchInv, PaidBillsWereSettled, [Next]_vars,
                    NEW b \in Bills, bill'[b] = "paid"
             PROVE  Evidenced(b)'
  BY DEF PaidBillsWereSettled, Evidenced
<1> USE DEF PaymentInv, TypeOK
<1>1. CASE bill[b] = "paid"
  BY <1>1, EvidencedIsFinal DEF PaidBillsWereSettled, Evidenced
<1>2. ASSUME NEW h \in Sessions, WriteProviderStatus(h), bill[b] # "paid" PROVE Evidenced(b)'
  <2>1. /\ slot[h] \in Payments /\ seen[h] = "settled" /\ billOf[slot[h]] = b
        /\ pc[h] \in {"polled", "returned"}
    BY <1>2 DEF WriteProviderStatus, ProviderStatus
  <2>2. Evidenced(b)
    BY <2>1 DEF AnswerInv, Evidenced
  <2> QED BY <2>2, EvidencedIsFinal
<1>3. ASSUME NEW h \in Sessions, WriteEvidence(h), bill[b] # "paid" PROVE Evidenced(b)'
  <2>1. matched[h] /\ billOf[slot[h]] = b /\ pc[h] = "evidence"
    BY <1>3 DEF WriteEvidence
  <2>2. Evidenced(b)
    BY <2>1 DEF MatchInv
  <2> QED BY <2>2, EvidencedIsFinal
<1>4. ASSUME NEW h \in Sessions, SessionStep(h), ~ WriteProviderStatus(h), ~ WriteEvidence(h)
      PROVE  bill[b] = "paid"
  BY <1>4
  DEF SessionStep, LoadBill, LockRows, InsertIntent, PostPayment, AnswerRejected,
      AnswerUncertain, AnswerCreated, RefreshPayment, AuthorizationReturns, AskBank,
      FetchTransactions, Crash, rows
<1>5. ASSUME \/ \E p \in Payments : AuthorizationFails(p) \/ QuarantineStaleIntent(p)
                                    \/ BankDecides(p)
             \/ ReadBalance \/ StoreBalance \/ UNCHANGED vars
      PROVE  bill[b] = "paid"
  BY <1>5 DEF AuthorizationFails, QuarantineStaleIntent, BankDecides, ReadBalance,
              StoreBalance, vars, rows
<1> QED
  BY <1>1, <1>2, <1>3, <1>4, <1>5 DEF Next

\* A bill is paid only when the bank executed one of its payments or listed a
\* misleading match for one, for any number of bills, payments and sessions, and
\* whichever bills look alike.
THEOREM PaidBillsWereSettledHolds == Spec => []PaidBillsWereSettled
<1>1. Init => MatchInv /\ PaidBillsWereSettled
  BY DEF Init, MatchInv, PaidBillsWereSettled
<1>2. TypeOK /\ TypeOK' /\ PaymentInv /\ MatchInv /\ PaidBillsWereSettled /\ [Next]_vars
        => (MatchInv /\ PaidBillsWereSettled)'
  BY MatchStep, PaidStep
<1> QED
  BY <1>1, <1>2, PaymentInvariant, PTL DEF Spec

-----------------------------------------------------------------------------
(***************************************************************************)
(* The reserve                                                             *)
(*                                                                         *)
(* A new payment needs room beside every open one.  The check counts those *)
(* that the loaded balance contains and those it holds reserved; an open   *)
(* payment is in neither only when a sync released it too early.  Between  *)
(* the check and the commit of the intent the lock keeps others out.       *)
(***************************************************************************)
OpenPayments == {p \in Payments : Open(p)}

\* A copy of the account releases only payments its balance contains.
Sound(a) == a.synced \subseteq a.spent

ReserveInv ==
  ~ overlooked =>
    /\ Sound(account) /\ \A h \in Sessions : Sound(held[h])
    /\ Cardinality(OpenPayments) + Reserve <= Funds
    /\ \A h \in Sessions :
         pc[h] = "inserting" => Cardinality(OpenPayments) + 1 + Reserve <= Funds

\* The check of the available balance leaves room for every open payment.
LEMMA CoversOpen ==
  ASSUME IsFiniteSet(Payments), TypeOK, OpenInv, NEW a \in Accounts, Sound(a), Covers(a)
  PROVE  Cardinality(OpenPayments) + 1 + Reserve <= Funds
<1> DEFINE R == {p \in Payments : Reserved(p, a)}
<1>1. a.spent \subseteq Payments
  BY DEF Accounts
<1>2. OpenPayments \subseteq a.spent \cup R
  BY DEF OpenPayments, OpenInv, Reserved, Sound
<1>3. IsFiniteSet(a.spent) /\ IsFiniteSet(R)
  BY <1>1, FS_Subset
<1>4. /\ Cardinality(a.spent) \in Nat /\ Cardinality(R) \in Nat
      /\ Cardinality(a.spent \cap R) \in Nat
  <2>1. IsFiniteSet(a.spent \cap R)
    BY <1>3, FS_Subset
  <2> QED BY <1>3, <2>1, FS_CardinalityType
<1>5. /\ IsFiniteSet(a.spent \cup R)
      /\ Cardinality(a.spent \cup R)
           = Cardinality(a.spent) + Cardinality(R) - Cardinality(a.spent \cap R)
  BY <1>3, FS_Union
<1>6. Cardinality(OpenPayments) <= Cardinality(a.spent \cup R)
  BY <1>2, <1>5, FS_Subset
<1>7. IsFiniteSet(OpenPayments)
  BY <1>2, <1>5, FS_Subset
<1>8. Cardinality(OpenPayments) \in Nat /\ Cardinality(a.spent \cup R) \in Nat
  BY <1>5, <1>7, FS_CardinalityType
<1>9. Cardinality(a.spent) + Cardinality(R) + 1 + Reserve <= Funds
  BY DEF Covers
<1> QED
  BY <1>4, <1>5, <1>6, <1>8, <1>9, PaymentAssumption

\* Only the commit of an intent opens a payment.
LEMMA NoneOpens ==
  ASSUME TypeOK, TypeOK', [Next]_vars, NEW p \in Payments, Open(p)',
         \A h \in Sessions : ~ InsertIntent(h, p)
  PROVE  Open(p)
<1> USE DEF TypeOK, Open, Held, Posting, vars, rows, cash, work, memory, history
<1>1. ASSUME NEW h \in Sessions, NEW q \in Payments, InsertIntent(h, q) PROVE Open(p)
  <2>1. q # p
    BY <1>1
  <2>2. /\ UNCHANGED <<bank, misreported>>
        /\ pc' = [pc EXCEPT ![h] = "posting"] /\ slot' = [slot EXCEPT ![h] = q]
    BY <1>1 DEF InsertIntent
  <2> QED BY <2>1, <2>2
<1>2. ASSUME NEW h \in Sessions, PostPayment(h) PROVE Open(p)
  <2>1. PICK s \in {"none", "accepted"} : bank' = [bank EXCEPT ![slot[h]] = s]
    BY <1>2 DEF PostPayment
  <2>2. /\ pc[h] = "posting" /\ pc' = [pc EXCEPT ![h] = "answering"]
        /\ UNCHANGED <<slot, misreported>>
    BY <1>2 DEF PostPayment
  <2> QED BY <2>1, <2>2
<1>3. ASSUME NEW h \in Sessions, Leave(h), UNCHANGED bank, misreported \subseteq misreported'
      PROVE  Open(p)
  BY <1>3, LeaveEffect
<1>4. ASSUME NEW h \in Sessions,
             \/ AnswerRejected(h) \/ AnswerUncertain(h) \/ (\E u \in BOOLEAN : AnswerCreated(h, u))
             \/ WriteProviderStatus(h) \/ WriteEvidence(h) \/ Crash(h)
      PROVE  Open(p)
  <2>1. Leave(h) /\ UNCHANGED bank /\ misreported \subseteq misreported'
    BY <1>4 DEF AnswerRejected, AnswerUncertain, AnswerCreated, WriteProviderStatus,
                WriteEvidence, Crash, Misreport
  <2> QED BY <2>1, <1>3
<1>5. ASSUME NEW h \in Sessions, LockRows(h) PROVE Open(p)
  <2>1. UNCHANGED <<bank, misreported>>
    BY <1>5 DEF LockRows
  <2>2. CASE Leave(h)
    BY <2>1, <2>2, <1>3
  <2>3. CASE pc' = [pc EXCEPT ![h] = "inserting"] /\ UNCHANGED slot
    BY <2>1, <2>3
  <2> QED BY <1>5, <2>2, <2>3 DEF LockRows
<1>6. ASSUME NEW h \in Sessions, NEW b \in Bills, LoadBill(h, b) PROVE Open(p)
  BY <1>6 DEF LoadBill
<1>7. ASSUME NEW h \in Sessions, NEW q \in Payments,
             RefreshPayment(h, q) \/ AuthorizationReturns(h, q) \/ FetchTransactions(h, q)
      PROVE  Open(p)
  BY <1>7 DEF RefreshPayment, AuthorizationReturns, AskBank, FetchTransactions
<1>8. ASSUME NEW q \in Payments, AuthorizationFails(q) \/ QuarantineStaleIntent(q) PROVE Open(p)
  BY <1>8 DEF AuthorizationFails, QuarantineStaleIntent, Quarantined, Misreport
<1>9. ASSUME NEW q \in Payments, BankDecides(q) PROVE Open(p)
  BY <1>9 DEF BankDecides
<1>10. CASE ReadBalance \/ StoreBalance \/ UNCHANGED vars
  BY <1>10 DEF ReadBalance, StoreBalance
<1> QED
  BY <1>1, <1>2, <1>4, <1>5, <1>6, <1>7, <1>8, <1>9, <1>10 DEF Next, SessionStep

\* An account newer than a changed row releases no more than it did.
LEMMA TouchSound ==
  ASSUME TypeOK, NEW p, Touch(p), Sound(account), \A h \in Sessions : Sound(held[h])
  PROVE  Sound(account)' /\ \A h \in Sessions : Sound(held[h])'
<1>1. \A a : Sound(a) => Sound(Newer(a, p))
  BY DEF Sound, Newer
<1>2. CASE UNCHANGED <<account, held>>
  BY <1>2
<1>3. CASE account' = Newer(account, p) /\ held' = [g \in Sessions |-> Newer(held[g], p)]
  BY <1>1, <1>3
<1> QED
  BY <1>2, <1>3 DEF Touch

\* A step that does not overlook a payment keeps every copy of the account sound.
LEMMA SoundStep ==
  ASSUME TypeOK, ReserveInv, [Next]_vars, ~ overlooked'
  PROVE  ~ overlooked /\ Sound(account)' /\ \A g \in Sessions : Sound(held[g])'
<1> DEFINE Goal == ~ overlooked /\ Sound(account)' /\ \A g \in Sessions : Sound(held[g])'
<1>1. ~ overlooked => Sound(account) /\ \A g \in Sessions : Sound(held[g])
  BY DEF ReserveInv
<1>2. Sound(Fresh)
  BY DEF Sound, Fresh
<1>3. ASSUME NEW p, Touch(p), UNCHANGED overlooked PROVE Goal
  BY <1>1, <1>3, TouchSound
<1>4. ASSUME UNCHANGED <<account, overlooked>>,
             \A g \in Sessions : held'[g] \in {held[g], account, Fresh}
      PROVE  Goal
  BY <1>1, <1>2, <1>4 DEF Sound
<1>5. ASSUME NEW h \in Sessions, NEW b \in Bills, LoadBill(h, b) PROVE Goal
  BY <1>4, <1>5 DEF LoadBill, TypeOK, cash, history
<1>6. ASSUME NEW h \in Sessions, LockRows(h) \/ Crash(h) PROVE Goal
  BY <1>4, <1>6 DEF LockRows, Crash, TypeOK, cash, history
<1>7. ASSUME NEW h \in Sessions,
             \/ PostPayment(h)
             \/ \E p \in Payments : \/ RefreshPayment(h, p) \/ AuthorizationReturns(h, p)
                                    \/ FetchTransactions(h, p)
      PROVE  Goal
  BY <1>4, <1>7 DEF PostPayment, RefreshPayment, AuthorizationReturns, AskBank,
                    FetchTransactions, cash, history
<1>8. ASSUME NEW h \in Sessions,
             \/ \E p \in Payments : InsertIntent(h, p)
             \/ AnswerRejected(h) \/ AnswerUncertain(h) \/ (\E u \in BOOLEAN : AnswerCreated(h, u))
             \/ WriteProviderStatus(h) \/ WriteEvidence(h)
      PROVE  Goal
  <2>1. (\E p : Touch(p)) /\ UNCHANGED overlooked
    BY <1>8 DEF InsertIntent, AnswerRejected, AnswerUncertain, AnswerCreated,
                WriteProviderStatus, WriteEvidence, Misreport, history
  <2> QED BY <2>1, <1>3
<1>9. ASSUME NEW p \in Payments, AuthorizationFails(p) \/ QuarantineStaleIntent(p) PROVE Goal
  <2>1. Touch(p) /\ UNCHANGED overlooked
    BY <1>9 DEF AuthorizationFails, QuarantineStaleIntent, Quarantined, Misreport, history
  <2> QED BY <2>1, <1>3
<1>10. CASE (\E p \in Payments : BankDecides(p)) \/ ReadBalance \/ UNCHANGED vars
  BY <1>4, <1>10 DEF BankDecides, ReadBalance, vars, memory, cash, history
<1>11. CASE StoreBalance
  <2>1. ~ overlooked /\ UNCHANGED held /\ Sound(account')
    BY <1>11 DEF StoreBalance, Sound, memory
  <2> QED BY <2>1, <1>1 DEF Sound
<1> QED
  BY <1>5, <1>6, <1>7, <1>8, <1>9, <1>10, <1>11 DEF Next, SessionStep

\* A session takes the lock in LockRows only, and after its check.
LEMMA LockTaken ==
  ASSUME TypeOK, [Next]_vars, NEW h \in Sessions, pc'[h] = "inserting", pc[h] # "inserting"
  PROVE  LockRows(h)
<1> USE DEF TypeOK
<1>1. ASSUME NEW g \in Sessions, Leave(g) PROVE FALSE
  BY <1>1, LeaveEffect
<1>2. ASSUME NEW g \in Sessions, LockRows(g) PROVE g = h
  BY <1>1, <1>2 DEF LockRows
<1>3. ASSUME NEW g \in Sessions,
             \/ AnswerRejected(g) \/ AnswerUncertain(g) \/ (\E u \in BOOLEAN : AnswerCreated(g, u))
             \/ WriteProviderStatus(g) \/ WriteEvidence(g) \/ Crash(g)
      PROVE  FALSE
  BY <1>1, <1>3 DEF AnswerRejected, AnswerUncertain, AnswerCreated, WriteProviderStatus,
                    WriteEvidence, Crash
<1>4. ASSUME NEW g \in Sessions, NEW b \in Bills, LoadBill(g, b) PROVE FALSE
  BY <1>4 DEF LoadBill
<1>5. ASSUME NEW g \in Sessions, NEW p \in Payments,
             \/ InsertIntent(g, p) \/ RefreshPayment(g, p) \/ AuthorizationReturns(g, p)
             \/ FetchTransactions(g, p)
      PROVE  FALSE
  BY <1>5 DEF InsertIntent, RefreshPayment, AuthorizationReturns, AskBank, FetchTransactions
<1>6. ASSUME NEW g \in Sessions, PostPayment(g) PROVE FALSE
  BY <1>6 DEF PostPayment
<1>7. ASSUME \/ \E p \in Payments : AuthorizationFails(p) \/ QuarantineStaleIntent(p)
                                    \/ BankDecides(p)
             \/ ReadBalance \/ StoreBalance \/ UNCHANGED vars
      PROVE  FALSE
  BY <1>7 DEF AuthorizationFails, QuarantineStaleIntent, BankDecides, ReadBalance,
              StoreBalance, vars, memory, work
<1> QED
  BY <1>2, <1>3, <1>4, <1>5, <1>6, <1>7 DEF Next, SessionStep

\* The room for the open payments is never lost.
LEMMA ReserveStep ==
  ASSUME IsFiniteSet(Payments), TypeOK, TypeOK', PaymentInv, PaymentInv', ReserveInv,
         [Next]_vars
  PROVE  ReserveInv'
<1> SUFFICES ASSUME ~ overlooked'
             PROVE  /\ Sound(account)' /\ \A h \in Sessions : Sound(held[h])'
                    /\ Cardinality(OpenPayments') + Reserve <= Funds
                    /\ \A h \in Sessions :
                         pc'[h] = "inserting" =>
                           Cardinality(OpenPayments') + 1 + Reserve <= Funds
  BY DEF ReserveInv
<1>1. ~ overlooked /\ Sound(account)' /\ \A h \in Sessions : Sound(held[h])'
  BY SoundStep
<1>2. IsFiniteSet(OpenPayments) /\ IsFiniteSet(OpenPayments')
  BY FS_Subset DEF OpenPayments
<1>3. Cardinality(OpenPayments) \in Nat /\ Cardinality(OpenPayments') \in Nat
  BY <1>2, FS_CardinalityType
<1>4. ASSUME NEW g \in Sessions, NEW p \in Payments, InsertIntent(g, p)
      PROVE  /\ Cardinality(OpenPayments') + Reserve <= Funds
             /\ \A h \in Sessions : pc'[h] # "inserting"
  <2>1. \A q \in Payments \ {p} : Open(q)' => Open(q)
    <3>1. SUFFICES ASSUME NEW q \in Payments \ {p}, Open(q)' PROVE Open(q)
      OBVIOUS
    <3>2. \A h \in Sessions : ~ InsertIntent(h, q)
      BY <1>4 DEF InsertIntent, TypeOK
    <3> QED BY <3>1, <3>2, NoneOpens
  <2>2. OpenPayments' \subseteq OpenPayments \cup {p}
    BY <2>1 DEF OpenPayments
  <2>3. /\ IsFiniteSet(OpenPayments \cup {p})
        /\ \/ Cardinality(OpenPayments \cup {p}) = Cardinality(OpenPayments)
           \/ Cardinality(OpenPayments \cup {p}) = Cardinality(OpenPayments) + 1
    BY <1>2, FS_AddElement
  <2>4. Cardinality(OpenPayments \cup {p}) \in Nat
    BY <2>3, FS_CardinalityType
  <2>5. Cardinality(OpenPayments') <= Cardinality(OpenPayments \cup {p})
    BY <2>2, <2>3, FS_Subset
  <2>6. Cardinality(OpenPayments) + 1 + Reserve <= Funds
    BY <1>1, <1>4 DEF ReserveInv, InsertIntent
  <2>7. \A h \in Sessions : pc'[h] # "inserting"
    BY <1>4 DEF InsertIntent, PaymentInv, OpenInv, TypeOK
  <2> QED BY <1>3, <2>3, <2>4, <2>5, <2>6, <2>7, PaymentAssumption
<1>5. ASSUME \A g \in Sessions, p \in Payments : ~ InsertIntent(g, p)
      PROVE  Cardinality(OpenPayments') <= Cardinality(OpenPayments)
  <2>1. OpenPayments' \subseteq OpenPayments
    BY <1>5, NoneOpens DEF OpenPayments
  <2> QED BY <1>2, <2>1, FS_Subset
<1>6. ASSUME NEW h \in Sessions, pc'[h] = "inserting"
      PROVE  Cardinality(OpenPayments) + 1 + Reserve <= Funds
  <2>1. CASE pc[h] = "inserting"
    BY <1>1, <2>1 DEF ReserveInv
  <2>2. CASE pc[h] # "inserting"
    <3>1. LockRows(h)
      BY <1>6, <2>2, LockTaken
    <3>2. Covers(held[h])
      BY <1>6, <3>1, LeaveEffect DEF LockRows
    <3>3. Sound(held[h]) /\ held[h] \in Accounts
      BY <1>1 DEF ReserveInv, TypeOK
    <3> QED BY <3>2, <3>3, CoversOpen DEF PaymentInv
  <2> QED BY <2>1, <2>2
<1>7. CASE \A g \in Sessions, p \in Payments : ~ InsertIntent(g, p)
  <2>1. Cardinality(OpenPayments) + Reserve <= Funds
    BY <1>1 DEF ReserveInv
  <2> QED BY <1>1, <1>3, <1>5, <1>6, <1>7, <2>1, PaymentAssumption
<1> QED
  BY <1>1, <1>4, <1>7

\* The reserve is kept through any number of payments made at once, unless the
\* bank misreports one or a sync releases one too early.
THEOREM ReserveKeptHolds ==
  ASSUME IsFiniteSet(Payments)
  PROVE  Spec => []ReserveKept
<1>1. IsFiniteSet(Payments)
  OBVIOUS
<1>2. Init => ReserveInv
  <2> SUFFICES ASSUME Init PROVE ReserveInv
    OBVIOUS
  <2>1. OpenPayments = {}
    BY DEF Init, OpenPayments, Open, Held, Posting
  <2>2. Sound(account) /\ \A h \in Sessions : Sound(held[h])
    BY DEF Init, Sound, Fresh
  <2>3. \A h \in Sessions : pc[h] # "inserting"
    BY DEF Init
  <2> QED BY <2>1, <2>2, <2>3, FS_EmptySet, PaymentAssumption DEF ReserveInv
<1>3. TypeOK /\ TypeOK' /\ PaymentInv /\ PaymentInv' /\ ReserveInv /\ [Next]_vars => ReserveInv'
  BY <1>1, ReserveStep
<1>4. TypeOK /\ ReserveInv => ReserveKept
  <2> SUFFICES ASSUME TypeOK, ReserveInv, misreported = {}, ~ overlooked
               PROVE  Cardinality({p \in Payments : Held(p)}) + Reserve <= Funds
    BY DEF ReserveKept
  <2>1. {p \in Payments : Held(p)} \subseteq OpenPayments
    BY DEF OpenPayments, Open
  <2>2. IsFiniteSet(OpenPayments)
    BY <1>1, FS_Subset DEF OpenPayments
  <2>3. /\ Cardinality({p \in Payments : Held(p)}) <= Cardinality(OpenPayments)
        /\ IsFiniteSet({p \in Payments : Held(p)})
    BY <2>1, <2>2, FS_Subset
  <2>4. /\ Cardinality(OpenPayments) \in Nat
        /\ Cardinality({p \in Payments : Held(p)}) \in Nat
    BY <2>2, <2>3, FS_CardinalityType
  <2> QED BY <2>3, <2>4, PaymentAssumption DEF ReserveInv
<1> QED
  BY <1>2, <1>3, <1>4, PaymentInvariant, PTL DEF Spec
=============================================================================
