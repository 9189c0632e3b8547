----------------------------- MODULE BillPayment -----------------------------
(***************************************************************************)
(* Paying a bill: create_payment_for_bill, refresh_payment and the         *)
(* authorization callback of banking_service.py, the recovery of uncertain *)
(* creations of payment_recovery.py, the reservations and the quarantine   *)
(* of cash_safety.py, and the bill.lifecycle handler that calls them.      *)
(*                                                                         *)
(* The workflow engine runs handlers at least once and at times twice at   *)
(* once, the owner's routes run the same functions, and the bank answers   *)
(* late, wrongly or not at all: each session below is any such caller.     *)
(*                                                                         *)
(* Simplifications                                                         *)
(*  - One approved account and creditor, every bill of one unit of money.  *)
(*  - A session that awaits the bank is two steps: it loads the row and    *)
(*    asks, then it writes what it was answered.                           *)
(*  - Non-final provider statuses are one status, "pending".               *)
(*  - requires_user_action, the tasks, the evidence and the audit rows are *)
(*    left out: no step here reads them.                                   *)
(*  - The owner moves no money himself: the balance changes by payments.   *)
(*  - A creator is done before the quarantine: two requests with a timeout *)
(*    of 60 s against 15 minutes.                                          *)
(***************************************************************************)
EXTENDS Naturals, FiniteSets

CONSTANTS
  Bills,
  Payments,    \* ids of the payments table, given out in order
  Sessions,    \* database sessions that may work on bills at once
  NoBill, NoPayment, NoSession,
  Alike,       \* pairs of bills that one transaction can match
  Credits,     \* bills whose creditor has sent the amount the other way
  Funds,       \* the account's balance at first
  Reserve      \* safety_reserve

ASSUME PaymentAssumption ==
  /\ Payments \subseteq Nat
  /\ Funds \in Nat /\ Reserve \in Nat /\ Reserve <= Funds
  /\ Alike \subseteq Bills \X Bills
  /\ \A b \in Bills : <<b, b>> \in Alike
  /\ Credits \subseteq Bills /\ Bills \cap Payments = {}
  /\ NoBill \notin Bills /\ NoPayment \notin Payments /\ NoSession \notin Sessions

VARIABLES
  bill,        \* bills.status
  (* columns of payments *)
  pay,         \* status; "none" is a row not inserted yet
  billOf,      \* bill_id
  external,    \* external_payment_id is known
  redirect,    \* the owner has its authorization URL and its OAuth state row exists
  (* cash_safety *)
  account,     \* bank_accounts: "spent", the payments its balance contains, and
               \* "synced", the completed ones changed before its last_synced_at
  snapshot,    \* the payments contained in a balance read and not stored yet
  syncing,
  (* sessions *)
  pc, target, slot,
  held,        \* the account as the session loaded it
  seen,        \* the payment's state as the bank answered it
  same,        \* that answer is the status the session loaded
  matched,     \* one transaction alone matches the uncertain payment
  lock,        \* holder of the row locks on the bill and the account
  (* the bank *)
  bank,        \* what became of the payment
  (* history *)
  misreported, \* payments reported as failed while the bank held or had executed them
  overlooked,  \* a sync released a completed payment although its balance had it not
  misled       \* payments for which the bank listed, as the only match, something
               \* else than an executed payment of their bill

rows == <<bill, pay, billOf, external, redirect>>
cash == <<account, snapshot, syncing>>
work == <<pc, target, slot, seen, same, matched, lock>>
memory == <<work, held>>
history == <<misreported, overlooked, misled>>
vars == <<rows, cash, memory, bank, history>>

Dead == {"failed", "cancelled"}
Statuses == {"none", "creating", "creation_uncertain", "authorization_required",
             "pending", "completed"} \cup Dead
BillStatuses == {"validated", "payment_initiated", "paid"}
Places == {"idle", "approved", "inserting", "posting", "answering", "polled",
           "returned", "evidence"}
BankStates == {"none", "accepted", "settled", "rejected"}
Accounts == [spent : SUBSET Payments, synced : SUBSET Payments]
Fresh == [spent |-> {}, synced |-> {}]

TypeOK ==
  /\ bill \in [Bills -> BillStatuses]
  /\ pay \in [Payments -> Statuses]
  /\ billOf \in [Payments -> Bills \cup {NoBill}]
  /\ external \in [Payments -> BOOLEAN]
  /\ redirect \in [Payments -> BOOLEAN]
  /\ account \in Accounts
  /\ snapshot \in SUBSET Payments /\ syncing \in BOOLEAN
  /\ pc \in [Sessions -> Places]
  /\ target \in [Sessions -> Bills \cup {NoBill}]
  /\ slot \in [Sessions -> Payments \cup {NoPayment}]
  /\ \A h \in Sessions :
       /\ pc[h] \in {"approved", "inserting"} => target[h] \in Bills
       /\ pc[h] \notin {"idle", "approved", "inserting"} => slot[h] \in Payments
  /\ held \in [Sessions -> Accounts]
  /\ seen \in [Sessions -> BankStates]
  /\ same \in [Sessions -> BOOLEAN]
  /\ matched \in [Sessions -> BOOLEAN]
  /\ lock \in Sessions \cup {NoSession}
  /\ bank \in [Payments -> BankStates]
  /\ misreported \in SUBSET Payments /\ overlooked \in BOOLEAN /\ misled \in SUBSET Payments

Init ==
  /\ bill = [b \in Bills |-> "validated"]
  /\ pay = [p \in Payments |-> "none"]
  /\ billOf = [p \in Payments |-> NoBill]
  /\ external = [p \in Payments |-> FALSE]
  /\ redirect = [p \in Payments |-> FALSE]
  /\ account = Fresh
  /\ snapshot = {} /\ syncing = FALSE
  /\ pc = [h \in Sessions |-> "idle"]
  /\ target = [h \in Sessions |-> NoBill]
  /\ slot = [h \in Sessions |-> NoPayment]
  /\ held = [h \in Sessions |-> Fresh]
  /\ seen = [h \in Sessions |-> "none"]
  /\ same = [h \in Sessions |-> FALSE]
  /\ matched = [h \in Sessions |-> FALSE]
  /\ lock = NoSession
  /\ bank = [p \in Payments |-> "none"]
  /\ misreported = {} /\ overlooked = FALSE /\ misled = {}

-----------------------------------------------------------------------------
\* Active: the duplicate query of create_payment_for_bill and the handler.
Active(p) == pay[p] \notin Dead \cup {"none"}
ActiveOf(b) == {p \in Payments : billOf[p] = b /\ Active(p)}

\* _is_locally_committed: a completed payment is held until a later sync.
Reserved(p, a) == Active(p) /\ (pay[p] = "completed" => p \notin a.synced)

\* effective_available_balance of account a suffices for one more bill.
Covers(a) ==
  Cardinality(a.spent) + Cardinality({p \in Payments : Reserved(p, a)}) + 1 + Reserve <= Funds

Leave(h) ==
  /\ pc' = [pc EXCEPT ![h] = "idle"]
  /\ target' = [target EXCEPT ![h] = NoBill]
  /\ slot' = [slot EXCEPT ![h] = NoPayment]
  /\ seen' = [seen EXCEPT ![h] = "none"]
  /\ same' = [same EXCEPT ![h] = FALSE]
  /\ matched' = [matched EXCEPT ![h] = FALSE]

Newer(a, p) == [spent |-> a.spent, synced |-> a.synced \ {p}]

\* onupdate of updated_at: a changed row is newer than any sync so far.
Touch(p) ==
  IF UNCHANGED <<pay, external, redirect>>
  THEN UNCHANGED <<account, held>>
  ELSE /\ account' = Newer(account, p)
       /\ held' = [g \in Sessions |-> Newer(held[g], p)]

Misreport(p) ==
  /\ misreported' = IF bank[p] \in {"accepted", "settled"} THEN misreported \cup {p} ELSE misreported
  /\ UNCHANGED <<overlooked, misled>>

(***************************************************************************)
(* create_payment_for_bill                                                 *)
(***************************************************************************)
\* The handler (or auto_pay_eligible_bills, for all its bills at once) loads a
\* validated bill that has no active payment.
LoadBill(h, b) ==
  /\ pc[h] = "idle"
  /\ bill[b] = "validated" /\ ActiveOf(b) = {}
  /\ pc' = [pc EXCEPT ![h] = "approved"]
  /\ target' = [target EXCEPT ![h] = b]
  /\ held' = [held EXCEPT ![h] = account]
  /\ UNCHANGED <<rows, cash, slot, seen, same, matched, lock, bank, history>>

\* Mutant: SELECT without FOR UPDATE.
Unlocked == TRUE

LockFree == lock = NoSession

\* The bill and the account were loaded before, so the locked SELECTs leave the
\* bill validated and the balance as it was; payments are queried under the lock.
LockRows(h) ==
  /\ pc[h] = "approved" /\ LockFree
  /\ IF ActiveOf(target[h]) = {} /\ Covers(held[h])
     THEN /\ lock' = h
          /\ pc' = [pc EXCEPT ![h] = "inserting"]
          /\ UNCHANGED <<target, slot, seen, same, matched>>
     ELSE Leave(h) /\ UNCHANGED lock
  /\ held' = [held EXCEPT ![h] = Fresh]
  /\ UNCHANGED <<rows, cash, bank, history>>

\* The intent is committed, and the locks released, before the bank is asked.
InsertIntent(h, p) ==
  /\ pc[h] = "inserting"
  /\ pay[p] = "none" /\ \A q \in Payments : q < p => pay[q] # "none"
  /\ pay' = [pay EXCEPT ![p] = "creating"]
  /\ billOf' = [billOf EXCEPT ![p] = target[h]]
  /\ lock' = NoSession
  /\ pc' = [pc EXCEPT ![h] = "posting"]
  /\ slot' = [slot EXCEPT ![h] = p]
  /\ UNCHANGED <<bill, external, redirect, snapshot, syncing,
                 target, seen, same, matched, bank, history>>
  /\ Touch(p)

\* The bank list is fetched, the payment posted; either may not arrive.
PostPayment(h) ==
  /\ pc[h] = "posting"
  /\ \E s \in {"none", "accepted"} : bank' = [bank EXCEPT ![slot[h]] = s]
  /\ pc' = [pc EXCEPT ![h] = "answering"]
  /\ UNCHANGED <<rows, cash, target, slot, held, seen, same, matched, lock, history>>

\* Any status of 400 or more, those of a server that failed after it accepted
\* the payment included, is an EnableBankingConfigurationError.
AnswerRejected(h) ==
  LET p == slot[h] IN
  /\ pc[h] = "answering"
  /\ pay' = [pay EXCEPT ![p] = "failed"]
  /\ Misreport(p) /\ Leave(h)
  /\ UNCHANGED <<bill, billOf, external, redirect, snapshot, syncing, lock, bank>>
  /\ Touch(p)

\* A network error or timeout, or a success without a payment id.
AnswerUncertain(h) ==
  LET p == slot[h] IN
  /\ pc[h] = "answering"
  /\ pay' = [pay EXCEPT ![p] = "creation_uncertain"]
  /\ bill' = [bill EXCEPT ![billOf[p]] = "payment_initiated"]
  /\ Leave(h)
  /\ UNCHANGED <<billOf, external, redirect, snapshot, syncing, lock, bank, history>>
  /\ Touch(p)

AnswerCreated(h, withUrl) ==
  LET p == slot[h] IN
  /\ pc[h] = "answering" /\ bank[p] # "none"
  /\ external' = [external EXCEPT ![p] = TRUE]
  /\ redirect' = [redirect EXCEPT ![p] = withUrl]
  /\ pay' = [pay EXCEPT ![p] = IF withUrl THEN "authorization_required" ELSE "pending"]
  /\ bill' = [bill EXCEPT ![billOf[p]] = "payment_initiated"]
  /\ Leave(h)
  /\ UNCHANGED <<billOf, snapshot, syncing, lock, bank, history>>
  /\ Touch(p)

\* The process dies, or an exception nothing expects (an answer that is not
\* JSON) ends the session: it rolls back and frees its locks.
Crash(h) ==
  /\ pc[h] # "idle"
  /\ Leave(h)
  /\ held' = [held EXCEPT ![h] = Fresh]
  /\ lock' = IF lock = h THEN NoSession ELSE lock
  /\ UNCHANGED <<rows, cash, bank, history>>

(***************************************************************************)
(* refresh_payment and complete_payment_authorization                      *)
(***************************************************************************)
\* Mutant: the provider's word is stored as it is.
RawStatus(s) == s

\* Mutant: a payment the bank has accepted counts as executed.
AcceptedIsCompleted(s) ==
  CASE s \in {"accepted", "settled"} -> "completed" [] s = "rejected" -> "failed"
    [] OTHER -> "pending"

ProviderStatus(s) ==
  CASE s = "settled" -> "completed" [] s = "rejected" -> "failed" [] OTHER -> "pending"

AskBank(h, p, place) ==
  /\ pc[h] = "idle" /\ external[p]
  /\ pc' = [pc EXCEPT ![h] = place]
  /\ slot' = [slot EXCEPT ![h] = p]
  /\ seen' = [seen EXCEPT ![h] = bank[p]]
  /\ same' = [same EXCEPT ![h] = pay[p] = ProviderStatus(bank[p])]
  /\ UNCHANGED <<rows, cash, target, held, matched, lock, bank, history>>

\* Mutant: payments that wait for the owner are not refreshed.
RefreshPendingOnly(h, p) == pay[p] = "pending" /\ AskBank(h, p, "polled")

\* refresh_all_payments takes the payments that are not completed, the handler
\* the active ones, the owner's refresh button any.
RefreshPayment(h, p) == AskBank(h, p, "polled")

\* The owner comes back from the bank's page.
AuthorizationReturns(h, p) == redirect[p] /\ AskBank(h, p, "returned")

\* A status equal to the loaded one is not written, whatever the row is now.
WriteProviderStatus(h) ==
  LET p == slot[h] IN
  /\ pc[h] \in {"polled", "returned"}
  /\ pay' = IF same[h] THEN pay ELSE [pay EXCEPT ![p] = ProviderStatus(seen[h])]
  /\ bill' = IF ProviderStatus(seen[h]) = "completed"
             THEN [bill EXCEPT ![billOf[p]] = "paid"] ELSE bill
  /\ redirect' = IF pc[h] = "returned" THEN [redirect EXCEPT ![p] = FALSE] ELSE redirect
  /\ Leave(h)
  /\ UNCHANGED <<billOf, external, snapshot, syncing, lock, bank, history>>
  /\ Touch(p)

\* The bank's page sends the owner back with an error, whatever the row says.
AuthorizationFails(p) ==
  /\ redirect[p]
  /\ \E s \in Dead : pay' = [pay EXCEPT ![p] = s]
  /\ redirect' = [redirect EXCEPT ![p] = FALSE]
  /\ Misreport(p)
  /\ UNCHANGED <<bill, billOf, external, snapshot, syncing, work, bank>>
  /\ Touch(p)

(***************************************************************************)
(* Uncertain creations                                                     *)
(***************************************************************************)
Creating(p) == \E h \in Sessions : slot[h] = p /\ pc[h] \in {"posting", "answering"}

\* Mutant: an interrupted creation is written off after the grace period.
FailInterrupted(p) == pay' = [pay EXCEPT ![p] = "failed"] /\ UNCHANGED history

\* Mutant: the quarantine flags the payment and leaves its status.
FlaggedOnly(p) == UNCHANGED <<pay, history>>

Quarantined(p) == pay' = [pay EXCEPT ![p] = "creation_uncertain"] /\ UNCHANGED history

QuarantineStaleIntent(p) ==
  /\ pay[p] = "creating" /\ ~ Creating(p)
  /\ Quarantined(p)
  /\ UNCHANGED <<bill, billOf, external, redirect, snapshot, syncing,
                 work, bank>>
  /\ Touch(p)

\* The rows the bank may list of the amount, the days and the creditor of p's
\* bill: each payment it ever took, whatever became of it, and, the amounts being
\* compared without their sign, a credit.
Listable(p) ==
  {q \in Payments : bank[q] # "none" /\ <<billOf[q], billOf[p]>> \in Alike}
    \cup {b \in Credits : <<b, billOf[p]>> \in Alike}

Booked(p) == {q \in Listable(p) : q \in Payments /\ bank[q] = "settled"}

\* The matches of one query.  Booked payments are listed; pending, rejected and
\* credited ones may be, and neither a status nor a direction is asked for.
Candidates(p) == {L \in SUBSET Listable(p) : Booked(p) \subseteq L}

\* An executed payment of p's own bill.
IsEvidence(q, p) == q \in Payments /\ bank[q] = "settled" /\ billOf[q] = billOf[p]

FetchTransactions(h, p) ==
  /\ pc[h] = "idle"
  /\ pay[p] = "creation_uncertain" /\ ~ external[p]
  /\ pc' = [pc EXCEPT ![h] = "evidence"]
  /\ slot' = [slot EXCEPT ![h] = p]
  /\ \E L \in Candidates(p) :
       /\ matched' = [matched EXCEPT ![h] = Cardinality(L) = 1]
       /\ misled' = IF Cardinality(L) = 1 /\ \E q \in L : ~ IsEvidence(q, p)
                    THEN misled \cup {p} ELSE misled
  /\ UNCHANGED <<rows, cash, target, held, seen, same, lock, bank, misreported, overlooked>>

\* The evidence row is unique per payment and transaction, not per transaction.
WriteEvidence(h) ==
  LET p == slot[h] IN
  /\ pc[h] = "evidence"
  /\ IF ~ matched[h]
     THEN UNCHANGED <<pay, bill>>
     ELSE /\ pay' = [pay EXCEPT ![p] = "completed"]
          /\ bill' = [bill EXCEPT ![billOf[p]] = "paid"]
  /\ Leave(h)
  /\ UNCHANGED <<billOf, external, redirect, snapshot, syncing, lock, bank, history>>
  /\ Touch(p)

(***************************************************************************)
(* Balance sync and the bank                                               *)
(***************************************************************************)
\* sync_bank_connection stamps last_synced_at when the answer is there, not
\* when the bank took the balance.
ReadBalance ==
  /\ ~ syncing
  /\ syncing' = TRUE
  /\ snapshot' = {p \in Payments : bank[p] = "settled"}
  /\ UNCHANGED <<rows, account, memory, bank, history>>

StoreBalance ==
  /\ syncing
  /\ syncing' = FALSE
  /\ account' = [spent |-> snapshot, synced |-> {p \in Payments : pay[p] = "completed"}]
  /\ snapshot' = {}
  /\ overlooked' = (overlooked \/ \E p \in Payments : pay[p] = "completed" /\ p \notin snapshot)
  /\ UNCHANGED <<rows, memory, bank, misreported, misled>>

BankDecides(p) ==
  /\ bank[p] = "accepted"
  /\ \E s \in {"settled", "rejected"} : bank' = [bank EXCEPT ![p] = s]
  /\ UNCHANGED <<rows, cash, memory, history>>

SessionStep(h) ==
  \/ \E b \in Bills : LoadBill(h, b)
  \/ LockRows(h)
  \/ \E p \in Payments : InsertIntent(h, p)
  \/ PostPayment(h)
  \/ AnswerRejected(h) \/ AnswerUncertain(h) \/ \E u \in BOOLEAN : AnswerCreated(h, u)
  \/ \E p \in Payments : RefreshPayment(h, p) \/ AuthorizationReturns(h, p)
  \/ WriteProviderStatus(h)
  \/ \E p \in Payments : FetchTransactions(h, p)
  \/ WriteEvidence(h)
  \/ Crash(h)

Next ==
  \/ \E h \in Sessions : SessionStep(h)
  \/ \E p \in Payments : AuthorizationFails(p) \/ QuarantineStaleIntent(p) \/ BankDecides(p)
  \/ ReadBalance
  \/ StoreBalance

Spec == Init /\ [][Next]_vars

-----------------------------------------------------------------------------
(***************************************************************************)
(* Fairness.  The watchdog runs the quarantine every minute, and the       *)
(* banking autopilot fetches transactions and refreshes payments in every  *)
(* cycle, in a session of its own; a request ends or times out.  Strong    *)
(* fairness: the process is not killed in every single cycle.  The bank    *)
(* may leave a payment undecided, and the owner need never come back.      *)
(***************************************************************************)
Fairness ==
  /\ \A h \in Sessions :
       /\ WF_vars(LockRows(h))
       /\ WF_vars(\E p \in Payments : InsertIntent(h, p))
       /\ WF_vars(PostPayment(h))
       /\ WF_vars(AnswerRejected(h) \/ AnswerUncertain(h) \/ \E u \in BOOLEAN : AnswerCreated(h, u))
       /\ WF_vars(WriteProviderStatus(h) \/ WriteEvidence(h))
  /\ \A p \in Payments :
       /\ WF_vars(QuarantineStaleIntent(p))
       /\ SF_vars(\E h \in Sessions : FetchTransactions(h, p))
       /\ SF_vars(\E h \in Sessions : RefreshPayment(h, p))
       /\ SF_vars(\E h \in Sessions : slot[h] = p /\ (WriteProviderStatus(h) \/ WriteEvidence(h)))

FairSpec == Spec /\ Fairness

-----------------------------------------------------------------------------
(***************************************************************************)
(* Properties                                                              *)
(***************************************************************************)
Held(p) == bank[p] \in {"accepted", "settled"}

\* The bank holds or has executed two payments of one bill only if it reported
\* one of them as failed: handlers that run twice, crashes, lost answers and the
\* quarantine never lead to a second payment on their own.
PaidOnce ==
  \A p, q \in Payments :
    p # q /\ billOf[p] = billOf[q] /\ Held(p) /\ Held(q) => {p, q} \cap misreported # {}

\* The account keeps its safety reserve when everything the bank has accepted
\* is executed, whatever the cached balance shows meanwhile; except after a
\* wrong report of the bank, or a sync that released a payment its balance did not have.
ReserveKept ==
  misreported = {} /\ ~ overlooked =>
    Cardinality({p \in Payments : Held(p)}) + Reserve <= Funds

\* A bill is shown as paid only when the bank has executed one of its payments,
\* however late an answer or the evidence is written; except on the word of the
\* one match the bank listed for an uncertain payment, which may be a pending or
\* rejected payment, another bill's or a credit (payment_recovery.py:237-254 asks
\* for none of this).
PaidBillsWereSettled ==
  \A b \in Bills : bill[b] = "paid" =>
    \E p \in Payments : billOf[p] = b /\ (bank[p] = "settled" \/ p \in misled)

\* An intent whose process died is taken over by the quarantine.
IntentsResolve == \A p \in Payments : pay[p] = "creating" ~> pay[p] # "creating"

\* A payment the bank has executed is found out: by its id, or by the one
\* transaction that matches it, unless it was given up without an id or the bank
\* may list several that match.
SettlementRecognised ==
  \A p \in Payments : bank[p] = "settled" ~>
    \/ pay[p] = "completed"
    \/ pay[p] \in Dead /\ ~ external[p]
    \/ Cardinality(Listable(p)) > 1

\* No bill is paid twice ("No automatic second payment is created while outcome
\* is unknown", docs/V1.0.10_PAYMENT_UNCERTAINTY_RECOVERY.md:14).
NoSecondPayment ==
  \A p, q \in Payments : p # q /\ billOf[p] = billOf[q] /\ Held(p) => ~ Held(q)

\* The reserve is kept as long as the bank reports no held payment as failed and
\* lists no misleading match: a completed payment stays reserved until the cached
\* balance contains it
\* (cash_safety.py:36, "This deliberately prefers temporary under-spending over
\* double-spending when a provider response and an AIS balance update arrive at
\* different times").
ReserveKeptAcrossSyncs ==
  misreported = {} /\ misled = {} => Cardinality({p \in Payments : Held(p)}) + Reserve <= Funds

\* Every completed payment has a transaction of its own behind it, whatever its
\* status ("Terminal recovery requires one independent booked bank transaction",
\* docs/V1.0.10_PAYMENT_UNCERTAINTY_RECOVERY.md:24).
EvidenceIsIndependent ==
  Cardinality({p \in Payments : pay[p] = "completed"})
    <= Cardinality({p \in Payments : bank[p] # "none"})
=============================================================================
