----------------------------- MODULE OwnTransfer -----------------------------
(***************************************************************************)
(* Money moved between the owner's accounts: create_own_account_transfer,  *)
(* the refresh and the authorization callback of financial_autopilot.py,   *)
(* its recovery in own_transfer_recovery.py and the allocation actions of  *)
(* financial_forecasting.py that order it. The budget job, the forecast    *)
(* job and the owner's routes run these at once and may die at any await.  *)
(*                                                                         *)
(* Simplifications                                                         *)
(*  - One source account, one day; a move is an idempotency key, every     *)
(*    move has the same amount and destination, so that every booked       *)
(*    transaction matches every one of them.                               *)
(*  - The reserve of the account is the subject of BillPayment; here a     *)
(*    move is refused for an active one or for the day's limit only.       *)
(*  - Provider statuses that ACTIVE_TRANSFER_STATUSES lacks (rcvd, pdng)   *)
(*    are "unlisted", the others that are not final "listed"; failed,      *)
(*    cancelled and rejected are one status.                               *)
(*  - _reconcile_actions is one step. A creator is done before the         *)
(*    quarantine.                                                          *)
(*  - Nothing but its tests calls run_budget_autopilot any more, which the *)
(*    forecast has superseded; its moves are kept here, as in the code.    *)
(***************************************************************************)
EXTENDS Naturals, FiniteSets

CONSTANTS
  BudgetMoves,   \* keys of run_budget_autopilot
  ForecastMoves, \* keys of allocation actions
  Movers,        \* sessions
  NoMove, NoMover,
  DayCap         \* finance_daily_internal_transfer_limit, in moves

MoveAssumption ==
  /\ DayCap \in Nat /\ BudgetMoves \cap ForecastMoves = {}
  /\ NoMove \notin BudgetMoves \cup ForecastMoves /\ NoMover \notin Movers

Moves == BudgetMoves \cup ForecastMoves

VARIABLES
  moved,      \* own_account_transfers.status, "none" before the row is inserted
  known,      \* moves with an external_payment_id
  sca,        \* moves with an authorization URL and its OAuth state row
  allotment,  \* financial_allocation_actions.status
  linked,     \* actions with own_account_transfer_id
  booked,     \* own_account_transfer_recovery_evidence: the move whose transaction it is
  atBank,     \* what the bank did with the order
  orders,     \* times the order was posted
  misread,    \* moves recorded as dead while the bank held or had executed them
  mover,      \* what each session does
  sourceLock  \* holder of the row lock on the source account

ledgerVars == <<moved, known, sca, booked>>
allotVars == <<allotment, linked>>
moveBankVars == <<atBank, orders, misread>>
moveVars == <<ledgerVars, allotVars, moveBankVars, mover, sourceLock>>

MoveDead == {"failed"}
MoveActive == {"creating", "creation_uncertain", "authorization_required", "listed"}
MoveStates == {"none", "unlisted", "completed"} \cup MoveActive \cup MoveDead
AllotStates == {"none", "planned", "dispatching", "initiated", "needs_user_auth",
                "creation_uncertain", "verified", "failed", "blocked_policy"}
MoverPlaces == {"idle", "asking", "inserting", "posting", "answering", "noting", "polled",
                "returned", "matching"}
OrderStates == {"none", "accepted", "settled", "rejected"}

IdleMover == [pc |-> "idle", move |-> NoMove, seen |-> "none"]

MoveInit ==
  /\ moved = [m \in Moves |-> "none"]
  /\ known = {} /\ sca = {}
  /\ allotment = [m \in ForecastMoves |-> "none"] /\ linked = {}
  /\ booked = [m \in Moves |-> NoMove]
  /\ atBank = [m \in Moves |-> "none"] /\ orders = [m \in Moves |-> 0] /\ misread = {}
  /\ mover = [s \in Movers |-> IdleMover] /\ sourceLock = NoMover

Shift(s, changes) == mover' = [mover EXCEPT ![s] = changes]

SetAllotment(m, to) ==
  allotment' = IF m \in ForecastMoves THEN [allotment EXCEPT ![m] = to] ELSE allotment

-----------------------------------------------------------------------------
ActiveMove == \E m \in Moves : moved[m] \in MoveActive
DayUsed == Cardinality({m \in Moves : moved[m] \notin MoveDead \cup {"none"}})

\* run_budget_autopilot decides on a move of its own.
PlanBudgetMove(s) ==
  /\ mover[s].pc = "idle" /\ ~ActiveMove
  /\ \E m \in BudgetMoves : Shift(s, [IdleMover EXCEPT !.pc = "asking", !.move = m])
  /\ UNCHANGED <<ledgerVars, allotVars, moveBankVars, sourceLock>>

\* _plan_scope_allocations commits its action first.
PlanAllotment(s) ==
  /\ mover[s].pc = "idle" /\ ~ActiveMove
  /\ \E m \in ForecastMoves :
       /\ allotment[m] = "none"
       /\ SetAllotment(m, "dispatching")
       /\ Shift(s, [IdleMover EXCEPT !.pc = "asking", !.move = m])
  /\ UNCHANGED <<ledgerVars, linked, moveBankVars, sourceLock>>

\* _resume_safe_actions
ResumeAllotment(s) ==
  /\ mover[s].pc = "idle"
  /\ \E m \in ForecastMoves \ linked :
       /\ allotment[m] = "planned"
       /\ SetAllotment(m, "dispatching")
       /\ Shift(s, [IdleMover EXCEPT !.pc = "asking", !.move = m])
  /\ UNCHANGED <<ledgerVars, linked, moveBankVars, sourceLock>>

\* The caller that has an action writes down what became of its transfer.
Return(s, status) ==
  Shift(s, IF mover[s].move \in ForecastMoves
             THEN [mover[s] EXCEPT !.pc = "noting", !.seen = status] ELSE IdleMover)

\* create_own_account_transfer under the lock of the source account: the row of
\* the key is returned, another active transfer or the limit is a ValueError.
LockSource(s) ==
  LET m == mover[s].move IN
  /\ mover[s].pc = "asking" /\ sourceLock = NoMover
  /\ \/ /\ moved[m] # "none"
        /\ Return(s, moved[m])
        /\ UNCHANGED <<allotment, sourceLock>>
     \/ /\ moved[m] = "none" /\ (ActiveMove \/ DayUsed + 1 > DayCap)
        /\ SetAllotment(m, "blocked_policy")
        /\ Shift(s, IdleMover)
        /\ UNCHANGED sourceLock
     \/ /\ moved[m] = "none" /\ ~ActiveMove /\ DayUsed + 1 <= DayCap
        /\ sourceLock' = s
        /\ Shift(s, [mover[s] EXCEPT !.pc = "inserting"])
        /\ UNCHANGED allotment
  /\ UNCHANGED <<ledgerVars, linked, moveBankVars>>

\* The unique key refuses a second row, an error that ends the session.
InsertTransfer(s) ==
  LET m == mover[s].move IN
  /\ mover[s].pc = "inserting"
  /\ moved[m] = "none"
  /\ moved' = [moved EXCEPT ![m] = "creating"]
  /\ sourceLock' = IF sourceLock = s THEN NoMover ELSE sourceLock
  /\ Shift(s, [mover[s] EXCEPT !.pc = "posting"])
  /\ UNCHANGED <<known, sca, booked, allotVars, moveBankVars>>

\* Mutant: a POST without an answer is repeated.
PostOrderAgain(s) ==
  LET m == mover[s].move IN
  /\ mover[s].pc = "posting"
  /\ orders' = [orders EXCEPT ![m] = @ + 1]
  /\ \E b \in {"none", "accepted"} : atBank' = [atBank EXCEPT ![m] = b]
  /\ \E pc \in {"posting", "answering"} : Shift(s, [mover[s] EXCEPT !.pc = pc])
  /\ UNCHANGED <<ledgerVars, allotVars, misread, sourceLock>>

PostOrder(s) ==
  LET m == mover[s].move IN
  /\ mover[s].pc = "posting"
  /\ orders' = [orders EXCEPT ![m] = @ + 1]
  /\ \E b \in {"none", "accepted"} : atBank' = [atBank EXCEPT ![m] = b]
  /\ Shift(s, [mover[s] EXCEPT !.pc = "answering"])
  /\ UNCHANGED <<ledgerVars, allotVars, misread, sourceLock>>

MisreadAs(m) ==
  misread' = IF atBank[m] \in {"accepted", "settled"} THEN misread \cup {m} ELSE misread

\* Any error status is taken for a rejection, a lost or empty answer for doubt.
AnswerOrder(s) ==
  LET m == mover[s].move
      note(as) == /\ moved' = [moved EXCEPT ![m] = as]
                  /\ Return(s, as)
  IN /\ mover[s].pc = "answering"
     /\ \/ /\ note("failed") /\ MisreadAs(m)
           /\ UNCHANGED <<known, sca>>
        \/ /\ note("creation_uncertain")
           /\ UNCHANGED <<known, sca, misread>>
        \/ /\ atBank[m] # "none"
           /\ known' = known \cup {m}
           /\ \/ note("authorization_required") /\ sca' = sca \cup {m}
              \/ note("listed") /\ UNCHANGED sca
           /\ UNCHANGED misread
     /\ UNCHANGED <<booked, allotVars, atBank, orders, sourceLock>>

\* Mutant: the action takes over the transfer's own status.
MirrorRaw(status) == status

\* The status of an action that mirrors a transfer.
Mirror(status) ==
  CASE status = "completed" -> "verified"
    [] status \in MoveDead -> "failed"
    [] status = "creation_uncertain" -> "creation_uncertain"
    [] status = "authorization_required" -> "needs_user_auth"
    [] OTHER -> "initiated"

NoteTransfer(s) ==
  LET m == mover[s].move IN
  /\ mover[s].pc = "noting"
  /\ SetAllotment(m, Mirror(mover[s].seen))
  /\ linked' = linked \cup {m}
  /\ Shift(s, IdleMover)
  /\ UNCHANGED <<ledgerVars, moveBankVars, sourceLock>>

\* An action that is under way and has no transfer is one that may be resumed.
ReconcileAllotments ==
  LET open == {m \in ForecastMoves : allotment[m] \in {"dispatching", "initiated",
                                       "needs_user_auth", "creation_uncertain"}}
  IN /\ open # {}
     /\ allotment' = [m \in ForecastMoves |->
                        IF m \notin open THEN allotment[m]
                        ELSE IF moved[m] # "none" THEN Mirror(moved[m])
                        ELSE IF allotment[m] = "dispatching" THEN "planned" ELSE allotment[m]]
     /\ linked' = linked \cup {m \in open : moved[m] # "none"}
     /\ UNCHANGED <<ledgerVars, moveBankVars, mover, sourceLock>>

CrashMover(s) ==
  /\ mover[s].pc # "idle"
  /\ Shift(s, IdleMover)
  /\ sourceLock' = IF sourceLock = s THEN NoMover ELSE sourceLock
  /\ UNCHANGED <<ledgerVars, allotVars, moveBankVars>>

-----------------------------------------------------------------------------
\* refresh_all_own_account_transfers takes the transfers that are not final,
\* the callback without an error the one whose state row it holds.
AskForOrder(s) ==
  /\ mover[s].pc = "idle"
  /\ \E m \in known :
       \/ /\ moved[m] \notin MoveDead \cup {"completed"}
          /\ Shift(s, [pc |-> "polled", move |-> m, seen |-> atBank[m]])
       \/ /\ m \in sca
          /\ Shift(s, [pc |-> "returned", move |-> m, seen |-> atBank[m]])
  /\ UNCHANGED <<ledgerVars, allotVars, moveBankVars, sourceLock>>

WriteOrderStatus(s) ==
  LET at == mover[s] IN
  /\ at.pc \in {"polled", "returned"}
  /\ \E as \in CASE at.seen = "settled" -> {"completed"}
                 [] at.seen = "rejected" -> {"failed"}
                 [] OTHER -> {"listed", "unlisted"} :
       moved' = [moved EXCEPT ![at.move] = as]
  /\ sca' = IF at.pc = "returned" THEN sca \ {at.move} ELSE sca
  /\ Shift(s, IdleMover)
  /\ UNCHANGED <<known, booked, allotVars, moveBankVars, sourceLock>>

\* The bank's page sends the owner back with an error.
RefuseAuthorization ==
  /\ \E m \in sca :
       /\ moved' = [moved EXCEPT ![m] = "failed"]
       /\ MisreadAs(m)
       /\ sca' = sca \ {m}
  /\ UNCHANGED <<known, booked, allotVars, atBank, orders, mover, sourceLock>>

\* quarantine_stale_creation_intents
QuarantineTransfer ==
  /\ \E m \in Moves :
       /\ moved[m] = "creating"
       /\ \A s \in Movers : mover[s].move = m => mover[s].pc \notin {"posting", "answering"}
       /\ moved' = [moved EXCEPT ![m] = "creation_uncertain"]
  /\ UNCHANGED <<known, sca, booked, allotVars, moveBankVars, mover, sourceLock>>

\* The transactions that move m may take for its own: what was booked is listed, what
\* is pending or was refused may be, and no status is looked at.
Unclaimed(m) == {b \in Moves : atBank[b] # "none" /\ \A o \in Moves \ {m} : booked[o] # b}
Lists(m) ==
  {L \in SUBSET Unclaimed(m) : {b \in Unclaimed(m) : atBank[b] = "settled"} \subseteq L}

\* reconcile_uncertain_own_account_transfer asks, and writes what was unique.
FetchEvidence(s) ==
  /\ mover[s].pc = "idle"
  /\ \E m \in Moves \ known :
       /\ moved[m] = "creation_uncertain"
       /\ \E b \in Unclaimed(m) :
            /\ {b} \in Lists(m)
            /\ Shift(s, [pc |-> "matching", move |-> m, seen |-> b])
  /\ UNCHANGED <<ledgerVars, allotVars, moveBankVars, sourceLock>>

Evidence(m, b) == [booked EXCEPT ![m] = IF @ = NoMove THEN b ELSE @]

\* The unique key on account and transaction lets one of two sessions commit.
BindEvidence(s) ==
  LET at == mover[s] IN
  /\ at.pc = "matching"
  /\ Shift(s, IdleMover)
  /\ IF \E o \in Moves \ {at.move} : booked[at.move] = NoMove /\ booked[o] = at.seen
       THEN UNCHANGED <<moved, booked>>
       ELSE /\ booked' = Evidence(at.move, at.seen)
            /\ moved' = [moved EXCEPT ![at.move] = "completed"]
  /\ UNCHANGED <<known, sca, allotVars, moveBankVars, sourceLock>>

-----------------------------------------------------------------------------
BankDecides ==
  /\ \E m \in Moves : \E b \in {"settled", "rejected"} :
       /\ atBank[m] = "accepted"
       /\ atBank' = [atBank EXCEPT ![m] = b]
  /\ UNCHANGED <<ledgerVars, allotVars, orders, misread, mover, sourceLock>>

MoveNext ==
  \/ \E s \in Movers :
       \/ PlanBudgetMove(s) \/ PlanAllotment(s) \/ ResumeAllotment(s) \/ LockSource(s)
       \/ InsertTransfer(s) \/ PostOrder(s) \/ AnswerOrder(s) \/ NoteTransfer(s)
       \/ CrashMover(s) \/ AskForOrder(s) \/ WriteOrderStatus(s)
       \/ FetchEvidence(s) \/ BindEvidence(s)
  \/ ReconcileAllotments \/ RefuseAuthorization \/ QuarantineTransfer \/ BankDecides

MoveSpec == MoveInit /\ [][MoveNext]_moveVars

-----------------------------------------------------------------------------
MoveTypeOK ==
  /\ moved \in [Moves -> MoveStates]
  /\ known \subseteq Moves /\ sca \subseteq known /\ misread \subseteq Moves
  /\ allotment \in [ForecastMoves -> AllotStates] /\ linked \subseteq ForecastMoves
  /\ booked \in [Moves -> Moves \cup {NoMove}]
  /\ atBank \in [Moves -> OrderStates] /\ orders \in [Moves -> Nat]
  /\ mover \in [Movers -> [pc : MoverPlaces, move : Moves \cup {NoMove},
                           seen : MoveStates \cup OrderStates \cup Moves]]
  /\ sourceLock \in Movers \cup {NoMover}

\* A move is ordered from the bank once: by the session whose insert its key let
\* through, however often its action is resumed, its answer is lost, or it is
\* found in doubt; and only an order the bank took is known by an id.
MoveEffect == INSTANCE OneShotEffect WITH
  Intents <- Moves,
  claimed <- {m \in Moves : moved[m] # "none"},
  attempts <- orders,
  performed <- {m \in Moves : atBank[m] # "none"},
  reported <- known

\* The day's limit holds for what the bank holds or has executed, whoever plans
\* at once; the moves whose error answer was misread are its only exception. And an
\* allocation counts as verified when its own order was booked or, for a transfer found
\* out by its evidence, by an order of that kind, booked or not, no other has bound.
AccountedFor ==
  /\ Cardinality({m \in Moves : atBank[m] \in {"accepted", "settled"}} \ misread) <= DayCap
  /\ \A m \in ForecastMoves : allotment[m] = "verified" =>
       \/ atBank[m] = "settled"
       \/ /\ booked[m] # NoMove
          /\ atBank[booked[m]] # "none"
          /\ \A o \in Moves \ {m} : booked[o] # booked[m]

\* Transfers between own accounts are ordered once (create_own_account_transfer and its
\* recovery keep the promise of OneShotEffect), within the day's limit, and an
\* allocation is verified by what the bank lists for it alone.
MovesAreOneShot == MoveEffect!EffectSpec /\ []AccountedFor
=============================================================================
