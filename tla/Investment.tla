----------------------------- MODULE Investment -----------------------------
(***************************************************************************)
(* Spare money put into Kraken: investment_autopilot.py plans a month's    *)
(* contribution, orders it from the bank, waits until it has arrived at    *)
(* the exchange and buys with it once; investment_recovery.py finds out    *)
(* what became of a payment or of an order whose answer was lost. The      *)
(* banking job and the owner's route run the same passes at once.          *)
(*                                                                         *)
(* Simplifications                                                         *)
(*  - A contribution is an idempotency key (day, account, amount and       *)
(*    reference); all have one amount, so that a booked transaction or an  *)
(*    arrived deposit fits every one of them.                              *)
(*  - The surplus above the protected floor, the owner's settings and the  *)
(*    permissions of the API key allow or refuse.                          *)
(*  - Statuses of the bank that ACTIVE_FUNDING_STATUSES lacks (rcvd, pdng) *)
(*    are "unlisted", the others that are not final "listed"; failed,      *)
(*    cancelled and rejected are one status.                               *)
(*  - Rows of old releases (legacy_recovery of an intent) are left out.    *)
(***************************************************************************)
EXTENDS Naturals, FiniteSets

CONSTANTS
  Contributions,
  Investors,         \* sessions
  NoContribution,
  MonthlyTarget,     \* kraken_monthly_target_eur, in contributions
  BuyLimit           \* bound on the orders placed for a contribution

InvestmentAssumption ==
  /\ NoContribution \notin Contributions
  /\ MonthlyTarget \in Nat /\ BuyLimit \in Nat

VARIABLES
  contribution, \* investment_funding_transfers, each with its trade intent
  debitOf,        \* investment_funding_recovery_evidence: whose transaction it is
  transit,      \* what the bank and the deposit made of the payment
  buys,         \* orders the exchange holds under the client order id
  investor,     \* the sessions, each with the statuses it has in memory
  jostled       \* history: contributions two sessions had in hand at once

investmentVars == <<contribution, debitOf, transit, buys, investor, jostled>>

SettledContributions == {"failed", "funded", "invested"}
ActiveContributions == {"creating", "creation_uncertain", "authorization_required", "listed",
                        "awaiting_deposit", "deposit_observed", "trade_pending"}
ContributionStates == SettledContributions \cup ActiveContributions \cup {"none", "unlisted"}
TradeStates == {"none", "prepared", "submitting", "creation_uncertain", "verified", "failed"}
TransitStates == {"none", "accepted", "rejected", "settled", "arrived"}

\* known: external_payment_id, consent: the OAuth state row, bound: provider_order_id
NoRow == [status |-> "none", known |-> FALSE, consent |-> FALSE,
          intent |-> "none", bound |-> FALSE]
Uninvested == [pc |-> "idle", of |-> NoContribution, status |-> "none", intent |-> "none",
           seen |-> NoContribution, orders |-> 0]

InvestmentInit ==
  /\ contribution = [c \in Contributions |-> NoRow]
  /\ debitOf = [c \in Contributions |-> NoContribution]
  /\ transit = [c \in Contributions |-> "none"]
  /\ buys = [c \in Contributions |-> 0]
  /\ investor = [s \in Investors |-> Uninvested] /\ jostled = {}

-----------------------------------------------------------------------------
Stands(s, place) == investor[s].pc = place
SetInvestor(s, to) == investor' = [investor EXCEPT ![s] = to]
Rest(s) == SetInvestor(s, Uninvested)

\* A commit writes the status if the session holds another one.
SetStatus(s, to) ==
  contribution' = [contribution EXCEPT ![investor[s].of].status =
                     IF investor[s].status = to THEN @ ELSE to]

SetTrade(s, to, intent, bound) ==
  LET at == investor[s]
      row == contribution[at.of] IN
  contribution' = [contribution EXCEPT ![at.of] =
    [row EXCEPT !.status = IF at.status = to THEN @ ELSE to,
                !.intent = IF at.intent = intent THEN @ ELSE intent,
                !.bound = @ \/ bound]]

-----------------------------------------------------------------------------
Committed == {c \in Contributions : contribution[c].status \notin {"none", "failed"}}

\* run_kraken_funding_autopilot up to the balance of the exchange it asks for; no
\* lock is taken.
PlanContribution(s) ==
  /\ Stands(s, "idle")
  /\ \A c \in Contributions : contribution[c].status \notin ActiveContributions
  /\ Cardinality(Committed) < MonthlyTarget
  /\ \E c \in Contributions :
       /\ contribution[c].status = "none"
       /\ SetInvestor(s, [Uninvested EXCEPT !.pc = "inserting", !.of = c])
  /\ UNCHANGED <<contribution, debitOf, transit, buys, jostled>>

\* The unique key refuses a second row, an error that ends the session.
InsertContribution(s) ==
  LET c == investor[s].of IN
  /\ Stands(s, "inserting") /\ contribution[c].status = "none"
  /\ contribution' = [contribution EXCEPT ![c] = [NoRow EXCEPT !.status = "creating"]]
  /\ SetInvestor(s, [investor[s] EXCEPT !.pc = "posting", !.status = "creating"])
  /\ UNCHANGED <<debitOf, transit, buys, jostled>>

PostContribution(s) ==
  /\ Stands(s, "posting")
  /\ \E b \in {"none", "accepted"} : transit' = [transit EXCEPT ![investor[s].of] = b]
  /\ SetInvestor(s, [investor[s] EXCEPT !.pc = "answering"])
  /\ UNCHANGED <<contribution, debitOf, buys, jostled>>

\* An error status is taken for a rejection, a lost or empty answer for doubt.
AnswerContribution(s) ==
  LET c == investor[s].of IN
  /\ Stands(s, "answering")
  /\ \/ \E as \in {"failed", "creation_uncertain"} : SetStatus(s, as)
     \/ /\ transit[c] # "none"
        /\ \E as \in {"authorization_required", "listed", "unlisted"} :
             contribution' = [contribution EXCEPT ![c] =
               [@ EXCEPT !.status = as, !.known = TRUE,
                         !.consent = (as = "authorization_required")]]
  /\ Rest(s)
  /\ UNCHANGED <<debitOf, transit, buys, jostled>>

-----------------------------------------------------------------------------
\* Where refresh_all_kraken_funding goes on with a row it has loaded.
FirstStep(row) ==
  CASE row.status = "trade_pending" -> "tracing"
    [] row.status = "deposit_observed" -> "deciding"
    [] row.status = "awaiting_deposit" -> "checking"
    [] row.status = "creation_uncertain" /\ ~row.known -> "matching"
    [] row.known /\ row.status \notin {"trade_pending", "deposit_observed", "awaiting_deposit"}
         -> "polling"
    [] OTHER -> "idle"

TakeUp(s, c, place) ==
  /\ Stands(s, "idle") /\ place # "idle"
  /\ contribution[c].status \notin SettledContributions \cup {"none"}
  /\ SetInvestor(s, [Uninvested EXCEPT !.pc = place, !.of = c, !.status = contribution[c].status])
  /\ jostled' = IF \E o \in Investors \ {s} : investor[o].of = c THEN jostled \cup {c}
                ELSE jostled
  /\ UNCHANGED <<contribution, debitOf, transit, buys>>

ReviewContribution(s) ==
  \E c \in Contributions : TakeUp(s, c, FirstStep(contribution[c]))

\* complete_kraken_funding_authorization asks the bank, or writes its error page.
AuthorizationDone(s) ==
  \E c \in Contributions :
    contribution[c].consent /\ FirstStep(contribution[c]) = "polling" /\ TakeUp(s, c, "returned")

AuthorizationDenied ==
  \E c \in Contributions :
    /\ contribution[c].consent
    /\ contribution' = [contribution EXCEPT ![c].status = "failed", ![c].consent = FALSE]
    /\ UNCHANGED <<debitOf, transit, buys, investor, jostled>>

\* refresh_kraken_funding_transfer; a pass goes on with a payment that is settled.
PollPayment(s) ==
  LET at == investor[s] IN
  /\ at.pc \in {"polling", "returned"}
  /\ \E as \in CASE transit[at.of] \in {"settled", "arrived"} -> {"awaiting_deposit"}
                 [] transit[at.of] = "rejected" -> {"failed"}
                 [] OTHER -> {"listed", "unlisted"} :
       SetInvestor(s, [at EXCEPT !.pc = IF @ = "polling" THEN "polled" ELSE "answered", !.seen = as])
  /\ UNCHANGED <<contribution, debitOf, transit, buys, jostled>>

WritePaymentStatus(s) ==
  LET at == investor[s]
      row == contribution[at.of] IN
  /\ at.pc \in {"polled", "answered"}
  /\ contribution' = [contribution EXCEPT ![at.of] =
       [row EXCEPT !.status = IF at.status = at.seen THEN @ ELSE at.seen,
                   !.consent = @ /\ at.pc = "polled"]]
  /\ IF at.pc = "polled" /\ at.seen = "awaiting_deposit"
       THEN SetInvestor(s, [Uninvested EXCEPT !.pc = "checking", !.of = at.of, !.status = at.seen])
       ELSE Rest(s)
  /\ UNCHANGED <<debitOf, transit, buys, jostled>>

\* reconcile_uncertain_kraken_funding: one booked debit that no other contribution
\* has bound.
FreeDebits(c) ==
  {b \in Contributions : /\ transit[b] \in {"settled", "arrived"}
                         /\ \A o \in Contributions \ {c} : debitOf[o] # b}

MatchDebit(s) ==
  LET at == investor[s] IN
  /\ Stands(s, "matching")
  /\ IF Cardinality(FreeDebits(at.of)) = 1
       THEN \E b \in FreeDebits(at.of) : SetInvestor(s, [at EXCEPT !.pc = "binding", !.seen = b])
       ELSE Rest(s)
  /\ UNCHANGED <<contribution, debitOf, transit, buys, jostled>>

\* The unique key on account and transaction ends the session that comes second.
BindDebit(s) ==
  LET at == investor[s] IN
  /\ Stands(s, "binding")
  /\ debitOf[at.of] # NoContribution \/ \A o \in Contributions : debitOf[o] # at.seen
  /\ debitOf' = [debitOf EXCEPT ![at.of] = IF @ = NoContribution THEN at.seen ELSE @]
  /\ SetStatus(s, "awaiting_deposit")
  /\ SetInvestor(s, [Uninvested EXCEPT !.pc = "checking", !.of = at.of, !.status = "awaiting_deposit"])
  /\ UNCHANGED <<transit, buys, jostled>>

-----------------------------------------------------------------------------
\* reconcile_kraken_funding_and_trade: any deposit of that amount since the day
\* before will do, and so will cash that grew by as much, whatever it comes from.
CheckDeposit(s) ==
  /\ Stands(s, "checking")
  /\ \/ /\ SetStatus(s, "deposit_observed")
        /\ SetInvestor(s, [investor[s] EXCEPT !.pc = "deciding", !.status = "deposit_observed"])
     \/ /\ \A d \in Contributions : transit[d] # "arrived"
        /\ Rest(s) /\ UNCHANGED contribution
  /\ UNCHANGED <<debitOf, transit, buys, jostled>>

\* Trading is off, not permitted or there is nothing to trade; or the intent is
\* prepared, or found as it is.
KeepCash(s) ==
  /\ Stands(s, "deciding")
  /\ SetStatus(s, "funded")
  /\ Rest(s)
  /\ UNCHANGED <<debitOf, transit, buys, jostled>>

PrepareTrade(s) ==
  LET c == investor[s].of
      intent == IF contribution[c].intent = "none" THEN "prepared" ELSE contribution[c].intent
  IN /\ Stands(s, "deciding")
     /\ contribution' = [contribution EXCEPT ![c].intent = intent]
     /\ SetInvestor(s, [investor[s] EXCEPT !.pc = "submitting", !.intent = intent])
     /\ UNCHANGED <<debitOf, transit, buys, jostled>>

SubmitTrade(s) ==
  LET at == investor[s] IN
  /\ Stands(s, "submitting")
  /\ IF at.intent \in {"submitting", "creation_uncertain"}
       THEN SetInvestor(s, [at EXCEPT !.pc = "tracing"]) /\ UNCHANGED contribution
       ELSE /\ SetTrade(s, "trade_pending", "submitting", FALSE)
            /\ SetInvestor(s, [at EXCEPT !.pc = "buying", !.status = "trade_pending",
                                  !.intent = "submitting"])
  /\ UNCHANGED <<debitOf, transit, buys, jostled>>

\* Mutant: an order without an answer is prepared again, as a price that could not
\* be asked is.
DeferUnanswered(s) ==
  /\ investor[s].pc \in {"buying", "bought"}
  /\ SetTrade(s, "deposit_observed", "prepared", FALSE)
  /\ Rest(s)
  /\ UNCHANGED <<debitOf, transit, buys, jostled>>

\* The price could not be asked: nothing was sent.
DeferBuy(s) ==
  /\ Stands(s, "buying")
  /\ SetTrade(s, "deposit_observed", "prepared", FALSE)
  /\ Rest(s)
  /\ UNCHANGED <<debitOf, transit, buys, jostled>>

\* AddOrder reaches the exchange, or does not.
PlaceOrder(s) ==
  LET c == investor[s].of IN
  /\ Stands(s, "buying") /\ buys[c] < BuyLimit
  /\ \E n \in {0, 1} :
       /\ buys' = [buys EXCEPT ![c] = @ + n]
       /\ SetInvestor(s, [investor[s] EXCEPT !.pc = "bought", !.orders = n])
  /\ UNCHANGED <<contribution, debitOf, transit, jostled>>

\* The order's id; a refusal; no answer, or one without an id.
NoteOrder(s) ==
  /\ Stands(s, "bought")
  /\ \/ investor[s].orders = 1 /\ SetTrade(s, "invested", "verified", TRUE)
     \/ investor[s].orders = 0 /\ SetTrade(s, "funded", "failed", FALSE)
     \/ SetTrade(s, "trade_pending", "creation_uncertain", FALSE)
  /\ Rest(s)
  /\ UNCHANGED <<debitOf, transit, buys, jostled>>

\* reconcile_kraken_trade_intent reads the intent and asks for the orders under its
\* client id, which the exchange may show late; it never sends one.
TraceOrder(s) ==
  LET at == investor[s]
      row == contribution[at.of]
  IN /\ Stands(s, "tracing")
     /\ \/ /\ row.bound
           /\ SetTrade(s, "invested", "verified", TRUE)
           /\ Rest(s)
        \/ /\ ~row.bound
           /\ SetStatus(s, "trade_pending")
           /\ Rest(s)
        \/ /\ ~row.bound
           /\ \E n \in 0 .. buys[at.of] :
                SetInvestor(s, [at EXCEPT !.pc = "traced", !.intent = row.intent, !.orders = n])
           /\ UNCHANGED contribution
     /\ UNCHANGED <<debitOf, transit, buys, jostled>>

WriteTrace(s) ==
  /\ Stands(s, "traced")
  /\ IF investor[s].orders = 1 THEN SetTrade(s, "invested", "verified", TRUE)
                               ELSE SetTrade(s, "trade_pending", "creation_uncertain", FALSE)
  /\ Rest(s)
  /\ UNCHANGED <<debitOf, transit, buys, jostled>>

CrashInvestor(s) ==
  /\ ~Stands(s, "idle")
  /\ Rest(s)
  /\ UNCHANGED <<contribution, debitOf, transit, buys, jostled>>

-----------------------------------------------------------------------------
\* The bank executes or refuses what it accepted; the money arrives at the exchange.
MoneyMoves ==
  \E c \in Contributions :
    /\ \/ transit[c] = "accepted" /\ \E b \in {"settled", "rejected"} :
            transit' = [transit EXCEPT ![c] = b]
       \/ transit[c] = "settled" /\ transit' = [transit EXCEPT ![c] = "arrived"]
    /\ UNCHANGED <<contribution, debitOf, buys, investor, jostled>>

InvestmentNext ==
  \/ \E s \in Investors :
       \/ PlanContribution(s) \/ InsertContribution(s) \/ PostContribution(s)
       \/ AnswerContribution(s) \/ ReviewContribution(s) \/ AuthorizationDone(s)
       \/ PollPayment(s) \/ WritePaymentStatus(s) \/ MatchDebit(s) \/ BindDebit(s)
       \/ CheckDeposit(s) \/ KeepCash(s) \/ PrepareTrade(s) \/ SubmitTrade(s)
       \/ DeferBuy(s) \/ PlaceOrder(s) \/ NoteOrder(s) \/ TraceOrder(s) \/ WriteTrace(s)
       \/ CrashInvestor(s)
  \/ AuthorizationDenied \/ MoneyMoves

InvestmentSpec == InvestmentInit /\ [][InvestmentNext]_investmentVars

-----------------------------------------------------------------------------
InvestorPlaces == {"idle", "inserting", "posting", "answering", "polling", "polled",
  "returned", "answered", "matching", "binding", "checking", "deciding", "submitting",
  "buying", "bought", "tracing", "traced"}

InvestmentTypeOK ==
  /\ contribution \in [Contributions ->
       [status : ContributionStates, known : BOOLEAN, consent : BOOLEAN,
        intent : TradeStates, bound : BOOLEAN]]
  /\ debitOf \in [Contributions -> Contributions \cup {NoContribution}]
  /\ transit \in [Contributions -> TransitStates]
  /\ buys \in [Contributions -> 0 .. BuyLimit]
  /\ investor \in [Investors ->
       [pc : InvestorPlaces, of : Contributions \cup {NoContribution},
        status : ContributionStates, intent : TradeStates,
        seen : ContributionStates \cup Contributions \cup {NoContribution},
        orders : 0 .. BuyLimit]]
  /\ jostled \subseteq Contributions

\* A contribution buys once, however its order is lost, refused, shown late or
\* retried after a price that could not be asked, and it is shown invested only when
\* an order was placed. The exception are passes that had it in hand at once: a
\* session that loaded the contribution before another invested it buys again.
InvestedOnce ==
  \A c \in Contributions :
    /\ contribution[c].status = "invested" => buys[c] > 0
    /\ c \notin jostled => buys[c] <= 1
=============================================================================
