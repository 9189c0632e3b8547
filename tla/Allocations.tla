------------------------------ MODULE Allocations ------------------------------
(***************************************************************************)
(* The forecast of the owner's cash and the moves it allows                *)
(* (financial_forecasting.py, with the policies, budgets and targets of    *)
(* financial_autopilot.py). A cycle mirrors the transfers of earlier       *)
(* actions, resumes the ones that stopped before their transfer, forecasts *)
(* the lowest point of each scope, and plans at most one move from each    *)
(* operating account to the first wallet that lacks something. The banking *)
(* job and the owner's routes run it at once, and may die at any await.    *)
(*                                                                         *)
(* Simplifications                                                         *)
(*  - One scope, one currency, one wallet of each role; wallets have no    *)
(*    floor of their own, and only wallets are destinations. A month and   *)
(*    its budget are scaled down to Month days. The forecast is never      *)
(*    older than the six hours of its reuse.                               *)
(*  - create_own_account_transfer is one step: its protocol with the bank  *)
(*    is in OwnTransfer, with the limits of the day and the month.         *)
(*  - Of a policy only the role counts, and whether its limits still look  *)
(*    like the default ones.                                               *)
(*    An uncertain one is as active as one that awaits its authorization.  *)
(***************************************************************************)
EXTENDS Integers, Sequences, FiniteSetsExt

CONSTANTS
  Sources,        \* bank accounts that may be operating accounts, by number
  Wallets,        \* accounts that receive surplus, by role
  Revolut,        \* the sources that are personal Revolut accounts
  GivenRoles,     \* what a source's policy may be at first; "none", or "legacy" for an old scope
  Funders,        \* sessions that run a cycle
  Opening,        \* cash of each source at first
  Floor,          \* of an operating account: reserve, target, finance_min_operating_cash_floor
  MaxSingle, MinTransfer,
  Target,         \* learned spending target; the tax that is due; the reserve's target
  Month, Horizon, \* in days
  Baseline,       \* a month's spending, budgeted or learned
  Trusts,         \* how sure the recurring credit may be
  Rent, Salary, Invoice,  \* a recurring debit, a recurring credit, a bill that comes
  ForecastLimit,  \* forecast runs
  CycleLimit,     \* cycles
  TurnLimit       \* changes of the world, deaths of a session included

RankOf(w) == CASE w = "spending" -> 0 [] w = "tax" -> 1 [] w = "reserve" -> 2 [] OTHER -> 3

AllocationAssumption ==
  /\ Sources \subseteq Nat /\ IsFiniteSet(Sources) /\ Revolut \subseteq Sources
  /\ Wallets \subseteq {"spending", "tax", "reserve", "savings"}
  /\ {Opening, Floor, MaxSingle, MinTransfer, Target, Baseline, Rent, Salary, Invoice,
      Horizon, TurnLimit, ForecastLimit, CycleLimit} \subseteq Nat
  /\ GivenRoles \subseteq {"none", "legacy", "operating"}
  /\ Trusts \subseteq {"sure", "likely", "doubtful"} /\ Month \in Nat \ {0} /\ MinTransfer > 0

VARIABLES
  cash,     \* effective balance of a source: the bank's, less what is on its way out
  purse,    \* balance of a wallet as last synced
  policy,   \* bank_autopilot_policies of the sources: role, default-like limits
  ahead,    \* what is known of the future: recurring items and bills
  runs,     \* financial_forecast_runs, with the plan of the scope
  actions,  \* financial_allocation_actions, each with its transfer
  funder,   \* what each session does
  turns,    \* changes of the world so far
  begun,    \* cycles begun so far
  shared,   \* history: runs one of whose actions another took on while the planner was at it
  strained, \* history: what a plan that ran alone did to the forecast or to a wallet
  chosen    \* history: the role an owner gave, with limits of his own

allocationVars ==
  <<cash, purse, policy, ahead, runs, actions, funder, turns, begun, shared, strained,
    chosen>>

Waiting == [pc |-> "idle", run |-> 0, left |-> 0, gap |-> <<>>, queue |-> {}, todo |-> {},
            act |-> 0, seen |-> "none", back |-> "idle", alone |-> FALSE]
Gone == {"none", "failed"}
Positive(n) == IF n > 0 THEN n ELSE 0
Moved(S) == SumFunctionOnSet([i \in S |-> actions[i].amount], S)
Sent(w) == {i \in DOMAIN actions : actions[i].to = w /\ actions[i].transfer \notin Gone}

AllocationInit ==
  /\ cash = [a \in Sources |-> Opening]
  /\ \E full \in SUBSET (Wallets \cap {"spending"}) :
       purse = [w \in Wallets |-> IF w \in full THEN Target ELSE 0]
  /\ \E role \in GivenRoles :
       /\ policy = [a \in Sources |-> [role |-> role, plain |-> role # "operating"]]
       /\ chosen = [a \in Sources |-> IF role = "operating" THEN role ELSE "none"]
  /\ \E trust \in Trusts :
       ahead = {[day |-> 1, kind |-> "debit", amount |-> Rent],
                [day |-> 2, kind |-> trust, amount |-> Salary]}
  /\ runs = <<>> /\ actions = <<>> /\ funder = [s \in Funders |-> Waiting] /\ turns = 0 /\ begun = 0
  /\ shared = {} /\ strained = {}

Fund(s, as) == funder' = [funder EXCEPT ![s] = as]
\* A change of the numbers that the other sessions have read
FundAlone(s, as) ==
  funder' = [f \in Funders |-> IF f = s THEN as ELSE [funder[f] EXCEPT !.alone = FALSE]]

-----------------------------------------------------------------------------
(***************************************************************************)
(* The forecast                                                            *)
(***************************************************************************)
\* An item in the expected and in the cautious scenario, in percent
Expected(kind) ==
  CASE kind = "sure" -> 100 [] kind = "likely" -> 90 [] kind = "doubtful" -> 50 [] OTHER -> -100
\* Mutant: uncertain income counts as expected.
TrustfulCautious(kind) == IF kind = "debit" THEN -110 ELSE Expected(kind)
Cautious(kind) ==
  CASE kind = "sure" -> 90 [] kind = "likely" -> 75 [] kind = "doubtful" -> 0
    [] kind = "debit" -> -110 [] OTHER -> -100

\* A recurring item comes again each month, a bill once.
Times(e, day) ==
  Cardinality({d \in 0..day : d = e.day \/ (e.kind # "bill" /\ d > e.day /\ (d - e.day) % Month = 0)})

Explicit(known) ==
  LET due == {e \in known : e.kind \in {"debit", "bill"} /\ e.day <= Month}
  IN SumFunctionOnSet([e \in due |-> e.amount], due)
Variable(known) == Positive(Baseline - Explicit(known))

\* The cash of one day in the cautious or in the expected scenario
CashOn(day, start, known, cautious) ==
  LET Weight(kind) == IF cautious THEN Cautious(kind) ELSE Expected(kind)
      dearer == IF cautious THEN 110 ELSE 100 IN
  start - (Variable(known) * day * dearer) \div (Month * 100)
  + SumFunctionOnSet([e \in known |-> Times(e, day) * ((e.amount * Weight(e.kind)) \div 100)],
                     known)

LowPoint(start, known, cautious) ==
  Min({CashOn(d, start, known, cautious) : d \in 0..Horizon})

Managed == {a \in Sources : policy[a].role # "disabled"}
Start == SumFunctionOnSet(cash, Managed) + SumFunctionOnSet(purse, Wallets)
Protected == Floor * Cardinality({a \in Managed : policy[a].role = "operating"})
Low == LowPoint(Start, ahead, TRUE)

\* ensure_account_autopilot_policies, with the two repairs it starts with
Tidied(p, a) ==
  CASE p.role = "legacy" -> [role |-> "reserve", plain |-> TRUE]
    [] p.role = "none" -> [role |-> IF a \in Revolut THEN "spending" ELSE "operating", plain |-> TRUE]
    [] p.role = "operating" /\ p.plain /\ a \in Revolut -> [role |-> "spending", plain |-> TRUE]
    [] OTHER -> p

Tidy == [a \in Sources |-> Tidied(policy[a], a)]

\* Before each forecast, and by the owner's routes
EnsurePolicies ==
  /\ policy # Tidy /\ \E s \in Funders : funder[s].pc = "resuming"
  /\ policy' = Tidy
  /\ UNCHANGED <<cash, purse, ahead, runs, actions, funder, turns, begun, shared, strained, chosen>>

\* _reconcile_actions
Mirrored(status, transfer) ==
  CASE transfer = "none" -> IF status = "dispatching" THEN "planned" ELSE status
    [] transfer \in {"done", "arrived"} -> "verified"
    [] transfer = "failed" -> "failed"
    [] OTHER -> "initiated"

Reconciled ==
  [i \in DOMAIN actions |->
     IF actions[i].status \in {"dispatching", "initiated"}
       THEN [actions[i] EXCEPT !.status = Mirrored(@, actions[i].transfer)] ELSE actions[i]]

Fingerprint == <<cash, purse, policy, ahead>>
NewRun == [print |-> Fingerprint, low |-> Low, base |-> LowPoint(Start, ahead, FALSE),
           surplus |-> Positive(Low - Protected), plan |-> "none"]
Recent == {r \in DOMAIN runs : runs[r].print = Fingerprint}

\* generate_financial_forecast, after the actions were reconciled once more: the job
\* reuses a run of the same inputs, a route does not.
Forecast(s) ==
  /\ funder[s].pc = "resuming" /\ funder[s].todo = {}
  /\ policy = Tidy
  /\ actions' = Reconciled
  /\ \/ /\ Recent # {}
        /\ Fund(s, [Waiting EXCEPT !.pc = "planning", !.run = Max(Recent), !.alone = TRUE])
        /\ UNCHANGED runs
     \/ /\ Len(runs) < ForecastLimit
        /\ runs' = Append(runs, NewRun)
        /\ Fund(s, [Waiting EXCEPT !.pc = "planning", !.run = Len(runs) + 1, !.alone = TRUE])
  /\ UNCHANGED <<cash, purse, policy, ahead, turns, begun, shared, strained, chosen>>

-----------------------------------------------------------------------------
(***************************************************************************)
(* _resume_safe_actions                                                    *)
(***************************************************************************)
\* The run whose actions session f plans
PlannedRun(f) == IF funder[f].pc = "planning" THEN 0 ELSE funder[f].run

BeginCycle(s) ==
  LET todo == {i \in DOMAIN actions : Reconciled[i].status = "planned"} IN
  /\ funder[s].pc = "idle" /\ begun < CycleLimit /\ begun' = begun + 1
  /\ actions' = Reconciled
  /\ shared' = shared \cup {r \in DOMAIN runs : \E i \in todo, f \in Funders \ {s} :
                                              actions[i].run = r /\ PlannedRun(f) = r}
  /\ Fund(s, [Waiting EXCEPT !.pc = "resuming", !.todo = todo])
  /\ UNCHANGED <<cash, purse, policy, ahead, runs, turns, strained, chosen>>

\* Of the planned actions it has read, at their old amount
Resume(s) ==
  /\ funder[s].pc = "resuming" /\ funder[s].todo # {}
  /\ LET i == Min(funder[s].todo) IN
       /\ actions' = [actions EXCEPT ![i].status = "dispatching"]
       /\ Fund(s, [funder[s] EXCEPT !.pc = "dispatching", !.act = i, !.back = "resuming",
                     !.todo = @ \ {i}])
  /\ UNCHANGED <<cash, purse, policy, ahead, runs, turns, begun, shared, strained, chosen>>

-----------------------------------------------------------------------------
(***************************************************************************)
(* _plan_scope_allocations                                                 *)
(***************************************************************************)
\* committed_destination_balance: with what is on its way there
Held(w) ==
  purse[w] + Moved({i \in Sent(w) : actions[i].transfer # "arrived"})
Filled(w) == IF w = "tax" THEN Moved(Sent(w)) ELSE Held(w)
Gap(w) == IF w = "savings" THEN 0 ELSE Positive(Target - Filled(w))

Busy(a) ==
  \E i \in DOMAIN actions : actions[i].from = a /\ actions[i].transfer = "active"

\* The row of the plan is unique for its run and scope: a second session waits for the
\* first one's commit, and fails or finds the row.
OpenPlan(s) ==
  LET r == funder[s].run IN
  /\ funder[s].pc = "planning" /\ runs[r].plan # "flushed"
  /\ \/ /\ runs[r].plan # "none"
        /\ Fund(s, Waiting) /\ UNCHANGED runs
     \/ /\ runs[r].plan = "none"
        /\ runs' = [runs EXCEPT ![r].plan = "flushed"]
        /\ Fund(s, [funder[s] EXCEPT !.pc = "choosing", !.left = runs[r].surplus,
                      !.gap = [w \in Wallets |-> Gap(w)],
                      !.queue = {a \in Sources : policy[a].role = "operating"}])
  /\ UNCHANGED <<cash, purse, policy, ahead, actions, turns, begun, shared, strained, chosen>>

\* The first wallet that lacks something, or the savings
Lacks(s, w) == w = "savings" \/ funder[s].gap[w] > 0
Chosen(s) ==
  LET open == {w \in Wallets : Lacks(s, w)} IN
  {w \in open : \A o \in open : RankOf(w) <= RankOf(o)}

Budget(s, a) == Min({funder[s].left, Positive(cash[a] - Floor), MaxSingle})
Desired(s, a, w) ==
  IF w = "savings" THEN Budget(s, a) ELSE Min({Budget(s, a), funder[s].gap[w]})

ChooseMove(s) ==
  /\ funder[s].pc = "choosing" /\ funder[s].queue # {} /\ funder[s].left > 0
  /\ LET a == Min(funder[s].queue)
         wallets == {w \in Chosen(s) : ~Busy(a) /\ Budget(s, a) >= MinTransfer
                                       /\ Desired(s, a, w) >= MinTransfer}
     IN \/ /\ wallets = {}
           /\ Fund(s, [funder[s] EXCEPT !.queue = @ \ {a}])
           /\ UNCHANGED <<actions, runs>>
        \/ \E w \in wallets :
             /\ actions' = Append(actions, [run |-> funder[s].run, from |-> a, to |-> w,
                                            amount |-> Desired(s, a, w), status |-> "dispatching",
                                            transfer |-> "none"])
             /\ runs' = [runs EXCEPT ![funder[s].run].plan = "planning"]
             /\ Fund(s, [funder[s] EXCEPT !.queue = @ \ {a}, !.pc = "dispatching",
                           !.act = Len(actions) + 1, !.back = "choosing"])
  /\ UNCHANGED <<cash, purse, policy, ahead, turns, begun, shared, strained, chosen>>

ClosePlan(s) ==
  /\ funder[s].pc = "choosing" /\ (funder[s].queue = {} \/ funder[s].left <= 0)
  /\ runs' = [runs EXCEPT ![funder[s].run].plan = "settled"]
  /\ Fund(s, Waiting)
  /\ UNCHANGED <<cash, purse, policy, ahead, actions, turns, begun, shared, strained, chosen>>

\* What a plan that ran alone since its forecast must not do. The gap of the spending
\* wallet is not lowered by the plan's own moves: from its second move on it is excused.
Strains(s, a) ==
  LET scopeLow == Low - a.amount
      \* The same wallet's earlier move of the same plan
      again == \E i \in DOMAIN actions : i # funder[s].act /\ actions[i].run = a.run /\ actions[i].to = a.to
  IN IF ~funder[s].alone \/ funder[s].back # "choosing" THEN {}
     ELSE (IF scopeLow < Protected THEN {"floor"} ELSE {})
          \cup (IF a.to # "savings" /\ Filled(a.to) + a.amount > Target
                    /\ ~(a.to = "spending" /\ again) THEN {a.to} ELSE {})

Refused(a) ==
  \/ policy[a.from].role # "operating" \/ Busy(a.from) \/ a.amount > MaxSingle
  \/ cash[a.from] - a.amount < Floor

\* create_own_account_transfer: the transfer of the key is returned, or made, or refused.
Dispatch(s) ==
  LET i == funder[s].act  a == actions[i] IN
  /\ funder[s].pc = "dispatching"
  /\ \/ /\ a.transfer # "none"
        /\ Fund(s, [funder[s] EXCEPT !.pc = "noting", !.seen = a.transfer])
        /\ UNCHANGED <<actions, cash, strained>>
     \/ /\ a.transfer = "none" /\ Refused(a)
        /\ actions' = [actions EXCEPT ![i].status = "blocked_policy"]
        /\ Fund(s, [funder[s] EXCEPT !.pc = funder[s].back, !.act = 0, !.seen = "none"])
        /\ UNCHANGED <<cash, strained>>
     \/ /\ a.transfer = "none" /\ ~Refused(a)
        /\ \E t \in {"active", "failed"} :
             /\ actions' = [actions EXCEPT ![i].transfer = t]
             /\ cash' = IF t = "failed" THEN cash ELSE [cash EXCEPT ![a.from] = @ - a.amount]
             /\ FundAlone(s, [funder[s] EXCEPT !.pc = "noting", !.seen = t])
        /\ strained' = strained \cup Strains(s, a)
  /\ UNCHANGED <<purse, policy, ahead, runs, turns, begun, shared, chosen>>

\* Mutant: the surplus that is left stays what it was.
NoteOnly(s) ==
  LET i == funder[s].act IN
  /\ funder[s].pc = "noting"
  /\ actions' = [actions EXCEPT ![i].status = Mirrored(@, funder[s].seen)]
  /\ Fund(s, [funder[s] EXCEPT !.pc = funder[s].back, !.act = 0, !.seen = "none"])
  /\ UNCHANGED <<cash, purse, policy, ahead, runs, turns, begun, shared, strained, chosen>>

\* What became of the transfer; the plan has the less to give, the wallet lacks the less.
Note(s) ==
  LET i == funder[s].act  a == actions[i]  spent == IF funder[s].seen = "failed" THEN 0 ELSE a.amount IN
  /\ funder[s].pc = "noting"
  /\ actions' = [actions EXCEPT ![i].status = Mirrored(@, funder[s].seen)]
  /\ Fund(s, [funder[s] EXCEPT !.pc = funder[s].back, !.act = 0, !.seen = "none",
                !.left = IF funder[s].back = "choosing" THEN Positive(@ - spent) ELSE @,
                !.gap = IF funder[s].back = "choosing"
                          THEN [w \in Wallets |-> IF w = a.to /\ w \in {"tax", "reserve"}
                                                    THEN Positive(@[w] - spent) ELSE @[w]]
                          ELSE @])
  /\ UNCHANGED <<cash, purse, policy, ahead, runs, turns, begun, shared, strained, chosen>>

\* A session dies: what it has not committed is undone.
CrashFunder(s) ==
  LET r == funder[s].run IN
  /\ funder[s].pc # "idle" /\ turns < TurnLimit /\ turns' = turns + 1
  /\ runs' = IF funder[s].pc = "choosing" /\ runs[r].plan = "flushed"
               THEN [runs EXCEPT ![r].plan = "none"] ELSE runs
  /\ Fund(s, Waiting)
  /\ UNCHANGED <<cash, purse, policy, ahead, actions, begun, shared, strained, chosen>>

-----------------------------------------------------------------------------
(***************************************************************************)
(* The bank, the world and the owner                                       *)
(***************************************************************************)
Settle(i) ==
  /\ actions[i].transfer = "active"
  /\ \E t \in {"done", "failed"} :
       /\ actions' = [actions EXCEPT ![i].transfer = t]
       /\ cash' = IF t = "failed" THEN [cash EXCEPT ![actions[i].from] = @ + actions[i].amount] ELSE cash
  /\ UNCHANGED <<purse, policy, ahead, runs, funder, turns, begun, shared, strained, chosen>>

SyncBalances ==
  LET done == {i \in DOMAIN actions : actions[i].transfer = "done"} IN
  /\ done # {}
  /\ actions' = [i \in DOMAIN actions |->
                   IF i \in done THEN [actions[i] EXCEPT !.transfer = "arrived"] ELSE actions[i]]
  /\ purse' = [w \in Wallets |-> purse[w] + Moved({i \in done : actions[i].to = w})]
  /\ UNCHANGED <<cash, policy, ahead, runs, funder, turns, begun, shared, strained, chosen>>

World(change) ==
  /\ turns < TurnLimit /\ turns' = turns + 1
  /\ change
  /\ funder' = [f \in Funders |-> [funder[f] EXCEPT !.alone = FALSE]]
  /\ UNCHANGED <<purse, runs, actions, begun, shared, strained>>

Spend ==
  World(/\ \E a \in Sources : cash' = [cash EXCEPT ![a] = @ - Invoice]
        /\ UNCHANGED <<policy, ahead, chosen>>)

BillArrives ==
  World(/\ ahead' = ahead \cup {[day |-> 0, kind |-> "bill", amount |-> Invoice]}
        /\ UNCHANGED <<cash, policy, chosen>>)

\* update_finance_account_policy
OwnerSetsPolicy ==
  World(\E a \in Sources, role \in {"operating", "disabled"}, plain \in BOOLEAN :
          /\ policy' = [Tidy EXCEPT ![a] = [role |-> role, plain |-> plain]]
          /\ chosen' = [chosen EXCEPT ![a] = IF plain THEN "none" ELSE role]
          /\ UNCHANGED <<cash, ahead>>)

AllocationNext ==
  \/ \E s \in Funders :
       \/ BeginCycle(s) \/ Resume(s) \/ Forecast(s) \/ OpenPlan(s) \/ ChooseMove(s)
       \/ ClosePlan(s) \/ Dispatch(s) \/ Note(s) \/ CrashFunder(s)
  \/ \E i \in DOMAIN actions : Settle(i)
  \/ SyncBalances \/ EnsurePolicies \/ Spend \/ BillArrives \/ OwnerSetsPolicy

AllocationSpec == AllocationInit /\ [][AllocationNext]_allocationVars

-----------------------------------------------------------------------------
Policies ==
  [role : {"none", "legacy", "operating", "spending", "reserve", "disabled"}, plain : BOOLEAN]
PlanStates == {"none", "flushed", "planning", "settled"}

AllocationTypeOK ==
  /\ cash \in [Sources -> Int] /\ purse \in [Wallets -> Nat]
  /\ policy \in [Sources -> Policies]
  /\ \A r \in DOMAIN runs : runs[r].plan \in PlanStates
  /\ \A i \in DOMAIN actions :
       /\ actions[i].amount \in MinTransfer..MaxSingle
       /\ actions[i].status \in {"planned", "dispatching", "initiated", "verified", "failed", "blocked_policy"}
       /\ actions[i].transfer \in {"none", "active", "done", "arrived", "failed"}
  /\ \A s \in Funders :
       /\ funder[s].pc \in {"idle", "resuming", "planning", "choosing", "dispatching", "noting"}
       /\ funder[s].run \in 0..Len(runs) /\ funder[s].act \in 0..Len(actions)
  /\ turns \in 0..TurnLimit /\ begun \in 0..CycleLimit /\ shared \subseteq DOMAIN runs

\* All that a plan ever moves, its actions resumed after a crash included, stays within
\* the surplus that its forecast found, unless another session took on an action of a
\* planner that was still at it. A plan that runs alone leaves the cautious low point of
\* the scope at its floor or above, and fills no wallet beyond its target. The cautious
\* scenario is never brighter than the expected one. An account to which the owner gave
\* limits of his own keeps the role he gave it.
MovesStayWithinForecast ==
  /\ \A r \in DOMAIN runs :
       /\ r \in shared
            \/ Moved({i \in DOMAIN actions : actions[i].run = r /\ actions[i].transfer \notin Gone})
                 <= runs[r].surplus
       /\ runs[r].low <= runs[r].base
  /\ strained = {}
  /\ \A a \in Sources : chosen[a] # "none" => policy[a].role = chosen[a]
=============================================================================
