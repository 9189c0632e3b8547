--------------------------- MODULE Authorization ----------------------------
(***************************************************************************)
(* Proposed e-mail replies that wait for the owner's decision:             *)
(* specific_authorization.py and standing_authority.py. The owner          *)
(* authorizes or declines the text that the app showed; a core cycle queues *)
(* what an explicit standing authority covers, up to a daily number.       *)
(* Sessions read, wait for Gmail, and commit late.                         *)
(*                                                                         *)
(* Simplifications                                                         *)
(*  - A session writes the columns it changed since it read the row.       *)
(*  - An authority, its risk, counterparties and expiry cover a proposal   *)
(*    or not; its uses are counted within one day.                         *)
(*  - A token refresh may commit a cycle early: what it finished so far.   *)
(***************************************************************************)
EXTENDS Naturals, FiniteSets

CONSTANTS
  Proposals,    \* objectives that need the owner, each with its task and e-mail
  Deciders,     \* sessions: the owner's requests and the core cycles
  DailyUses,    \* max_actions_per_day of the authority
  DraftLimit    \* bound on the versions of the proposed texts

AuthorizationAssumption ==
  IsFiniteSet(Proposals) /\ DailyUses \in Nat /\ DraftLimit \in Nat \ {0}

VARIABLES
  case,         \* per proposal: status of its objective, its task and requires_approval
  draft,        \* per proposal: version of the reply in EmailMessage.analysis_json
  replyPlan,    \* per proposal: the event <id>:reply-plan, by whom and which version
  uses,         \* audit rows va_standing_authority_used of the day
  decider,      \* the sessions
  granted,      \* history: the versions that the owner authorized
  declined,     \* history: the proposals that the owner declined
  crossed,      \* history: proposals written by a session after another changed them
  crowded       \* history: two cycles ran at once

authorizationVars == <<case, draft, replyPlan, uses, decider, granted, declined,
                       crossed, crowded>>

OpenTasks == {"open", "waiting"}
NoPlan == [by |-> "none", draft |-> 0]
Undecided == [objective |-> "needs_user", task |-> "open", approval |-> TRUE]
NoPicks == [p \in {} |-> Undecided]
Off == [pc |-> "idle", todo |-> {}, picks |-> NoPicks]

AuthorizationInit ==
  /\ case = [p \in Proposals |-> Undecided]
  /\ draft = [p \in Proposals |-> 1]
  /\ replyPlan = [p \in Proposals |-> NoPlan]
  /\ uses = 0
  /\ decider = [s \in Deciders |-> Off]
  /\ granted = {} /\ declined = {} /\ crossed = {} /\ crowded = FALSE

-----------------------------------------------------------------------------
\* Mutant: the state of the task that carries the proposal is not looked at.
AwaitsWhatever(p) == TRUE

\* The task of the proposal still needs a decision.
Awaits(p) == case[p].approval /\ case[p].task \in OpenTasks

\* Mutant: the fingerprint is not compared with the proposal as it is now.
AnyView(p, version) == case[p].objective = "needs_user" /\ Awaits(p)

\* _current_specific_view: version is the one whose fingerprint the app sent.
CurrentView(p, version) ==
  case[p].objective = "needs_user" /\ Awaits(p) /\ version = draft[p]

\* What a session read of proposal p, and what it will write to it.
Pick(p, verdict, shown) ==
  [verdict |-> verdict, was |-> case[p], draft |-> draft[p], shown |-> shown]

After(verdict, row) ==
  CASE verdict = "queued" -> [objective |-> "cancelled", task |-> "waiting", approval |-> FALSE]
    [] verdict = "failed" -> [row EXCEPT !.objective = "blocked", !.approval = FALSE]
    [] verdict = "refused" -> [row EXCEPT !.objective = "blocked"]
    [] verdict = "declined" -> [objective |-> "cancelled", task |-> "cancelled", approval |-> FALSE]

\* A commit of the picks of session s, on whose ground. The event of a reply that
\* was planned before stays as it is.
CommitPicks(s, by) ==
  LET picks == decider[s].picks
      Queued(p) == p \in DOMAIN picks /\ picks[p].verdict = "queued"
  IN /\ case' = [p \in Proposals |->
          IF p \notin DOMAIN picks THEN case[p]
          ELSE LET new == After(picks[p].verdict, picks[p].was) IN
               [c \in DOMAIN new |-> IF new[c] # picks[p].was[c] THEN new[c] ELSE case[p][c]]]
     /\ replyPlan' = [p \in Proposals |->
          IF Queued(p) /\ replyPlan[p] = NoPlan THEN [by |-> by, draft |-> picks[p].draft]
          ELSE replyPlan[p]]
     /\ uses' = IF by = "standing" THEN uses + Cardinality({p \in Proposals : Queued(p)})
                ELSE uses
     /\ crossed' = crossed \cup {p \in DOMAIN picks : case[p] # picks[p].was}

-----------------------------------------------------------------------------
\* authorize_specific_objective: the view is checked, the source mail is fetched.
Authorize(s, p, version) ==
  /\ decider[s].pc = "idle" /\ version \in 1..draft[p] /\ CurrentView(p, version)
  /\ \E verdict \in {"queued", "refused"} :
       decider' = [decider EXCEPT ![s] =
         [pc |-> "authorizing", todo |-> {}, picks |-> [q \in {p} |-> Pick(p, verdict, version)]]]
  /\ UNCHANGED <<case, draft, replyPlan, uses, granted, declined, crossed, crowded>>

EndAuthorize(s) ==
  LET picks == decider[s].picks IN
  /\ decider[s].pc = "authorizing"
  /\ CommitPicks(s, "owner")
  /\ granted' = granted \cup {<<p, picks[p].shown>> : p \in DOMAIN picks}
  /\ decider' = [decider EXCEPT ![s] = Off]
  /\ UNCHANGED <<draft, declined, crowded>>

Decline(s, p, version) ==
  /\ decider[s].pc = "idle" /\ version \in 1..draft[p] /\ CurrentView(p, version)
  /\ decider' = [decider EXCEPT ![s] =
       [pc |-> "declining", todo |-> {}, picks |-> [q \in {p} |-> Pick(p, "declined", version)]]]
  /\ UNCHANGED <<case, draft, replyPlan, uses, granted, declined, crossed, crowded>>

EndDecline(s) ==
  /\ decider[s].pc = "declining"
  /\ CommitPicks(s, "owner")
  /\ declined' = declined \cup DOMAIN decider[s].picks
  /\ decider' = [decider EXCEPT ![s] = Off]
  /\ UNCHANGED <<draft, granted, crowded>>

-----------------------------------------------------------------------------
\* apply_standing_authority_objectives lists the objectives that need the owner.
StartSweep(s) ==
  /\ decider[s].pc = "idle"
  /\ decider' = [decider EXCEPT ![s] =
       [pc |-> "sweeping", todo |-> {p \in Proposals : case[p].objective = "needs_user"},
        picks |-> NoPicks]]
  /\ crowded' = (crowded \/ \E o \in Deciders : decider[o].pc = "sweeping")
  /\ UNCHANGED <<case, draft, replyPlan, uses, granted, declined, crossed>>

\* _usage_today: the session sees its own uses before it commits them.
Usage(picks) == uses + Cardinality({p \in DOMAIN picks : picks[p].verdict = "queued"})

\* evaluate_standing_authority
BelowCap(picks) == Usage(picks) < DailyUses

\* One proposal of the list. Its task and mail are read now; the objective is as
\* it was listed.
Consider(s) ==
  LET d == decider[s] IN
  /\ d.pc = "sweeping"
  /\ \E p \in d.todo :
       LET Picked == [q \in DOMAIN d.picks \cup {p} |->
                        IF q = p THEN Pick(p, "queued", draft[p]) ELSE d.picks[q]]
       IN \/ decider' = [decider EXCEPT ![s].todo = @ \ {p}]
          \/ /\ Awaits(p) /\ BelowCap(d.picks)
             /\ decider' = [decider EXCEPT ![s].todo = @ \ {p}, ![s].picks = Picked]
  /\ UNCHANGED <<case, draft, replyPlan, uses, granted, declined, crossed, crowded>>

\* A reply that could not be queued blocks its objective instead.
QueueFails(s) ==
  /\ decider[s].pc = "sweeping"
  /\ \E p \in DOMAIN decider[s].picks :
       /\ decider[s].picks[p].verdict = "queued"
       /\ decider' = [decider EXCEPT ![s].picks[p].verdict = "failed"]
  /\ UNCHANGED <<case, draft, replyPlan, uses, granted, declined, crossed, crowded>>

\* The commit at the end, or the one that a token refresh makes on the way.
CommitSweep(s) ==
  LET d == decider[s] IN
  /\ d.pc = "sweeping" /\ (d.todo = {} \/ d.picks # NoPicks)
  /\ CommitPicks(s, "standing")
  /\ decider' = [decider EXCEPT ![s] = IF d.todo = {} THEN Off ELSE [d EXCEPT !.picks = NoPicks]]
  /\ UNCHANGED <<draft, granted, declined, crowded>>

\* A crash, or an error that rolls the session back.
DeciderDies(s) ==
  /\ decider[s].pc # "idle"
  /\ decider' = [decider EXCEPT ![s] = Off]
  /\ UNCHANGED <<case, draft, replyPlan, uses, granted, declined, crossed, crowded>>

\* The mail is analyzed again and the reply it proposes changes.
Redraft(p) ==
  /\ \A q \in Proposals : draft[q] < DraftLimit
  /\ draft' = [draft EXCEPT ![p] = @ + 1]
  /\ UNCHANGED <<case, replyPlan, uses, decider, granted, declined, crossed, crowded>>

AuthorizationNext ==
  \/ \E s \in Deciders :
       \/ \E p \in Proposals, version \in 1..DraftLimit :
            Authorize(s, p, version) \/ Decline(s, p, version)
       \/ EndAuthorize(s) \/ EndDecline(s) \/ StartSweep(s) \/ Consider(s) \/ QueueFails(s)
       \/ CommitSweep(s) \/ DeciderDies(s)
  \/ \E p \in Proposals : Redraft(p)

AuthorizationSpec == AuthorizationInit /\ [][AuthorizationNext]_authorizationVars

-----------------------------------------------------------------------------
\* The objective that shows a proposal and the task that carries it.
ProposalCases == [objective : {"needs_user", "cancelled", "blocked"},
                  task : OpenTasks \cup {"cancelled"}, approval : BOOLEAN]

AuthorizationTypeOK ==
  /\ case \in [Proposals -> ProposalCases]
  /\ draft \in [Proposals -> 1..DraftLimit]
  /\ \A p \in Proposals : replyPlan[p] = NoPlan
       \/ replyPlan[p] \in [by : {"owner", "standing"}, draft : 1..draft[p]]
  /\ uses \in Nat /\ crowded \in BOOLEAN
  /\ \A s \in Deciders :
       /\ decider[s].pc \in {"idle", "authorizing", "declining", "sweeping"}
       /\ decider[s].todo \subseteq Proposals /\ DOMAIN decider[s].picks \subseteq Proposals
  /\ granted \subseteq Proposals \X (1..DraftLimit)
  /\ declined \subseteq Proposals /\ crossed \subseteq Proposals

\* A reply that the owner declined is not planned, neither before nor after, also
\* when a standing authority covers it or a sweep had listed it. Only a session that
\* read the proposal before the other's decision was committed can still plan it.
\* And what goes out on the owner's word is the text that the owner was shown, also
\* when the mail is analyzed again between the display, the answer and the send. A
\* standing authority is used no more often a day than the owner allowed, unless two
\* cycles count the uses at once.
RepliesAreAsDecided ==
  /\ \A p \in declined : replyPlan[p] # NoPlan => p \in crossed
  /\ \A p \in Proposals :
       replyPlan[p].by = "owner" => <<p, replyPlan[p].draft>> \in granted
  /\ uses <= DailyUses \/ crowded
=============================================================================
