-------------------------- MODULE ConnectorMutation --------------------------
(***************************************************************************)
(* The scheduled connector rules: run_connector_automation_rules of        *)
(* automation_engine.py and the durable intents of                         *)
(* connector_mutation_recovery.py. The handler connectors.rules.run may    *)
(* execute in several sessions at once, any of them may die between two    *)
(* awaits, and the provider's answer may be lost.                          *)
(*                                                                         *)
(* Simplifications                                                         *)
(*  - No route edits the content of a rule, so the fingerprint of an       *)
(*    occurrence always matches; rules are neither disabled nor deleted.   *)
(*  - The tasks, the audit rows and last_result are left out: no step here *)
(*    reads them.                                                          *)
(*  - All rules have the same interval; time is counted in units of it     *)
(*    that a bucket is RuleInterval long.                                  *)
(***************************************************************************)
EXTENDS Naturals, FiniteSets

CONSTANTS
  MutatingRules,  \* enabled rules whose operation mutates the provider
  ReadingRules,   \* rules that read, or whose connector is missing or invalid
  RuleSessions,   \* sessions that may run the handler
  RuleInterval,   \* interval_minutes
  RuleHorizon     \* bound on the clock

Rules == MutatingRules \cup ReadingRules
Buckets == 0..(RuleHorizon \div RuleInterval)
Occurrences == MutatingRules \X Buckets
Never == 0

RuleAssumption ==
  /\ RuleInterval \in Nat \ {0} /\ RuleHorizon \in Nat \ {0}
  /\ MutatingRules \cap ReadingRules = {}

VARIABLES
  ruleClock,
  lastRun,      \* automation_rules.last_run_at
  mutation,     \* scheduled_connector_mutation_intents.status, "none" before it is inserted
  ruleSession,  \* what each session has loaded and where it is
  mutated,      \* occurrences the provider has carried out
  calls         \* times each occurrence was sent to the provider

connectorVars == <<ruleClock, lastRun, mutation, ruleSession, mutated, calls>>

MutationStates == {"none", "prepared", "submitting", "execution_uncertain", "succeeded"}
RulePlaces == {"idle", "walking", "inserting", "claiming", "calling", "answered", "failed"}

\* pc; now; the rules loaded that are due and left, and of them those that had
\* no last_run_at; the occurrence at hand; the rules whose last_run_at is set
\* and not committed.
RestingRun == [pc |-> "idle", now |-> Never, todo |-> {}, unrun |-> {}, at |-> <<>>,
               touched |-> {}]

ConnectorInit ==
  /\ ruleClock = 1
  /\ lastRun = [r \in Rules |-> Never]
  /\ mutation = [o \in Occurrences |-> "none"]
  /\ ruleSession = [s \in RuleSessions |-> RestingRun]
  /\ mutated = {}
  /\ calls = [o \in Occurrences |-> 0]

-----------------------------------------------------------------------------
Flushed(s, runs) ==
  [r \in Rules |-> IF r \in ruleSession[s].touched THEN ruleSession[s].now ELSE runs[r]]

Go(s, changes) == ruleSession' = [ruleSession EXCEPT ![s] = changes]

\* Whether a rule is due is decided from the row as it was loaded.
Due(r) == lastRun[r] = Never \/ ruleClock >= lastRun[r] + RuleInterval

LoadRules(s) ==
  /\ ruleSession[s].pc = "idle"
  /\ LET due == {r \in Rules : Due(r)}
     IN Go(s, [RestingRun EXCEPT !.pc = "walking", !.now = ruleClock, !.todo = due,
                                 !.unrun = {r \in due : lastRun[r] = Never}])
  /\ UNCHANGED <<ruleClock, lastRun, mutation, mutated, calls>>

\* The suppressed path: last_run_at is set when the session knows of none.
Suppress(s, r) ==
  LET run == ruleSession[s] IN
  /\ lastRun' = Flushed(s, IF r \in run.unrun THEN [lastRun EXCEPT ![r] = run.now]
                           ELSE lastRun)
  /\ Go(s, [run EXCEPT !.pc = "walking", !.todo = @ \ {r}, !.at = <<>>, !.touched = {}])

\* The SELECT of prepare_scheduled_connector_mutation.
LookUpOccurrence(s) ==
  /\ ruleSession[s].pc = "walking"
  /\ \E r \in ruleSession[s].todo \cap MutatingRules :
       LET run == ruleSession[s]
           o == <<r, run.now \div RuleInterval>>
       IN \/ /\ mutation[o] = "none"
             /\ Go(s, [run EXCEPT !.pc = "inserting", !.at = o])
             /\ UNCHANGED lastRun
          \/ /\ mutation[o] = "prepared"
             /\ Go(s, [run EXCEPT !.pc = "claiming", !.at = o])
             /\ UNCHANGED lastRun
          \/ /\ mutation[o] \notin {"none", "prepared"}
             /\ Suppress(s, r)
  /\ UNCHANGED <<ruleClock, mutation, mutated, calls>>

\* The unique key decides between two inserts. The rollback of the loser expires
\* its rule, and the handler ends with the error of reading it.
InsertOccurrence(s) ==
  LET run == ruleSession[s]
      o == run.at
  IN /\ run.pc = "inserting"
     /\ \/ /\ mutation[o] = "none"
           /\ mutation' = [mutation EXCEPT ![o] = "prepared"]
           /\ lastRun' = Flushed(s, lastRun)
           /\ Go(s, [run EXCEPT !.pc = "claiming", !.touched = {}])
        \/ /\ mutation[o] # "none"
           /\ Go(s, RestingRun)
           /\ UNCHANGED <<mutation, lastRun>>
     /\ UNCHANGED <<ruleClock, mutated, calls>>

\* Mutant: the claim does not ask whether the occurrence is still prepared.
ClaimAnyway(s) ==
  LET run == ruleSession[s] IN
  /\ run.pc = "claiming"
  /\ mutation' = [mutation EXCEPT ![run.at] = "submitting"]
  /\ lastRun' = Flushed(s, [lastRun EXCEPT ![run.at[1]] = run.now])
  /\ Go(s, [run EXCEPT !.pc = "calling", !.touched = {}])
  /\ UNCHANGED <<ruleClock, mutated, calls>>

ClaimOccurrence(s) ==
  LET run == ruleSession[s]
      o == run.at
      r == o[1]
  IN /\ run.pc = "claiming"
     /\ \/ /\ mutation[o] = "prepared"
           /\ mutation' = [mutation EXCEPT ![o] = "submitting"]
           /\ lastRun' = Flushed(s, [lastRun EXCEPT ![r] = run.now])
           /\ Go(s, [run EXCEPT !.pc = "calling", !.touched = {}])
        \/ /\ mutation[o] # "prepared"
           /\ lastRun' = Flushed(s, lastRun)
           /\ Go(s, [run EXCEPT !.pc = "walking", !.todo = @ \ {r}, !.at = <<>>,
                                !.touched = {}])
           /\ UNCHANGED mutation
     /\ UNCHANGED <<ruleClock, mutated, calls>>

\* execute_connector: the call may fail before or after it took effect.
CallProvider(s) ==
  LET run == ruleSession[s] IN
  /\ run.pc = "calling"
  /\ calls' = [calls EXCEPT ![run.at] = @ + 1]
  /\ \/ /\ mutated' = mutated \cup {run.at}
        /\ \E pc \in {"answered", "failed"} : Go(s, [run EXCEPT !.pc = pc])
     \/ /\ Go(s, [run EXCEPT !.pc = "failed"])
        /\ UNCHANGED mutated
  /\ UNCHANGED <<ruleClock, lastRun, mutation>>

\* complete_scheduled_connector_mutation, mark_scheduled_connector_mutation_uncertain
SettleOccurrence(s) ==
  LET run == ruleSession[s] IN
  /\ run.pc \in {"answered", "failed"}
  /\ mutation' = [mutation EXCEPT ![run.at] =
                    IF run.pc = "answered" THEN "succeeded" ELSE "execution_uncertain"]
  /\ Go(s, [run EXCEPT !.pc = "walking", !.todo = @ \ {run.at[1]}, !.at = <<>>])
  /\ UNCHANGED <<ruleClock, lastRun, mutated, calls>>

\* A failure that the engine can retry, or that the user can repair, is raised
\* and takes the uncommitted last_run_at of all rules with it.
ReadRule(s) ==
  /\ ruleSession[s].pc = "walking"
  /\ \E r \in ruleSession[s].todo \cap ReadingRules :
       \/ Go(s, [ruleSession[s] EXCEPT !.todo = @ \ {r}, !.touched = @ \cup {r}])
       \/ Go(s, RestingRun)
  /\ UNCHANGED <<ruleClock, lastRun, mutation, mutated, calls>>

EndRun(s) ==
  /\ ruleSession[s].pc = "walking" /\ ruleSession[s].todo = {}
  /\ lastRun' = Flushed(s, lastRun)
  /\ Go(s, RestingRun)
  /\ UNCHANGED <<ruleClock, mutation, mutated, calls>>

CrashRun(s) ==
  /\ ruleSession[s].pc # "idle"
  /\ Go(s, RestingRun)
  /\ UNCHANGED <<ruleClock, lastRun, mutation, mutated, calls>>

RuleTick ==
  /\ ruleClock < RuleHorizon
  /\ ruleClock' = ruleClock + 1
  /\ UNCHANGED <<lastRun, mutation, ruleSession, mutated, calls>>

RunStep(s) ==
  \/ LoadRules(s) \/ LookUpOccurrence(s) \/ InsertOccurrence(s)
  \/ ClaimOccurrence(s) \/ CallProvider(s) \/ SettleOccurrence(s) \/ ReadRule(s) \/ EndRun(s)

ConnectorNext ==
  \/ \E s \in RuleSessions : RunStep(s) \/ CrashRun(s)
  \/ RuleTick

ConnectorSpec == ConnectorInit /\ [][ConnectorNext]_connectorVars

-----------------------------------------------------------------------------
ConnectorTypeOK ==
  /\ ruleClock \in 1..RuleHorizon
  /\ lastRun \in [Rules -> 0..RuleHorizon]
  /\ mutation \in [Occurrences -> MutationStates]
  /\ ruleSession \in [RuleSessions ->
       [pc : RulePlaces, now : 0..RuleHorizon, todo : SUBSET Rules,
        unrun : SUBSET Rules, at : Occurrences \cup {<<>>}, touched : SUBSET Rules]]
  /\ mutated \subseteq Occurrences
  /\ calls \in [Occurrences -> Nat]

\* An occurrence of a mutating rule is claimed once, sent to the provider by
\* nobody but the session that claimed it and only once, even when the attempt
\* did nothing, and recorded as succeeded only when the provider carried it out,
\* whatever sessions race for it, die with it or leave it in doubt.
ConnectorEffect == INSTANCE OneShotEffect WITH
  Intents <- Occurrences,
  claimed <- {o \in Occurrences : mutation[o] \notin {"none", "prepared"}},
  attempts <- calls,
  performed <- mutated,
  reported <- {o \in Occurrences : mutation[o] = "succeeded"}

\* The connector rules keep that promise.
MutationsAreOneShot == ConnectorEffect!EffectSpec
=============================================================================
