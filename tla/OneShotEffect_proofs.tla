------------------------ MODULE OneShotEffect_proofs ------------------------
(***************************************************************************)
(* That the scheduled connector rules and the transfers between the        *)
(* owner's accounts implement OneShotEffect, and that the allocations      *)
(* which these transfers serve stay within their forecast, for every value *)
(* of their constants.                                                     *)
(***************************************************************************)
EXTENDS ConnectorMutation, OwnTransfer, Allocations, FiniteSetTheorems, TLAPS

-----------------------------------------------------------------------------
(***************************************************************************)
(* Scheduled connector rules                                               *)
(***************************************************************************)

\* An earlier moment falls into an earlier bucket, or into the same.
LEMMA DivMonotone ==
  ASSUME NEW h \in Nat, NEW k \in Nat \ {0}, NEW t \in 0..h
  PROVE  t \div k \in 0..(h \div k)
<1> DEFINE a == t \div k
           b == h \div k
<1>1. /\ a \in Nat /\ t = k * a + (t % k) /\ t % k \in 0..(k - 1)
      /\ b \in Nat /\ h = k * b + (h % k) /\ h % k \in 0..(k - 1)
  OBVIOUS
<1>2. ASSUME a > b PROVE FALSE
  <2>1. k * a >= k * (b + 1)
    <3> HIDE DEF a, b
    <3> QED BY <1>1, <1>2
  <2> QED BY <1>1, <1>2, <2>1
<1> QED BY <1>1, <1>2

LEMMA BucketType ==
  ASSUME RuleAssumption, NEW t \in 0..RuleHorizon PROVE t \div RuleInterval \in Buckets
BY RuleAssumption, DivMonotone DEF Buckets, RuleAssumption

\* Who is at an occurrence, and who has claimed it and not yet settled it.
AtOccurrence(s) ==
  ruleSession[s].pc \in {"inserting", "claiming", "calling", "answered", "failed"}
Holds(s) == ruleSession[s].pc \in {"calling", "answered", "failed"}

\* The claim is unique: an occurrence that a session holds is "submitting", held by
\* no other, and sent at most by its holder; what is answered has happened, and so
\* has what is recorded as succeeded.
ConnectorInv ==
  /\ ConnectorTypeOK
  /\ \A s \in RuleSessions : AtOccurrence(s) => ruleSession[s].at \in Occurrences
  /\ \A s \in RuleSessions : Holds(s) => mutation[ruleSession[s].at] = "submitting"
  /\ \A s, t \in RuleSessions :
       Holds(s) /\ Holds(t) /\ ruleSession[s].at = ruleSession[t].at => s = t
  /\ \A s \in RuleSessions : ruleSession[s].pc = "calling" => calls[ruleSession[s].at] = 0
  /\ \A s \in RuleSessions : ruleSession[s].pc = "answered" => ruleSession[s].at \in mutated
  /\ \A o \in Occurrences : mutation[o] \in {"none", "prepared"} => calls[o] = 0
  /\ \A o \in Occurrences : mutation[o] = "succeeded" => o \in mutated

LEMMA ConnectorInitInv ==
  ASSUME RuleAssumption
  PROVE  ConnectorInit => ConnectorInv
<1> SUFFICES ASSUME ConnectorInit PROVE ConnectorInv
  OBVIOUS
<1>1. ConnectorTypeOK
  BY RuleAssumption
  DEF RuleAssumption, ConnectorInit, ConnectorTypeOK, MutationStates, RulePlaces, RestingRun, Never
<1> QED
  BY <1>1 DEF ConnectorInit, ConnectorInv, AtOccurrence, Holds, RestingRun

LEMMA FlushedType ==
  ASSUME NEW s \in RuleSessions, NEW passes \in [Rules -> 0..RuleHorizon],
         ruleSession[s].now \in 0..RuleHorizon
  PROVE  Flushed(s, passes) \in [Rules -> 0..RuleHorizon]
BY DEF Flushed

\* What a session can remember.
RuleMemory ==
  [pc : RulePlaces, now : 0..RuleHorizon, todo : SUBSET Rules,
   unrun : SUBSET Rules, at : Occurrences \cup {<<>>}, touched : SUBSET Rules]

LEMMA RestingRunType ==
  ASSUME RuleAssumption
  PROVE  RestingRun \in RuleMemory
BY RuleAssumption DEF RuleAssumption, RestingRun, RuleMemory, RulePlaces, Never

LEMMA GoType ==
  ASSUME ConnectorTypeOK, NEW s \in RuleSessions, NEW m \in RuleMemory, Go(s, m)
  PROVE  /\ ruleSession' \in [RuleSessions -> RuleMemory]
         /\ ruleSession'[s] = m
         /\ \A t \in RuleSessions \ {s} : ruleSession'[t] = ruleSession[t]
BY DEF Go, ConnectorTypeOK, RuleMemory

\* A session that goes to a place where it holds nothing, while the intents, the
\* provider and the clock's bounds stay as they are, disturbs nobody.
LEMMA ConnectorQuiet ==
  ASSUME ConnectorInv, NEW s \in RuleSessions, NEW m \in RuleMemory, Go(s, m),
         lastRun' \in [Rules -> 0..RuleHorizon], UNCHANGED <<ruleClock, mutation, mutated, calls>>,
         m.pc \notin {"calling", "answered", "failed"},
         m.pc \in {"inserting", "claiming"} => m.at \in Occurrences
  PROVE  ConnectorInv'
<1>1. /\ ruleSession' \in [RuleSessions -> RuleMemory]
      /\ ruleSession'[s] = m
      /\ \A t \in RuleSessions \ {s} : ruleSession'[t] = ruleSession[t]
  BY GoType DEF ConnectorInv
<1>2. ConnectorTypeOK'
  BY <1>1 DEF ConnectorInv, ConnectorTypeOK, RuleMemory
<1>3. \A t \in RuleSessions : (Holds(t))' => t # s /\ Holds(t)
  BY <1>1 DEF Holds
<1>4. \A t \in RuleSessions : (AtOccurrence(t))' => ruleSession'[t].at \in Occurrences
  BY <1>1 DEF ConnectorInv, AtOccurrence
<1> QED
  BY <1>1, <1>2, <1>3, <1>4 DEF ConnectorInv, Holds

LEMMA ConnectorStep ==
  ASSUME RuleAssumption, ConnectorInv, NEW s \in RuleSessions, RunStep(s)
  PROVE  ConnectorInv'
<1> DEFINE run == ruleSession[s]
<1> USE DEF RuleMemory
<1>0. /\ run \in RuleMemory /\ ConnectorTypeOK
      /\ run.now \in 0..RuleHorizon /\ lastRun \in [Rules -> 0..RuleHorizon]
  BY DEF ConnectorInv, ConnectorTypeOK
<1>1. CASE LoadRules(s)
  <2> DEFINE due == {r \in Rules : Due(r)}
             m == [RestingRun EXCEPT !.pc = "walking", !.now = ruleClock, !.todo = due,
                                     !.unrun = {r \in due : lastRun[r] = Never}]
  <2>1. due \in SUBSET Rules /\ {r \in due : lastRun[r] = Never} \in SUBSET Rules
    OBVIOUS
  <2>2. ruleClock \in 0..RuleHorizon
    BY <1>0, RuleAssumption DEF RuleAssumption, ConnectorTypeOK
  <2>3. m \in RuleMemory /\ m.pc = "walking"
    <3> HIDE DEF due
    <3> QED BY RuleAssumption, <2>1, <2>2, RestingRunType DEF RulePlaces
  <2>4. Go(s, m) /\ UNCHANGED <<ruleClock, lastRun, mutation, mutated, calls>>
    BY <1>1 DEF LoadRules
  <2> QED BY <1>0, <2>3, <2>4, ConnectorQuiet
<1>2. CASE LookUpOccurrence(s)
  <2>1. PICK r \in run.todo \cap MutatingRules :
          LET o == <<r, run.now \div RuleInterval>>
          IN \/ /\ mutation[o] = "none"
                /\ Go(s, [run EXCEPT !.pc = "inserting", !.at = o])
                /\ UNCHANGED lastRun
             \/ /\ mutation[o] = "prepared"
                /\ Go(s, [run EXCEPT !.pc = "claiming", !.at = o])
                /\ UNCHANGED lastRun
             \/ /\ mutation[o] \notin {"none", "prepared"}
                /\ Suppress(s, r)
    BY <1>2 DEF LookUpOccurrence
  <2> DEFINE o == <<r, run.now \div RuleInterval>>
  <2>2. o \in Occurrences
    BY RuleAssumption, <1>0, BucketType DEF Occurrences
  <2>3. UNCHANGED <<ruleClock, mutation, mutated, calls>>
    BY <1>2 DEF LookUpOccurrence
  <2>4. ASSUME NEW pc \in {"inserting", "claiming"},
               Go(s, [run EXCEPT !.pc = pc, !.at = o]), UNCHANGED lastRun
        PROVE  ConnectorInv'
    <3> DEFINE m == [run EXCEPT !.pc = pc, !.at = o]
    <3> HIDE DEF o
    <3>1. m \in RuleMemory /\ m.pc = pc /\ m.at = o
      BY <1>0, <2>2 DEF RulePlaces
    <3>2. Go(s, m)
      BY <2>4
    <3> HIDE DEF m
    <3> QED BY <1>0, <2>2, <2>3, <2>4, <3>1, <3>2, ConnectorQuiet
  <2>5. CASE Suppress(s, r)
    <3> DEFINE m == [run EXCEPT !.pc = "walking", !.todo = @ \ {r}, !.at = <<>>, !.touched = {}]
    <3>1. m \in RuleMemory /\ m.pc = "walking" /\ Go(s, m)
      BY <1>0, <2>5 DEF Suppress, RulePlaces
    <3>2. lastRun' \in [Rules -> 0..RuleHorizon]
      BY <1>0, <2>5, FlushedType DEF Suppress
    <3> QED BY <2>3, <3>1, <3>2, ConnectorQuiet
  <2> QED BY <2>1, <2>4, <2>5
<1>3. CASE InsertOccurrence(s)
  <2> DEFINE o == run.at
  <2>1. o \in Occurrences /\ run.pc = "inserting"
    BY <1>3 DEF InsertOccurrence, ConnectorInv, AtOccurrence
  <2>2. CASE mutation[o] = "none"
    <3> DEFINE m == [run EXCEPT !.pc = "claiming", !.touched = {}]
    <3>1. /\ mutation' = [mutation EXCEPT ![o] = "prepared"]
          /\ lastRun' = Flushed(s, lastRun) /\ Go(s, m)
          /\ UNCHANGED <<ruleClock, mutated, calls>>
      BY <1>3, <2>2 DEF InsertOccurrence
    <3>2. m \in RuleMemory /\ m.pc = "claiming" /\ m.at = o
      BY <1>0 DEF RulePlaces
    <3>3. /\ ruleSession' \in [RuleSessions -> RuleMemory]
          /\ ruleSession'[s] = m
          /\ \A t \in RuleSessions \ {s} : ruleSession'[t] = ruleSession[t]
      BY <1>0, <3>1, <3>2, GoType
    <3> HIDE DEF m
    <3>4. ConnectorTypeOK'
      BY <1>0, <2>1, <3>1, <3>3, FlushedType DEF ConnectorTypeOK, MutationStates
    <3>5. \A t \in RuleSessions : (Holds(t))' => t # s /\ Holds(t) /\ ruleSession[t].at # o
      BY <2>2, <3>2, <3>3 DEF Holds, ConnectorInv
    <3>6. \A t \in RuleSessions : (AtOccurrence(t))' => ruleSession'[t].at \in Occurrences
      BY <2>1, <3>2, <3>3 DEF ConnectorInv, AtOccurrence
    <3>7. mutation \in [Occurrences -> MutationStates]
      BY <1>0 DEF ConnectorTypeOK
    <3> QED BY <2>1, <2>2, <3>1, <3>2, <3>3, <3>4, <3>5, <3>6, <3>7 DEF ConnectorInv, Holds, AtOccurrence
  <2>3. CASE mutation[o] # "none"
    <3>1. /\ Go(s, RestingRun) /\ UNCHANGED <<ruleClock, lastRun, mutation, mutated, calls>>
      BY <1>3, <2>3 DEF InsertOccurrence
    <3> QED BY RuleAssumption, <1>0, <3>1, RestingRunType, ConnectorQuiet DEF RestingRun
  <2> QED BY <2>2, <2>3
<1>4. CASE ClaimOccurrence(s)
  <2> DEFINE o == run.at
  <2>1. o \in Occurrences /\ run.pc = "claiming" /\ o[1] \in MutatingRules
    BY <1>4 DEF ClaimOccurrence, ConnectorInv, AtOccurrence, Occurrences
  <2>2. CASE mutation[o] = "prepared"
    <3> DEFINE m == [run EXCEPT !.pc = "calling", !.touched = {}]
    <3>1. /\ mutation' = [mutation EXCEPT ![o] = "submitting"]
          /\ lastRun' = Flushed(s, [lastRun EXCEPT ![o[1]] = run.now]) /\ Go(s, m)
          /\ UNCHANGED <<ruleClock, mutated, calls>>
      BY <1>4, <2>2 DEF ClaimOccurrence
    <3>2. m \in RuleMemory /\ m.pc = "calling" /\ m.at = o
      BY <1>0 DEF RulePlaces
    <3>3. /\ ruleSession' \in [RuleSessions -> RuleMemory]
          /\ ruleSession'[s] = m
          /\ \A t \in RuleSessions \ {s} : ruleSession'[t] = ruleSession[t]
      BY <1>0, <3>1, <3>2, GoType
    <3> HIDE DEF m
    <3>4. [lastRun EXCEPT ![o[1]] = run.now] \in [Rules -> 0..RuleHorizon]
      BY <1>0, <2>1 DEF Rules
    <3>5. mutation \in [Occurrences -> MutationStates]
      BY <1>0 DEF ConnectorTypeOK
    <3>6. ConnectorTypeOK'
      <4>1. lastRun' \in [Rules -> 0..RuleHorizon]
        BY <1>0, <3>1, <3>4, FlushedType
      <4> QED BY <1>0, <2>1, <3>1, <3>3, <4>1 DEF ConnectorTypeOK, MutationStates
    <3>7. \A t \in RuleSessions \ {s} : (Holds(t))' => Holds(t) /\ ruleSession[t].at # o
      BY <2>2, <3>3 DEF Holds, ConnectorInv
    <3>8. \A t \in RuleSessions : (AtOccurrence(t))' => ruleSession'[t].at \in Occurrences
      BY <2>1, <3>2, <3>3 DEF ConnectorInv, AtOccurrence
    <3>9. calls[o] = 0
      BY <2>1, <2>2 DEF ConnectorInv
    <3>10. \A t \in RuleSessions : (Holds(t))' => mutation'[ruleSession'[t].at] = "submitting"
      BY <2>1, <3>1, <3>2, <3>3, <3>5, <3>7, <3>8 DEF ConnectorInv, AtOccurrence, Holds
    <3>11. \A t, u \in RuleSessions :
             (Holds(t))' /\ (Holds(u))' /\ ruleSession'[t].at = ruleSession'[u].at => t = u
      BY <3>2, <3>3, <3>7 DEF ConnectorInv
    <3>12. \A q \in Occurrences : mutation'[q] # "submitting" => mutation'[q] = mutation[q]
      BY <2>1, <3>1, <3>5
    <3>13. \A t \in RuleSessions :
             /\ ruleSession'[t].pc = "calling" => calls'[ruleSession'[t].at] = 0
             /\ ruleSession'[t].pc = "answered" => ruleSession'[t].at \in mutated'
      BY <3>1, <3>2, <3>3, <3>9 DEF ConnectorInv
    <3>14. \A q \in Occurrences :
             /\ mutation'[q] \in {"none", "prepared"} => calls'[q] = 0
             /\ mutation'[q] = "succeeded" => q \in mutated'
      BY <3>1, <3>12 DEF ConnectorInv
    <3> QED
      BY <3>6, <3>8, <3>10, <3>11, <3>13, <3>14 DEF ConnectorInv
  <2>3. CASE mutation[o] # "prepared"
    <3> DEFINE m == [run EXCEPT !.pc = "walking", !.todo = @ \ {o[1]}, !.at = <<>>,
                                !.touched = {}]
    <3>1. /\ lastRun' = Flushed(s, lastRun) /\ Go(s, m)
          /\ UNCHANGED <<ruleClock, mutation, mutated, calls>>
      BY <1>4, <2>3 DEF ClaimOccurrence
    <3>2. m \in RuleMemory /\ m.pc = "walking"
      BY <1>0 DEF RulePlaces
    <3>3. lastRun' \in [Rules -> 0..RuleHorizon]
      BY <1>0, <3>1, FlushedType
    <3> QED BY <3>1, <3>2, <3>3, ConnectorQuiet
  <2> QED BY <2>2, <2>3
<1>5. CASE CallProvider(s)
  <2> DEFINE o == run.at
  <2>1. PICK pc \in {"answered", "failed"} :
          /\ Go(s, [run EXCEPT !.pc = pc])
          /\ mutated' \in {mutated, mutated \cup {o}}
          /\ pc = "answered" => mutated' = mutated \cup {o}
    BY <1>5 DEF CallProvider
  <2> DEFINE m == [run EXCEPT !.pc = pc]
  <2>2. /\ run.pc = "calling" /\ calls' = [calls EXCEPT ![o] = @ + 1]
        /\ UNCHANGED <<ruleClock, lastRun, mutation>>
    BY <1>5 DEF CallProvider
  <2>3. o \in Occurrences /\ Holds(s) /\ mutation[o] = "submitting"
    BY <2>2 DEF ConnectorInv, AtOccurrence, Holds
  <2>4. m \in RuleMemory /\ m.pc = pc /\ m.at = o
    BY <1>0 DEF RulePlaces
  <2>5. /\ ruleSession' \in [RuleSessions -> RuleMemory]
        /\ ruleSession'[s] = m
        /\ \A t \in RuleSessions \ {s} : ruleSession'[t] = ruleSession[t]
    BY <1>0, <2>1, <2>4, GoType
  <2> HIDE DEF m
  <2>6. ConnectorTypeOK'
    BY <1>0, <2>1, <2>2, <2>3, <2>5 DEF ConnectorTypeOK
  <2>7. \A t \in RuleSessions : /\ ruleSession'[t].at = ruleSession[t].at
                                /\ (Holds(t))' = Holds(t)
                                /\ (AtOccurrence(t))' = AtOccurrence(t)
    BY <2>2, <2>4, <2>5 DEF Holds, AtOccurrence
  <2>8. \A t \in RuleSessions : ruleSession'[t].pc = "calling" => calls'[ruleSession'[t].at] = 0
    BY <1>0, <2>2, <2>3, <2>4, <2>5 DEF ConnectorInv, Holds, AtOccurrence, ConnectorTypeOK
  <2>9. \A t \in RuleSessions : ruleSession'[t].pc = "answered" => ruleSession'[t].at \in mutated'
    BY <2>1, <2>4, <2>5 DEF ConnectorInv
  <2>10. \A q \in Occurrences : mutation'[q] \in {"none", "prepared"} => calls'[q] = 0
    BY <1>0, <2>2, <2>3 DEF ConnectorInv, ConnectorTypeOK
  <2> QED
    BY <2>1, <2>2, <2>6, <2>7, <2>8, <2>9, <2>10 DEF ConnectorInv
<1>6. CASE SettleOccurrence(s)
  <2> DEFINE o == run.at
             m == [run EXCEPT !.pc = "walking", !.todo = @ \ {o[1]}, !.at = <<>>]
             st == IF run.pc = "answered" THEN "succeeded" ELSE "execution_uncertain"
  <2>1. /\ run.pc \in {"answered", "failed"} /\ Go(s, m)
        /\ mutation' = [mutation EXCEPT ![o] = st]
        /\ UNCHANGED <<ruleClock, lastRun, mutated, calls>>
    BY <1>6 DEF SettleOccurrence
  <2>2. o \in Occurrences /\ Holds(s)
    BY <2>1 DEF ConnectorInv, AtOccurrence, Holds
  <2>3. m \in RuleMemory /\ m.pc = "walking"
    BY <1>0 DEF RulePlaces
  <2>4. /\ ruleSession' \in [RuleSessions -> RuleMemory]
        /\ ruleSession'[s] = m
        /\ \A t \in RuleSessions \ {s} : ruleSession'[t] = ruleSession[t]
    BY <1>0, <2>1, <2>3, GoType
  <2> HIDE DEF m
  <2>5. ConnectorTypeOK'
    BY <1>0, <2>1, <2>2, <2>4 DEF ConnectorTypeOK, MutationStates
  <2>6. \A t \in RuleSessions : (Holds(t))' => /\ t # s /\ Holds(t)
                                               /\ ruleSession'[t] = ruleSession[t]
                                               /\ ruleSession[t].at # o
    BY <2>2, <2>3, <2>4 DEF Holds, ConnectorInv
  <2>7. \A t \in RuleSessions : (AtOccurrence(t))' => ruleSession'[t].at \in Occurrences
    BY <2>3, <2>4 DEF ConnectorInv, AtOccurrence
  <2>8. mutation \in [Occurrences -> MutationStates]
    BY <1>0 DEF ConnectorTypeOK
  <2>9. \A q \in Occurrences : mutation'[q] = "succeeded" => q \in mutated'
    BY <2>1, <2>2, <2>8 DEF ConnectorInv
  <2>10. \A q \in Occurrences : mutation'[q] \in {"none", "prepared"} => calls'[q] = 0
    BY <2>1, <2>2, <2>8 DEF ConnectorInv
  <2>11. \A t \in RuleSessions : (Holds(t))' => mutation'[ruleSession'[t].at] = "submitting"
    BY <2>1, <2>6, <2>8 DEF ConnectorInv, AtOccurrence, Holds
  <2> QED
    BY <2>1, <2>5, <2>6, <2>7, <2>9, <2>10, <2>11 DEF ConnectorInv, Holds
<1>7. CASE ReadRule(s)
  <2>1. PICK r \in run.todo \cap ReadingRules :
          \/ Go(s, [run EXCEPT !.todo = @ \ {r}, !.touched = @ \cup {r}])
          \/ Go(s, RestingRun)
    BY <1>7 DEF ReadRule
  <2>2. run.pc = "walking" /\ UNCHANGED <<ruleClock, lastRun, mutation, mutated, calls>>
    BY <1>7 DEF ReadRule
  <2> DEFINE m == [run EXCEPT !.todo = @ \ {r}, !.touched = @ \cup {r}]
  <2>3. m \in RuleMemory /\ m.pc = "walking"
    BY <1>0, <2>2
  <2> QED
    BY RuleAssumption, <1>0, <2>1, <2>2, <2>3, RestingRunType, ConnectorQuiet DEF RestingRun
<1>8. CASE EndRun(s)
  <2>1. /\ Go(s, RestingRun) /\ lastRun' = Flushed(s, lastRun)
        /\ UNCHANGED <<ruleClock, mutation, mutated, calls>>
    BY <1>8 DEF EndRun
  <2>2. lastRun' \in [Rules -> 0..RuleHorizon]
    BY <1>0, <2>1, FlushedType
  <2> QED BY RuleAssumption, <2>1, <2>2, RestingRunType, ConnectorQuiet DEF RestingRun
<1> QED
  BY <1>1, <1>2, <1>3, <1>4, <1>5, <1>6, <1>7, <1>8 DEF RunStep

LEMMA ConnectorInvariant ==
  ASSUME RuleAssumption
  PROVE  ConnectorSpec => []ConnectorInv
<1>1. ASSUME ConnectorInv, ConnectorNext PROVE ConnectorInv'
  <2>1. ASSUME NEW s \in RuleSessions, CrashRun(s) PROVE ConnectorInv'
    <3>1. lastRun' \in [Rules -> 0..RuleHorizon]
      BY <1>1, <2>1 DEF CrashRun, ConnectorInv, ConnectorTypeOK
    <3> QED
      BY RuleAssumption, <1>1, <2>1, <3>1, RestingRunType, ConnectorQuiet DEF CrashRun, RestingRun
  <2>2. CASE RuleTick
    BY <1>1, <2>2, RuleAssumption
    DEF RuleAssumption, RuleTick, ConnectorInv, ConnectorTypeOK, AtOccurrence, Holds
  <2> QED BY RuleAssumption, <1>1, <2>1, <2>2, ConnectorStep DEF ConnectorNext
<1>2. ConnectorInv /\ UNCHANGED connectorVars => ConnectorInv'
  BY DEF ConnectorInv, ConnectorTypeOK, AtOccurrence, Holds, connectorVars
<1> QED BY RuleAssumption, <1>1, <1>2, ConnectorInitInv, PTL DEF ConnectorSpec

\* The statuses, clocks and memories of the connector rules keep their types.
THEOREM ConnectorTypes ==
  ASSUME RuleAssumption
  PROVE  ConnectorSpec => []ConnectorTypeOK
BY RuleAssumption, ConnectorInvariant, PTL DEF ConnectorInv

\* The occurrences that somebody was allowed to carry out.
ClaimedOccurrences == {o \in Occurrences : mutation[o] \notin {"none", "prepared"}}
SucceededOccurrences == {o \in Occurrences : mutation[o] = "succeeded"}

\* An intent that becomes "prepared" is not yet claimed, and one that becomes
\* "submitting" becomes claimed.
LEMMA StatusSets ==
  ASSUME mutation \in [Occurrences -> MutationStates], NEW o \in Occurrences,
         NEW st \in MutationStates, mutation' = [mutation EXCEPT ![o] = st]
  PROVE  /\ ClaimedOccurrences' = IF st \in {"none", "prepared"} THEN ClaimedOccurrences \ {o}
                                  ELSE ClaimedOccurrences \cup {o}
         /\ SucceededOccurrences' = IF st = "succeeded" THEN SucceededOccurrences \cup {o}
                                    ELSE SucceededOccurrences \ {o}
BY DEF ClaimedOccurrences, SucceededOccurrences

\* The scheduled connector rules keep the promise of OneShotEffect.
THEOREM ConnectorImplementsOneShot ==
  ASSUME RuleAssumption
  PROVE  ConnectorSpec => MutationsAreOneShot
<1> USE DEF ConnectorEffect!effectVars
<1>1. ConnectorInit => ConnectorEffect!EffectInit
  BY DEF ConnectorInit, ConnectorEffect!EffectInit
<1>2. ASSUME ConnectorInv, [ConnectorNext]_connectorVars
      PROVE  [ConnectorEffect!EffectNext]_(ConnectorEffect!effectVars)
  <2> USE DEF ConnectorEffect!EffectNext
  <2>0. mutation \in [Occurrences -> MutationStates] /\ calls \in [Occurrences -> Nat]
    BY <1>2 DEF ConnectorInv, ConnectorTypeOK
  <2>1. ASSUME UNCHANGED <<mutation, mutated, calls>>
        PROVE  UNCHANGED ConnectorEffect!effectVars
    BY <2>1
  <2>2. ASSUME NEW s \in RuleSessions, InsertOccurrence(s)
        PROVE  UNCHANGED ConnectorEffect!effectVars
    <3>1. ruleSession[s].at \in Occurrences
      BY <1>2, <2>2 DEF InsertOccurrence, ConnectorInv, AtOccurrence
    <3>2. CASE mutation[ruleSession[s].at] = "none"
      <4>1. /\ mutation' = [mutation EXCEPT ![ruleSession[s].at] = "prepared"]
            /\ UNCHANGED <<mutated, calls>>
        BY <2>2, <3>2 DEF InsertOccurrence
      <4>2. UNCHANGED <<ClaimedOccurrences, SucceededOccurrences>>
        BY <2>0, <3>1, <3>2, <4>1, StatusSets
        DEF MutationStates, ClaimedOccurrences, SucceededOccurrences
      <4> QED BY <4>1, <4>2 DEF ClaimedOccurrences, SucceededOccurrences
    <3>3. CASE mutation[ruleSession[s].at] # "none"
      BY <2>2, <3>3 DEF InsertOccurrence
    <3> QED BY <3>2, <3>3
  <2>3. ASSUME NEW s \in RuleSessions, ClaimOccurrence(s)
        PROVE  [ConnectorEffect!EffectNext]_(ConnectorEffect!effectVars)
    <3>1. PICK o \in Occurrences : o = ruleSession[s].at
      BY <1>2, <2>3 DEF ClaimOccurrence, ConnectorInv, AtOccurrence
    <3>2. CASE mutation[o] = "prepared"
      <4>1. mutation' = [mutation EXCEPT ![o] = "submitting"] /\ UNCHANGED <<mutated, calls>>
        BY <2>3, <3>1, <3>2 DEF ClaimOccurrence
      <4>2. /\ ClaimedOccurrences' = ClaimedOccurrences \cup {o}
            /\ SucceededOccurrences' = SucceededOccurrences
            /\ o \notin ClaimedOccurrences
        BY <2>0, <3>1, <3>2, <4>1, StatusSets
        DEF MutationStates, ClaimedOccurrences, SucceededOccurrences
      <4>3. ConnectorEffect!Claim(o)
        BY <4>1, <4>2 DEF ConnectorEffect!Claim, ClaimedOccurrences, SucceededOccurrences
      <4> QED BY <4>3
    <3>3. CASE mutation[o] # "prepared"
      BY <2>3, <3>1, <3>3 DEF ClaimOccurrence
    <3> QED BY <3>2, <3>3
  <2>4. ASSUME NEW s \in RuleSessions, CallProvider(s)
        PROVE  [ConnectorEffect!EffectNext]_(ConnectorEffect!effectVars)
    <3>1. PICK o \in Occurrences :
             o = ruleSession[s].at /\ mutation[o] = "submitting" /\ calls[o] = 0
      BY <1>2, <2>4 DEF CallProvider, ConnectorInv, AtOccurrence, Holds
    <3>2. /\ calls' = [calls EXCEPT ![o] = 1]
          /\ mutated' \in {mutated, mutated \cup {o}} /\ UNCHANGED mutation
      BY <2>0, <2>4, <3>1 DEF CallProvider
    <3>3. ConnectorEffect!Attempt(o)
      BY <3>1, <3>2 DEF ConnectorEffect!Attempt
    <3> QED BY <3>1, <3>3
  <2>5. ASSUME NEW s \in RuleSessions, SettleOccurrence(s)
        PROVE  [ConnectorEffect!EffectNext]_(ConnectorEffect!effectVars)
    <3>1. PICK o \in Occurrences :
             /\ o = ruleSession[s].at /\ mutation[o] = "submitting"
             /\ ruleSession[s].pc = "answered" => o \in mutated
      BY <1>2, <2>5 DEF SettleOccurrence, ConnectorInv, AtOccurrence, Holds
    <3>2. UNCHANGED <<mutated, calls>>
      BY <2>5 DEF SettleOccurrence
    <3>3. CASE ruleSession[s].pc = "answered"
      <4>1. mutation' = [mutation EXCEPT ![o] = "succeeded"]
        BY <2>5, <3>1, <3>3 DEF SettleOccurrence
      <4>2. /\ ClaimedOccurrences' = ClaimedOccurrences
            /\ SucceededOccurrences' = SucceededOccurrences \cup {o}
            /\ o \notin SucceededOccurrences
        BY <2>0, <3>1, <4>1, StatusSets
        DEF MutationStates, ClaimedOccurrences, SucceededOccurrences
      <4>3. ConnectorEffect!Report(o)
        BY <3>1, <3>2, <3>3, <4>2
        DEF ConnectorEffect!Report, ClaimedOccurrences, SucceededOccurrences
      <4> QED BY <4>3
    <3>4. CASE ruleSession[s].pc # "answered"
      <4>1. mutation' = [mutation EXCEPT ![o] = "execution_uncertain"]
        BY <2>5, <3>1, <3>4 DEF SettleOccurrence
      <4>2. UNCHANGED <<ClaimedOccurrences, SucceededOccurrences>>
        BY <2>0, <3>1, <4>1, StatusSets
        DEF MutationStates, ClaimedOccurrences, SucceededOccurrences
      <4> QED BY <3>2, <4>2 DEF ClaimedOccurrences, SucceededOccurrences
    <3> QED BY <3>3, <3>4
  <2>6. ASSUME NEW s \in RuleSessions,
               LoadRules(s) \/ LookUpOccurrence(s) \/ ReadRule(s) \/ EndRun(s) \/ CrashRun(s)
        PROVE  UNCHANGED <<mutation, mutated, calls>>
    BY <2>6 DEF LoadRules, LookUpOccurrence, ReadRule, EndRun, CrashRun
  <2>7. RuleTick \/ UNCHANGED connectorVars => UNCHANGED <<mutation, mutated, calls>>
    BY DEF RuleTick, connectorVars
  <2> QED
    BY <1>2, <2>1, <2>2, <2>3, <2>4, <2>5, <2>6, <2>7 DEF ConnectorNext, RunStep
<1> QED
  BY RuleAssumption, <1>1, <1>2, ConnectorInvariant, PTL
  DEF ConnectorSpec, MutationsAreOneShot, ConnectorEffect!EffectSpec

-----------------------------------------------------------------------------
(***************************************************************************)
(* Transfers between own accounts                                          *)
(***************************************************************************)

\* What a session at a place can rely on: only the holder of the lock is about to
\* insert, and it found no row; a row's inserter is alone with it until the bank has
\* answered; and what a session has seen at the bank is final when it says so.
Placed(s, at) ==
  /\ at.pc # "idle" => at.move \in Moves
  /\ at.pc = "noting" => at.move \in ForecastMoves /\ at.seen \in MoveStates
  /\ at.pc = "inserting" => sourceLock = s /\ moved[at.move] = "none"
  /\ at.pc \in {"posting", "answering"} => moved[at.move] = "creating"
  /\ at.pc = "posting" => orders[at.move] = 0 /\ atBank[at.move] = "none"
  /\ at.pc \in {"polled", "returned"} =>
       /\ at.move \in known
       /\ at.seen \in {"settled", "rejected"} => atBank[at.move] = at.seen
  /\ at.pc = "matching" =>
       /\ moved[at.move] \notin {"none", "creating"}
       /\ at.seen \in Moves /\ atBank[at.seen] # "none"

Ordering(s) == mover[s].pc \in {"posting", "answering"}

MoverInv ==
  /\ MoveTypeOK
  /\ \A s \in Movers : Placed(s, mover[s])
  /\ \A s, t \in Movers :
       Ordering(s) /\ Ordering(t) /\ mover[s].move = mover[t].move => s = t
  /\ \A m \in Moves : moved[m] = "none" => orders[m] = 0 /\ atBank[m] = "none"
  /\ \A m \in known : moved[m] \notin {"none", "creating"}

MoverMemory == [pc : MoverPlaces, move : Moves \cup {NoMove},
                seen : MoveStates \cup OrderStates \cup Moves]

LEMMA ShiftType ==
  ASSUME MoveTypeOK, NEW s \in Movers, NEW a \in MoverMemory, Shift(s, a)
  PROVE  /\ mover' \in [Movers -> MoverMemory]
         /\ mover'[s] = a
         /\ \A t \in Movers \ {s} : mover'[t] = mover[t]
BY DEF Shift, MoveTypeOK, MoverMemory

LEMMA MirrorType ==
  ASSUME NEW st PROVE Mirror(st) \in AllotStates /\ (Mirror(st) = "verified" => st = "completed")
BY DEF Mirror, AllotStates, MoveDead

LEMMA SetAllotmentType ==
  ASSUME MoveTypeOK, NEW m, NEW to \in AllotStates, SetAllotment(m, to)
  PROVE  allotment' \in [ForecastMoves -> AllotStates]
BY DEF SetAllotment, MoveTypeOK

LEMMA IdleMoverType == IdleMover \in MoverMemory
BY DEF IdleMover, MoverMemory, MoverPlaces, MoveStates, OrderStates

LEMMA MoveInitInv == MoveInit => MoverInv
<1> SUFFICES ASSUME MoveInit PROVE MoverInv
  OBVIOUS
<1>1. MoveTypeOK
  BY IdleMoverType DEF MoveInit, MoveTypeOK, MoverMemory, MoveStates, AllotStates, OrderStates
<1> QED
  BY <1>1 DEF MoveInit, MoverInv, IdleMover, Ordering, Placed

\* A session that goes to a place where it is not alone with a row, or leaves one,
\* while the transfers stay as they are, disturbs nobody.
LEMMA MoverQuiet ==
  ASSUME MoverInv, NEW s \in Movers, NEW a \in MoverMemory, Shift(s, a),
         UNCHANGED <<ledgerVars, moveBankVars>>,
         allotment' \in [ForecastMoves -> AllotStates], linked' \subseteq ForecastMoves,
         sourceLock' \in Movers \cup {NoMover},
         \A t \in Movers \ {s} : sourceLock = t => sourceLock' = t,
         a.pc \notin {"posting", "answering", "inserting"}, Placed(s, a)
  PROVE  MoverInv'
<1> USE DEF ledgerVars, moveBankVars
<1>1. /\ mover' \in [Movers -> MoverMemory]
      /\ mover'[s] = a
      /\ \A t \in Movers \ {s} : mover'[t] = mover[t]
  BY ShiftType DEF MoverInv
<1>2. MoveTypeOK'
  BY <1>1 DEF MoverInv, MoveTypeOK, MoverMemory
<1>3. \A t \in Movers : Placed(t, mover[t])'
  BY <1>1 DEF MoverInv, Placed
<1> QED
  BY <1>1, <1>2, <1>3 DEF MoverInv, Ordering

\* A session's step keeps the types and the places.
LEMMA MoverStep ==
  ASSUME MoveAssumption, MoverInv, NEW s \in Movers,
         \/ PlanBudgetMove(s) \/ PlanAllotment(s) \/ ResumeAllotment(s) \/ LockSource(s)
         \/ InsertTransfer(s) \/ PostOrder(s) \/ AnswerOrder(s) \/ NoteTransfer(s)
         \/ CrashMover(s) \/ AskForOrder(s) \/ WriteOrderStatus(s)
         \/ FetchEvidence(s) \/ BindEvidence(s)
  PROVE  MoverInv'
<1> DEFINE at == mover[s]
<1> USE MoveAssumption DEF allotVars, MoveAssumption
<1>0. /\ at \in MoverMemory /\ MoveTypeOK /\ Placed(s, at)
      /\ allotment \in [ForecastMoves -> AllotStates] /\ linked \subseteq ForecastMoves
      /\ sourceLock \in Movers \cup {NoMover} /\ moved \in [Moves -> MoveStates]
      /\ {"planned", "dispatching", "blocked_policy"} \subseteq AllotStates
  BY DEF MoverInv, MoveTypeOK, MoverMemory, AllotStates
<1>1. ASSUME NEW m \in Moves, NEW to \in AllotStates,
             Shift(s, [IdleMover EXCEPT !.pc = "asking", !.move = m]),
             allotment' = allotment \/ SetAllotment(m, to),
             UNCHANGED <<ledgerVars, linked, moveBankVars, sourceLock>>
      PROVE  MoverInv'
  <2> DEFINE a == [IdleMover EXCEPT !.pc = "asking", !.move = m]
  <2>1. a \in MoverMemory /\ a.pc = "asking" /\ a.move \in Moves
    BY IdleMoverType DEF MoverMemory, MoverPlaces
  <2>2. allotment' \in [ForecastMoves -> AllotStates]
    BY <1>0, <1>1, SetAllotmentType
  <2>3. Placed(s, a)
    BY <2>1 DEF Placed
  <2>4. Shift(s, a)
    BY <1>1
  <2> HIDE DEF a
  <2> QED BY <1>0, <1>1, <2>1, <2>2, <2>3, <2>4, MoverQuiet
<1>2. CASE PlanBudgetMove(s) \/ PlanAllotment(s) \/ ResumeAllotment(s)
  BY <1>0, <1>1, <1>2 DEF PlanBudgetMove, PlanAllotment, ResumeAllotment, Moves
<1>3. ASSUME at.pc # "idle", NEW st \in MoveStates, Return(s, st),
             UNCHANGED <<ledgerVars, allotVars, moveBankVars, sourceLock>>
      PROVE  MoverInv'
  <2> DEFINE a == IF at.move \in ForecastMoves THEN [at EXCEPT !.pc = "noting", !.seen = st]
                  ELSE IdleMover
  <2>1. /\ a \in MoverMemory /\ a.pc \in {"noting", "idle"}
        /\ a.pc = "noting" => a.move \in ForecastMoves /\ a.seen \in MoveStates
    BY <1>0, <1>3, IdleMoverType DEF MoverMemory, MoverPlaces, IdleMover
  <2>2. Placed(s, a)
    BY <2>1 DEF Placed, Moves
  <2>3. Shift(s, a)
    BY <1>3 DEF Return
  <2> HIDE DEF a
  <2> QED BY <1>0, <1>3, <2>1, <2>2, <2>3, MoverQuiet
<1>4. CASE LockSource(s)
  <2> DEFINE m == at.move
  <2>1. m \in Moves /\ sourceLock = NoMover /\ UNCHANGED <<ledgerVars, linked, moveBankVars>>
    BY <1>0, <1>4 DEF LockSource, Placed
  <2>2. CASE moved[m] # "none"
    BY <1>0, <1>3, <1>4, <2>1, <2>2 DEF LockSource
  <2>3. CASE SetAllotment(m, "blocked_policy") /\ Shift(s, IdleMover) /\ UNCHANGED sourceLock
    <3>1. allotment' \in [ForecastMoves -> AllotStates]
      BY <1>0, <2>3, SetAllotmentType
    <3>2. Placed(s, IdleMover) /\ IdleMover.pc = "idle"
      BY DEF Placed, IdleMover
    <3> QED BY <1>0, <2>1, <2>3, <3>1, <3>2, IdleMoverType, MoverQuiet
  <2>4. CASE /\ moved[m] = "none" /\ sourceLock' = s /\ UNCHANGED allotment
             /\ Shift(s, [at EXCEPT !.pc = "inserting"])
    <3> DEFINE a == [at EXCEPT !.pc = "inserting"]
    <3>1. a \in MoverMemory /\ a.pc = "inserting" /\ a.move = m
      BY <1>0 DEF MoverMemory, MoverPlaces
    <3>2. /\ mover' \in [Movers -> MoverMemory]
          /\ mover'[s] = a
          /\ \A t \in Movers \ {s} : mover'[t] = mover[t]
      BY <1>0, <2>4, <3>1, ShiftType
    <3> HIDE DEF a
    <3>3. MoveTypeOK'
      BY <1>0, <2>1, <2>4, <3>2 DEF MoveTypeOK, MoverMemory, ledgerVars, moveBankVars
    <3>4. \A t \in Movers : Placed(t, mover[t])'
      BY <2>1, <2>4, <3>1, <3>2 DEF MoverInv, Placed, ledgerVars, moveBankVars
    <3> QED
      BY <2>1, <3>1, <3>2, <3>3, <3>4 DEF MoverInv, Ordering, ledgerVars, moveBankVars
  <2> QED BY <1>4, <2>1, <2>2, <2>3, <2>4 DEF LockSource
<1>5. CASE InsertTransfer(s)
  <2> DEFINE m == at.move
             a == [at EXCEPT !.pc = "posting"]
  <2>1. /\ at.pc = "inserting" /\ m \in Moves /\ moved[m] = "none" /\ sourceLock = s
        /\ moved' = [moved EXCEPT ![m] = "creating"] /\ sourceLock' = NoMover
        /\ Shift(s, a) /\ UNCHANGED <<known, sca, booked, allotVars, moveBankVars>>
    BY <1>0, <1>5 DEF InsertTransfer, Placed
  <2>2. a \in MoverMemory /\ a.pc = "posting" /\ a.move = m
    BY <1>0 DEF MoverMemory, MoverPlaces
  <2>3. /\ mover' \in [Movers -> MoverMemory]
        /\ mover'[s] = a
        /\ \A t \in Movers \ {s} : mover'[t] = mover[t]
    BY <1>0, <2>1, <2>2, ShiftType
  <2> HIDE DEF a
  <2>4. MoveTypeOK'
    BY <1>0, <2>1, <2>3
    DEF MoveTypeOK, MoverMemory, MoveStates, MoveActive, moveBankVars
  <2>5. \A t \in Movers \ {s} : mover[t].pc # "inserting" /\ (Ordering(t) => mover[t].move # m)
    BY <2>1 DEF MoverInv, Placed, Ordering
  <2>6. \A t \in Movers : Placed(t, mover[t])'
    BY <1>0, <2>1, <2>2, <2>3, <2>5 DEF MoverInv, Placed, Ordering, moveBankVars
  <2>7. \A t, u \in Movers :
          (Ordering(t))' /\ (Ordering(u))' /\ mover'[t].move = mover'[u].move => t = u
    BY <2>2, <2>3, <2>5 DEF MoverInv, Ordering
  <2>8. \A n \in Moves : moved'[n] = "none" => orders'[n] = 0 /\ atBank'[n] = "none"
    BY <1>0, <2>1 DEF MoverInv, moveBankVars
  <2>9. \A n \in known' : moved'[n] \notin {"none", "creating"}
    BY <1>0, <2>1 DEF MoverInv
  <2> QED BY <2>4, <2>6, <2>7, <2>8, <2>9 DEF MoverInv
<1>6. CASE PostOrder(s)
  <2> DEFINE m == at.move
             a == [at EXCEPT !.pc = "answering"]
  <2>1. PICK b \in {"none", "accepted"} : atBank' = [atBank EXCEPT ![m] = b]
    BY <1>6 DEF PostOrder
  <2>2. /\ at.pc = "posting" /\ m \in Moves /\ moved[m] = "creating" /\ atBank[m] = "none"
        /\ orders' = [orders EXCEPT ![m] = @ + 1]
        /\ Shift(s, a) /\ UNCHANGED <<ledgerVars, allotVars, misread, sourceLock>>
    BY <1>0, <1>6 DEF PostOrder, Placed
  <2>3. a \in MoverMemory /\ a.pc = "answering" /\ a.move = m
    BY <1>0 DEF MoverMemory, MoverPlaces
  <2>4. /\ mover' \in [Movers -> MoverMemory]
        /\ mover'[s] = a
        /\ \A t \in Movers \ {s} : mover'[t] = mover[t]
    BY <1>0, <2>2, <2>3, ShiftType
  <2> HIDE DEF a
  <2>5. MoveTypeOK'
    BY <1>0, <2>1, <2>2, <2>4 DEF MoveTypeOK, MoverMemory, OrderStates, ledgerVars
  <2>6. /\ \A t \in Movers \ {s} : Ordering(t) => mover[t].move # m
        /\ \A t \in Movers : (Ordering(t))' = Ordering(t) /\ mover'[t].move = mover[t].move
    BY <2>2, <2>3, <2>4 DEF MoverInv, Ordering
  <2>7. \A n \in Moves \ {m} : atBank'[n] = atBank[n] /\ orders'[n] = orders[n]
    BY <1>0, <2>1, <2>2 DEF MoveTypeOK
  <2>8. m \notin known
    BY <2>2 DEF MoverInv
  <2>9. known \subseteq Moves
    BY <1>0 DEF MoveTypeOK
  <2>10. \A t \in Movers : Placed(t, mover[t])'
    <3>1. Placed(s, mover[s])'
      BY <2>2, <2>3, <2>4 DEF Placed, ledgerVars
    <3>2. ASSUME NEW t \in Movers \ {s} PROVE Placed(t, mover[t])'
      <4>1. Placed(t, mover[t]) /\ mover'[t] = mover[t]
        BY <2>4 DEF MoverInv
      <4>2. mover[t].pc = "matching" => mover[t].seen # m
        BY <2>2, <4>1 DEF Placed
      <4> QED
        BY <2>2, <2>6, <2>7, <2>8, <2>9, <4>1, <4>2 DEF Placed, Ordering, ledgerVars
    <3> QED BY <3>1, <3>2
  <2> QED
    BY <2>2, <2>5, <2>6, <2>7, <2>10 DEF MoverInv, ledgerVars
<1>7. CASE AnswerOrder(s)
  <2> DEFINE m == at.move
  <2>1. PICK st \in {"failed", "creation_uncertain", "authorization_required", "listed"} :
          /\ moved' = [moved EXCEPT ![m] = st] /\ Return(s, st)
          /\ \/ /\ known' = known \cup {m} /\ sca' \in {sca, sca \cup {m}}
                /\ UNCHANGED misread
             \/ /\ UNCHANGED <<known, sca>>
                /\ misread' \in {misread, misread \cup {m}}
    BY <1>7 DEF AnswerOrder, MisreadAs
  <2>2. /\ at.pc = "answering" /\ m \in Moves /\ moved[m] = "creating"
        /\ UNCHANGED <<booked, allotVars, atBank, orders, sourceLock>>
    BY <1>0, <1>7 DEF AnswerOrder, Placed
  <2> DEFINE a == IF m \in ForecastMoves THEN [at EXCEPT !.pc = "noting", !.seen = st]
                  ELSE IdleMover
  <2>3. st \in MoveStates \ {"none", "creating"}
    BY DEF MoveStates, MoveActive, MoveDead
  <2>4. /\ a \in MoverMemory /\ a.pc \in {"noting", "idle"}
        /\ a.pc = "noting" => a.move \in ForecastMoves /\ a.seen \in MoveStates
    BY <1>0, <2>3, IdleMoverType DEF MoverMemory, MoverPlaces, IdleMover
  <2>5. Shift(s, a)
    BY <2>1 DEF Return
  <2> HIDE DEF a
  <2>6. /\ mover' \in [Movers -> MoverMemory]
        /\ mover'[s] = a
        /\ \A t \in Movers \ {s} : mover'[t] = mover[t]
    BY <1>0, <2>4, <2>5, ShiftType
  <2>7. MoveTypeOK'
    BY <1>0, <2>1, <2>2, <2>3, <2>6 DEF MoveTypeOK, MoverMemory
  <2>8. /\ moved'[m] = st /\ \A n \in Moves \ {m} : moved'[n] = moved[n]
    BY <1>0, <2>1, <2>2
  <2>9. \A t \in Movers \ {s} : Ordering(t) => mover[t].move # m
    BY <2>2 DEF MoverInv, Ordering
  <2>10. \A t \in Movers : Placed(t, mover[t])'
    <3>1. Placed(s, mover[s])'
      BY <2>4, <2>6 DEF Placed, Moves
    <3>2. ASSUME NEW t \in Movers \ {s} PROVE Placed(t, mover[t])'
      <4>1. Placed(t, mover[t]) /\ mover'[t] = mover[t]
        BY <2>6 DEF MoverInv
      <4> QED
        BY <2>1, <2>2, <2>3, <2>8, <2>9, <4>1 DEF Placed, Ordering
    <3> QED BY <3>1, <3>2
  <2>11. \A t \in Movers : (Ordering(t))' => Ordering(t) /\ mover'[t].move = mover[t].move
    BY <2>4, <2>6 DEF Ordering
  <2>12. \A n \in Moves : moved'[n] = "none" => orders'[n] = 0 /\ atBank'[n] = "none"
    BY <2>2, <2>3, <2>8 DEF MoverInv
  <2>13. \A n \in known' : moved'[n] \notin {"none", "creating"}
    BY <1>0, <2>1, <2>3, <2>8 DEF MoverInv, MoveTypeOK
  <2> QED BY <2>7, <2>10, <2>11, <2>12, <2>13 DEF MoverInv
<1>8. CASE NoteTransfer(s)
  <2> DEFINE m == at.move
  <2>1. /\ m \in ForecastMoves /\ SetAllotment(m, Mirror(at.seen)) /\ linked' = linked \cup {m}
        /\ Shift(s, IdleMover) /\ UNCHANGED <<ledgerVars, moveBankVars, sourceLock>>
    BY <1>0, <1>8 DEF NoteTransfer, Placed
  <2>2. allotment' \in [ForecastMoves -> AllotStates]
    BY <1>0, <2>1, SetAllotmentType, MirrorType
  <2>3. Placed(s, IdleMover) /\ IdleMover.pc = "idle"
    BY DEF Placed, IdleMover
  <2> QED BY <1>0, <2>1, <2>2, <2>3, IdleMoverType, MoverQuiet
<1>9. CASE CrashMover(s)
  <2>1. Placed(s, IdleMover) /\ IdleMover.pc = "idle"
    BY DEF Placed, IdleMover
  <2>2. sourceLock' \in Movers \cup {NoMover}
    BY <1>0, <1>9 DEF CrashMover
  <2> QED BY <1>0, <1>9, <2>1, <2>2, IdleMoverType, MoverQuiet DEF CrashMover
<1>10. CASE AskForOrder(s)
  <2>1. PICK m \in known, pc \in {"polled", "returned"} :
          Shift(s, [pc |-> pc, move |-> m, seen |-> atBank[m]])
    BY <1>10 DEF AskForOrder
  <2> DEFINE a == [pc |-> pc, move |-> m, seen |-> atBank[m]]
  <2>2. a \in MoverMemory /\ a.pc = pc /\ a.move = m /\ a.seen = atBank[m] /\ m \in Moves
    BY <1>0 DEF MoveTypeOK, MoverMemory, MoverPlaces
  <2> HIDE DEF a
  <2>3. Placed(s, a)
    BY <2>2 DEF Placed
  <2>4. Shift(s, a)
    BY <2>1 DEF a
  <2> QED BY <1>0, <1>10, <2>2, <2>3, <2>4, MoverQuiet DEF AskForOrder
<1>11. CASE WriteOrderStatus(s)
  <2> DEFINE m == at.move
  <2>1. PICK st \in {"completed", "failed", "listed", "unlisted"} :
          moved' = [moved EXCEPT ![m] = st]
    BY <1>11 DEF WriteOrderStatus
  <2>2. /\ at.pc \in {"polled", "returned"} /\ sca' \subseteq sca /\ Shift(s, IdleMover)
        /\ UNCHANGED <<known, booked, allotVars, moveBankVars, sourceLock>>
    BY <1>11 DEF WriteOrderStatus
  <2>3. m \in known /\ m \in Moves /\ st \in MoveStates \ {"none", "creating"}
    BY <1>0, <2>2 DEF Placed, MoveStates, MoveActive, MoveDead
  <2>4. /\ mover' \in [Movers -> MoverMemory]
        /\ mover'[s] = IdleMover
        /\ \A t \in Movers \ {s} : mover'[t] = mover[t]
    BY <1>0, <2>2, IdleMoverType, ShiftType
  <2>5. MoveTypeOK'
    BY <1>0, <2>1, <2>2, <2>3, <2>4 DEF MoveTypeOK, MoverMemory, moveBankVars
  <2>6. /\ moved'[m] = st /\ \A n \in Moves \ {m} : moved'[n] = moved[n]
        /\ moved[m] \notin {"none", "creating"}
    BY <1>0, <2>1, <2>3 DEF MoverInv
  <2>7. \A t \in Movers : Placed(t, mover[t])'
    <3>1. Placed(s, mover[s])'
      BY <2>4 DEF Placed, IdleMover
    <3>2. ASSUME NEW t \in Movers \ {s} PROVE Placed(t, mover[t])'
      <4>1. Placed(t, mover[t]) /\ mover'[t] = mover[t]
        BY <2>4 DEF MoverInv
      <4> QED
        BY <2>2, <2>3, <2>6, <4>1 DEF Placed, moveBankVars
    <3> QED BY <3>1, <3>2
  <2>8. \A t \in Movers : (Ordering(t))' => Ordering(t) /\ mover'[t].move = mover[t].move
    BY <2>4 DEF Ordering, IdleMover
  <2>9. \A n \in Moves : moved'[n] = "none" => orders'[n] = 0 /\ atBank'[n] = "none"
    BY <2>2, <2>3, <2>6 DEF MoverInv, moveBankVars
  <2>10. \A n \in known' : moved'[n] \notin {"none", "creating"}
    BY <1>0, <2>2, <2>3, <2>6 DEF MoverInv, MoveTypeOK
  <2> QED BY <2>5, <2>7, <2>8, <2>9, <2>10 DEF MoverInv
<1>12. CASE FetchEvidence(s)
  <2>1. PICK m \in Moves \ known, b \in Moves :
          /\ b \in Unclaimed(m) /\ moved[m] = "creation_uncertain"
          /\ Shift(s, [pc |-> "matching", move |-> m, seen |-> b])
    BY <1>12 DEF FetchEvidence, Unclaimed
  <2> DEFINE a == [pc |-> "matching", move |-> m, seen |-> b]
  <2>2. a \in MoverMemory /\ a.pc = "matching" /\ a.move = m /\ a.seen = b
    BY DEF MoverMemory, MoverPlaces, Unclaimed
  <2> HIDE DEF a
  <2>3. Placed(s, a)
    BY <2>1, <2>2 DEF Placed, Unclaimed
  <2>4. Shift(s, a)
    BY <2>1 DEF a
  <2> QED BY <1>0, <1>12, <2>2, <2>3, <2>4, MoverQuiet DEF FetchEvidence
<1>13. CASE BindEvidence(s)
  <2> DEFINE m == at.move
  <2>1. /\ at.pc = "matching" /\ m \in Moves /\ at.seen \in Moves
        /\ moved[m] \notin {"none", "creating"} /\ Shift(s, IdleMover)
        /\ UNCHANGED <<known, sca, allotVars, moveBankVars, sourceLock>>
    BY <1>0, <1>13 DEF BindEvidence, Placed
  <2>2. /\ mover' \in [Movers -> MoverMemory]
        /\ mover'[s] = IdleMover
        /\ \A t \in Movers \ {s} : mover'[t] = mover[t]
    BY <1>0, <2>1, IdleMoverType, ShiftType
  <2>3. \/ UNCHANGED <<moved, booked>>
        \/ /\ booked' = [booked EXCEPT ![m] = IF @ = NoMove THEN at.seen ELSE @]
           /\ moved' = [moved EXCEPT ![m] = "completed"]
    BY <1>13 DEF BindEvidence, Evidence
  <2>4. MoveTypeOK'
    BY <1>0, <2>1, <2>2, <2>3 DEF MoveTypeOK, MoverMemory, MoveStates, moveBankVars
  <2>5. /\ moved'[m] \notin {"none", "creating"}
        /\ \A n \in Moves \ {m} : moved'[n] = moved[n]
    BY <1>0, <2>1, <2>3
  <2>6. \A t \in Movers : Placed(t, mover[t])'
    <3>1. Placed(s, mover[s])'
      BY <2>2 DEF Placed, IdleMover
    <3>2. ASSUME NEW t \in Movers \ {s} PROVE Placed(t, mover[t])'
      <4>1. Placed(t, mover[t]) /\ mover'[t] = mover[t]
        BY <2>2 DEF MoverInv
      <4> QED
        BY <2>1, <2>5, <4>1 DEF Placed, moveBankVars
    <3> QED BY <3>1, <3>2
  <2>7. \A t \in Movers : (Ordering(t))' => Ordering(t) /\ mover'[t].move = mover[t].move
    BY <2>2 DEF Ordering, IdleMover
  <2>8. \A n \in Moves : moved'[n] = "none" => orders'[n] = 0 /\ atBank'[n] = "none"
    BY <2>1, <2>5 DEF MoverInv, moveBankVars
  <2>9. \A n \in known' : moved'[n] \notin {"none", "creating"}
    BY <1>0, <2>1, <2>5 DEF MoverInv, MoveTypeOK
  <2> QED BY <2>4, <2>6, <2>7, <2>8, <2>9 DEF MoverInv
<1> QED
  BY <1>2, <1>4, <1>5, <1>6, <1>7, <1>8, <1>9, <1>10, <1>11, <1>12, <1>13

\* So do the steps of the bank, its page, the quarantine and the reconciliation.
LEMMA MoveWorldStep ==
  ASSUME MoveAssumption, MoverInv,
         ReconcileAllotments \/ RefuseAuthorization \/ QuarantineTransfer \/ BankDecides
  PROVE  MoverInv'
<1> USE MoveAssumption DEF allotVars, MoveAssumption
<1>0. MoveTypeOK /\ moved \in [Moves -> MoveStates] /\ atBank \in [Moves -> OrderStates]
  BY DEF MoverInv, MoveTypeOK
<1>1. CASE ReconcileAllotments
  <2>1. UNCHANGED <<ledgerVars, moveBankVars, mover, sourceLock>> /\ linked' \subseteq ForecastMoves
    BY <1>0, <1>1 DEF ReconcileAllotments, MoveTypeOK
  <2>2. allotment' \in [ForecastMoves -> AllotStates]
    BY <1>0, <1>1, MirrorType DEF ReconcileAllotments, MoveTypeOK, AllotStates
  <2>3. MoveTypeOK'
    BY <1>0, <2>1, <2>2 DEF MoveTypeOK, ledgerVars, moveBankVars
  <2> QED BY <2>1, <2>3 DEF MoverInv, Placed, Ordering, ledgerVars, moveBankVars
<1>2. ASSUME NEW m \in Moves, NEW st \in {"failed", "creation_uncertain"},
             moved' = [moved EXCEPT ![m] = st], moved[m] # "none",
             \A s \in Movers : Ordering(s) => mover[s].move # m,
             sca' \subseteq sca, misread' \in {misread, misread \cup {m}},
             UNCHANGED <<known, booked, allotVars, atBank, orders, mover, sourceLock>>
      PROVE  MoverInv'
  <2>1. /\ moved'[m] \notin {"none", "creating"}
        /\ \A n \in Moves \ {m} : moved'[n] = moved[n]
    BY <1>0, <1>2
  <2>2. MoveTypeOK'
    BY <1>0, <1>2 DEF MoveTypeOK, MoveStates, MoveActive, MoveDead
  <2>3. ASSUME NEW t \in Movers PROVE Placed(t, mover[t])'
    <3>1. Placed(t, mover[t])
      BY DEF MoverInv
    <3> QED BY <1>2, <2>1, <3>1 DEF Placed, Ordering
  <2>4. known \subseteq Moves
    BY <1>0 DEF MoveTypeOK
  <2> QED BY <1>2, <2>1, <2>2, <2>3, <2>4 DEF MoverInv, Ordering
<1>3. CASE RefuseAuthorization
  <2>1. PICK m \in sca :
          /\ moved' = [moved EXCEPT ![m] = "failed"] /\ MisreadAs(m) /\ sca' = sca \ {m}
    BY <1>3 DEF RefuseAuthorization
  <2>2. m \in known /\ m \in Moves /\ moved[m] \notin {"none", "creating"}
    BY <1>0 DEF MoveTypeOK, MoverInv
  <2>3. \A s \in Movers : Ordering(s) => mover[s].move # m
    BY <2>2 DEF MoverInv, Placed, Ordering
  <2> QED BY <1>2, <1>3, <2>1, <2>2, <2>3 DEF RefuseAuthorization, MisreadAs
<1>4. CASE QuarantineTransfer
  <2>1. PICK m \in Moves :
          /\ moved[m] = "creating"
          /\ \A s \in Movers : mover[s].move = m => mover[s].pc \notin {"posting", "answering"}
          /\ moved' = [moved EXCEPT ![m] = "creation_uncertain"]
    BY <1>4 DEF QuarantineTransfer
  <2>2. UNCHANGED <<known, sca, booked, allotVars, atBank, orders, misread, mover, sourceLock>>
    BY <1>4 DEF QuarantineTransfer, moveBankVars
  <2> QED BY <1>2, <2>1, <2>2 DEF Ordering
<1>5. CASE BankDecides
  <2>1. PICK m \in Moves, b \in {"settled", "rejected"} :
          atBank[m] = "accepted" /\ atBank' = [atBank EXCEPT ![m] = b]
    BY <1>5 DEF BankDecides
  <2>2. UNCHANGED <<ledgerVars, allotVars, orders, misread, mover, sourceLock>>
    BY <1>5 DEF BankDecides
  <2>3. MoveTypeOK'
    BY <1>0, <2>1, <2>2 DEF MoveTypeOK, OrderStates, ledgerVars
  <2>4. ASSUME NEW t \in Movers PROVE Placed(t, mover[t])'
    <3>1. Placed(t, mover[t])
      BY DEF MoverInv
    <3>2. /\ \A n \in Moves : atBank[n] # "accepted" => atBank'[n] = atBank[n]
          /\ \A n \in Moves : atBank[n] = "accepted" => atBank'[n] # "none"
      BY <1>0, <2>1
    <3>3. known \subseteq Moves
      BY <1>0 DEF MoveTypeOK
    <3>4. mover'[t].seen \in Moves /\ atBank[mover[t].seen] # "none" =>
            atBank'[mover'[t].seen] # "none"
      BY <2>2, <3>2
    <3> QED BY <2>2, <3>1, <3>2, <3>3, <3>4 DEF Placed, ledgerVars
  <2>5. \A n \in Moves : moved'[n] = "none" => orders'[n] = 0 /\ atBank'[n] = "none"
    BY <1>0, <2>1, <2>2 DEF MoverInv, ledgerVars
  <2> QED BY <2>2, <2>3, <2>4, <2>5 DEF MoverInv, Ordering, ledgerVars
<1> QED BY <1>1, <1>3, <1>4, <1>5

LEMMA MoverInvariant ==
  ASSUME MoveAssumption
  PROVE  MoveSpec => []MoverInv
<1>1. MoverInv /\ [MoveNext]_moveVars => MoverInv'
  <2>1. MoverInv /\ MoveNext => MoverInv'
    BY MoveAssumption, MoverStep, MoveWorldStep DEF MoveNext
  <2>2. MoverInv /\ UNCHANGED moveVars => MoverInv'
    BY DEF MoverInv, MoveTypeOK, Placed, Ordering, moveVars, ledgerVars, allotVars, moveBankVars
  <2> QED BY <2>1, <2>2
<1> QED BY <1>1, MoveInitInv, PTL DEF MoveSpec

\* The rows, the bank's side and the sessions' memories keep their types.
THEOREM MoveTypes ==
  ASSUME MoveAssumption
  PROVE  MoveSpec => []MoveTypeOK
BY MoveAssumption, MoverInvariant, PTL DEF MoverInv

-----------------------------------------------------------------------------
\* Money that was booked for move m.
Paid(m) == atBank[m] = "settled" \/ booked[m] # NoMove

\* A transaction counts as the evidence of one move only, and whatever says that a
\* move is complete (its row, a session that has read it, its action) is right.
MoneyInv ==
  /\ \A m \in Moves : booked[m] # NoMove =>
       /\ atBank[booked[m]] # "none"
       /\ \A o \in Moves \ {m} : booked[o] # booked[m]
  /\ \A m \in Moves : moved[m] = "completed" => Paid(m)
  /\ \A s \in Movers : mover[s].pc = "noting" /\ mover[s].seen = "completed" =>
       Paid(mover[s].move)
  /\ \A m \in ForecastMoves : allotment[m] = "verified" => Paid(m)

\* Which steps write which column.
LEMMA MoveFrame ==
  ASSUME MoveNext
  PROVE  /\ UNCHANGED atBank \/ (\E s \in Movers : PostOrder(s)) \/ BankDecides
         /\ UNCHANGED booked \/ (\E s \in Movers : BindEvidence(s))
         /\ UNCHANGED moved
            \/ (\E s \in Movers : \/ InsertTransfer(s) \/ AnswerOrder(s)
                                  \/ WriteOrderStatus(s) \/ BindEvidence(s))
            \/ RefuseAuthorization \/ QuarantineTransfer
         /\ UNCHANGED allotment
            \/ (\E s \in Movers : \/ PlanAllotment(s) \/ ResumeAllotment(s) \/ LockSource(s)
                                  \/ NoteTransfer(s))
            \/ ReconcileAllotments
         /\ UNCHANGED misread \/ (\E s \in Movers : AnswerOrder(s)) \/ RefuseAuthorization
BY DEF MoveNext, PlanBudgetMove, PlanAllotment, ResumeAllotment, LockSource, InsertTransfer,
       PostOrder, AnswerOrder, NoteTransfer, CrashMover, AskForOrder, WriteOrderStatus,
       FetchEvidence, BindEvidence, ReconcileAllotments, RefuseAuthorization,
       QuarantineTransfer, BankDecides, ledgerVars, allotVars, moveBankVars

\* Only a session that returns goes on to note what became of its transfer.
LEMMA NotingAfter ==
  ASSUME mover \in [Movers -> MoverMemory], NEW t \in Movers, NEW s \in Movers,
         mover'[s].pc = "noting", mover'[s] # mover[s]
  PROVE  /\ \A st : Return(t, st) => mover'[s].move = mover[t].move /\ mover'[s].seen = st
         /\ ~Shift(t, IdleMover)
         /\ ~Shift(t, [mover[t] EXCEPT !.pc = "inserting"])
         /\ \A m : ~Shift(t, [IdleMover EXCEPT !.pc = "asking", !.move = m])
<1>1. mover[t] \in MoverMemory
  OBVIOUS
<1>2. ASSUME NEW a, Shift(t, a) PROVE mover'[s] = a
  BY <1>2 DEF Shift
<1>3. ~Shift(t, IdleMover)
  BY <1>2 DEF IdleMover
<1>4. ~Shift(t, [mover[t] EXCEPT !.pc = "inserting"])
  BY <1>1, <1>2 DEF MoverMemory
<1>5. ASSUME NEW m PROVE ~Shift(t, [IdleMover EXCEPT !.pc = "asking", !.move = m])
  BY <1>2 DEF IdleMover
<1>6. ASSUME NEW st, Return(t, st)
      PROVE  mover'[s].move = mover[t].move /\ mover'[s].seen = st
  <2>1. mover'[s] = IF mover[t].move \in ForecastMoves
                    THEN [mover[t] EXCEPT !.pc = "noting", !.seen = st] ELSE IdleMover
    BY <1>2, <1>6 DEF Return
  <2> QED BY <1>1, <2>1 DEF MoverMemory, IdleMover
<1> QED BY <1>3, <1>4, <1>5, <1>6

LEMMA MoneyStep ==
  ASSUME MoveAssumption, MoverInv, MoneyInv, MoveNext
  PROVE  MoneyInv'
<1> USE MoveAssumption DEF allotVars, MoveAssumption
<1>0. /\ MoveTypeOK /\ atBank \in [Moves -> OrderStates] /\ moved \in [Moves -> MoveStates]
      /\ booked \in [Moves -> Moves \cup {NoMove}]
      /\ mover \in [Movers -> MoverMemory]
      /\ \A s \in Movers : Placed(s, mover[s])
  BY DEF MoverInv, MoveTypeOK, MoverMemory
<1>1. /\ \A m \in Moves : atBank[m] = "settled" => atBank'[m] = "settled"
      /\ \A m \in Moves : atBank[m] # "none" => atBank'[m] # "none"
  <2>1. ASSUME NEW s \in Movers, PostOrder(s), NEW m \in Moves, atBank[m] # "none"
        PROVE  atBank'[m] = atBank[m]
    <3>1. atBank[mover[s].move] = "none"
      BY <1>0, <2>1 DEF PostOrder, Placed
    <3> QED BY <1>0, <2>1, <3>1 DEF PostOrder
  <2>2. ASSUME BankDecides, NEW m \in Moves, atBank[m] # "none"
        PROVE  atBank'[m] # "none" /\ (atBank[m] = "settled" => atBank'[m] = "settled")
    BY <1>0, <2>2 DEF BankDecides
  <2> QED BY <2>1, <2>2, MoveFrame
<1>2. /\ \A m \in Moves : booked[m] # NoMove => booked'[m] = booked[m]
      /\ \A m \in Moves : booked'[m] # NoMove =>
           /\ booked'[m] \in Moves /\ atBank[booked'[m]] # "none"
           /\ \A o \in Moves \ {m} : booked'[o] # booked'[m]
  <2>1. CASE UNCHANGED booked
    BY <1>0, <2>1 DEF MoneyInv
  <2>2. ASSUME NEW s \in Movers, BindEvidence(s), booked' # booked PROVE <1>2
    <3> DEFINE m == mover[s].move
               b == mover[s].seen
    <3>1. m \in Moves /\ b \in Moves /\ atBank[b] # "none"
      BY <1>0, <2>2 DEF BindEvidence, Placed
    <3>2. /\ booked[m] = NoMove /\ booked' = [booked EXCEPT ![m] = b]
          /\ \A o \in Moves \ {m} : booked[o] # b
      BY <1>0, <2>2, <3>1 DEF BindEvidence, Evidence
    <3> HIDE DEF m, b
    <3> QED BY <1>0, <3>1, <3>2 DEF MoneyInv
  <2> QED BY <2>1, <2>2, MoveFrame
<1>3. \A m \in Moves : booked'[m] # NoMove =>
        /\ atBank'[booked'[m]] # "none"
        /\ \A o \in Moves \ {m} : booked'[o] # booked'[m]
  <2>1. ASSUME NEW m \in Moves, booked'[m] # NoMove
        PROVE  /\ atBank'[booked'[m]] # "none"
               /\ \A o \in Moves \ {m} : booked'[o] # booked'[m]
    <3>1. /\ booked'[m] \in Moves /\ atBank[booked'[m]] # "none"
          /\ \A o \in Moves \ {m} : booked'[o] # booked'[m]
      BY <1>2, <2>1
    <3>2. ASSUME NEW b \in Moves, atBank[b] # "none" PROVE atBank'[b] # "none"
      BY <1>1, <3>2
    <3>3. atBank'[booked'[m]] # "none"
      BY <3>1, <3>2
    <3> QED BY <3>1, <3>3
  <2> QED BY <2>1
<1>4. \A m \in Moves : Paid(m) => Paid(m)'
  <2>1. ASSUME NEW m \in Moves, Paid(m) PROVE Paid(m)'
    <3>1. CASE atBank[m] = "settled"
      BY <1>1, <3>1 DEF Paid
    <3>2. CASE booked[m] # NoMove
      BY <1>2, <3>2 DEF Paid
    <3> QED BY <2>1, <3>1, <3>2 DEF Paid
  <2> QED BY <2>1
<1>5. \A m \in Moves : moved'[m] = "completed" => Paid(m)'
  <2>1. ASSUME NEW m \in Moves, moved'[m] = "completed", moved[m] # "completed"
        PROVE  Paid(m)'
    <3>1. CASE RefuseAuthorization \/ QuarantineTransfer
      BY <1>0, <2>1, <3>1 DEF RefuseAuthorization, QuarantineTransfer
    <3>2. ASSUME NEW s \in Movers, InsertTransfer(s) \/ AnswerOrder(s) PROVE FALSE
      BY <1>0, <2>1, <3>2 DEF InsertTransfer, AnswerOrder
    <3>3. ASSUME NEW s \in Movers, WriteOrderStatus(s) PROVE Paid(m)'
      <4>1. /\ mover[s].pc \in {"polled", "returned"} /\ mover[s].move = m
            /\ mover[s].seen = "settled" /\ UNCHANGED <<booked, moveBankVars>>
        BY <1>0, <2>1, <3>3 DEF WriteOrderStatus
      <4>2. atBank[m] = "settled"
        BY <1>0, <4>1 DEF Placed
      <4> QED BY <4>1, <4>2 DEF Paid, moveBankVars
    <3>4. ASSUME NEW s \in Movers, BindEvidence(s) PROVE Paid(m)'
      <4>1. /\ mover[s].pc = "matching" /\ mover[s].move = m
            /\ booked' = [booked EXCEPT ![m] = IF @ = NoMove THEN mover[s].seen ELSE @]
        BY <1>0, <2>1, <3>4 DEF BindEvidence, Evidence
      <4>2. mover[s].seen \in Moves
        BY <1>0, <4>1 DEF Placed
      <4>3. booked'[m] # NoMove
        BY <1>0, <4>1, <4>2 DEF Moves
      <4> QED BY <4>3 DEF Paid
    <3> QED BY <2>1, <3>1, <3>2, <3>3, <3>4, MoveFrame
  <2> QED BY <1>4, <2>1 DEF MoneyInv
<1>6. \A s \in Movers : mover'[s].pc = "noting" /\ mover'[s].seen = "completed" =>
        Paid(mover[s].move)'
  <2>1. ASSUME NEW s \in Movers, mover'[s].pc = "noting", mover'[s].seen = "completed",
               mover'[s] # mover[s]
        PROVE  mover'[s].move \in Moves /\ moved[mover'[s].move] = "completed"
    <3>1. PICK t \in Movers : \/ PlanBudgetMove(t) \/ PlanAllotment(t) \/ ResumeAllotment(t)
                              \/ LockSource(t) \/ InsertTransfer(t) \/ PostOrder(t)
                              \/ AnswerOrder(t) \/ NoteTransfer(t) \/ CrashMover(t)
                              \/ AskForOrder(t) \/ WriteOrderStatus(t)
                              \/ FetchEvidence(t) \/ BindEvidence(t)
      BY <2>1 DEF MoveNext, ReconcileAllotments, RefuseAuthorization, QuarantineTransfer,
                  BankDecides
    <3>2. CASE LockSource(t)
      <4>1. mover[t].move \in Moves
        BY <1>0, <3>2 DEF LockSource, Placed
      <4>2. \/ Return(t, moved[mover[t].move])
            \/ Shift(t, IdleMover)
            \/ Shift(t, [mover[t] EXCEPT !.pc = "inserting"])
        BY <3>2 DEF LockSource
      <4> QED BY <1>0, <2>1, <4>1, <4>2, NotingAfter
    <3>3. CASE AnswerOrder(t)
      <4>1. \E st \in {"failed", "creation_uncertain", "authorization_required", "listed"} :
              Return(t, st)
        BY <3>3 DEF AnswerOrder
      <4> QED BY <1>0, <2>1, <4>1, NotingAfter
    <3>4. CASE PlanBudgetMove(t) \/ PlanAllotment(t) \/ ResumeAllotment(t) \/ NoteTransfer(t)
               \/ CrashMover(t)
      <4>1. \/ Shift(t, IdleMover)
            \/ \E m : Shift(t, [IdleMover EXCEPT !.pc = "asking", !.move = m])
        BY <3>4 DEF PlanBudgetMove, PlanAllotment, ResumeAllotment, NoteTransfer, CrashMover
      <4> QED BY <1>0, <2>1, <4>1, NotingAfter
    <3>5. CASE InsertTransfer(t) \/ PostOrder(t) \/ AskForOrder(t) \/ WriteOrderStatus(t)
               \/ FetchEvidence(t) \/ BindEvidence(t)
      <4>1. CASE InsertTransfer(t) \/ PostOrder(t)
        <5>1. \E pc \in {"posting", "answering"} : Shift(t, [mover[t] EXCEPT !.pc = pc])
          BY <4>1 DEF InsertTransfer, PostOrder
        <5> QED BY <1>0, <2>1, <5>1 DEF Shift, MoverMemory
      <4>2. CASE AskForOrder(t) \/ FetchEvidence(t)
        <5>1. \E pc \in {"polled", "returned", "matching"} : \E m, b :
                Shift(t, [pc |-> pc, move |-> m, seen |-> b])
          BY <4>2 DEF AskForOrder, FetchEvidence
        <5> QED BY <1>0, <2>1, <5>1 DEF Shift
      <4>3. CASE WriteOrderStatus(t) \/ BindEvidence(t)
        <5>1. Shift(t, IdleMover)
          BY <4>3 DEF WriteOrderStatus, BindEvidence
        <5> QED BY <1>0, <2>1, <5>1, NotingAfter
      <4> QED BY <3>5, <4>1, <4>2, <4>3
    <3> QED BY <3>1, <3>2, <3>3, <3>4, <3>5
  <2>2. ASSUME NEW s \in Movers, mover'[s].pc = "noting", mover'[s].seen = "completed"
        PROVE  mover'[s].move \in Moves /\ Paid(mover'[s].move)
    <3>1. CASE mover'[s] = mover[s]
      BY <1>0, <2>2, <3>1 DEF MoneyInv, Placed
    <3>2. CASE mover'[s] # mover[s]
      BY <2>1, <2>2, <3>2 DEF MoneyInv
    <3> QED BY <3>1, <3>2
  <2> QED BY <1>1, <1>2, <2>2 DEF Paid
<1>7. \A m \in ForecastMoves : allotment'[m] = "verified" => Paid(m)'
  <2>1. ASSUME NEW m \in ForecastMoves, allotment'[m] = "verified", allotment[m] # "verified"
        PROVE  Paid(m)
    <3>0. m \in Moves /\ allotment \in [ForecastMoves -> AllotStates]
      BY <1>0 DEF Moves, MoveTypeOK
    <3>1. ASSUME NEW s \in Movers,
                 PlanAllotment(s) \/ ResumeAllotment(s) \/ LockSource(s)
          PROVE  FALSE
      BY <2>1, <3>0, <3>1 DEF PlanAllotment, ResumeAllotment, LockSource, SetAllotment
    <3>2. ASSUME NEW s \in Movers, NoteTransfer(s) PROVE Paid(m)
      <4>1. /\ mover[s].pc = "noting" /\ mover[s].move = m
            /\ Mirror(mover[s].seen) = "verified"
        BY <2>1, <3>0, <3>2 DEF NoteTransfer, SetAllotment
      <4> QED BY <4>1, MirrorType DEF MoneyInv
    <3>3. CASE ReconcileAllotments
      <4>1. moved[m] = "completed"
        BY <2>1, <3>0, <3>3, MirrorType DEF ReconcileAllotments
      <4> QED BY <3>0, <4>1 DEF MoneyInv
    <3> QED BY <2>1, <3>1, <3>2, <3>3, MoveFrame
  <2> QED BY <1>4, <2>1 DEF MoneyInv, Moves
<1> QED BY <1>3, <1>5, <1>6, <1>7 DEF MoneyInv

-----------------------------------------------------------------------------
\* What the bank holds or has executed without the row saying that it failed.
AtBank(m) == atBank[m] \in {"accepted", "settled"} /\ m \notin misread

\* The moves that the day's limit has to bear: those, and what is about to be posted.
Counted == {m \in Moves : AtBank(m) \/ \E s \in Movers : mover[s].pc = "posting"
                                                       /\ mover[s].move = m}
Inserted == {m \in Moves : moved[m] # "none"}

\* Each of them has a row that counts, and the session that is about to insert has
\* room for one more.
BudgetInv ==
  /\ IsFiniteSet(Inserted)
  /\ \A m \in Moves : AtBank(m) => moved[m] \notin {"none", "failed"}
  /\ Cardinality(Counted) <= DayCap
  /\ \A s \in Movers : mover[s].pc = "inserting" => Cardinality(Counted) + 1 <= DayCap

\* What is counted is finite, and the day's use covers it.
LEMMA CountedIsUsed ==
  ASSUME MoverInv, BudgetInv
  PROVE  /\ IsFiniteSet(Counted) /\ Cardinality(Counted) \in Nat
         /\ DayUsed \in Nat /\ Cardinality(Counted) <= DayUsed
<1> DEFINE used == {m \in Moves : moved[m] \notin MoveDead \cup {"none"}}
<1>1. Counted \subseteq used
  BY DEF Counted, BudgetInv, MoverInv, Placed, MoveDead
<1>2. used \subseteq Inserted
  BY DEF Inserted
<1>3. IsFiniteSet(used) /\ Cardinality(used) \in Nat
  BY <1>2, FS_Subset, FS_CardinalityType DEF BudgetInv
<1> QED BY <1>1, <1>3, FS_Subset, FS_CardinalityType DEF DayUsed

\* Only a session that inserts its row goes on to post the order, and only one that
\* finds room under the lock goes on to insert.
LEMMA PlacesAfter ==
  ASSUME mover \in [Movers -> MoverMemory], MoveNext, NEW s \in Movers,
         mover'[s] # mover[s]
  PROVE  /\ mover'[s].pc = "posting" =>
              InsertTransfer(s) /\ mover'[s].move = mover[s].move
         /\ mover'[s].pc = "inserting" => LockSource(s) /\ DayUsed + 1 <= DayCap
<1>0. mover[s] \in MoverMemory
  OBVIOUS
<1>1. PICK t \in Movers : \/ PlanBudgetMove(t) \/ PlanAllotment(t) \/ ResumeAllotment(t)
                          \/ LockSource(t) \/ InsertTransfer(t) \/ PostOrder(t)
                          \/ AnswerOrder(t) \/ NoteTransfer(t) \/ CrashMover(t)
                          \/ AskForOrder(t) \/ WriteOrderStatus(t)
                          \/ FetchEvidence(t) \/ BindEvidence(t)
  BY DEF MoveNext, ReconcileAllotments, RefuseAuthorization, QuarantineTransfer, BankDecides
<1>2. ASSUME NEW a, Shift(t, a) PROVE s = t /\ mover'[s] = a
  BY <1>2 DEF Shift
<1>3. ASSUME NEW st, Return(t, st) PROVE mover'[s].pc \in {"noting", "idle"}
  <2>1. s = t /\ mover'[s] = IF mover[t].move \in ForecastMoves
                           THEN [mover[t] EXCEPT !.pc = "noting", !.seen = st] ELSE IdleMover
    BY <1>2, <1>3 DEF Return
  <2> QED BY <1>0, <2>1 DEF IdleMover, MoverMemory
<1>4. Shift(t, IdleMover) => mover'[s].pc = "idle"
  BY <1>2 DEF IdleMover
<1>5. CASE PlanBudgetMove(t) \/ PlanAllotment(t) \/ ResumeAllotment(t)
  <2>1. PICK m \in Moves : Shift(t, [IdleMover EXCEPT !.pc = "asking", !.move = m])
    BY <1>5 DEF PlanBudgetMove, PlanAllotment, ResumeAllotment, Moves
  <2>2. mover'[s] = [IdleMover EXCEPT !.pc = "asking", !.move = m]
    BY <1>2, <2>1
  <2>3. mover'[s].pc = "asking"
    BY <2>2 DEF IdleMover
  <2> QED BY <2>3
<1>6. CASE LockSource(t)
  <2>1. \/ Return(t, moved[mover[t].move])
        \/ Shift(t, IdleMover)
        \/ Shift(t, [mover[t] EXCEPT !.pc = "inserting"]) /\ DayUsed + 1 <= DayCap
    BY <1>6 DEF LockSource
  <2>2. CASE Shift(t, [mover[t] EXCEPT !.pc = "inserting"]) /\ DayUsed + 1 <= DayCap
    <3>1. s = t /\ mover'[s].pc = "inserting"
      BY <1>0, <1>2, <2>2 DEF MoverMemory
    <3> QED BY <1>6, <2>2, <3>1
  <2> QED BY <1>3, <1>4, <2>1, <2>2
<1>7. CASE InsertTransfer(t)
  <2>1. s = t /\ mover'[s].pc = "posting" /\ mover'[s].move = mover[s].move
    BY <1>0, <1>2, <1>7 DEF InsertTransfer, MoverMemory
  <2> QED BY <1>7, <2>1
<1>8. CASE PostOrder(t)
  <2>1. mover'[s].pc = "answering"
    BY <1>0, <1>2, <1>8 DEF PostOrder, MoverMemory
  <2> QED BY <2>1
<1>9. CASE AnswerOrder(t)
  <2>1. \E st : Return(t, st)
    BY <1>9 DEF AnswerOrder
  <2> QED BY <1>3, <2>1
<1>10. CASE NoteTransfer(t) \/ CrashMover(t) \/ WriteOrderStatus(t) \/ BindEvidence(t)
  BY <1>4, <1>10 DEF NoteTransfer, CrashMover, WriteOrderStatus, BindEvidence
<1>11. CASE AskForOrder(t)
  <2>1. mover'[s].pc \in {"polled", "returned"}
    BY <1>2, <1>11 DEF AskForOrder
  <2> QED BY <2>1
<1>12. CASE FetchEvidence(t)
  <2>1. mover'[s].pc = "matching"
    BY <1>2, <1>12 DEF FetchEvidence
  <2> QED BY <2>1
<1> QED
  BY <1>1, <1>5, <1>6, <1>7, <1>8, <1>9, <1>10, <1>11, <1>12

LEMMA BudgetStep ==
  ASSUME MoveAssumption, MoverInv, BudgetInv, MoveNext
  PROVE  BudgetInv'
<1> USE MoveAssumption DEF allotVars, MoveAssumption
<1>0. /\ MoveTypeOK /\ atBank \in [Moves -> OrderStates] /\ moved \in [Moves -> MoveStates]
      /\ mover \in [Movers -> MoverMemory] /\ misread \subseteq Moves
      /\ \A s \in Movers : Placed(s, mover[s])
  BY DEF MoverInv, MoveTypeOK, MoverMemory
<1>1. IsFiniteSet(Counted) /\ Cardinality(Counted) \in Nat
  BY CountedIsUsed
<1>2. misread \subseteq misread'
  BY MoveFrame DEF AnswerOrder, RefuseAuthorization, MisreadAs
<1>3. \A m \in Moves : AtBank(m)' => AtBank(m) \/ \E s \in Movers : /\ mover[s].pc = "posting"
                                                                /\ mover[s].move = m
  <2>1. CASE UNCHANGED atBank
    BY <1>2, <2>1 DEF AtBank
  <2>2. CASE BankDecides
    BY <1>0, <1>2, <2>2 DEF AtBank, BankDecides
  <2>3. ASSUME NEW s \in Movers, PostOrder(s) PROVE <1>3
    <3>1. \A m \in Moves : mover[s].move # m => atBank'[m] = atBank[m]
      BY <1>0, <2>3 DEF PostOrder
    <3> QED BY <1>2, <2>3, <3>1 DEF PostOrder, AtBank
  <2> QED BY <2>1, <2>2, <2>3, MoveFrame
<1>4. \A m \in Moves : AtBank(m)' => moved'[m] \notin {"none", "failed"}
  <2> SUFFICES ASSUME NEW m \in Moves, AtBank(m)' PROVE moved'[m] \notin {"none", "failed"}
    OBVIOUS
  <2>1. moved[m] \notin {"none", "failed"}
    BY <1>0, <1>3 DEF BudgetInv, Placed
  <2>2. ASSUME NEW s \in Movers, InsertTransfer(s) PROVE moved'[m] \notin {"none", "failed"}
    BY <1>0, <2>1, <2>2 DEF InsertTransfer
  <2>3. ASSUME NEW s \in Movers, AnswerOrder(s) PROVE moved'[m] \notin {"none", "failed"}
    <3>1. mover[s].move # m => moved'[m] = moved[m]
      BY <1>0, <2>3 DEF AnswerOrder
    <3>2. mover[s].move = m => moved'[m] # "failed" \/ MisreadAs(m)
      BY <1>0, <2>3 DEF AnswerOrder
    <3>3. mover[s].move = m => moved'[m] # "none"
      BY <1>0, <2>3 DEF AnswerOrder
    <3>4. UNCHANGED atBank
      BY <2>3 DEF AnswerOrder
    <3>5. ~MisreadAs(m)
      BY <3>4 DEF MisreadAs, AtBank
    <3> QED BY <2>1, <3>1, <3>2, <3>3, <3>5
  <2>4. ASSUME NEW s \in Movers, WriteOrderStatus(s) PROVE moved'[m] \notin {"none", "failed"}
    <3>1. mover[s].move # m => moved'[m] = moved[m]
      BY <1>0, <2>4 DEF WriteOrderStatus
    <3>2. CASE mover[s].move = m
      <4>1. mover[s].pc \in {"polled", "returned"} /\ UNCHANGED atBank
        BY <2>4 DEF WriteOrderStatus, moveBankVars
      <4>2. mover[s].seen # "rejected"
        BY <1>0, <3>2, <4>1 DEF Placed, AtBank
      <4>3. moved'[m] \in {"completed", "listed", "unlisted"}
        BY <1>0, <2>4, <3>2, <4>2 DEF WriteOrderStatus
      <4> QED BY <4>3
    <3> QED BY <2>1, <3>1, <3>2
  <2>5. ASSUME NEW s \in Movers, BindEvidence(s) PROVE moved'[m] \notin {"none", "failed"}
    BY <1>0, <2>1, <2>5 DEF BindEvidence
  <2>6. CASE RefuseAuthorization
    <3>1. PICK n \in sca : moved' = [moved EXCEPT ![n] = "failed"] /\ MisreadAs(n)
      BY <2>6 DEF RefuseAuthorization
    <3>2. UNCHANGED atBank
      BY <2>6 DEF RefuseAuthorization
    <3>3. n # m
      BY <3>1, <3>2 DEF MisreadAs, AtBank
    <3> QED BY <1>0, <2>1, <3>1, <3>3
  <2>7. CASE QuarantineTransfer
    BY <1>0, <2>1, <2>7 DEF QuarantineTransfer
  <2> QED BY <2>1, <2>2, <2>3, <2>4, <2>5, <2>6, <2>7, MoveFrame
<1>5. \A s \in Movers : mover'[s].pc = "posting" =>
        \/ mover[s].pc = "posting" /\ mover'[s].move = mover[s].move
        \/ InsertTransfer(s) /\ mover'[s].move = mover[s].move
  BY <1>0, PlacesAfter
<1>6. CASE \A s \in Movers : ~InsertTransfer(s)
  <2>1. Counted' \subseteq Counted
    BY <1>3, <1>5, <1>6 DEF Counted
  <2>2. Cardinality(Counted') <= Cardinality(Counted) /\ Cardinality(Counted') \in Nat
    BY <1>1, <2>1, FS_Subset, FS_CardinalityType
  <2>3. Inserted' \subseteq Inserted
    <3> SUFFICES ASSUME NEW m \in Moves, moved'[m] # "none", moved[m] = "none" PROVE FALSE
      BY DEF Inserted
    <3>1. ASSUME NEW s \in Movers, AnswerOrder(s) \/ WriteOrderStatus(s) \/ BindEvidence(s)
          PROVE  FALSE
      <4>1. mover[s].move # m
        BY <1>0, <3>1 DEF AnswerOrder, WriteOrderStatus, BindEvidence, Placed, MoverInv
      <4> QED BY <1>0, <3>1, <4>1 DEF AnswerOrder, WriteOrderStatus, BindEvidence
    <3>2. CASE RefuseAuthorization
      BY <1>0, <3>2 DEF RefuseAuthorization, MoverInv, MoveTypeOK
    <3>3. CASE QuarantineTransfer
      BY <1>0, <3>3 DEF QuarantineTransfer
    <3> QED BY <1>6, <3>1, <3>2, <3>3, MoveFrame
  <2>4. IsFiniteSet(Inserted')
    BY <2>3, FS_Subset DEF BudgetInv
  <2>5. ASSUME NEW s \in Movers, mover'[s].pc = "inserting"
        PROVE  Cardinality(Counted') + 1 <= DayCap
    <3>1. CASE mover'[s] = mover[s]
      BY <1>1, <2>2, <2>5, <3>1 DEF BudgetInv
    <3>2. CASE mover'[s] # mover[s]
      BY <1>0, <1>1, <2>2, <2>5, <3>2, PlacesAfter, CountedIsUsed
    <3> QED BY <3>1, <3>2
  <2>6. Cardinality(Counted') <= DayCap
    BY <1>1, <2>2 DEF BudgetInv
  <2> QED BY <1>4, <2>4, <2>5, <2>6 DEF BudgetInv
<1>7. ASSUME NEW t \in Movers, InsertTransfer(t) PROVE BudgetInv'
  <2> DEFINE m == mover[t].move
  <2>1. /\ mover[t].pc = "inserting" /\ sourceLock = t /\ m \in Moves
        /\ moved' = [moved EXCEPT ![m] = "creating"]
    BY <1>0, <1>7 DEF InsertTransfer, Placed
  <2>2. \A s \in Movers : s # t => mover'[s] = mover[s] /\ mover[s].pc # "inserting"
    BY <1>0, <1>7, <2>1 DEF InsertTransfer, Shift, Placed
  <2>3. mover'[t].pc = "posting"
    BY <1>0, <1>7 DEF InsertTransfer, Shift, MoverMemory
  <2>4. \A s \in Movers : InsertTransfer(s) => s = t
    BY <2>2 DEF InsertTransfer
  <2>5. Counted' \subseteq Counted \cup {m}
    BY <1>3, <1>5, <2>4 DEF Counted
  <2>6. /\ IsFiniteSet(Counted \cup {m}) /\ Cardinality(Counted \cup {m}) \in Nat
        /\ Cardinality(Counted \cup {m}) <= Cardinality(Counted) + 1
    <3> HIDE DEF m
    <3>1. /\ IsFiniteSet(Counted \cup {m})
          /\ \/ Cardinality(Counted \cup {m}) = Cardinality(Counted)
             \/ Cardinality(Counted \cup {m}) = Cardinality(Counted) + 1
      BY <1>1, FS_AddElement
    <3> QED BY <1>1, <3>1
  <2>7. Cardinality(Counted') <= Cardinality(Counted) + 1 /\ Cardinality(Counted') \in Nat
    <3>1. Cardinality(Counted') <= Cardinality(Counted \cup {m}) /\ IsFiniteSet(Counted')
      BY <2>5, <2>6, FS_Subset
    <3>2. Cardinality(Counted') \in Nat
      BY <3>1, FS_CardinalityType
    <3> QED BY <1>1, <2>6, <3>1, <3>2
  <2>8. Cardinality(Counted) + 1 <= DayCap
    BY <2>1 DEF BudgetInv
  <2>9. Inserted' \subseteq Inserted \cup {m}
    BY <1>0, <2>1 DEF Inserted
  <2>10. IsFiniteSet(Inserted')
    BY <2>9, FS_AddElement, FS_Subset DEF BudgetInv
  <2>11. \A s \in Movers : mover'[s].pc # "inserting"
    BY <2>2, <2>3
  <2>12. Cardinality(Counted') <= DayCap
    BY <1>1, <2>7, <2>8
  <2> QED BY <1>4, <2>10, <2>11, <2>12 DEF BudgetInv
<1> QED BY <1>6, <1>7

-----------------------------------------------------------------------------
LEMMA AccountInvariant ==
  ASSUME MoveAssumption
  PROVE  MoveSpec => [](MoverInv /\ MoneyInv /\ BudgetInv)
<1>1. ASSUME MoveInit PROVE MoneyInv /\ BudgetInv
  <2> USE <1>1 DEF MoveInit
  <2>1. MoneyInv
    BY DEF MoneyInv, IdleMover
  <2>2. Inserted = {} /\ Counted = {}
    BY DEF Inserted, Counted, AtBank, IdleMover
  <2>3. \A s \in Movers : mover[s].pc # "inserting"
    BY DEF IdleMover
  <2>4. \A m \in Moves : ~AtBank(m)
    BY DEF AtBank
  <2>5. IsFiniteSet(Inserted) /\ Cardinality(Counted) = 0
    BY <2>2, FS_EmptySet
  <2>6. BudgetInv
    BY <2>3, <2>4, <2>5, MoveAssumption DEF MoveAssumption, BudgetInv
  <2> QED BY <2>1, <2>6
<1>2. MoverInv /\ MoneyInv /\ BudgetInv /\ UNCHANGED moveVars => (MoneyInv /\ BudgetInv)'
  BY DEF MoneyInv, BudgetInv, Counted, AtBank, Inserted, Paid, moveVars, ledgerVars, allotVars,
         moveBankVars
<1>3. /\ MoverInv /\ MoverInv' /\ MoneyInv /\ BudgetInv /\ [MoveNext]_moveVars
      => (MoneyInv /\ BudgetInv)'
  BY MoveAssumption, <1>2, MoneyStep, BudgetStep
<1> QED BY MoveAssumption, <1>1, <1>3, MoverInvariant, PTL DEF MoveSpec

\* What the bank holds or has executed, apart from orders whose error answer was read
\* as a refusal, keeps within the day's limit, and an allocation is verified by a
\* transaction of its own.
THEOREM MovesAreAccountedFor ==
  ASSUME MoveAssumption
  PROVE  MoveSpec => []AccountedFor
<1>1. ASSUME MoverInv, MoneyInv, BudgetInv PROVE AccountedFor
  <2>1. {m \in Moves : atBank[m] \in {"accepted", "settled"}} \ misread \subseteq Counted
    BY DEF Counted, AtBank
  <2>2. /\ IsFiniteSet(Counted) /\ Cardinality(Counted) \in Nat
        /\ Cardinality(Counted) <= DayCap
    BY <1>1, CountedIsUsed DEF BudgetInv
  <2>3. Cardinality({m \in Moves : atBank[m] \in {"accepted", "settled"}} \ misread) <= DayCap
    <3> DEFINE held == {m \in Moves : atBank[m] \in {"accepted", "settled"}} \ misread
    <3>1. IsFiniteSet(held) /\ Cardinality(held) <= Cardinality(Counted)
      BY <2>1, <2>2, FS_Subset
    <3>2. Cardinality(held) \in Nat
      BY <3>1, FS_CardinalityType
    <3> QED BY <2>2, <3>1, <3>2, MoveAssumption DEF MoveAssumption
  <2>4. \A m \in ForecastMoves : allotment[m] = "verified" =>
          \/ atBank[m] = "settled"
          \/ /\ booked[m] # NoMove
             /\ atBank[booked[m]] # "none"
             /\ \A o \in Moves \ {m} : booked[o] # booked[m]
    BY <1>1 DEF MoneyInv, Paid, Moves
  <2> QED BY <2>3, <2>4 DEF AccountedFor
<1> QED BY MoveAssumption, <1>1, AccountInvariant, PTL

-----------------------------------------------------------------------------
\* The orders that the bank took.
TakenMoves == {m \in Moves : atBank[m] # "none"}

\* Every transfer between own accounts is ordered once, whatever is retried, answered
\* late or found in doubt: the steps of create_own_account_transfer and its recovery
\* are steps of OneShotEffect.
THEOREM MovesImplementOneShot ==
  ASSUME MoveAssumption
  PROVE  MoveSpec => MovesAreOneShot
<1> USE DEF MoveEffect!effectVars
<1>1. MoveInit => MoveEffect!EffectInit
  BY DEF MoveInit, MoveEffect!EffectInit
<1>2. ASSUME MoverInv, [MoveNext]_moveVars
      PROVE  [MoveEffect!EffectNext]_(MoveEffect!effectVars)
  <2> USE DEF MoveEffect!EffectNext
  <2>0. /\ moved \in [Moves -> MoveStates] /\ atBank \in [Moves -> OrderStates]
        /\ orders \in [Moves -> Nat] /\ known \subseteq Moves /\ sca \subseteq known
        /\ \A s \in Movers : Placed(s, mover[s])
    BY <1>2 DEF MoverInv, MoveTypeOK
  <2>1. ASSUME Inserted' = Inserted, TakenMoves' = TakenMoves, UNCHANGED <<orders, known>>
        PROVE  UNCHANGED MoveEffect!effectVars
    BY <2>1 DEF Inserted, TakenMoves
  <2>2. ASSUME NEW s \in Movers, InsertTransfer(s)
        PROVE  [MoveEffect!EffectNext]_(MoveEffect!effectVars)
    <3>1. PICK m \in Moves : m = mover[s].move
      BY <2>0, <2>2 DEF InsertTransfer, Placed
    <3>2. /\ moved[m] = "none" /\ moved' = [moved EXCEPT ![m] = "creating"]
          /\ UNCHANGED <<known, moveBankVars>>
      BY <2>2, <3>1 DEF InsertTransfer
    <3>3. Inserted' = Inserted \cup {m} /\ m \notin Inserted
      BY <2>0, <3>2 DEF Inserted
    <3>4. MoveEffect!Claim(m)
      BY <3>2, <3>3 DEF MoveEffect!Claim, Inserted, moveBankVars
    <3> QED BY <3>4
  <2>3. ASSUME NEW s \in Movers, PostOrder(s)
        PROVE  [MoveEffect!EffectNext]_(MoveEffect!effectVars)
    <3>1. PICK m \in Moves : m = mover[s].move /\ moved[m] = "creating" /\ orders[m] = 0
                             /\ atBank[m] = "none"
      BY <2>0, <2>3 DEF PostOrder, Placed
    <3>2. /\ orders' = [orders EXCEPT ![m] = 1] /\ UNCHANGED <<moved, known>>
          /\ \E b \in {"none", "accepted"} : atBank' = [atBank EXCEPT ![m] = b]
      <4>1. orders' = [orders EXCEPT ![m] = @ + 1]
        BY <2>3, <3>1 DEF PostOrder
      <4>2. orders' = [orders EXCEPT ![m] = 1]
        BY <2>0, <3>1, <4>1
      <4>3. \E b \in {"none", "accepted"} : atBank' = [atBank EXCEPT ![m] = b]
        BY <2>3, <3>1 DEF PostOrder
      <4> QED BY <2>3, <4>2, <4>3 DEF PostOrder, ledgerVars
    <3>3. TakenMoves' \in {TakenMoves, TakenMoves \cup {m}}
      BY <2>0, <3>1, <3>2 DEF TakenMoves
    <3>4. MoveEffect!Attempt(m)
      BY <3>1, <3>2, <3>3 DEF MoveEffect!Attempt, TakenMoves
    <3> QED BY <3>4
  <2>4. ASSUME NEW s \in Movers, AnswerOrder(s)
        PROVE  [MoveEffect!EffectNext]_(MoveEffect!effectVars)
    <3>1. PICK m \in Moves : m = mover[s].move /\ moved[m] = "creating"
      BY <2>0, <2>4 DEF AnswerOrder, Placed
    <3>2. \E as \in MoveStates \ {"none"} : moved' = [moved EXCEPT ![m] = as]
      BY <2>4, <3>1 DEF AnswerOrder, MoveStates, MoveActive, MoveDead
    <3>3. Inserted' = Inserted
      BY <2>0, <3>1, <3>2 DEF Inserted
    <3>4. UNCHANGED <<orders, atBank>>
      BY <2>4 DEF AnswerOrder
    <3>5. CASE UNCHANGED known
      BY <2>1, <3>3, <3>4, <3>5 DEF TakenMoves
    <3>6. CASE atBank[m] # "none" /\ known' = known \cup {m}
      <4>1. m \notin known
        BY <1>2, <3>1 DEF MoverInv
      <4>2. MoveEffect!Report(m)
        BY <3>3, <3>4, <3>6, <4>1 DEF MoveEffect!Report, Inserted
      <4> QED BY <4>2
    <3> QED BY <2>4, <3>1, <3>5, <3>6 DEF AnswerOrder
  <2>5. ASSUME NEW s \in Movers, WriteOrderStatus(s) \/ BindEvidence(s)
        PROVE  UNCHANGED MoveEffect!effectVars
    <3>1. PICK m \in Moves : m = mover[s].move /\ moved[m] # "none"
      BY <1>2, <2>0, <2>5 DEF WriteOrderStatus, BindEvidence, Placed, MoverInv
    <3>2. UNCHANGED moved \/ \E as \in MoveStates \ {"none"} : moved' = [moved EXCEPT ![m] = as]
      BY <2>5, <3>1
      DEF WriteOrderStatus, BindEvidence, MoveStates, MoveActive, MoveDead
    <3>3. Inserted' = Inserted
      BY <2>0, <3>1, <3>2 DEF Inserted
    <3>4. UNCHANGED <<known, orders, atBank>>
      BY <2>5 DEF WriteOrderStatus, BindEvidence, moveBankVars
    <3> QED BY <2>1, <3>3, <3>4 DEF TakenMoves
  <2>6. ASSUME RefuseAuthorization \/ QuarantineTransfer
        PROVE  UNCHANGED MoveEffect!effectVars
    <3>1. PICK m \in Moves : moved[m] # "none" /\
             \E as \in MoveStates \ {"none"} : moved' = [moved EXCEPT ![m] = as]
      BY <1>2, <2>0, <2>6
      DEF RefuseAuthorization, QuarantineTransfer, MoverInv, MoveStates, MoveActive, MoveDead
    <3>2. Inserted' = Inserted
      BY <2>0, <3>1 DEF Inserted
    <3>3. UNCHANGED <<known, orders, atBank>>
      BY <2>6 DEF RefuseAuthorization, QuarantineTransfer, moveBankVars
    <3> QED BY <2>1, <3>2, <3>3 DEF TakenMoves
  <2>7. CASE BankDecides
    <3>1. TakenMoves' = TakenMoves
      BY <2>0, <2>7 DEF BankDecides, TakenMoves
    <3> QED BY <2>1, <2>7, <3>1 DEF BankDecides, ledgerVars, Inserted
  <2>8. ASSUME NEW s \in Movers,
               \/ PlanBudgetMove(s) \/ PlanAllotment(s) \/ ResumeAllotment(s) \/ LockSource(s)
               \/ NoteTransfer(s) \/ CrashMover(s) \/ AskForOrder(s) \/ FetchEvidence(s)
        PROVE  UNCHANGED <<ledgerVars, moveBankVars>>
    BY <2>8 DEF PlanBudgetMove, PlanAllotment, ResumeAllotment, LockSource, NoteTransfer,
                CrashMover, AskForOrder, FetchEvidence
  <2>9. ReconcileAllotments \/ UNCHANGED moveVars => UNCHANGED <<ledgerVars, moveBankVars>>
    BY DEF ReconcileAllotments, moveVars
  <2>10. UNCHANGED <<ledgerVars, moveBankVars>> => UNCHANGED MoveEffect!effectVars
    BY DEF ledgerVars, moveBankVars
  <2> QED
    BY <1>2, <2>2, <2>3, <2>4, <2>5, <2>6, <2>7, <2>8, <2>9, <2>10 DEF MoveNext
<1> QED
  BY MoveAssumption, <1>1, <1>2, MoverInvariant, MovesAreAccountedFor, PTL
  DEF MoveSpec, MovesAreOneShot, MoveEffect!EffectSpec

-----------------------------------------------------------------------------
(*****************************************************************************)
(* Sums over finite sets                                                     *)
(*                                                                           *)
(* The library knows nothing of SumFunctionOnSet: what it does is proved     *)
(* by induction over the subsets of a finite set, a set of sets taking the   *)
(* place of a predicate.                                                     *)
(*****************************************************************************)

\* A set of numbers that has 0, and with all numbers below one also that one, has all.
LEMMA NumbersBelow ==
  ASSUME NEW P, \A n \in Nat : (\A m \in Nat : m < n => m \in P) => n \in P
  PROVE  Nat \subseteq P
<1> DEFINE T == {n \in Nat : n \notin P}
<1> SUFFICES ASSUME T # {} PROVE FALSE
  OBVIOUS
<1>1. PICK n \in T : \A m \in T : ~(<<m, n>> \in OpToRel(<, Nat))
  <2>1. T \subseteq Nat
    OBVIOUS
  <2> HIDE DEF T
  <2> QED BY <2>1, NatLessThanWellFounded, WFMin
<1>2. \A m \in Nat : m < n => m \in P
  BY <1>1 DEF OpToRel
<1> QED BY <1>1, <1>2

\* Induction over the subsets of a finite set.
LEMMA SubsetsBelow ==
  ASSUME NEW S, IsFiniteSet(S), NEW P,
         \A T \in SUBSET S : (\A x \in T : T \ {x} \in P) => T \in P
  PROVE  \A T \in SUBSET S : T \in P
<1> DEFINE N == {n \in Nat : \A T \in SUBSET S : Cardinality(T) = n => T \in P}
<1>1. ASSUME NEW n \in Nat, \A m \in Nat : m < n => m \in N PROVE n \in N
  <2> SUFFICES ASSUME NEW T \in SUBSET S, Cardinality(T) = n PROVE T \in P
    OBVIOUS
  <2>1. ASSUME NEW x \in T PROVE T \ {x} \in P
    <3>1. /\ IsFiniteSet(T) /\ Cardinality(T \ {x}) = n - 1 /\ T \ {x} \in SUBSET S
          /\ Cardinality(T \ {x}) \in Nat
      BY FS_Subset, FS_RemoveElement, FS_CardinalityType
    <3> QED BY <1>1, <3>1
  <2> QED BY <2>1
<1>2. Nat \subseteq N
  <2> HIDE DEF N
  <2> QED BY <1>1, NumbersBelow
<1> QED BY <1>2, FS_Subset, FS_CardinalityType

-----------------------------------------------------------------------------
Pick(s) == CHOOSE x \in s : TRUE
Sums(f, S, g) == g = [s \in SUBSET S |-> IF s = {} THEN 0 ELSE f[Pick(s)] + g[s \ {Pick(s)}]]

LEMMA PickIn == ASSUME NEW s, s # {} PROVE Pick(s) \in s
BY DEF Pick

LEMMA SumsExist ==
  ASSUME NEW S, IsFiniteSet(S), NEW f
  PROVE  \E g : Sums(f, S, g)
<1> DEFINE Small(n) == {s \in SUBSET S : Cardinality(s) <= n}
           Good(g, n) == /\ DOMAIN g = Small(n)
                         /\ g = [s \in Small(n) |-> g[s]]
                         /\ \A s \in Small(n) :
                              g[s] = IF s = {} THEN 0 ELSE f[Pick(s)] + g[s \ {Pick(s)}]
           N == {n \in Nat : \E g : Good(g, n)}
<1>0. ASSUME NEW s \in SUBSET S, s # {}
      PROVE  /\ s \ {Pick(s)} \in SUBSET S /\ Cardinality(s) \in Nat
             /\ Cardinality(s \ {Pick(s)}) = Cardinality(s) - 1
             /\ Cardinality(s \ {Pick(s)}) \in Nat
  BY <1>0, PickIn, FS_Subset, FS_RemoveElement, FS_CardinalityType
<1>1. ASSUME NEW n \in Nat, \A m \in Nat : m < n => m \in N PROVE n \in N
  <2>1. CASE n = 0
    <3> DEFINE g == [s \in Small(n) |-> 0]
    <3>1. \A s \in Small(n) : s = {}
      <4> SUFFICES ASSUME NEW s \in Small(n), s # {} PROVE FALSE
        OBVIOUS
      <4>1. s \in SUBSET S /\ Cardinality(s) <= 0
        BY <2>1
      <4>2. /\ Cardinality(s) \in Nat /\ Cardinality(s \ {Pick(s)}) \in Nat
            /\ Cardinality(s \ {Pick(s)}) = Cardinality(s) - 1
        BY <1>0, <4>1
      <4> QED BY <4>1, <4>2
    <3>2. Good(g, n)
      BY <3>1
    <3> HIDE DEF g
    <3> QED BY <3>2
  <2>2. CASE n # 0
    <3>1. n - 1 \in Nat /\ n - 1 < n
      BY <2>2
    <3>2. PICK g : Good(g, n - 1)
      BY <1>1, <3>1
    <3> DEFINE h == [s \in Small(n) |-> IF s = {} THEN 0 ELSE f[Pick(s)] + g[s \ {Pick(s)}]]
    <3>3. \A s \in Small(n - 1) : s \in Small(n) /\ h[s] = g[s]
      <4> TAKE s \in Small(n - 1)
      <4>1. Cardinality(s) \in Nat
        BY FS_Subset, FS_CardinalityType
      <4>2. s \in Small(n)
        BY <4>1, <3>1
      <4> QED BY <3>2, <4>2
    <3>4. \A s \in Small(n) : s # {} => s \ {Pick(s)} \in Small(n - 1)
      BY <1>0, <3>1
    <3>5. \A s \in Small(n) : h[s] = IF s = {} THEN 0 ELSE f[Pick(s)] + h[s \ {Pick(s)}]
      BY <3>3, <3>4
    <3>6. Good(h, n)
      <4>1. DOMAIN h = Small(n) /\ h = [s \in Small(n) |-> h[s]]
        OBVIOUS
      <4> HIDE DEF h, Small
      <4> QED BY <4>1, <3>5
    <3> HIDE DEF h
    <3> QED BY <3>6
  <2> QED BY <2>1, <2>2
<1>2. Cardinality(S) \in N
  <2>1. Nat \subseteq N
    <3> HIDE DEF N
    <3> QED BY <1>1, NumbersBelow
  <2> QED BY <2>1, FS_CardinalityType
<1>3. PICK g : Good(g, Cardinality(S))
  BY <1>2
<1>4. Small(Cardinality(S)) = SUBSET S
  BY FS_Subset
<1>5. g = [s \in SUBSET S |-> IF s = {} THEN 0 ELSE f[Pick(s)] + g[s \ {Pick(s)}]]
  <2>1. \A s \in SUBSET S : g[s] = IF s = {} THEN 0 ELSE f[Pick(s)] + g[s \ {Pick(s)}]
    BY <1>3, <1>4
  <2>2. g = [s \in SUBSET S |-> g[s]]
    BY <1>3, <1>4
  <2> HIDE DEF Good, Small, N
  <2> QED BY <2>1, <2>2
<1> QED BY <1>5 DEF Sums

LEMMA SumsAgree ==
  ASSUME NEW S, IsFiniteSet(S), NEW f, NEW g, Sums(f, S, g),
         NEW T \in SUBSET S, NEW h, Sums(f, T, h)
  PROVE  h[T] = g[T]
<1> DEFINE P == {t \in SUBSET T : h[t] = g[t]}
<1>1. ASSUME NEW t \in SUBSET T, \A x \in t : t \ {x} \in P PROVE t \in P
  <2>1. h[t] = (IF t = {} THEN 0 ELSE f[Pick(t)] + h[t \ {Pick(t)}])
    BY DEF Sums
  <2>2. g[t] = (IF t = {} THEN 0 ELSE f[Pick(t)] + g[t \ {Pick(t)}])
    <3>1. t \in SUBSET S
      OBVIOUS
    <3> QED BY <3>1 DEF Sums
  <2>3. t # {} => h[t \ {Pick(t)}] = g[t \ {Pick(t)}]
    BY <1>1, PickIn
  <2> QED BY <2>1, <2>2, <2>3
<1>2. IsFiniteSet(T)
  BY FS_Subset
<1>3. \A t \in SUBSET T : t \in P
  <2> HIDE DEF P
  <2> QED BY <1>1, <1>2, SubsetsBelow
<1> QED BY <1>3

LEMMA SumIs ==
  ASSUME NEW S, IsFiniteSet(S), NEW f
  PROVE  \E g : Sums(f, S, g) /\ SumFunctionOnSet(f, S) = g[S]
<1> DEFINE it == CHOOSE g : Sums(f, S, g)
<1>1. Sums(f, S, it)
  BY SumsExist
<1>2. SumFunctionOnSet(f, S) = it[S]
  BY DEF SumFunctionOnSet, FoldFunctionOnSet, MapThenFoldSet, Sums, Pick
<1> QED BY <1>1, <1>2

LEMMA SumEmpty == ASSUME NEW f PROVE SumFunctionOnSet(f, {}) = 0
<1>1. PICK g : Sums(f, {}, g) /\ SumFunctionOnSet(f, {}) = g[{}]
  BY SumIs, FS_EmptySet
<1> QED BY <1>1 DEF Sums

LEMMA SumPick ==
  ASSUME NEW S, IsFiniteSet(S), NEW f, S # {}
  PROVE  SumFunctionOnSet(f, S) = f[Pick(S)] + SumFunctionOnSet(f, S \ {Pick(S)})
<1> DEFINE T == S \ {Pick(S)}
<1>1. PICK g : Sums(f, S, g) /\ SumFunctionOnSet(f, S) = g[S]
  BY SumIs
<1>2. IsFiniteSet(T) /\ T \in SUBSET S
  BY FS_Subset
<1>3. PICK h : Sums(f, T, h) /\ SumFunctionOnSet(f, T) = h[T]
  BY <1>2, SumIs
<1>4. h[T] = g[T]
  <2> HIDE DEF T
  <2> QED BY <1>1, <1>2, <1>3, SumsAgree
<1>5. g[S] = f[Pick(S)] + g[T]
  BY <1>1 DEF Sums
<1> QED BY <1>1, <1>3, <1>4, <1>5
LEMMA SumType ==
  ASSUME NEW S, IsFiniteSet(S), NEW f, \A x \in S : f[x] \in Int
  PROVE  SumFunctionOnSet(f, S) \in Int
<1> DEFINE P == {T \in SUBSET S : SumFunctionOnSet(f, T) \in Int}
<1>1. ASSUME NEW T \in SUBSET S, \A x \in T : T \ {x} \in P PROVE T \in P
  <2>1. CASE T = {}
    BY <2>1, SumEmpty
  <2>2. CASE T # {}
    <3>1. IsFiniteSet(T)
      BY FS_Subset
    <3>2. SumFunctionOnSet(f, T) = f[Pick(T)] + SumFunctionOnSet(f, T \ {Pick(T)})
      BY <2>2, <3>1, SumPick
    <3>3. Pick(T) \in T
      BY <2>2, PickIn
    <3>4. SumFunctionOnSet(f, T \ {Pick(T)}) \in Int /\ f[Pick(T)] \in Int
      BY <1>1, <3>3
    <3> QED BY <3>2, <3>4
  <2> QED BY <2>1, <2>2
<1> HIDE DEF P
<1>2. \A T \in SUBSET S : T \in P
  BY <1>1, SubsetsBelow
<1>3. S \in P
  BY <1>2
<1> QED BY <1>3 DEF P

LEMMA SumRemove ==
  ASSUME NEW S, IsFiniteSet(S), NEW f, \A x \in S : f[x] \in Int, NEW y \in S
  PROVE  SumFunctionOnSet(f, S) = f[y] + SumFunctionOnSet(f, S \ {y})
<1> DEFINE P == {T \in SUBSET S : \A x \in T :
                   SumFunctionOnSet(f, T) = f[x] + SumFunctionOnSet(f, T \ {x})}
<1>1. ASSUME NEW T \in SUBSET S, \A x \in T : T \ {x} \in P PROVE T \in P
  <2> SUFFICES ASSUME NEW x \in T, x # Pick(T)
               PROVE  SumFunctionOnSet(f, T) = f[x] + SumFunctionOnSet(f, T \ {x})
    <3>1. ASSUME NEW x \in T, x = Pick(T)
          PROVE  SumFunctionOnSet(f, T) = f[x] + SumFunctionOnSet(f, T \ {x})
      BY <3>1, SumPick, FS_Subset
    <3> QED BY <3>1
  <2> DEFINE p == Pick(T)
             U == (T \ {p}) \ {x}
  <2>1. p \in T /\ p # x
    BY PickIn
  <2> HIDE DEF p
  <2>2. IsFiniteSet(T) /\ IsFiniteSet(U)
    <3>1. T \in SUBSET S /\ U \in SUBSET S
      OBVIOUS
    <3> QED BY <3>1, FS_Subset
  <2>3. SumFunctionOnSet(f, T) = f[p] + SumFunctionOnSet(f, T \ {p})
    BY <2>2, SumPick DEF p
  <2>4. SumFunctionOnSet(f, T \ {p}) = f[x] + SumFunctionOnSet(f, U)
    BY <1>1, <2>1
  <2>5. SumFunctionOnSet(f, T \ {x}) = f[p] + SumFunctionOnSet(f, (T \ {x}) \ {p})
    BY <1>1, <2>1
  <2>6. (T \ {x}) \ {p} = U
    OBVIOUS
  <2>7. SumFunctionOnSet(f, U) \in Int /\ f[p] \in Int /\ f[x] \in Int
    BY <2>1, <2>2, SumType
  <2>8. SumFunctionOnSet(f, T \ {x}) = f[p] + SumFunctionOnSet(f, U)
    BY <2>5, <2>6
  <2> HIDE DEF U
  <2> DEFINE a == f[p]
             b == f[x]
             c == SumFunctionOnSet(f, U)
  <2>9. SumFunctionOnSet(f, T) = a + (b + c) /\ SumFunctionOnSet(f, T \ {x}) = a + c
    BY <2>3, <2>4, <2>8
  <2>10. a \in Int /\ b \in Int /\ c \in Int
    BY <2>7
  <2> HIDE DEF a, c
  <2> QED BY <2>9, <2>10
<1> HIDE DEF P
<1>2. \A T \in SUBSET S : T \in P
  BY <1>1, SubsetsBelow
<1>3. S \in P
  BY <1>2
<1> QED BY <1>3 DEF P

\* The sums of two functions, one of which is nowhere above the other; so functions
\* that agree have the same sum.
LEMMA SumOrder ==
  ASSUME NEW S, IsFiniteSet(S), NEW f, NEW g,
         \A x \in S : f[x] \in Int /\ g[x] \in Int /\ f[x] <= g[x]
  PROVE  SumFunctionOnSet(f, S) <= SumFunctionOnSet(g, S)
<1> DEFINE P == {T \in SUBSET S : SumFunctionOnSet(f, T) <= SumFunctionOnSet(g, T)}
<1>1. ASSUME NEW T \in SUBSET S, \A x \in T : T \ {x} \in P PROVE T \in P
  <2>1. CASE T = {}
    BY <2>1, SumEmpty
  <2>2. CASE T # {}
    <3> DEFINE p == Pick(T)
    <3>1. p \in T
      BY <2>2, PickIn
    <3>2. IsFiniteSet(T) /\ IsFiniteSet(T \ {p})
      <4>1. T \ {p} \in SUBSET S
        OBVIOUS
      <4> QED BY <4>1, FS_Subset
    <3>3. /\ SumFunctionOnSet(f, T) = f[p] + SumFunctionOnSet(f, T \ {p})
          /\ SumFunctionOnSet(g, T) = g[p] + SumFunctionOnSet(g, T \ {p})
      BY <2>2, <3>2, SumPick
    <3>4. SumFunctionOnSet(f, T \ {p}) <= SumFunctionOnSet(g, T \ {p})
      BY <1>1, <3>1
    <3>5. SumFunctionOnSet(f, T \ {p}) \in Int /\ SumFunctionOnSet(g, T \ {p}) \in Int
      BY <3>2, SumType
    <3>6. f[p] \in Int /\ g[p] \in Int /\ f[p] <= g[p]
      BY <3>1
    <3> HIDE DEF p
    <3> QED BY <3>3, <3>4, <3>5, <3>6
  <2> QED BY <2>1, <2>2
<1> HIDE DEF P
<1>2. \A T \in SUBSET S : T \in P
  BY <1>1, SubsetsBelow
<1>3. S \in P
  BY <1>2
<1> QED BY <1>3 DEF P

LEMMA SumSame ==
  ASSUME NEW S, IsFiniteSet(S), NEW f, NEW g, \A x \in S : f[x] \in Int /\ g[x] = f[x]
  PROVE  SumFunctionOnSet(g, S) = SumFunctionOnSet(f, S)
<1>1. /\ SumFunctionOnSet(f, S) <= SumFunctionOnSet(g, S)
      /\ SumFunctionOnSet(g, S) <= SumFunctionOnSet(f, S)
  BY SumOrder
<1>2. SumFunctionOnSet(f, S) \in Int /\ SumFunctionOnSet(g, S) \in Int
  BY SumType
<1> QED BY <1>1, <1>2

LEMMA SumUnion ==
  ASSUME NEW S, IsFiniteSet(S), NEW f, \A x \in S : f[x] \in Int, NEW T \in SUBSET S
  PROVE  SumFunctionOnSet(f, S) = SumFunctionOnSet(f, T) + SumFunctionOnSet(f, S \ T)
<1> DEFINE P == {U \in SUBSET T : SumFunctionOnSet(f, (S \ T) \cup U) =
                                   SumFunctionOnSet(f, U) + SumFunctionOnSet(f, S \ T)}
<1>0. IsFiniteSet(T) /\ IsFiniteSet(S \ T) /\ SumFunctionOnSet(f, S \ T) \in Int
  <2>1. IsFiniteSet(T) /\ IsFiniteSet(S \ T)
    BY FS_Subset, (S \ T) \in SUBSET S
  <2> QED BY <2>1, SumType
<1>1. ASSUME NEW U \in SUBSET T, \A x \in U : U \ {x} \in P PROVE U \in P
  <2>1. CASE U = {}
    <3>1. (S \ T) \cup U = S \ T
      BY <2>1
    <3> QED BY <1>0, <2>1, <3>1, SumEmpty
  <2>2. CASE U # {}
    <3> DEFINE V == (S \ T) \cup U
    <3>1. PICK p : p \in U
      BY <2>2
    <3>2. IsFiniteSet(U) /\ IsFiniteSet(V) /\ IsFiniteSet(U \ {p})
      <4>1. U \in SUBSET S /\ V \in SUBSET S /\ U \ {p} \in SUBSET S
        OBVIOUS
      <4> QED BY <4>1, FS_Subset
    <3>3. SumFunctionOnSet(f, U) = f[p] + SumFunctionOnSet(f, U \ {p})
      BY <3>1, <3>2, SumRemove
    <3>4. SumFunctionOnSet(f, V) = f[p] + SumFunctionOnSet(f, V \ {p})
      <4>1. p \in V /\ \A x \in V : f[x] \in Int
        BY <3>1
      <4> HIDE DEF V
      <4> QED BY <3>2, <4>1, SumRemove
    <3>5. V \ {p} = (S \ T) \cup (U \ {p})
      BY <3>1
    <3>6. SumFunctionOnSet(f, V \ {p}) = SumFunctionOnSet(f, U \ {p}) + SumFunctionOnSet(f, S \ T)
      BY <1>1, <3>1, <3>5
    <3>7. SumFunctionOnSet(f, U \ {p}) \in Int /\ f[p] \in Int
      BY <3>1, <3>2, SumType
    <3>8. SumFunctionOnSet(f, V) = SumFunctionOnSet(f, U) + SumFunctionOnSet(f, S \ T)
      <4> HIDE DEF V
      <4> QED BY <1>0, <3>3, <3>4, <3>6, <3>7
    <3> QED BY <3>8
  <2> QED BY <2>1, <2>2
<1>2. T \in P
  <2> HIDE DEF P
  <2> QED BY <1>0, <1>1, SubsetsBelow
<1>3. (S \ T) \cup T = S
  OBVIOUS
<1> QED BY <1>2, <1>3

LEMMA SumNat ==
  ASSUME NEW S, IsFiniteSet(S), NEW f, \A x \in S : f[x] \in Nat
  PROVE  SumFunctionOnSet(f, S) \in Nat
<1> DEFINE z == [x \in S |-> 0]
           P == {T \in SUBSET S : SumFunctionOnSet(z, T) = 0}
<1>1. ASSUME NEW T \in SUBSET S, \A x \in T : T \ {x} \in P PROVE T \in P
  <2>1. CASE T = {}
    BY <2>1, SumEmpty
  <2>2. CASE T # {}
    <3>1. SumFunctionOnSet(z, T) = z[Pick(T)] + SumFunctionOnSet(z, T \ {Pick(T)})
      BY <2>2, FS_Subset, SumPick
    <3>2. Pick(T) \in T
      BY <2>2, PickIn
    <3> QED BY <1>1, <3>1, <3>2
  <2> QED BY <2>1, <2>2
<1>2. SumFunctionOnSet(z, S) = 0
  <2>1. \A T \in SUBSET S : T \in P
    <3> HIDE DEF P
    <3> QED BY <1>1, SubsetsBelow
  <2> QED BY <2>1
<1>3. SumFunctionOnSet(z, S) <= SumFunctionOnSet(f, S) /\ SumFunctionOnSet(f, S) \in Int
  <2>1. \A x \in S : z[x] \in Int /\ f[x] \in Int /\ z[x] <= f[x]
    OBVIOUS
  <2> HIDE DEF z
  <2> QED BY <2>1, SumOrder, SumType
<1> QED BY <1>2, <1>3

-----------------------------------------------------------------------------
(*****************************************************************************)
(* Least values                                                              *)
(*****************************************************************************)

\* A function into the integers has a least value on a finite set.
LEMMA LeastIs ==
  ASSUME NEW S, IsFiniteSet(S), S # {}, NEW g, \A x \in S : g[x] \in Int
  PROVE  \E x \in S : \A y \in S : g[x] <= g[y]
<1> DEFINE P == {T \in SUBSET S : T = {} \/ \E x \in T : \A y \in T : g[x] <= g[y]}
<1>1. ASSUME NEW T \in SUBSET S, \A x \in T : T \ {x} \in P PROVE T \in P
  <2> SUFFICES ASSUME T # {} PROVE \E x \in T : \A y \in T : g[x] <= g[y]
    OBVIOUS
  <2>1. PICK t \in T : TRUE
    OBVIOUS
  <2>2. CASE T = {t}
    BY <2>2
  <2>3. CASE T # {t}
    <3>1. PICK x \in T \ {t} : \A y \in T \ {t} : g[x] <= g[y]
      BY <1>1, <2>1, <2>3
    <3>2. g[x] \in Int /\ g[t] \in Int /\ \A y \in T : g[y] \in Int
      BY <3>1, <2>1
    <3>3. \A y \in T : g[x] <= g[y] \/ y = t
      BY <3>1
    <3>4. CASE g[x] <= g[t]
      BY <3>1, <3>3, <3>4
    <3>5. CASE g[t] < g[x]
      <4>1. \A y \in T : g[t] <= g[y]
        BY <3>2, <3>3, <3>5
      <4> QED BY <4>1, <2>1
    <3> QED BY <3>2, <3>4, <3>5
  <2> QED BY <2>2, <2>3
<1>2. \A T \in SUBSET S : T \in P
  <2> HIDE DEF P
  <2> QED BY <1>1, SubsetsBelow
<1> QED BY <1>2

LEMMA MinIs ==
  ASSUME NEW T \in SUBSET Int, IsFiniteSet(T), T # {}
  PROVE  Min(T) \in T /\ \A y \in T : Min(T) <= y
<1> DEFINE g == [x \in T |-> x]
<1>1. \E x \in T : \A y \in T : g[x] <= g[y]
  <2>1. \A x \in T : g[x] \in Int
    OBVIOUS
  <2> HIDE DEF g
  <2> QED BY <2>1, LeastIs
<1> QED BY <1>1 DEF Min

LEMMA MaxIs ==
  ASSUME NEW T \in SUBSET Int, IsFiniteSet(T), T # {}
  PROVE  Max(T) \in T /\ \A y \in T : Max(T) >= y
<1> DEFINE g == [x \in T |-> -x]
<1>1. \E x \in T : \A y \in T : g[x] <= g[y]
  <2>1. \A x \in T : g[x] \in Int
    OBVIOUS
  <2> HIDE DEF g
  <2> QED BY <2>1, LeastIs
<1>2. \E x \in T : \A y \in T : x >= y
  BY <1>1
<1> QED BY <1>2 DEF Max

Least(f, S) == Min({f[x] : x \in S})

\* The least value of a function that is nowhere above another, or is it moved.
LEMMA LeastOrder ==
  ASSUME NEW S, IsFiniteSet(S), S # {}, NEW f, NEW g, NEW n \in Int,
         \A x \in S : f[x] \in Int /\ g[x] \in Int /\ f[x] + n <= g[x]
  PROVE  /\ Least(f, S) \in Int /\ Least(g, S) \in Int
         /\ Least(f, S) + n <= Least(g, S)
<1>1. PICK x \in S : \A y \in S : f[x] <= f[y]
  BY LeastIs
<1>2. PICK z \in S : \A y \in S : g[z] <= g[y]
  BY LeastIs
<1>3. Least(f, S) = f[x]
  <2> DEFINE T == {f[y] : y \in S}
  <2>1. f[x] \in T /\ \A v \in T : v \in Int /\ f[x] <= v
    BY <1>1
  <2> HIDE DEF T
  <2>2. \A v \in T : (\A u \in T : v <= u) => v <= f[x]
    BY <2>1
  <2>3. \A v \in T : (\A u \in T : v <= u) => v = f[x]
    BY <2>1, <2>2
  <2>4. Min(T) = f[x]
    BY <2>1, <2>3 DEF Min
  <2> QED BY <2>4 DEF T, Least
<1>4. Least(g, S) = g[z]
  <2> DEFINE T == {g[y] : y \in S}
  <2>1. g[z] \in T /\ \A v \in T : v \in Int /\ g[z] <= v
    BY <1>2
  <2> HIDE DEF T
  <2>2. \A v \in T : (\A u \in T : v <= u) => v <= g[z]
    BY <2>1
  <2>3. \A v \in T : (\A u \in T : v <= u) => v = g[z]
    BY <2>1, <2>2
  <2>4. Min(T) = g[z]
    BY <2>1, <2>3 DEF Min
  <2> QED BY <2>4 DEF T, Least
<1> QED BY <1>1, <1>2, <1>3, <1>4

LEMMA DivOrder ==
  ASSUME NEW m \in Int, NEW n \in Int, m <= n, NEW k \in Nat \ {0}
  PROVE  m \div k \in Int /\ n \div k \in Int /\ m \div k <= n \div k
<1> DEFINE a == m \div k
           b == n \div k
<1>1. /\ a \in Int /\ m = k * a + (m % k) /\ m % k \in 0..(k - 1)
      /\ b \in Int /\ n = k * b + (n % k) /\ n % k \in 0..(k - 1)
  OBVIOUS
<1>2. CASE a <= b
  BY <1>1, <1>2
<1>3. CASE b + 1 <= a
  <2>1. k * (b + 1) <= k * a
    <3> HIDE DEF a, b
    <3> QED BY <1>1, <1>3
  <2>2. k * (b + 1) = k * b + k
    <3> HIDE DEF a, b
    <3> QED BY <1>1
  <2> DEFINE ka == k * a
             kb == k * b
             ma == m % k
             nb == n % k
  <2>3. m = ka + ma /\ n = kb + nb /\ ma \in 0..(k-1) /\ nb \in 0..(k-1) /\ kb + k <= ka
          /\ ka \in Int /\ kb \in Int
    BY <1>1, <2>1, <2>2
  <2> HIDE DEF ka, kb, ma, nb
  <2> QED BY <2>3
<1> QED BY <1>1, <1>2, <1>3

-----------------------------------------------------------------------------
(*****************************************************************************)
(* The forecast                                                              *)
(*                                                                           *)
(* The cautious scenario is never above the expected one, and money that     *)
(* comes lifts the low point by as much.                                     *)
(*****************************************************************************)

Items == [day : Nat, kind : {"sure", "likely", "doubtful", "debit", "bill"}, amount : Nat]
Futures == {future \in SUBSET Items : IsFiniteSet(future)}

LEMMA Numbers ==
  ASSUME AllocationAssumption
  PROVE  /\ Horizon \in Nat /\ Floor \in Nat /\ Target \in Nat /\ MaxSingle \in Nat
         /\ Opening \in Nat /\ Invoice \in Nat /\ Rent \in Nat /\ Salary \in Nat /\ MinTransfer \in Nat
         /\ Month \in Nat \ {0} /\ Baseline \in Nat /\ MinTransfer > 0
         /\ CycleLimit \in Nat /\ TurnLimit \in Nat /\ ForecastLimit \in Nat
BY DEF AllocationAssumption

LEMMA TimesType ==
  ASSUME AllocationAssumption, NEW e \in Items, NEW day \in Nat
  PROVE  Times(e, day) \in Nat
<1> DEFINE D == {d \in 0..day : d = e.day \/ (e.kind # "bill" /\ d > e.day /\ (d - e.day) % Month = 0)}
<1>1. IsFiniteSet(0..day) /\ D \in SUBSET (0..day)
  BY FS_Interval
<1>2. Cardinality(D) \in Nat
  <2> HIDE DEF D
  <2> QED BY <1>1, FS_Subset, FS_CardinalityType
<1> QED BY <1>2 DEF Times

LEMMA MulOrder ==
  ASSUME NEW k \in Nat, NEW m \in Int, NEW n \in Int, m <= n
  PROVE  k * m \in Int /\ k * n \in Int /\ k * m <= k * n
OBVIOUS

LEMMA VariableType ==
  ASSUME AllocationAssumption, NEW future \in Futures
  PROVE  Variable(future) \in Nat
<1> DEFINE due == {e \in future : e.kind \in {"debit", "bill"} /\ e.day <= Month}
           f == [e \in due |-> e.amount]
<1>1. IsFiniteSet(due) /\ \A e \in due : f[e] \in Nat
  BY FS_Subset DEF Futures, Items
<1>2. SumFunctionOnSet(f, due) \in Nat
  <2> HIDE DEF due, f
  <2> QED BY <1>1, SumNat
<1>3. Explicit(future) \in Nat
  BY <1>2 DEF Explicit
<1> QED BY <1>3 DEF Variable, Positive, AllocationAssumption

\* What the items bring until a day, by what an item of a kind counts
Share(e, day, weight) == Times(e, day) * ((e.amount * weight[e.kind]) \div 100)
Shares(future, day, weight) == SumFunctionOnSet([e \in future |-> Share(e, day, weight)], future)
Kinds == {"sure", "likely", "doubtful", "debit", "bill"}
Weights(cautious) == [k \in Kinds |-> IF cautious THEN Cautious(k) ELSE Expected(k)]

LEMMA CashIs ==
  ASSUME AllocationAssumption, NEW day \in Nat, NEW start \in Int, NEW future \in Futures,
         NEW cautious \in BOOLEAN
  PROVE  CashOn(day, start, future, cautious)
           = start - (Variable(future) * day * (IF cautious THEN 110 ELSE 100)) \div (Month * 100)
             + Shares(future, day, Weights(cautious))
<1> DEFINE W(kind) == IF cautious THEN Cautious(kind) ELSE Expected(kind)
           f == [e \in future |-> Times(e, day) * ((e.amount * W(e.kind)) \div 100)]
<1>1. \A e \in future : e.kind \in Kinds
  BY DEF Futures, Items, Kinds
<1>2. f = [e \in future |-> Share(e, day, Weights(cautious))]
  BY <1>1 DEF Share, Weights
<1> QED BY <1>2 DEF CashOn, Shares

LEMMA WeightOrder ==
  /\ \A c \in BOOLEAN, k \in Kinds : Weights(c)[k] \in Int
  /\ \A k \in Kinds : Weights(TRUE)[k] <= Weights(FALSE)[k]
BY DEF Weights, Kinds, Cautious, Expected

LEMMA ShareOrder ==
  ASSUME AllocationAssumption, NEW day \in Nat, NEW e \in Items
  PROVE  /\ Share(e, day, Weights(TRUE)) \in Int /\ Share(e, day, Weights(FALSE)) \in Int
         /\ Share(e, day, Weights(TRUE)) <= Share(e, day, Weights(FALSE))
<1> DEFINE c == Weights(TRUE)[e.kind]
           x == Weights(FALSE)[e.kind]
           n == Times(e, day)
<1>1. c \in Int /\ x \in Int /\ c <= x /\ e.amount \in Nat /\ n \in Nat
  BY WeightOrder, TimesType DEF Items, Kinds
<1> HIDE DEF c, x, n
<1>2. e.amount * c \in Int /\ e.amount * x \in Int /\ e.amount * c <= e.amount * x
  <2> HIDE DEF c, x
  <2> QED BY <1>1, MulOrder
<1> DEFINE ac == e.amount * c
           ax == e.amount * x
<1>3. ac \div 100 \in Int /\ ax \div 100 \in Int /\ ac \div 100 <= ax \div 100
  <2>1. ac \in Int /\ ax \in Int /\ ac <= ax /\ 100 \in Nat \ {0}
    BY <1>2
  <2> HIDE DEF ac, ax
  <2> QED BY <2>1, DivOrder
<1> DEFINE qc == ac \div 100
           qx == ax \div 100
<1>4. n * qc \in Int /\ n * qx \in Int /\ n * qc <= n * qx
  <2> HIDE DEF n, qc, qx
  <2> QED BY <1>1, <1>3, MulOrder DEF qc, qx
<1> QED BY <1>4 DEF Share, c, x, n

LEMMA SharesOrder ==
  ASSUME AllocationAssumption, NEW day \in Nat, NEW future \in Futures
  PROVE  /\ Shares(future, day, Weights(TRUE)) \in Int /\ Shares(future, day, Weights(FALSE)) \in Int
         /\ Shares(future, day, Weights(TRUE)) <= Shares(future, day, Weights(FALSE))
<1> DEFINE f == [e \in future |-> Share(e, day, Weights(TRUE))]
           g == [e \in future |-> Share(e, day, Weights(FALSE))]
<1>1. IsFiniteSet(future) /\ \A e \in future : f[e] \in Int /\ g[e] \in Int /\ f[e] <= g[e]
  BY ShareOrder DEF Futures
<1>2. /\ SumFunctionOnSet(f, future) \in Int /\ SumFunctionOnSet(g, future) \in Int
      /\ SumFunctionOnSet(f, future) <= SumFunctionOnSet(g, future)
  <2> HIDE DEF f, g
  <2> QED BY <1>1, SumOrder, SumType
<1> QED BY <1>2 DEF Shares

LEMMA CashOrder ==
  ASSUME AllocationAssumption, NEW day \in Nat, NEW start \in Int, NEW n \in Int,
         NEW future \in Futures, NEW cautious \in BOOLEAN
  PROVE  /\ CashOn(day, start, future, cautious) \in Int
         /\ CashOn(day, start, future, cautious) + n = CashOn(day, start + n, future, cautious)
         /\ CashOn(day, start, future, TRUE) <= CashOn(day, start, future, FALSE)
<1> DEFINE v == Variable(future) * day
           k == Month * 100
           s == Shares(future, day, Weights(TRUE))
           x == Shares(future, day, Weights(FALSE))
<1>1. v \in Nat /\ k \in Nat \ {0} /\ s \in Int /\ x \in Int /\ s <= x
  <2>1. s \in Int /\ x \in Int /\ s <= x
    BY SharesOrder
  <2>2. Variable(future) \in Nat /\ Month \in Nat \ {0}
    BY VariableType, Numbers
  <2>3. v \in Nat /\ k \in Nat \ {0}
    BY <2>2
  <2> HIDE DEF v, k, s, x
  <2> QED BY <2>1, <2>3
<1>2. /\ (v * 100) \div k \in Int /\ (v * 110) \div k \in Int
      /\ (v * 100) \div k <= (v * 110) \div k
  <2> HIDE DEF v, k
  <2>1. v * 100 \in Int /\ v * 110 \in Int /\ v * 100 <= v * 110
    BY <1>1
  <2> QED BY <2>1, <1>1, DivOrder
<1> DEFINE p == (v * 110) \div k
           q == (v * 100) \div k
           C(m) == CashOn(day, m, future, TRUE)
           E(m) == CashOn(day, m, future, FALSE)
<1>3. \A m \in Int : C(m) = m - p + s /\ E(m) = m - q + x
  BY CashIs
<1>4. p \in Int /\ q \in Int /\ q <= p
  BY <1>2
<1>5. cautious = TRUE \/ cautious = FALSE
  OBVIOUS
<1>6. /\ C(start) \in Int /\ E(start) \in Int /\ C(start) + n = C(start + n)
      /\ E(start) + n = E(start + n) /\ C(start) <= E(start)
  <2> HIDE DEF v, k, s, x, p, q, C, E
  <2>1. start + n \in Int
    OBVIOUS
  <2>2. /\ C(start) = start - p + s /\ E(start) = start - q + x
        /\ C(start + n) = (start + n) - p + s /\ E(start + n) = (start + n) - q + x
    BY <2>1, <1>3
  <2> QED BY <1>1, <1>4, <2>2
<1> QED BY <1>5, <1>6

LEMMA CashShift ==
  ASSUME AllocationAssumption
  PROVE  \A future \in Futures, cautious \in BOOLEAN, day \in Nat, start \in Int, n \in Int :
           CashOn(day, start, future, cautious) + n = CashOn(day, start + n, future, cautious)
BY CashOrder

\* The low point moves with the cash at the start, and the cautious one is the lower.
LEMMA LowOrder ==
  ASSUME AllocationAssumption, NEW start \in Int, NEW n \in Int, NEW future \in Futures,
         NEW cautious \in BOOLEAN
  PROVE  /\ LowPoint(start, future, cautious) \in Int
         /\ LowPoint(start, future, cautious) + n <= LowPoint(start + n, future, cautious)
         /\ LowPoint(start, future, TRUE) <= LowPoint(start, future, FALSE)
<1> DEFINE D == 0..Horizon
           F(m, c) == [d \in D |-> CashOn(d, m, future, c)]
<1>1. IsFiniteSet(D) /\ D # {} /\ D \subseteq Nat
  <2>1. Horizon \in Nat /\ 0 \in Int /\ Horizon \in Int
    BY Numbers
  <2>2. IsFiniteSet(0..Horizon)
    BY <2>1, FS_Interval
  <2>3. 0 \in 0..Horizon /\ 0..Horizon \subseteq Nat
    BY <2>1
  <2> QED BY <2>2, <2>3
<1>2. \A m \in Int, c \in BOOLEAN, d \in D :
        /\ F(m, c)[d] \in Int
        /\ F(m, c)[d] + n = F(m + n, c)[d]
        /\ F(m, TRUE)[d] <= F(m, FALSE)[d]
  <2> SUFFICES ASSUME NEW m \in Int, NEW c \in BOOLEAN, NEW d \in D
               PROVE  /\ CashOn(d, m, future, c) \in Int
                      /\ CashOn(d, m, future, c) + n = CashOn(d, m + n, future, c)
                      /\ CashOn(d, m, future, TRUE) <= CashOn(d, m, future, FALSE)
    OBVIOUS
  <2>1. d \in Nat
    BY <1>1
  <2> HIDE DEF D, F
  <2>2. CashOn(d, m, future, c) \in Int
    BY <2>1, CashOrder, Zenon
  <2>3. CashOn(d, m, future, c) + n = CashOn(d, m + n, future, c)
    BY <2>1, CashShift
  <2>4. CashOn(d, m, future, TRUE) <= CashOn(d, m, future, FALSE)
    BY <2>1, CashOrder, Zenon
  <2> QED BY <2>2, <2>3, <2>4
<1>3. \A m \in Int, c \in BOOLEAN : LowPoint(m, future, c) = Least(F(m, c), D)
  BY DEF LowPoint, Least
<1> HIDE DEF F, D
<1>4. /\ Least(F(start, cautious), D) \in Int
      /\ Least(F(start, cautious), D) + n <= Least(F(start + n, cautious), D)
  <2>1. \A d \in D : /\ F(start, cautious)[d] \in Int /\ F(start + n, cautious)[d] \in Int
                     /\ F(start, cautious)[d] + n <= F(start + n, cautious)[d]
    <3>1. start + n \in Int
      OBVIOUS
    <3>2. /\ \A d \in D : F(start, cautious)[d] \in Int
          /\ \A d \in D : F(start, cautious)[d] + n = F(start + n, cautious)[d]
          /\ \A d \in D : F(start + n, cautious)[d] \in Int
      BY <1>2, <3>1
    <3> QED BY <3>2
  <2> DEFINE f == F(start, cautious)
             g == F(start + n, cautious)
  <2> HIDE DEF f, g
  <2>0. 0 \in Int
    OBVIOUS
  <2>2. /\ Least(f, D) \in Int
        /\ Least(f, D) + n <= Least(g, D)
    <3>1. \A d \in D : f[d] \in Int /\ g[d] \in Int /\ f[d] + n <= g[d]
      BY <2>1 DEF f, g
    <3> QED BY <3>1, <1>1, LeastOrder
  <2> QED BY <2>2 DEF f, g
<1>5. Least(F(start, TRUE), D) <= Least(F(start, FALSE), D)
  <2> DEFINE f == F(start, TRUE)
             g == F(start, FALSE)
  <2>1. \A d \in D : f[d] \in Int /\ g[d] \in Int /\ f[d] <= g[d]
    BY <1>2
  <2>2. PICK z \in Int : z = 0
    OBVIOUS
  <2> HIDE DEF f, g
  <2>3. \A d \in D : f[d] \in Int /\ g[d] \in Int /\ f[d] + z <= g[d]
    BY <2>1, <2>2
  <2>4. Least(f, D) \in Int /\ Least(g, D) \in Int /\ Least(f, D) + z <= Least(g, D)
    BY <2>3, <1>1, LeastOrder
  <2>5. Least(f, D) <= Least(g, D)
    BY <2>2, <2>4
  <2> QED BY <2>5 DEF f, g
<1>6. start + n \in Int
  OBVIOUS
<1> QED BY <1>3, <1>4, <1>5, <1>6

-----------------------------------------------------------------------------
(*****************************************************************************)
(* What a set of actions moves                                               *)
(*****************************************************************************)

\* What some actions move together
Amount(rows, S) == SumFunctionOnSet([i \in S |-> rows[i].amount], S)

LEMMA MovedIs == ASSUME NEW S PROVE Moved(S) = Amount(actions, S)
BY DEF Moved, Amount

LEMMA AmountType ==
  ASSUME NEW S, IsFiniteSet(S), NEW rows, \A i \in S : rows[i].amount \in Nat
  PROVE  Amount(rows, S) \in Nat
<1> DEFINE f == [i \in S |-> rows[i].amount]
<1>1. \A i \in S : f[i] \in Nat
  OBVIOUS
<1>2. SumFunctionOnSet(f, S) \in Nat
  <2> HIDE DEF f
  <2> QED BY <1>1, SumNat
<1> QED BY <1>2 DEF Amount

LEMMA AmountEmpty == ASSUME NEW rows PROVE Amount(rows, {}) = 0
BY SumEmpty DEF Amount

LEMMA AmountSame ==
  ASSUME NEW S, IsFiniteSet(S), NEW rows, NEW others,
         \A i \in S : rows[i].amount \in Nat /\ others[i].amount = rows[i].amount
  PROVE  Amount(others, S) = Amount(rows, S)
<1>1. [i \in S |-> others[i].amount] = [i \in S |-> rows[i].amount]
  OBVIOUS
<1> QED BY <1>1 DEF Amount

LEMMA AmountUnion ==
  ASSUME NEW S, IsFiniteSet(S), NEW rows, \A i \in S : rows[i].amount \in Nat,
         NEW T \in SUBSET S
  PROVE  Amount(rows, S) = Amount(rows, T) + Amount(rows, S \ T)
<1> DEFINE f == [i \in S |-> rows[i].amount]
           g == [i \in T |-> rows[i].amount]
           h == [i \in S \ T |-> rows[i].amount]
<1>1. \A i \in S : f[i] \in Int
  OBVIOUS
<1>2. \A i \in T : f[i] \in Int /\ g[i] = f[i]
  OBVIOUS
<1>3. \A i \in S \ T : f[i] \in Int /\ h[i] = f[i]
  OBVIOUS
<1>4. IsFiniteSet(T) /\ IsFiniteSet(S \ T)
  BY FS_Subset, FS_Difference
<1> HIDE DEF f, g, h
<1>5. SumFunctionOnSet(f, S) = SumFunctionOnSet(f, T) + SumFunctionOnSet(f, S \ T)
  BY <1>1, SumUnion
<1>6. SumFunctionOnSet(g, T) = SumFunctionOnSet(f, T)
  BY <1>2, <1>4, SumSame
<1>7. SumFunctionOnSet(h, S \ T) = SumFunctionOnSet(f, S \ T)
  BY <1>3, <1>4, SumSame
<1>8. /\ Amount(rows, S) = SumFunctionOnSet(f, S) /\ Amount(rows, T) = SumFunctionOnSet(g, T)
      /\ Amount(rows, S \ T) = SumFunctionOnSet(h, S \ T)
  BY DEF Amount, f, g, h
<1> QED BY <1>5, <1>6, <1>7, <1>8

\* Fewer actions of the same amounts move no more.
LEMMA AmountLess ==
  ASSUME NEW S, IsFiniteSet(S), NEW rows, NEW others, \A i \in S : rows[i].amount \in Nat,
         NEW T \in SUBSET S, \A i \in T : others[i].amount = rows[i].amount
  PROVE  /\ Amount(others, T) \in Nat /\ Amount(rows, S) \in Nat
         /\ Amount(others, T) <= Amount(rows, S)
<1>1. IsFiniteSet(T) /\ IsFiniteSet(S \ T)
  BY FS_Subset, FS_Difference
<1>2. /\ Amount(rows, S) \in Nat /\ Amount(rows, S \ T) \in Nat /\ Amount(others, T) \in Nat
  BY <1>1, AmountType
<1>3. Amount(rows, S) = Amount(rows, T) + Amount(rows, S \ T)
  BY AmountUnion
<1>4. Amount(others, T) = Amount(rows, T)
  BY <1>1, AmountSame
<1> QED BY <1>2, <1>3, <1>4

LEMMA AmountOne ==
  ASSUME NEW S, IsFiniteSet(S), NEW rows, \A i \in S : rows[i].amount \in Nat, NEW k \in S
  PROVE  /\ Amount(rows, S) \in Nat /\ Amount(rows, S \ {k}) \in Nat
         /\ Amount(rows, S) = rows[k].amount + Amount(rows, S \ {k})
<1> DEFINE f == [i \in S |-> rows[i].amount]
           h == [i \in S \ {k} |-> rows[i].amount]
<1>1. \A i \in S : f[i] \in Int
  OBVIOUS
<1>2. \A i \in S \ {k} : f[i] \in Int /\ h[i] = f[i]
  OBVIOUS
<1>3. IsFiniteSet(S \ {k}) /\ f[k] = rows[k].amount
  BY FS_RemoveElement
<1> HIDE DEF f, h
<1>4. SumFunctionOnSet(f, S) = f[k] + SumFunctionOnSet(f, S \ {k})
  BY <1>1, SumRemove
<1>5. SumFunctionOnSet(h, S \ {k}) = SumFunctionOnSet(f, S \ {k})
  BY <1>2, <1>3, SumSame
<1>6. Amount(rows, S) = SumFunctionOnSet(f, S) /\ Amount(rows, S \ {k}) = SumFunctionOnSet(h, S \ {k})
  BY DEF Amount, f, h
<1>7. Amount(rows, S) \in Nat /\ Amount(rows, S \ {k}) \in Nat
  BY <1>3, AmountType
<1> QED BY <1>3, <1>4, <1>5, <1>6, <1>7

-----------------------------------------------------------------------------
(*****************************************************************************)
(* The invariant of the allocations                                          *)
(*                                                                           *)
(* Books: how far each session is and what it has in hand. Funds: what a     *)
(* run may still move, and has moved, stays within its surplus less what     *)
(* its planner has left. Calm: what a planner that ran alone has left        *)
(* stays within what the scope has above its floor, and each gap within      *)
(* what its wallet lacks.                                                    *)
(*****************************************************************************)

Statuses == {"planned", "dispatching", "initiated", "verified", "failed", "blocked_policy"}
Transfers == {"none", "active", "done", "arrived", "failed"}
ActionRows == [run : Nat, from : Sources, to : Wallets, amount : MinTransfer..MaxSingle,
               status : Statuses, transfer : Transfers]
Prints == [Sources -> Int] \X [Wallets -> Nat] \X [Sources -> Policies] \X Futures
RunRows == [print : Prints, low : Int, base : Int, surplus : Nat, plan : PlanStates]
FunderRows ==
  [pc : {"idle", "resuming", "planning", "choosing", "dispatching", "noting"}, run : Nat,
   left : Nat, gap : [Wallets -> Nat] \cup {<<>>}, queue : SUBSET Sources, todo : SUBSET Nat,
   act : Nat, seen : Transfers, back : {"idle", "resuming", "choosing"}, alone : BOOLEAN]

FundTypes ==
  /\ cash \in [Sources -> Int] /\ purse \in [Wallets -> Nat]
  /\ policy \in [Sources -> Policies] /\ ahead \in Futures
  /\ runs \in Seq(RunRows) /\ actions \in Seq(ActionRows)
  /\ funder \in [Funders -> FunderRows]
  /\ turns \in 0..TurnLimit /\ begun \in 0..CycleLimit /\ shared \subseteq DOMAIN runs
  /\ chosen \in [Sources -> {"none", "operating", "disabled"}]

\* Session f plans run r, or session f is about to make a transfer or note it.
Plan(f, r) == funder[f].pc # "planning" /\ funder[f].run = r
Moving(f) == funder[f].pc \in {"dispatching", "noting"}
InHand(f, i) == i \in funder[f].todo \/ funder[f].act = i

\* How far a session is
SessionOK(f) ==
  LET m == funder[f] IN
  /\ m.run \in 0..Len(runs) /\ m.act \in 0..Len(actions) /\ m.todo \subseteq DOMAIN actions
  /\ m.pc \in {"idle", "resuming"} => m.run = 0
  /\ m.pc \in {"planning", "choosing"} => m.run # 0 /\ m.todo = {}
  /\ Moving(f) <=> m.act # 0
  /\ m.alone => m.run # 0
  /\ m.run # 0 /\ m.pc # "planning" => m.gap \in [Wallets -> Nat]

\* How far a session is with an action
AtWork(f) ==
  LET m == funder[f] IN
  Moving(f) =>
    /\ m.back \in {"resuming", "choosing"} /\ (m.back = "resuming" <=> m.run = 0)
    /\ m.back = "choosing" =>
         /\ m.todo = {} /\ actions[m.act].run = m.run /\ actions[m.act].amount <= m.left
         /\ actions[m.act].to # "savings" => actions[m.act].amount <= m.gap[actions[m.act].to]
    /\ m.pc = "noting" => /\ actions[m.act].transfer # "none" /\ m.seen # "none"
                          /\ m.seen = "failed" => actions[m.act].transfer = "failed"

PlanOpen(f) ==
  LET m == funder[f] IN
  m.run # 0 /\ m.pc # "planning" =>
    /\ runs[m.run].plan \in {"flushed", "planning"}
    /\ Moving(f) => runs[m.run].plan = "planning"

\* A run has one planner, and actions only when it was planned.
PlansOK ==
  /\ \A i \in DOMAIN actions : /\ actions[i].run \in DOMAIN runs
                               /\ runs[actions[i].run].plan \in {"planning", "settled"}
  /\ \A f, g \in Funders : \A r \in DOMAIN runs : Plan(f, r) /\ Plan(g, r) => f = g

Books == /\ FundTypes
         /\ \A f \in Funders : SessionOK(f) /\ AtWork(f) /\ PlanOpen(f)
         /\ PlansOK

\* What may still be moved for a run, or was
MayGo(i) == /\ actions[i].transfer = "none"
            /\ actions[i].status \in {"planned", "dispatching"} \/ \E f \in Funders : InHand(f, i)
Live(r) ==
  {i \in DOMAIN actions : actions[i].run = r /\ (actions[i].transfer \notin Gone \/ MayGo(i))}

\* The planner of a run that nobody else takes on is the only one at its actions.
OwnHands ==
  \A f, g \in Funders, r \in DOMAIN runs :
    f # g /\ Plan(f, r) /\ r \notin shared =>
      \A i \in DOMAIN actions : InHand(g, i) => actions[i].run # r

\* What a run still may move is within its surplus, less what its planner has left.
Budgeted(r) ==
  r \notin shared =>
    /\ (\A f \in Funders : ~Plan(f, r)) => Amount(actions, Live(r)) <= runs[r].surplus
    /\ \A f \in Funders : Plan(f, r) =>
         Amount(actions, Live(r) \ {funder[f].act}) + funder[f].left <= runs[r].surplus

\* What the scope has above its floor, by what is future
StartOf(c, p, pol) ==
  SumFunctionOnSet(c, {a \in Sources : pol[a].role # "disabled"}) + SumFunctionOnSet(p, Wallets)
ProtectedOf(pol) ==
  Floor * Cardinality({a \in {b \in Sources : pol[b].role # "disabled"} : pol[a].role = "operating"})
Spare(c, p, pol, future) == LowPoint(StartOf(c, p, pol), future, TRUE) - ProtectedOf(pol)
Here == Spare(cash, purse, policy, ahead)

RunsOK ==
  \A r \in DOMAIN runs :
    /\ runs[r].low <= runs[r].base
    /\ runs[r].surplus = Positive(Spare(runs[r].print[1], runs[r].print[2], runs[r].print[3],
                                        runs[r].print[4]))

\* A planner that ran alone since its forecast
On(f) ==
  IF funder[f].pc = "noting" /\ funder[f].seen # "failed" THEN actions[funder[f].act].amount ELSE 0
OnFor(f, w) == IF funder[f].pc = "noting" /\ actions[funder[f].act].to = w THEN On(f) ELSE 0
Again(f, w) ==
  \E i \in DOMAIN actions :
    /\ ~(funder[f].pc = "dispatching" /\ i = funder[f].act)
    /\ actions[i].run = funder[f].run /\ actions[i].to = w
Lacking(f, w) ==
  \/ funder[f].gap[w] - OnFor(f, w) <= 0
  \/ funder[f].gap[w] - OnFor(f, w) <= Target - Filled(w)
  \/ w = "spending" /\ Again(f, w)
AloneOK(f) ==
  funder[f].alone =>
    /\ policy = Tidy
    /\ funder[f].pc = "planning" => runs[funder[f].run].surplus <= Positive(Here)
    /\ funder[f].pc # "planning" =>
         /\ funder[f].left - On(f) > 0 => funder[f].left - On(f) <= Here
         /\ \A w \in Wallets \ {"savings"} : Lacking(f, w)
         /\ funder[f].pc = "dispatching" => actions[funder[f].act].transfer = "none"

ChosenOK ==
  \A a \in Sources : chosen[a] # "none" => policy[a].role = chosen[a] /\ ~policy[a].plain

FundInv ==
  /\ Books /\ OwnHands /\ (\A r \in DOMAIN runs : Budgeted(r)) /\ RunsOK
  /\ (\A f \in Funders : AloneOK(f)) /\ ChosenOK /\ strained = {}

-----------------------------------------------------------------------------
(*****************************************************************************)
(* What each step does to the books                                          *)
(*****************************************************************************)

\* No action is lost or changes what it moves; a transfer that was made stays made.
RowsKept ==
  /\ Len(actions) <= Len(actions')
  /\ \A i \in DOMAIN actions :
       /\ i \in DOMAIN actions'
       /\ actions'[i].run = actions[i].run /\ actions'[i].to = actions[i].to
       /\ actions'[i].from = actions[i].from /\ actions'[i].amount = actions[i].amount
       /\ actions[i].transfer # "none" => actions'[i].transfer # "none"
       /\ actions[i].transfer = "failed" => actions'[i].transfer = "failed"
\* Every action is there, and its transfer as it was.
Rewritten ==
  /\ actions' \in Seq(ActionRows) /\ DOMAIN actions' = DOMAIN actions /\ Len(actions') = Len(actions)
  /\ \A i \in DOMAIN actions :
       /\ actions'[i].run = actions[i].run /\ actions'[i].to = actions[i].to
       /\ actions'[i].from = actions[i].from /\ actions'[i].amount = actions[i].amount
StatusOnly == Rewritten /\ \A i \in DOMAIN actions : actions'[i].transfer = actions[i].transfer

LEMMA TypeFacts ==
  ASSUME AllocationAssumption, FundTypes
  PROVE  /\ Len(runs) \in Nat /\ DOMAIN runs = 1..Len(runs) /\ \A r \in DOMAIN runs : runs[r] \in RunRows
         /\ Len(actions) \in Nat /\ DOMAIN actions = 1..Len(actions)
         /\ \A i \in DOMAIN actions : actions[i] \in ActionRows
         /\ \A f \in Funders : funder[f] \in FunderRows
         /\ IsFiniteSet(DOMAIN actions) /\ IsFiniteSet(DOMAIN runs)
         /\ IsFiniteSet(Sources) /\ IsFiniteSet(Wallets)
<1>1. /\ Len(runs) \in Nat /\ DOMAIN runs = 1..Len(runs) /\ \A r \in DOMAIN runs : runs[r] \in RunRows
  BY DEF FundTypes
<1>2. /\ Len(actions) \in Nat /\ DOMAIN actions = 1..Len(actions)
      /\ \A i \in DOMAIN actions : actions[i] \in ActionRows
  BY DEF FundTypes
<1>3. IsFiniteSet(DOMAIN actions) /\ IsFiniteSet(DOMAIN runs)
  <2>1. 1 \in Int /\ Len(actions) \in Int /\ Len(runs) \in Int
    BY <1>1, <1>2
  <2>2. IsFiniteSet(1..Len(actions)) /\ IsFiniteSet(1..Len(runs))
    BY <2>1, FS_Interval
  <2> QED BY <2>2, <1>1, <1>2
<1>4. IsFiniteSet(Wallets)
  <2>1. IsFiniteSet({"spending"} \cup {"tax"} \cup {"reserve"} \cup {"savings"})
    <3>1. IsFiniteSet({"spending"})
      BY FS_Singleton
    <3>2. IsFiniteSet({"spending"} \cup {"tax"})
      BY <3>1, FS_AddElement
    <3>3. IsFiniteSet({"spending"} \cup {"tax"} \cup {"reserve"})
      BY <3>2, FS_AddElement
    <3> QED BY <3>3, FS_AddElement
  <2>2. Wallets \in SUBSET ({"spending"} \cup {"tax"} \cup {"reserve"} \cup {"savings"})
    BY DEF AllocationAssumption
  <2> QED BY <2>1, <2>2, FS_Subset
<1> QED BY <1>1, <1>2, <1>3, <1>4 DEF FundTypes, AllocationAssumption

LEMMA RowsFacts ==
  ASSUME AllocationAssumption, NEW a \in ActionRows
  PROVE  /\ a.run \in Nat /\ a.from \in Sources /\ a.to \in Wallets /\ a.amount \in Nat /\ a.amount > 0
         /\ a.amount \in MinTransfer..MaxSingle /\ a.status \in Statuses /\ a.transfer \in Transfers
BY Numbers DEF ActionRows

LEMMA Rewriting ==
  ASSUME AllocationAssumption, FundTypes, NEW rows \in [DOMAIN actions -> ActionRows], actions' = rows,
         \A i \in DOMAIN actions :
           /\ rows[i].run = actions[i].run /\ rows[i].to = actions[i].to
           /\ rows[i].from = actions[i].from /\ rows[i].amount = actions[i].amount
  PROVE  Rewritten
<1>1. Len(actions) \in Nat /\ DOMAIN actions = 1..Len(actions)
  BY TypeFacts
<1>2. rows \in Seq(ActionRows) /\ Len(rows) = Len(actions) /\ DOMAIN rows = DOMAIN actions
  BY <1>1
<1> QED BY <1>2 DEF Rewritten

LEMMA StatusSet ==
  ASSUME AllocationAssumption, FundTypes, NEW i \in DOMAIN actions, NEW v \in Statuses,
         actions' = [actions EXCEPT ![i].status = v]
  PROVE  /\ StatusOnly /\ actions'[i].status = v
         /\ \A j \in DOMAIN actions \ {i} : actions'[j] = actions[j]
<1> DEFINE rows == [actions EXCEPT ![i].status = v]
<1>1. /\ \A j \in DOMAIN actions : actions[j] \in ActionRows /\ rows[j] \in ActionRows
      /\ DOMAIN rows = DOMAIN actions /\ rows = [j \in DOMAIN actions |-> rows[j]]
  <2>1. actions[i] \in ActionRows
    BY TypeFacts
  <2>2. [actions[i] EXCEPT !.status = v] \in ActionRows
    BY <2>1 DEF ActionRows
  <2> QED BY <2>2, TypeFacts
<1>2. /\ rows[i].run = actions[i].run /\ rows[i].to = actions[i].to /\ rows[i].from = actions[i].from
      /\ rows[i].amount = actions[i].amount /\ rows[i].transfer = actions[i].transfer
      /\ rows[i].status = v
  BY <1>1 DEF ActionRows
<1>3. \A j \in DOMAIN actions \ {i} : rows[j] = actions[j]
  OBVIOUS
<1>4. rows \in [DOMAIN actions -> ActionRows]
  BY <1>1
<1> HIDE DEF rows
<1>5. Rewritten
  <2>1. \A j \in DOMAIN actions : rows[j].run = actions[j].run /\ rows[j].to = actions[j].to
          /\ rows[j].from = actions[j].from
      /\ rows[j].amount = actions[j].amount
    BY <1>2, <1>3
  <2>2. actions' = rows
    BY DEF rows
  <2> QED BY <1>4, <2>1, <2>2, Rewriting
<1>6. actions' = rows
  BY DEF rows
<1> QED BY <1>2, <1>3, <1>5, <1>6 DEF StatusOnly

LEMMA TransferSet ==
  ASSUME AllocationAssumption, FundTypes, NEW i \in DOMAIN actions, NEW v \in Transfers,
         actions' = [actions EXCEPT ![i].transfer = v]
  PROVE  /\ Rewritten /\ actions'[i].transfer = v /\ actions'[i].status = actions[i].status
         /\ \A j \in DOMAIN actions \ {i} : actions'[j] = actions[j]
<1> DEFINE rows == [actions EXCEPT ![i].transfer = v]
<1>1. /\ \A j \in DOMAIN actions : actions[j] \in ActionRows /\ rows[j] \in ActionRows
      /\ DOMAIN rows = DOMAIN actions /\ rows = [j \in DOMAIN actions |-> rows[j]]
  <2>1. actions[i] \in ActionRows
    BY TypeFacts
  <2>2. [actions[i] EXCEPT !.transfer = v] \in ActionRows
    BY <2>1 DEF ActionRows
  <2> QED BY <2>2, TypeFacts
<1>2. /\ rows[i].run = actions[i].run /\ rows[i].to = actions[i].to /\ rows[i].from = actions[i].from
      /\ rows[i].amount = actions[i].amount /\ rows[i].transfer = v
      /\ rows[i].status = actions[i].status
  BY <1>1 DEF ActionRows
<1>3. \A j \in DOMAIN actions \ {i} : rows[j] = actions[j]
  OBVIOUS
<1>4. rows \in [DOMAIN actions -> ActionRows]
  BY <1>1
<1> HIDE DEF rows
<1>6. actions' = rows
  BY DEF rows
<1>5. Rewritten
  <2>1. \A j \in DOMAIN actions : rows[j].run = actions[j].run /\ rows[j].to = actions[j].to
          /\ rows[j].from = actions[j].from
      /\ rows[j].amount = actions[j].amount
    BY <1>2, <1>3
  <2> QED BY <1>4, <2>1, <1>6, Rewriting
<1> QED BY <1>2, <1>3, <1>5, <1>6

LEMMA MirroredType ==
  ASSUME NEW status \in Statuses, NEW transfer \in Transfers
  PROVE  Mirrored(status, transfer) \in Statuses
BY DEF Mirrored, Statuses, Transfers

LEMMA Reconciling ==
  ASSUME AllocationAssumption, FundTypes, actions' = Reconciled
  PROVE  /\ StatusOnly
         /\ \A i \in DOMAIN actions :
              actions[i].transfer = "none" =>
                \/ actions'[i].status = actions[i].status
                \/ actions[i].status = "dispatching" /\ actions'[i].status = "planned"
<1> DEFINE rows == Reconciled
<1>1. \A i \in DOMAIN actions :
        /\ rows[i] = actions[i] \/ /\ actions[i].status \in {"dispatching", "initiated"}
                                   /\ rows[i] = [actions[i] EXCEPT !.status = Mirrored(@,
                                      actions[i].transfer)]
  BY DEF Reconciled
<1>2. \A i \in DOMAIN actions : actions[i] \in ActionRows
  BY TypeFacts
<1>3. ASSUME NEW i \in DOMAIN actions
      PROVE  /\ rows[i] \in ActionRows
             /\ rows[i].run = actions[i].run /\ rows[i].to = actions[i].to
             /\ rows[i].from = actions[i].from /\ rows[i].amount = actions[i].amount
             /\ rows[i].transfer = actions[i].transfer
             /\ actions[i].transfer = "none" =>
                  \/ rows[i].status = actions[i].status
                  \/ actions[i].status = "dispatching" /\ rows[i].status = "planned"
  <2> HIDE DEF rows
  <2>1. CASE rows[i] = actions[i]
    BY <1>2, <2>1 DEF ActionRows
  <2>2. CASE /\ actions[i].status \in {"dispatching", "initiated"}
             /\ rows[i] = [actions[i] EXCEPT !.status = Mirrored(@, actions[i].transfer)]
    <3> DEFINE v == Mirrored(actions[i].status, actions[i].transfer)
    <3>1. v \in Statuses
      BY <1>2, MirroredType DEF ActionRows
    <3>2. actions[i].transfer = "none" => v = actions[i].status
            \/ (actions[i].status = "dispatching" /\ v = "planned")
      <4> SUFFICES ASSUME actions[i].transfer = "none"
                   PROVE  v = actions[i].status \/ (actions[i].status = "dispatching" /\ v = "planned")
        OBVIOUS
      <4>1. v = IF actions[i].status = "dispatching" THEN "planned" ELSE actions[i].status
        BY DEF Mirrored
      <4> QED BY <4>1
    <3>3. rows[i] = [actions[i] EXCEPT !.status = v]
      BY <2>2
    <3> HIDE DEF v
    <3> QED BY <1>2, <3>1, <3>2, <3>3 DEF ActionRows
  <2> QED BY <1>1, <2>1, <2>2
<1>4. rows \in [DOMAIN actions -> ActionRows]
  <2>1. rows = [i \in DOMAIN actions |-> rows[i]]
    BY DEF Reconciled
  <2> HIDE DEF rows
  <2> QED BY <2>1, <1>3
<1>5. Rewritten
  <2> HIDE DEF rows
  <2>1. actions' = rows
    BY DEF rows
  <2> QED BY <2>1, <1>3, <1>4, Rewriting
<1> QED BY <1>3, <1>5 DEF StatusOnly

LEMMA RewrittenKept ==
  ASSUME AllocationAssumption, FundTypes, Rewritten,
         \A i \in DOMAIN actions :
           /\ actions[i].transfer # "none" => actions'[i].transfer # "none"
           /\ actions[i].transfer = "failed" => actions'[i].transfer = "failed"
  PROVE  RowsKept
BY TypeFacts DEF Rewritten, RowsKept

LEMMA StatusOnlyKept ==
  ASSUME AllocationAssumption, FundTypes, StatusOnly
  PROVE  RowsKept
BY RewrittenKept DEF StatusOnly

LEMMA UnchangedRows ==
  ASSUME AllocationAssumption, FundTypes, actions' = actions
  PROVE  StatusOnly
BY TypeFacts DEF StatusOnly, Rewritten, FundTypes

LEMMA SessionSet ==
  ASSUME FundTypes, NEW s \in Funders, NEW m \in FunderRows, Fund(s, m)
  PROVE  /\ funder' \in [Funders -> FunderRows] /\ funder'[s] = m
         /\ \A f \in Funders \ {s} : funder'[f] = funder[f]
BY DEF FundTypes, Fund

\* What a step leaves of a session that does not take it
LEMMA OthersKept ==
  ASSUME AllocationAssumption, Books, NEW f \in Funders, RowsKept, Len(runs) <= Len(runs'),
         Len(runs') \in Nat,
         Len(actions') \in Nat,
         funder'[f] = funder[f] \/ funder'[f] = [funder[f] EXCEPT !.alone = FALSE],
         \A r \in DOMAIN runs : Plan(f, r) => runs'[r].plan = runs[r].plan
  PROVE  SessionOK(f)' /\ AtWork(f)' /\ PlanOpen(f)'
<1>1. funder[f] \in FunderRows /\ SessionOK(f) /\ AtWork(f) /\ PlanOpen(f)
  BY TypeFacts DEF Books
<1>2. /\ funder'[f].pc = funder[f].pc /\ funder'[f].run = funder[f].run /\ funder'[f].act = funder[f].act
      /\ funder'[f].todo = funder[f].todo /\ funder'[f].gap = funder[f].gap
         /\ funder'[f].left = funder[f].left
      /\ funder'[f].back = funder[f].back /\ funder'[f].seen = funder[f].seen
      /\ funder'[f].alone => funder[f].alone
  BY <1>1 DEF FunderRows
<1>3. /\ funder[f].run \in Nat /\ funder[f].act \in Nat /\ Len(runs) \in Nat /\ Len(actions) \in Nat
      /\ DOMAIN actions = 1..Len(actions) /\ DOMAIN runs = 1..Len(runs)
  BY <1>1, TypeFacts DEF FunderRows, Books
<1>4. SessionOK(f)'
  BY <1>1, <1>2, <1>3 DEF SessionOK, Moving, RowsKept
<1>5. AtWork(f)'
  <2>1. Moving(f) => funder[f].act \in DOMAIN actions
    BY <1>1, <1>3 DEF SessionOK
  <2>2. Moving(f)' <=> Moving(f)
    BY <1>2 DEF Moving
  <2> QED BY <1>1, <1>2, <2>1, <2>2 DEF AtWork, RowsKept
<1>6. PlanOpen(f)'
  <2>1. funder[f].run # 0 => funder[f].run \in DOMAIN runs
    BY <1>1, <1>3 DEF SessionOK
  <2>2. Moving(f)' <=> Moving(f)
    BY <1>2 DEF Moving
  <2>3. funder[f].run # 0 /\ funder[f].pc # "planning"
          => runs'[funder[f].run].plan = runs[funder[f].run].plan
    BY <2>1 DEF Plan
  <2> QED BY <1>1, <1>2, <2>2, <2>3 DEF PlanOpen
<1> QED BY <1>4, <1>5, <1>6

OthersStay(s) == \A f \in Funders \ {s} : funder'[f] = funder[f]
  \/ funder'[f] = [funder[f] EXCEPT !.alone = FALSE]
OthersPlansStay(s) ==
  \A f \in Funders \ {s}, r \in DOMAIN runs : Plan(f, r) => runs'[r].plan = runs[r].plan

LEMMA BooksBy ==
  ASSUME AllocationAssumption, Books, FundTypes', NEW s \in Funders, RowsKept, Len(runs) <= Len(runs'),
         OthersStay(s), OthersPlansStay(s), (SessionOK(s) /\ AtWork(s) /\ PlanOpen(s))', PlansOK'
  PROVE  Books'
<1>1. Len(runs') \in Nat /\ Len(actions') \in Nat
  BY DEF FundTypes
<1>2. ASSUME NEW f \in Funders PROVE (SessionOK(f) /\ AtWork(f) /\ PlanOpen(f))'
  <2>1. CASE f = s
    BY <2>1
  <2>2. CASE f # s
    <3>1. f \in Funders \ {s}
      BY <2>2
    <3>2. funder'[f] = funder[f] \/ funder'[f] = [funder[f] EXCEPT !.alone = FALSE]
      BY <3>1 DEF OthersStay
    <3>3. \A r \in DOMAIN runs : Plan(f, r) => runs'[r].plan = runs[r].plan
      BY <3>1 DEF OthersPlansStay
    <3> QED BY <1>1, <3>2, <3>3, OthersKept
  <2> QED BY <2>1, <2>2
<1> QED BY <1>2 DEF Books

\* Without a new action or planner the plans stay as they should be.
LEMMA PlansBy ==
  ASSUME AllocationAssumption, Books, Rewritten, DOMAIN runs' = DOMAIN runs,
         \A r \in DOMAIN runs : runs[r].plan \in {"planning", "settled"}
           => runs'[r].plan \in {"planning", "settled"},
         \A f \in Funders, r \in DOMAIN runs : Plan(f, r)' => Plan(f, r)
  PROVE  PlansOK'
BY DEF Books, PlansOK, Rewritten

LEMMA BeginCycleBooks ==
  ASSUME AllocationAssumption, Books, NEW s \in Funders, BeginCycle(s)
  PROVE  Books' /\ StatusOnly /\ RowsKept
<1> DEFINE todo == {i \in DOMAIN actions : Reconciled[i].status = "planned"}
           m == [Waiting EXCEPT !.pc = "resuming", !.todo = todo]
<1>1. /\ funder[s].pc = "idle" /\ begun < CycleLimit /\ begun' = begun + 1 /\ actions' = Reconciled
      /\ shared' \subseteq shared \cup DOMAIN runs /\ Fund(s, m)
      /\ UNCHANGED <<cash, purse, policy, ahead, runs, turns, strained, chosen>>
  BY DEF BeginCycle
<1>2. FundTypes /\ DOMAIN actions \subseteq Nat
  BY TypeFacts DEF Books
<1>3. /\ m \in FunderRows /\ m.pc = "resuming" /\ m.run = 0 /\ m.act = 0 /\ m.todo = todo
         /\ m.alone = FALSE
      /\ todo \subseteq DOMAIN actions
  BY <1>2 DEF Waiting, FunderRows, Transfers
<1>4. StatusOnly /\ RowsKept
  BY <1>1, <1>2, Reconciling, StatusOnlyKept
<1> HIDE DEF m, todo
<1>5. funder' \in [Funders -> FunderRows] /\ funder'[s] = m
        /\ \A f \in Funders \ {s} : funder'[f] = funder[f]
  BY <1>1, <1>2, <1>3, SessionSet
<1>6. FundTypes'
  <2>1. begun' \in 0..CycleLimit
    BY <1>1, <1>2, Numbers DEF FundTypes
  <2> QED BY <1>1, <1>2, <1>4, <1>5, <2>1 DEF FundTypes, StatusOnly, Rewritten
<1>7. (SessionOK(s) /\ AtWork(s) /\ PlanOpen(s))'
  BY <1>1, <1>2, <1>3, <1>4, <1>5, TypeFacts DEF SessionOK, AtWork, PlanOpen, Moving, StatusOnly,
     Rewritten
<1>8. PlansOK'
  <2>1. \A f \in Funders, r \in DOMAIN runs : Plan(f, r)' => Plan(f, r)
    BY <1>2, <1>3, <1>5, TypeFacts DEF Plan
  <2> QED BY <1>1, <1>4, <2>1, PlansBy DEF StatusOnly
<1>9. Len(runs) <= Len(runs')
  BY <1>1, <1>2, TypeFacts
<1> QED BY <1>1, <1>4, <1>5, <1>6, <1>7, <1>8, <1>9, BooksBy DEF OthersStay, OthersPlansStay

LEMMA ResumeBooks ==
  ASSUME AllocationAssumption, Books, NEW s \in Funders, Resume(s)
  PROVE  Books' /\ StatusOnly /\ RowsKept
<1> DEFINE i == Min(funder[s].todo)
           m == [funder[s] EXCEPT !.pc = "dispatching", !.act = i, !.back = "resuming", !.todo = @ \ {i}]
<1>1. /\ funder[s].pc = "resuming" /\ funder[s].todo # {}
      /\ actions' = [actions EXCEPT ![i].status = "dispatching"] /\ Fund(s, m)
      /\ UNCHANGED <<cash, purse, policy, ahead, runs, turns, begun, shared, strained, chosen>>
  BY DEF Resume
<1>2. FundTypes /\ DOMAIN actions \subseteq Nat /\ DOMAIN actions = 1..Len(actions)
        /\ Len(actions) \in Nat
  BY TypeFacts DEF Books
<1>3. funder[s] \in FunderRows /\ funder[s].todo \subseteq DOMAIN actions /\ funder[s].run = 0
      /\ (funder[s].alone => funder[s].run # 0)
  BY <1>1, <1>2, TypeFacts DEF Books, SessionOK
<1>4. i \in funder[s].todo /\ i \in DOMAIN actions /\ i \in Nat /\ i # 0
  <2>1. funder[s].todo \in SUBSET Int /\ IsFiniteSet(funder[s].todo)
    BY <1>2, <1>3, TypeFacts, FS_Subset
  <2> QED BY <1>1, <1>2, <1>3, <2>1, MinIs
<1> HIDE DEF i
<1>5. /\ m \in FunderRows /\ m.pc = "dispatching" /\ m.run = 0 /\ m.act = i
         /\ m.todo \subseteq DOMAIN actions
      /\ m.back = "resuming" /\ m.alone = FALSE
  BY <1>3, <1>4 DEF FunderRows
<1>6. StatusOnly /\ RowsKept
  BY <1>1, <1>2, <1>4, StatusSet, StatusOnlyKept DEF Statuses
<1> HIDE DEF m
<1>7. funder' \in [Funders -> FunderRows] /\ funder'[s] = m
        /\ \A f \in Funders \ {s} : funder'[f] = funder[f]
  BY <1>1, <1>2, <1>5, SessionSet
<1>8. FundTypes'
  BY <1>1, <1>2, <1>6, <1>7 DEF FundTypes, StatusOnly, Rewritten
<1>9. (SessionOK(s) /\ AtWork(s) /\ PlanOpen(s))'
  BY <1>1, <1>2, <1>4, <1>5, <1>6, <1>7, TypeFacts DEF SessionOK, AtWork, PlanOpen, Moving,
     StatusOnly, Rewritten
<1>10. PlansOK'
  <2>1. \A f \in Funders, r \in DOMAIN runs : Plan(f, r)' => Plan(f, r)
    BY <1>2, <1>5, <1>7, TypeFacts DEF Plan
  <2> QED BY <1>1, <1>6, <2>1, PlansBy DEF StatusOnly
<1>11. Len(runs) <= Len(runs')
  BY <1>1, <1>2, TypeFacts
<1> QED BY <1>1, <1>6, <1>7, <1>8, <1>9, <1>10, <1>11, BooksBy DEF OthersStay, OthersPlansStay

LEMMA NoteBooks ==
  ASSUME AllocationAssumption, Books, NEW s \in Funders, Note(s)
  PROVE  Books' /\ StatusOnly /\ RowsKept
<1> DEFINE i == funder[s].act
           a == actions[i]
           spent == IF funder[s].seen = "failed" THEN 0 ELSE a.amount
           left == IF funder[s].back = "choosing" THEN Positive(funder[s].left - spent)
             ELSE funder[s].left
           gap == IF funder[s].back = "choosing"
                    THEN [w \in Wallets |-> IF w = a.to /\ w \in {"tax", "reserve"}
                                              THEN Positive(funder[s].gap[w] - spent)
                                                ELSE funder[s].gap[w]]
                    ELSE funder[s].gap
           m == [funder[s] EXCEPT !.pc = funder[s].back, !.act = 0, !.seen = "none", !.left = left,
             !.gap = gap]
           v == Mirrored(actions[i].status, funder[s].seen)
<1>1. /\ funder[s].pc = "noting"
      /\ actions' = [actions EXCEPT ![i].status = v] /\ Fund(s, m)
      /\ UNCHANGED <<cash, purse, policy, ahead, runs, turns, begun, shared, strained, chosen>>
  BY DEF Note
<1>2. FundTypes /\ DOMAIN actions \subseteq Nat /\ DOMAIN actions = 1..Len(actions)
        /\ Len(actions) \in Nat
  BY TypeFacts DEF Books
<1>3. /\ funder[s] \in FunderRows /\ funder[s].back \in {"resuming", "choosing"}
      /\ (funder[s].back = "resuming" <=> funder[s].run = 0) /\ funder[s].run \in 0..Len(runs)
      /\ (funder[s].back = "choosing" => funder[s].todo = {} /\ funder[s].gap \in [Wallets -> Nat])
      /\ i \in DOMAIN actions /\ funder[s].todo \subseteq DOMAIN actions
      /\ (funder[s].run # 0 => runs[funder[s].run].plan = "planning")
      /\ (funder[s].alone => funder[s].run # 0)
  BY <1>1, <1>2, TypeFacts DEF Books, SessionOK, AtWork, PlanOpen, Moving
<1>4. spent \in Nat
  BY <1>2, <1>3, TypeFacts, RowsFacts
<1> HIDE DEF spent
<1>5. left \in Nat /\ gap \in [Wallets -> Nat] \cup {<<>>}
        /\ (funder[s].run # 0 => gap \in [Wallets -> Nat])
  <2>1. \A n \in Nat : Positive(n - spent) \in Nat
    BY <1>4 DEF Positive
  <2>2. funder[s].left \in Nat /\ funder[s].gap \in [Wallets -> Nat] \cup {<<>>}
    BY <1>3 DEF FunderRows
  <2> QED BY <1>3, <2>1, <2>2
<1> HIDE DEF left, gap
<1>6. /\ m \in FunderRows /\ m.pc = funder[s].back /\ m.run = funder[s].run /\ m.act = 0
         /\ m.todo = funder[s].todo
      /\ m.gap = gap /\ m.alone = funder[s].alone
  BY <1>3, <1>5 DEF FunderRows, Transfers
<1>7. v \in Statuses
  <2>1. actions[i].status \in Statuses /\ funder[s].seen \in Transfers
    BY <1>2, <1>3, TypeFacts DEF ActionRows, FunderRows
  <2> QED BY <2>1, MirroredType
<1> HIDE DEF v
<1>8. StatusOnly /\ RowsKept
  BY <1>1, <1>2, <1>3, <1>7, StatusSet, StatusOnlyKept
<1> HIDE DEF m
<1>9. funder' \in [Funders -> FunderRows] /\ funder'[s] = m
        /\ \A f \in Funders \ {s} : funder'[f] = funder[f]
  BY <1>1, <1>2, <1>6, SessionSet
<1>10. FundTypes'
  BY <1>1, <1>2, <1>8, <1>9 DEF FundTypes, StatusOnly, Rewritten
<1>11. (SessionOK(s) /\ AtWork(s) /\ PlanOpen(s))'
  BY <1>1, <1>2, <1>3, <1>5, <1>6, <1>8, <1>9, TypeFacts
     DEF SessionOK, AtWork, PlanOpen, Moving, StatusOnly, Rewritten
<1>12. PlansOK'
  <2>1. \A f \in Funders, r \in DOMAIN runs : Plan(f, r)' => Plan(f, r)
    BY <1>1, <1>2, <1>6, <1>9, TypeFacts DEF Plan
  <2> QED BY <1>1, <1>8, <2>1, PlansBy DEF StatusOnly
<1>13. Len(runs) <= Len(runs')
  BY <1>1, <1>2, TypeFacts
<1> QED BY <1>1, <1>8, <1>9, <1>10, <1>11, <1>12, <1>13, BooksBy DEF OthersStay, OthersPlansStay

LEMMA ForecastTypes ==
  ASSUME AllocationAssumption, FundTypes
  PROVE  NewRun \in RunRows /\ Fingerprint \in Prints /\ NewRun.print = Fingerprint
         /\ NewRun.plan = "none" /\ NewRun.surplus = Positive(Here) /\ NewRun.low <= NewRun.base
<1>1. Start \in Int /\ Start = StartOf(cash, purse, policy)
  <2>1. SumFunctionOnSet(cash, Managed) \in Int /\ SumFunctionOnSet(purse, Wallets) \in Int
    <3>1. /\ IsFiniteSet(Managed) /\ IsFiniteSet(Wallets)
          /\ \A a \in Managed : cash[a] \in Int
          /\ \A w \in Wallets : purse[w] \in Int
      BY TypeFacts, FS_Subset DEF Managed, FundTypes
    <3> QED BY <3>1, SumType
  <2> QED BY <2>1 DEF Start, StartOf, Managed
<1>2. Protected \in Nat /\ Protected = ProtectedOf(policy)
  <2>1. Cardinality({a \in Managed : policy[a].role = "operating"}) \in Nat
    <3>1. IsFiniteSet({a \in Managed : policy[a].role = "operating"})
      BY TypeFacts, FS_Subset DEF Managed
    <3> QED BY <3>1, FS_CardinalityType
  <2> QED BY <2>1, Numbers DEF Protected, ProtectedOf, Managed
<1>3. ahead \in Futures
  BY DEF FundTypes
<1>4. /\ LowPoint(Start, ahead, TRUE) \in Int /\ LowPoint(Start, ahead, FALSE) \in Int
      /\ LowPoint(Start, ahead, TRUE) <= LowPoint(Start, ahead, FALSE)
  <2>1. 0 \in Int /\ TRUE \in BOOLEAN /\ FALSE \in BOOLEAN
    OBVIOUS
  <2>2. LowPoint(Start, ahead, TRUE) \in Int
          /\ LowPoint(Start, ahead, TRUE) <= LowPoint(Start, ahead, FALSE)
    BY <1>1, <1>3, <2>1, LowOrder
  <2>3. LowPoint(Start, ahead, FALSE) \in Int
    BY <1>1, <1>3, <2>1, LowOrder
  <2> QED BY <2>2, <2>3
<1>5. Fingerprint \in Prints
  BY DEF FundTypes, Prints, Fingerprint
<1>6. Low \in Int /\ Here = Low - Protected
  BY <1>1, <1>2, <1>4 DEF Low, Here, Spare
<1>7. Positive(Low - Protected) \in Nat
  BY <1>2, <1>6 DEF Positive
<1>8. Low = LowPoint(Start, ahead, TRUE)
  BY DEF Low
<1> QED BY <1>4, <1>5, <1>6, <1>7, <1>8 DEF NewRun, RunRows, PlanStates

LEMMA ForecastBooks ==
  ASSUME AllocationAssumption, Books, NEW s \in Funders, Forecast(s)
  PROVE  /\ Books' /\ StatusOnly /\ RowsKept
         /\ \E r \in DOMAIN runs' :
              /\ Fund(s, [Waiting EXCEPT !.pc = "planning", !.run = r, !.alone = TRUE])
              /\ runs'[r].print = Fingerprint
         /\ (runs' = runs \/ runs' = Append(runs, NewRun))
<1> DEFINE m(r) == [Waiting EXCEPT !.pc = "planning", !.run = r, !.alone = TRUE]
<1>1. /\ funder[s].pc = "resuming" /\ funder[s].todo = {} /\ actions' = Reconciled
      /\ \/ Recent # {} /\ Fund(s, m(Max(Recent))) /\ runs' = runs
         \/ runs' = Append(runs, NewRun) /\ Fund(s, m(Len(runs) + 1))
      /\ UNCHANGED <<cash, purse, policy, ahead, turns, begun, shared, strained, chosen>>
  BY DEF Forecast
<1>2. FundTypes /\ Len(runs) \in Nat /\ DOMAIN runs = 1..Len(runs)
  BY TypeFacts DEF Books
<1>3. StatusOnly /\ RowsKept
  BY <1>1, <1>2, Reconciling, StatusOnlyKept
<1>4. NewRun \in RunRows /\ NewRun.plan = "none" /\ NewRun.print = Fingerprint
  BY <1>2, ForecastTypes
<1>5. /\ runs' \in Seq(RunRows) /\ Len(runs) <= Len(runs') /\ DOMAIN runs \subseteq DOMAIN runs'
      /\ \A r \in DOMAIN runs : runs'[r] = runs[r]
      /\ DOMAIN runs' = 1..Len(runs') /\ Len(runs') \in Nat
  <2>1. CASE runs' = runs
    BY <1>2, <2>1 DEF FundTypes
  <2>2. CASE runs' = Append(runs, NewRun)
    BY <1>2, <1>4, <2>2 DEF FundTypes
  <2> QED BY <1>1, <2>1, <2>2
<1>6. PICK r \in DOMAIN runs' : Fund(s, m(r)) /\ runs'[r].print = Fingerprint /\ r \in Nat /\ r # 0
  <2>1. CASE Recent # {} /\ Fund(s, m(Max(Recent))) /\ runs' = runs
    <3>1. Recent \in SUBSET Int /\ IsFiniteSet(Recent)
      BY <1>2, TypeFacts, FS_Subset DEF Recent
    <3>2. Max(Recent) \in Recent
      BY <2>1, <3>1, MaxIs
    <3> DEFINE q == Max(Recent)
    <3>3. q \in DOMAIN runs /\ runs[q].print = Fingerprint
      BY <3>2 DEF Recent
    <3> HIDE DEF q
    <3>4. q \in DOMAIN runs' /\ runs'[q].print = Fingerprint /\ q \in Nat /\ q # 0
      BY <2>1, <3>3, <1>2
    <3>5. Fund(s, m(q))
      BY <2>1 DEF q
    <3> QED BY <3>4, <3>5
  <2>2. CASE runs' = Append(runs, NewRun) /\ Fund(s, m(Len(runs) + 1))
    <3>1. Len(runs) + 1 \in DOMAIN runs' /\ runs'[Len(runs) + 1] = NewRun /\ Len(runs) + 1 \in Nat
            /\ Len(runs) + 1 # 0
      BY <1>2, <2>2 DEF FundTypes
    <3> QED BY <2>2, <3>1, <1>4
  <2> QED BY <1>1, <2>1, <2>2
<1>7. /\ m(r) \in FunderRows /\ m(r).pc = "planning" /\ m(r).run = r /\ m(r).act = 0 /\ m(r).todo = {}
  BY <1>6 DEF Waiting, FunderRows, Transfers
<1>8. funder' \in [Funders -> FunderRows] /\ funder'[s] = m(r)
        /\ \A f \in Funders \ {s} : funder'[f] = funder[f]
  BY <1>2, <1>6, <1>7, SessionSet
<1>9. FundTypes'
  BY <1>1, <1>2, <1>3, <1>5, <1>8 DEF FundTypes, StatusOnly, Rewritten
<1>10. (SessionOK(s) /\ AtWork(s) /\ PlanOpen(s))'
  <2>1. Len(actions') \in Nat
    BY <1>9 DEF FundTypes
  <2> HIDE DEF m
  <2> QED BY <1>5, <1>6, <1>7, <1>8, <2>1 DEF SessionOK, AtWork, PlanOpen, Moving
<1>11. \A f \in Funders, q \in DOMAIN runs' : Plan(f, q)' => f # s /\ Plan(f, q) /\ q \in DOMAIN runs
  <2> SUFFICES ASSUME NEW f \in Funders, NEW q \in DOMAIN runs', Plan(f, q)'
               PROVE  f # s /\ Plan(f, q) /\ q \in DOMAIN runs
    OBVIOUS
  <2>1. f # s
    <3> HIDE DEF m
    <3> QED BY <1>7, <1>8 DEF Plan
  <2>2. Plan(f, q)
    BY <1>8, <2>1 DEF Plan
  <2>3. funder[f].run \in 0..Len(runs)
    BY DEF Books, SessionOK
  <2>4. q # 0 /\ q = funder[f].run
    BY <1>5, <2>2 DEF Plan
  <2> QED BY <1>2, <2>1, <2>2, <2>3, <2>4
<1>12. PlansOK'
  <2>1. \A f, g \in Funders : \A q \in DOMAIN runs' : Plan(f, q)' /\ Plan(g, q)' => f = g
    BY <1>11 DEF Books, PlansOK
  <2>2. \A i \in DOMAIN actions' : actions'[i].run \in DOMAIN runs'
          /\ runs'[actions'[i].run].plan \in {"planning", "settled"}
    BY <1>3, <1>5 DEF Books, PlansOK, StatusOnly, Rewritten
  <2> QED BY <2>1, <2>2 DEF PlansOK
<1>13. OthersStay(s) /\ OthersPlansStay(s)
  BY <1>5, <1>8 DEF OthersStay, OthersPlansStay
<1>14. Books'
  BY <1>3, <1>5, <1>9, <1>10, <1>12, <1>13, BooksBy
<1> QED BY <1>1, <1>3, <1>6, <1>14

LEMMA RunSet ==
  ASSUME AllocationAssumption, FundTypes, NEW r \in DOMAIN runs, NEW p \in PlanStates,
         runs' = [runs EXCEPT ![r].plan = p]
  PROVE  /\ runs' \in Seq(RunRows) /\ DOMAIN runs' = DOMAIN runs /\ Len(runs') = Len(runs)
         /\ runs'[r].plan = p /\ \A q \in DOMAIN runs \ {r} : runs'[q] = runs[q]
         /\ \A q \in DOMAIN runs :
              /\ runs'[q].surplus = runs[q].surplus /\ runs'[q].low = runs[q].low
              /\ runs'[q].base = runs[q].base /\ runs'[q].print = runs[q].print
<1> DEFINE new == [runs EXCEPT ![r].plan = p]
<1>1. /\ \A q \in DOMAIN runs : runs[q] \in RunRows /\ new[q] \in RunRows
      /\ DOMAIN new = DOMAIN runs /\ new = [q \in DOMAIN runs |-> new[q]]
  <2>1. runs[r] \in RunRows
    BY TypeFacts
  <2>2. [runs[r] EXCEPT !.plan = p] \in RunRows
    BY <2>1 DEF RunRows
  <2> QED BY <2>2, TypeFacts
<1>2. /\ new[r].plan = p /\ new[r].surplus = runs[r].surplus /\ new[r].low = runs[r].low
      /\ new[r].base = runs[r].base /\ new[r].print = runs[r].print
  BY <1>1 DEF RunRows
<1>3. \A q \in DOMAIN runs \ {r} : new[q] = runs[q]
  OBVIOUS
<1>4. new \in Seq(RunRows) /\ Len(new) = Len(runs)
  <2>1. new \in [1..Len(runs) -> RunRows] /\ Len(runs) \in Nat
    BY <1>1, TypeFacts
  <2> HIDE DEF new
  <2> QED BY <2>1
<1>5. runs' = new
  OBVIOUS
<1> HIDE DEF new
<1> QED BY <1>1, <1>2, <1>3, <1>4, <1>5

LEMMA Unplanned ==
  ASSUME FundTypes
  PROVE  Waiting \in FunderRows /\ Waiting.pc = "idle" /\ Waiting.run = 0 /\ Waiting.act = 0
         /\ Waiting.todo = {} /\ Waiting.alone = FALSE
BY DEF Waiting, FunderRows, Transfers

\* A session that ends leaves its run as it is, or closes it or gives it back.
LEMMA LeaveBooks ==
  ASSUME AllocationAssumption, Books, NEW s \in Funders, Fund(s, Waiting), actions' = actions,
         UNCHANGED <<cash, purse, policy, ahead, begun, shared, chosen>>, turns' \in 0..TurnLimit,
         \/ runs' = runs
         \/ /\ funder[s].pc = "choosing"
            /\ \/ runs' = [runs EXCEPT ![funder[s].run].plan = "settled"]
               \/ /\ runs[funder[s].run].plan = "flushed"
                  /\ runs' = [runs EXCEPT ![funder[s].run].plan = "none"]
  PROVE  /\ Books' /\ StatusOnly /\ RowsKept
         /\ \A f \in Funders, r \in DOMAIN runs' : Plan(f, r)' => f # s /\ Plan(f, r)
         /\ DOMAIN runs' = DOMAIN runs
         /\ \A q \in DOMAIN runs :
              /\ runs'[q].surplus = runs[q].surplus /\ runs'[q].low = runs[q].low
              /\ runs'[q].base = runs[q].base /\ runs'[q].print = runs[q].print
<1>1. FundTypes /\ Len(runs) \in Nat /\ DOMAIN runs = 1..Len(runs)
  BY TypeFacts DEF Books
<1>2. StatusOnly /\ RowsKept
  BY <1>1, UnchangedRows, StatusOnlyKept
<1>3. /\ funder' \in [Funders -> FunderRows] /\ funder'[s] = Waiting
      /\ \A f \in Funders \ {s} : funder'[f] = funder[f]
  BY <1>1, Unplanned, SessionSet
<1> DEFINE r == funder[s].run
<1>4. funder[s].pc = "choosing" => r \in DOMAIN runs /\ Plan(s, r)
  BY <1>1, TypeFacts DEF Books, SessionOK, Plan
<1>5. /\ runs' \in Seq(RunRows) /\ DOMAIN runs' = DOMAIN runs /\ Len(runs') = Len(runs)
      /\ \A q \in DOMAIN runs :
           /\ runs'[q].surplus = runs[q].surplus /\ runs'[q].low = runs[q].low
           /\ runs'[q].base = runs[q].base /\ runs'[q].print = runs[q].print
           /\ runs'[q].plan = runs[q].plan \/ (funder[s].pc = "choosing" /\ q = r)
           /\ runs[q].plan \in {"planning", "settled"} => runs'[q].plan \in {"planning", "settled"}
  <2>1. CASE runs' = runs
    BY <1>1, <2>1 DEF FundTypes
  <2>2. CASE /\ funder[s].pc = "choosing"
             /\ \E p \in {"settled", "none"} :
                  /\ runs' = [runs EXCEPT ![r].plan = p] /\ (p = "none" => runs[r].plan = "flushed")
    <3>1. PICK p \in {"settled", "none"} :
             runs' = [runs EXCEPT ![r].plan = p] /\ (p = "none" => runs[r].plan = "flushed")
      BY <2>2
    <3>2. p \in PlanStates /\ r \in DOMAIN runs
      BY <2>2, <1>4 DEF PlanStates
    <3> HIDE DEF r
    <3>3. /\ runs' \in Seq(RunRows) /\ DOMAIN runs' = DOMAIN runs /\ Len(runs') = Len(runs)
          /\ runs'[r].plan = p /\ \A q \in DOMAIN runs \ {r} : runs'[q] = runs[q]
          /\ \A q \in DOMAIN runs :
               /\ runs'[q].surplus = runs[q].surplus /\ runs'[q].low = runs[q].low
               /\ runs'[q].base = runs[q].base /\ runs'[q].print = runs[q].print
      BY <1>1, <3>1, <3>2, RunSet
    <3> QED BY <2>2, <3>1, <3>3
  <2> QED BY <2>1, <2>2
<1>6. FundTypes'
  BY <1>1, <1>2, <1>3, <1>5 DEF FundTypes, StatusOnly, Rewritten
<1>7. (SessionOK(s) /\ AtWork(s) /\ PlanOpen(s))'
  <2>1. Len(actions') \in Nat /\ Len(runs') \in Nat
    BY <1>6 DEF FundTypes
  <2>2. /\ funder'[s].pc = "idle" /\ funder'[s].run = 0 /\ funder'[s].act = 0
        /\ funder'[s].todo = {} /\ funder'[s].alone = FALSE
    BY <1>1, <1>3, Unplanned
  <2>3. SessionOK(s)'
    BY <2>1, <2>2 DEF SessionOK, Moving
  <2>4. AtWork(s)' /\ PlanOpen(s)'
    BY <2>2 DEF AtWork, PlanOpen, Moving
  <2> QED BY <2>3, <2>4
<1>8. \A f \in Funders, q \in DOMAIN runs' : Plan(f, q)' => f # s /\ Plan(f, q)
  BY <1>1, <1>3, <1>5, Unplanned DEF Plan
<1>9. PlansOK'
  BY <1>2, <1>5, <1>8, PlansBy DEF StatusOnly
<1>10. OthersStay(s) /\ OthersPlansStay(s)
  <2>1. \A f \in Funders \ {s}, q \in DOMAIN runs : Plan(f, q) => q # r \/ funder[s].pc # "choosing"
    BY <1>4 DEF Books, PlansOK
  <2> QED BY <1>3, <1>5, <2>1 DEF OthersStay, OthersPlansStay
<1>11. Books'
  BY <1>2, <1>5, <1>6, <1>7, <1>9, <1>10, <1>1, BooksBy
<1> QED BY <1>2, <1>5, <1>8, <1>11

LEMMA OpenPlanBooks ==
  ASSUME AllocationAssumption, Books, NEW s \in Funders, OpenPlan(s), funder'[s] # Waiting
  PROVE  /\ Books' /\ StatusOnly /\ RowsKept
         /\ funder[s].pc = "planning" /\ funder[s].run \in DOMAIN runs
         /\ \A f \in Funders : ~Plan(f, funder[s].run)
         /\ \A i \in DOMAIN actions : actions[i].run # funder[s].run
         /\ \A f \in Funders, r \in DOMAIN runs' : Plan(f, r)' => (f = s /\ r = funder[s].run)
            \/ Plan(f, r)
         /\ DOMAIN runs' = DOMAIN runs
         /\ \A q \in DOMAIN runs :
              /\ runs'[q].surplus = runs[q].surplus /\ runs'[q].low = runs[q].low
              /\ runs'[q].base = runs[q].base /\ runs'[q].print = runs[q].print
         /\ funder'[s].pc = "choosing" /\ funder'[s].left = runs[funder[s].run].surplus
         /\ funder'[s].gap = [w \in Wallets |-> Gap(w)] /\ funder'[s].act = 0
         /\ funder'[s].run = funder[s].run /\ funder'[s].alone = funder[s].alone
         /\ \A f \in Funders \ {s} : funder'[f] = funder[f]
<1> DEFINE r == funder[s].run
           m == [funder[s] EXCEPT !.pc = "choosing", !.left = runs[r].surplus,
                      !.gap = [w \in Wallets |-> Gap(w)],
                      !.queue = {a \in Sources : policy[a].role = "operating"}]
<1>1. FundTypes /\ Len(runs) \in Nat /\ DOMAIN runs = 1..Len(runs)
  BY TypeFacts DEF Books
<1>2. /\ funder[s].pc = "planning" /\ runs[r].plan = "none"
      /\ runs' = [runs EXCEPT ![r].plan = "flushed"] /\ Fund(s, m)
      /\ UNCHANGED <<cash, purse, policy, ahead, actions, turns, begun, shared, strained, chosen>>
  <2>1. ~Fund(s, Waiting)
    BY <1>1 DEF Fund, FundTypes
  <2> QED BY <2>1 DEF OpenPlan
<1>3. funder[s] \in FunderRows /\ r \in DOMAIN runs /\ funder[s].todo = {} /\ funder[s].act = 0
  BY <1>1, <1>2, TypeFacts DEF Books, SessionOK, Moving
<1>4. runs[r].surplus \in Nat
  BY <1>1, <1>3, TypeFacts DEF RunRows
<1>5. [w \in Wallets |-> Gap(w)] \in [Wallets -> Nat]
  <2>1. \A w \in Wallets : Filled(w) \in Int
    <3> SUFFICES ASSUME NEW w \in Wallets PROVE Filled(w) \in Int
      OBVIOUS
    <3>1. \A S \in SUBSET DOMAIN actions : Amount(actions, S) \in Nat
      <4> SUFFICES ASSUME NEW S \in SUBSET DOMAIN actions PROVE Amount(actions, S) \in Nat
        OBVIOUS
      <4>1. IsFiniteSet(S) /\ \A i \in S : actions[i].amount \in Nat
        BY <1>1, TypeFacts, RowsFacts, FS_Subset
      <4> QED BY <4>1, AmountType
    <3>2. Sent(w) \in SUBSET DOMAIN actions
            /\ {i \in Sent(w) : actions[i].transfer # "arrived"} \in SUBSET DOMAIN actions
      BY DEF Sent
    <3>3. Moved(Sent(w)) \in Nat /\ Moved({i \in Sent(w) : actions[i].transfer # "arrived"}) \in Nat
      BY <3>1, <3>2, MovedIs
    <3>4. purse[w] \in Nat
      BY <1>1 DEF FundTypes
    <3> QED BY <3>3, <3>4 DEF Filled, Held
  <2>2. \A w \in Wallets : Gap(w) \in Nat
    BY <2>1, Numbers DEF Gap, Positive
  <2> QED BY <2>2
<1>6. /\ m \in FunderRows /\ m.pc = "choosing" /\ m.run = r /\ m.act = 0 /\ m.todo = {}
      /\ m.gap = [w \in Wallets |-> Gap(w)] /\ m.left = runs[r].surplus /\ m.alone = funder[s].alone
  BY <1>3, <1>4, <1>5 DEF FunderRows
<1> HIDE DEF m
<1>7. /\ funder' \in [Funders -> FunderRows] /\ funder'[s] = m
         /\ \A f \in Funders \ {s} : funder'[f] = funder[f]
  BY <1>1, <1>2, <1>6, SessionSet
<1>8. /\ runs' \in Seq(RunRows) /\ DOMAIN runs' = DOMAIN runs /\ Len(runs') = Len(runs)
      /\ runs'[r].plan = "flushed" /\ \A q \in DOMAIN runs \ {r} : runs'[q] = runs[q]
      /\ \A q \in DOMAIN runs :
           /\ runs'[q].surplus = runs[q].surplus /\ runs'[q].low = runs[q].low
           /\ runs'[q].base = runs[q].base /\ runs'[q].print = runs[q].print
  <2>1. "flushed" \in PlanStates
    BY DEF PlanStates
  <2> HIDE DEF r
  <2> QED BY <1>1, <1>2, <1>3, <2>1, RunSet
<1>9. StatusOnly /\ RowsKept
  BY <1>1, <1>2, UnchangedRows, StatusOnlyKept
<1>10. FundTypes'
  BY <1>1, <1>2, <1>7, <1>8, <1>9 DEF FundTypes, StatusOnly, Rewritten
<1>11. (SessionOK(s) /\ AtWork(s) /\ PlanOpen(s))'
  <2>1. Len(actions') \in Nat /\ Len(runs') \in Nat /\ r \in 1..Len(runs') /\ r # 0
    BY <1>1, <1>3, <1>8, <1>10 DEF FundTypes
  <2> QED BY <1>5, <1>6, <1>7, <1>8, <2>1 DEF SessionOK, AtWork, PlanOpen, Moving
<1>12. \A f \in Funders : ~Plan(f, r)
  <2> SUFFICES ASSUME NEW f \in Funders, Plan(f, r) PROVE FALSE
    OBVIOUS
  <2>1. r # 0 /\ PlanOpen(f)
    BY <1>1, <1>3 DEF Books
  <2> QED BY <1>2, <2>1 DEF Plan, PlanOpen
<1>13. \A i \in DOMAIN actions : actions[i].run # r
  BY <1>2 DEF Books, PlansOK
<1>14. \A f \in Funders, q \in DOMAIN runs' : Plan(f, q)' => (f = s /\ q = r) \/ Plan(f, q)
  BY <1>6, <1>7, <1>8 DEF Plan
<1>15. PlansOK'
  <2>1. \A f, g \in Funders : \A q \in DOMAIN runs' : Plan(f, q)' /\ Plan(g, q)' => f = g
    BY <1>8, <1>12, <1>14 DEF Books, PlansOK
  <2>2. \A i \in DOMAIN actions' : actions'[i].run \in DOMAIN runs'
          /\ runs'[actions'[i].run].plan \in {"planning", "settled"}
    BY <1>2, <1>8, <1>13 DEF Books, PlansOK
  <2> QED BY <2>1, <2>2 DEF PlansOK
<1>16. OthersStay(s) /\ OthersPlansStay(s)
  BY <1>7, <1>8, <1>12 DEF OthersStay, OthersPlansStay
<1>17. Books'
  BY <1>1, <1>8, <1>9, <1>10, <1>11, <1>15, <1>16, BooksBy
<1> QED BY <1>2, <1>3, <1>6, <1>7, <1>8, <1>9, <1>12, <1>13, <1>14, <1>17

LEMMA LeastOfThree ==
  ASSUME NEW a \in Int, NEW b \in Int, NEW c \in Int
  PROVE  Min({a, b, c}) \in {a, b, c} /\ Min({a, b, c}) <= a /\ Min({a, b, c}) <= b
         /\ Min({a, b, c}) <= c
<1> DEFINE T == {a, b, c}
<1>1. \E x \in T : \A y \in T : x <= y
  <2>1. CASE a <= b /\ a <= c
    BY <2>1
  <2>2. CASE b <= a /\ b <= c
    BY <2>2
  <2>3. CASE c <= a /\ c <= b
    BY <2>3
  <2> QED BY <2>1, <2>2, <2>3
<1>2. Min(T) \in T /\ \A y \in T : Min(T) <= y
  <2> HIDE DEF T
  <2> QED BY <1>1 DEF Min
<1> QED BY <1>2

LEMMA LeastOfTwo ==
  ASSUME NEW a \in Int, NEW b \in Int
  PROVE  Min({a, b}) \in {a, b} /\ Min({a, b}) <= a /\ Min({a, b}) <= b
<1> DEFINE T == {a, b}
<1>1. \E x \in T : \A y \in T : x <= y
  <2>1. CASE a <= b
    BY <2>1
  <2>2. CASE b <= a
    BY <2>2
  <2> QED BY <2>1, <2>2
<1>2. Min(T) \in T /\ \A y \in T : Min(T) <= y
  <2> HIDE DEF T
  <2> QED BY <1>1 DEF Min
<1> QED BY <1>2

\* A move that is chosen: within what is left, and within what the wallet lacks
LEMMA DesiredIs ==
  ASSUME AllocationAssumption, FundTypes, NEW s \in Funders, NEW a \in Sources, NEW w \in Wallets,
         funder[s].gap \in [Wallets -> Nat], Desired(s, a, w) >= MinTransfer
  PROVE  /\ Desired(s, a, w) \in MinTransfer..MaxSingle /\ Desired(s, a, w) <= funder[s].left
         /\ w # "savings" => Desired(s, a, w) <= funder[s].gap[w]
<1>1. funder[s].left \in Int /\ Positive(cash[a] - Floor) \in Int /\ MaxSingle \in Int
  <2>1. funder[s].left \in Nat
    BY TypeFacts DEF FunderRows
  <2>2. cash[a] \in Int /\ Floor \in Nat /\ MaxSingle \in Nat
    BY Numbers DEF FundTypes
  <2> QED BY <2>1, <2>2 DEF Positive
<1>2. Budget(s, a) \in Int /\ Budget(s, a) <= funder[s].left /\ Budget(s, a) <= MaxSingle
  <2> DEFINE x == funder[s].left
             y == Positive(cash[a] - Floor)
  <2>1. Budget(s, a) = Min({x, y, MaxSingle})
    BY DEF Budget
  <2> HIDE DEF x, y
  <2>2. x \in Int /\ y \in Int /\ MaxSingle \in Int
    BY <1>1 DEF x, y
  <2>3. Min({x, y, MaxSingle}) \in {x, y, MaxSingle} /\ Min({x, y, MaxSingle}) <= x
          /\ Min({x, y, MaxSingle}) <= MaxSingle
    BY <2>2, LeastOfThree
  <2>4. Budget(s, a) \in Int /\ Budget(s, a) <= x /\ Budget(s, a) <= MaxSingle
    BY <2>1, <2>2, <2>3
  <2> QED BY <2>4 DEF x
<1>3. funder[s].gap[w] \in Int
  OBVIOUS
<1>4. /\ Desired(s, a, w) \in Int /\ Desired(s, a, w) <= Budget(s, a)
      /\ w # "savings" => Desired(s, a, w) <= funder[s].gap[w]
  <2> DEFINE x == Budget(s, a)
             y == funder[s].gap[w]
  <2>1. x \in Int /\ y \in Int
    BY <1>2, <1>3
  <2>2. Desired(s, a, w) = IF w = "savings" THEN x ELSE Min({x, y})
    BY DEF Desired
  <2> HIDE DEF x, y
  <2>3. Min({x, y}) \in Int /\ Min({x, y}) <= x /\ Min({x, y}) <= y
    BY <2>1, LeastOfTwo
  <2>4. /\ Desired(s, a, w) \in Int /\ Desired(s, a, w) <= x
        /\ w # "savings" => Desired(s, a, w) <= y
    BY <2>1, <2>2, <2>3
  <2> QED BY <2>4 DEF x, y
<1>5. MinTransfer \in Nat /\ MaxSingle \in Nat
  BY Numbers
<1> QED BY <1>1, <1>2, <1>4, <1>5

NewRow(s, a, w) ==
  [run |-> funder[s].run, from |-> a, to |-> w, amount |-> Desired(s, a, w), status |-> "dispatching",
   transfer |-> "none"]

LEMMA ChooseBooks ==
  ASSUME AllocationAssumption, Books, NEW s \in Funders, ChooseMove(s), actions' # actions
  PROVE  /\ Books' /\ RowsKept /\ funder[s].pc = "choosing" /\ funder[s].run \in DOMAIN runs
         /\ \E a \in Sources, w \in Wallets :
              /\ actions' = Append(actions, NewRow(s, a, w)) /\ NewRow(s, a, w) \in ActionRows
              /\ Desired(s, a, w) <= funder[s].left
              /\ w # "savings" => Desired(s, a, w) <= funder[s].gap[w]
         /\ Len(actions') = Len(actions) + 1 /\ DOMAIN actions' = DOMAIN actions \cup {Len(actions) + 1}
         /\ \A i \in DOMAIN actions : actions'[i] = actions[i]
         /\ \A f \in Funders, r \in DOMAIN runs' : Plan(f, r)' <=> Plan(f, r)
         /\ DOMAIN runs' = DOMAIN runs
         /\ \A q \in DOMAIN runs :
              /\ runs'[q].surplus = runs[q].surplus /\ runs'[q].low = runs[q].low
              /\ runs'[q].base = runs[q].base /\ runs'[q].print = runs[q].print
         /\ funder'[s].pc = "dispatching" /\ funder'[s].act = Len(actions) + 1
            /\ funder'[s].back = "choosing"
         /\ funder'[s].run = funder[s].run /\ funder'[s].left = funder[s].left
            /\ funder'[s].gap = funder[s].gap
         /\ funder'[s].alone = funder[s].alone /\ funder'[s].todo = {}
         /\ \A f \in Funders \ {s} : funder'[f] = funder[f]
<1> DEFINE r == funder[s].run
           n == Len(actions) + 1
           b == Min(funder[s].queue)
           m == [funder[s] EXCEPT !.queue = @ \ {b}, !.pc = "dispatching", !.act = n,
             !.back = "choosing"]
<1>1. /\ FundTypes /\ Len(runs) \in Nat /\ DOMAIN runs = 1..Len(runs) /\ Len(actions) \in Nat
      /\ DOMAIN actions = 1..Len(actions)
  BY TypeFacts DEF Books
<1>2. /\ funder[s].pc = "choosing" /\ funder[s].queue # {}
      /\ \E w \in Wallets : /\ Desired(s, b, w) >= MinTransfer
                            /\ actions' = Append(actions, NewRow(s, b, w))
      /\ runs' = [runs EXCEPT ![r].plan = "planning"] /\ Fund(s, m)
      /\ UNCHANGED <<cash, purse, policy, ahead, turns, begun, shared, strained, chosen>>
  BY DEF ChooseMove, NewRow, Chosen
<1>3. /\ funder[s] \in FunderRows /\ r \in DOMAIN runs /\ funder[s].todo = {}
      /\ funder[s].gap \in [Wallets -> Nat] /\ r # 0 /\ r \in Nat
  <2>1. funder[s] \in FunderRows /\ SessionOK(s)
    BY <1>1, TypeFacts DEF Books
  <2>2. funder[s].pc = "choosing"
    BY <1>2
  <2>3. r \in 0..Len(runs) /\ r # 0 /\ funder[s].todo = {} /\ funder[s].gap \in [Wallets -> Nat]
    BY <2>1, <2>2 DEF SessionOK
  <2> HIDE DEF r
  <2> QED BY <1>1, <2>1, <2>3
<1>4. b \in Sources
  <2>1. funder[s].queue \in SUBSET Int /\ IsFiniteSet(funder[s].queue)
          /\ funder[s].queue \subseteq Sources
    <3>1. Sources \subseteq Nat
      BY DEF AllocationAssumption
    <3>2. funder[s].queue \in SUBSET Sources
      BY <1>3 DEF FunderRows
    <3>3. IsFiniteSet(Sources)
      BY <1>1, TypeFacts
    <3>4. IsFiniteSet(funder[s].queue)
      BY <3>2, <3>3, FS_Subset
    <3>5. \A x \in funder[s].queue : x \in Int
      <4>1. \A x \in Sources : x \in Int
        BY <3>1
      <4> QED BY <3>2, <4>1
    <3> QED BY <3>2, <3>4, <3>5
  <2> QED BY <1>2, <2>1, MinIs
<1> HIDE DEF b
<1>5. PICK w \in Wallets : /\ Desired(s, b, w) >= MinTransfer
                           /\ actions' = Append(actions, NewRow(s, b, w))
  BY <1>2
<1>6. /\ Desired(s, b, w) \in MinTransfer..MaxSingle /\ Desired(s, b, w) <= funder[s].left
      /\ w # "savings" => Desired(s, b, w) <= funder[s].gap[w]
  BY <1>1, <1>3, <1>4, <1>5, DesiredIs
<1> DEFINE new == NewRow(s, b, w)
<1>7. new \in ActionRows /\ new.run = r /\ new.to = w /\ new.amount = Desired(s, b, w)
        /\ new.transfer = "none"
  BY <1>3, <1>4, <1>6 DEF NewRow, ActionRows, Statuses, Transfers
<1> HIDE DEF new
<1>8. /\ actions' \in Seq(ActionRows) /\ Len(actions') = n /\ DOMAIN actions' = DOMAIN actions \cup {n}
      /\ actions'[n] = new /\ n \notin DOMAIN actions
         /\ \A i \in DOMAIN actions : actions'[i] = actions[i]
  <2>1. actions \in Seq(ActionRows) /\ actions' = Append(actions, new)
    BY <1>1, <1>5 DEF FundTypes, new
  <2>2. Len(actions') = n /\ DOMAIN actions' = 1..n /\ actions' \in Seq(ActionRows)
    BY <1>7, <2>1
  <2>3. actions'[n] = new /\ \A i \in 1..Len(actions) : actions'[i] = actions[i]
    BY <1>7, <2>1
  <2> QED BY <1>1, <2>2, <2>3
<1>9. RowsKept
  BY <1>1, <1>8 DEF RowsKept
<1>10. /\ m \in FunderRows /\ m.pc = "dispatching" /\ m.run = r /\ m.act = n /\ m.todo = {}
       /\ m.gap = funder[s].gap /\ m.left = funder[s].left /\ m.alone = funder[s].alone
          /\ m.back = "choosing"
  <2>1. n \in Nat
    BY <1>1
  <2> HIDE DEF n
  <2> QED BY <1>3, <2>1 DEF FunderRows
<1> HIDE DEF m
<1>11. /\ funder' \in [Funders -> FunderRows] /\ funder'[s] = m
          /\ \A f \in Funders \ {s} : funder'[f] = funder[f]
  BY <1>1, <1>2, <1>10, SessionSet
<1>12. /\ runs' \in Seq(RunRows) /\ DOMAIN runs' = DOMAIN runs /\ Len(runs') = Len(runs)
       /\ runs'[r].plan = "planning" /\ \A q \in DOMAIN runs \ {r} : runs'[q] = runs[q]
       /\ \A q \in DOMAIN runs :
            /\ runs'[q].surplus = runs[q].surplus /\ runs'[q].low = runs[q].low
            /\ runs'[q].base = runs[q].base /\ runs'[q].print = runs[q].print
  <2>1. "planning" \in PlanStates
    BY DEF PlanStates
  <2> HIDE DEF r
  <2> QED BY <1>1, <1>2, <1>3, <2>1, RunSet
<1>13. FundTypes'
  BY <1>1, <1>2, <1>8, <1>11, <1>12 DEF FundTypes
<1>14. (SessionOK(s) /\ AtWork(s) /\ PlanOpen(s))'
  <2>1. /\ Len(runs') \in Nat /\ r \in 1..Len(runs') /\ r # 0 /\ n \in 0..Len(actions') /\ n # 0
    BY <1>1, <1>3, <1>8, <1>12
  <2>2. SessionOK(s)'
    BY <1>3, <1>10, <1>11, <2>1 DEF SessionOK, Moving
  <2>3. AtWork(s)'
    <3> HIDE DEF n, r
    <3> QED BY <1>6, <1>7, <1>8, <1>10, <1>11, <2>1 DEF AtWork
  <2>4. PlanOpen(s)'
    BY <1>10, <1>11, <1>12 DEF PlanOpen
  <2> QED BY <2>2, <2>3, <2>4
<1>15. Plan(s, r) /\ \A f \in Funders, q \in DOMAIN runs' : Plan(f, q)' <=> Plan(f, q)
  BY <1>2, <1>10, <1>11, <1>12 DEF Plan
<1>16. PlansOK'
  <2>1. \A f, g \in Funders : \A q \in DOMAIN runs' : Plan(f, q)' /\ Plan(g, q)' => f = g
    BY <1>12, <1>15 DEF Books, PlansOK
  <2>2. ASSUME NEW i \in DOMAIN actions'
        PROVE  actions'[i].run \in DOMAIN runs'
               /\ runs'[actions'[i].run].plan \in {"planning", "settled"}
    <3>1. CASE i = n
      BY <1>3, <1>7, <1>8, <1>12, <3>1
    <3>2. CASE i \in DOMAIN actions
      BY <1>8, <1>12, <3>2 DEF Books, PlansOK
    <3> QED BY <1>8, <3>1, <3>2
  <2> QED BY <2>1, <2>2 DEF PlansOK
<1>17. OthersStay(s) /\ OthersPlansStay(s)
  <2>1. \A f \in Funders \ {s} : ~Plan(f, r)
    BY <1>3, <1>15 DEF Books, PlansOK
  <2> QED BY <1>11, <1>12, <2>1 DEF OthersStay, OthersPlansStay
<1>18. Books'
  BY <1>1, <1>9, <1>12, <1>13, <1>14, <1>16, <1>17, BooksBy
<1> QED BY <1>2, <1>3, <1>4, <1>5, <1>6, <1>7, <1>8, <1>9, <1>10, <1>11, <1>12, <1>15, <1>18 DEF new

\* A step that leaves the runs and the plans as they are
LEMMA SteadyBooks ==
  ASSUME AllocationAssumption, Books, FundTypes', NEW s \in Funders, Rewritten, RowsKept, runs' = runs,
         OthersStay(s), SessionOK(s)', AtWork(s)', PlanOpen(s)',
         funder'[s].run = funder[s].run, funder[s].pc # "planning", funder'[s].pc # "planning"
  PROVE  Books' /\ \A f \in Funders, r \in DOMAIN runs' : Plan(f, r)' <=> Plan(f, r)
<1>1. FundTypes /\ \A f \in Funders : funder[f] \in FunderRows
  BY TypeFacts DEF Books
<1>2. \A f \in Funders \ {s} : funder'[f].pc = funder[f].pc /\ funder'[f].run = funder[f].run
  BY <1>1 DEF OthersStay, FunderRows
<1>3. \A f \in Funders, r \in DOMAIN runs' : Plan(f, r)' <=> Plan(f, r)
  BY <1>2 DEF Plan
<1>4. PlansOK'
  BY <1>3, PlansBy
<1>5. OthersPlansStay(s) /\ Len(runs) <= Len(runs')
  BY <1>1, TypeFacts DEF OthersPlansStay
<1> QED BY <1>3, <1>4, <1>5, BooksBy

Skips(s) ==
  /\ actions' = actions /\ runs' = runs /\ funder[s].pc = "choosing"
  /\ Fund(s, [funder[s] EXCEPT !.queue = @ \ {Min(funder[s].queue)}])

LEMMA SkipBooks ==
  ASSUME AllocationAssumption, Books, NEW s \in Funders, Skips(s),
         UNCHANGED <<cash, purse, policy, ahead, turns, begun, shared, strained, chosen>>
  PROVE  /\ Books' /\ StatusOnly /\ RowsKept
         /\ \A f \in Funders, r \in DOMAIN runs' : Plan(f, r)' <=> Plan(f, r)
         /\ \A f \in Funders \ {s} : funder'[f] = funder[f]
         /\ funder'[s].pc = "choosing" /\ funder'[s].run = funder[s].run
            /\ funder'[s].act = funder[s].act
         /\ funder'[s].left = funder[s].left /\ funder'[s].gap = funder[s].gap
         /\ funder'[s].alone = funder[s].alone /\ funder'[s].todo = funder[s].todo
<1> DEFINE m == [funder[s] EXCEPT !.queue = @ \ {Min(funder[s].queue)}]
<1>1. FundTypes /\ funder[s] \in FunderRows
  BY TypeFacts DEF Books
<1>2. /\ m \in FunderRows /\ m.pc = funder[s].pc /\ m.run = funder[s].run /\ m.act = funder[s].act
      /\ m.todo = funder[s].todo /\ m.gap = funder[s].gap /\ m.left = funder[s].left
      /\ m.alone = funder[s].alone /\ m.back = funder[s].back /\ m.seen = funder[s].seen
  BY <1>1 DEF FunderRows
<1> HIDE DEF m
<1>3. /\ funder' \in [Funders -> FunderRows] /\ funder'[s] = m
         /\ \A f \in Funders \ {s} : funder'[f] = funder[f]
  <2>1. Fund(s, m)
    BY DEF Skips, m
  <2> QED BY <1>1, <1>2, <2>1, SessionSet
<1>4. StatusOnly /\ RowsKept /\ runs' = runs /\ actions' = actions /\ funder[s].pc = "choosing"
  BY <1>1, UnchangedRows, StatusOnlyKept DEF Skips
<1>5. FundTypes'
  BY <1>1, <1>3, <1>4 DEF FundTypes
<1>6. SessionOK(s)' /\ AtWork(s)' /\ PlanOpen(s)'
  BY <1>2, <1>3, <1>4 DEF Books, SessionOK, AtWork, PlanOpen, Moving
<1>7. OthersStay(s)
  BY <1>3 DEF OthersStay
<1>8. Books' /\ \A f \in Funders, r \in DOMAIN runs' : Plan(f, r)' <=> Plan(f, r)
  BY <1>2, <1>3, <1>4, <1>5, <1>6, <1>7, SteadyBooks DEF StatusOnly
<1> QED BY <1>2, <1>3, <1>4, <1>8

Told(s) ==
  /\ actions[funder[s].act].transfer # "none" /\ UNCHANGED <<actions, cash, strained>>
  /\ Fund(s, [funder[s] EXCEPT !.pc = "noting", !.seen = actions[funder[s].act].transfer])
Blocks(s) ==
  /\ actions[funder[s].act].transfer = "none" /\ UNCHANGED <<cash, strained>>
  /\ actions' = [actions EXCEPT ![funder[s].act].status = "blocked_policy"]
  /\ Fund(s, [funder[s] EXCEPT !.pc = funder[s].back, !.act = 0, !.seen = "none"])
Makes(s) ==
  LET a == actions[funder[s].act] IN
  /\ a.transfer = "none" /\ ~Refused(a) /\ strained' = strained \cup Strains(s, a)
  /\ \E t \in {"active", "failed"} :
       /\ actions' = [actions EXCEPT ![funder[s].act].transfer = t]
       /\ cash' = IF t = "failed" THEN cash ELSE [cash EXCEPT ![a.from] = @ - a.amount]
       /\ FundAlone(s, [funder[s] EXCEPT !.pc = "noting", !.seen = t])

LEMMA DispatchIs ==
  ASSUME NEW s \in Funders, Dispatch(s)
  PROVE  /\ funder[s].pc = "dispatching" /\ (Told(s) \/ Blocks(s) \/ Makes(s))
         /\ UNCHANGED <<purse, policy, ahead, runs, turns, begun, shared, chosen>>
BY DEF Dispatch, Told, Blocks, Makes

LEMMA AtHand ==
  ASSUME AllocationAssumption, Books, NEW s \in Funders, Moving(s)
  PROVE  /\ FundTypes /\ funder[s] \in FunderRows /\ funder[s].act \in DOMAIN actions
         /\ funder[s].act \in Nat /\ funder[s].act # 0 /\ actions[funder[s].act] \in ActionRows
         /\ funder[s].back \in {"resuming", "choosing"}
            /\ (funder[s].back = "resuming" <=> funder[s].run = 0)
         /\ funder[s].todo \subseteq DOMAIN actions /\ funder[s].run \in 0..Len(runs)
         /\ (funder[s].alone => funder[s].run # 0)
         /\ funder[s].back = "choosing" =>
              /\ funder[s].todo = {} /\ funder[s].run \in DOMAIN runs /\ Plan(s, funder[s].run)
              /\ runs[funder[s].run].plan = "planning" /\ funder[s].gap \in [Wallets -> Nat]
              /\ actions[funder[s].act].run = funder[s].run
              /\ actions[funder[s].act].amount <= funder[s].left
              /\ actions[funder[s].act].to # "savings" =>
                   actions[funder[s].act].amount <= funder[s].gap[actions[funder[s].act].to]
<1>1. /\ FundTypes /\ funder[s] \in FunderRows /\ Len(runs) \in Nat /\ DOMAIN runs = 1..Len(runs)
      /\ Len(actions) \in Nat /\ DOMAIN actions = 1..Len(actions)
      /\ SessionOK(s) /\ AtWork(s) /\ PlanOpen(s)
  BY TypeFacts DEF Books
<1>2. funder[s].act \in DOMAIN actions /\ funder[s].act \in Nat /\ funder[s].act # 0
  BY <1>1 DEF SessionOK
<1>3. /\ funder[s].back \in {"resuming", "choosing"}
         /\ (funder[s].back = "resuming" <=> funder[s].run = 0)
      /\ funder[s].todo \subseteq DOMAIN actions /\ funder[s].run \in 0..Len(runs)
      /\ (funder[s].alone => funder[s].run # 0)
  BY <1>1 DEF SessionOK, AtWork
<1>4. actions[funder[s].act] \in ActionRows
  BY <1>1, <1>2, TypeFacts
<1>5. funder[s].back = "choosing" => funder[s].run \in DOMAIN runs /\ Plan(s, funder[s].run)
  BY <1>1, <1>3 DEF Plan, Moving
<1>6. funder[s].pc # "planning"
  BY DEF Moving
<1>7. funder[s].back = "choosing" => runs[funder[s].run].plan = "planning"
        /\ funder[s].gap \in [Wallets -> Nat]
  BY <1>1, <1>3, <1>6 DEF PlanOpen, SessionOK
<1> QED BY <1>1, <1>2, <1>3, <1>4, <1>5, <1>7 DEF AtWork

LEMMA ToldBooks ==
  ASSUME AllocationAssumption, Books, NEW s \in Funders, funder[s].pc = "dispatching", Told(s),
         UNCHANGED <<purse, policy, ahead, runs, turns, begun, shared, chosen>>
  PROVE  /\ Books' /\ StatusOnly /\ RowsKept
         /\ \A f \in Funders, r \in DOMAIN runs' : Plan(f, r)' <=> Plan(f, r)
         /\ \A f \in Funders \ {s} : funder'[f] = funder[f]
         /\ funder'[s].pc = "noting" /\ funder'[s].run = funder[s].run /\ funder'[s].act = funder[s].act
         /\ funder'[s].left = funder[s].left /\ funder'[s].gap = funder[s].gap
         /\ funder'[s].alone = funder[s].alone /\ funder'[s].todo = funder[s].todo
<1> DEFINE i == funder[s].act
           m == [funder[s] EXCEPT !.pc = "noting", !.seen = actions[i].transfer]
<1>1. Moving(s) /\ FundTypes
  BY DEF Moving, Books
<1>2. /\ m \in FunderRows /\ m.pc = "noting" /\ m.run = funder[s].run /\ m.act = i
      /\ m.todo = funder[s].todo /\ m.gap = funder[s].gap /\ m.left = funder[s].left
      /\ m.alone = funder[s].alone /\ m.back = funder[s].back /\ m.seen = actions[i].transfer
  BY <1>1, AtHand DEF FunderRows, ActionRows
<1> HIDE DEF m
<1>3. /\ funder' \in [Funders -> FunderRows] /\ funder'[s] = m
         /\ \A f \in Funders \ {s} : funder'[f] = funder[f]
  <2>1. Fund(s, m)
    BY DEF Told, m
  <2> QED BY <1>1, <1>2, <2>1, SessionSet
<1>4. StatusOnly /\ RowsKept /\ actions' = actions /\ actions[i].transfer # "none" /\ cash' = cash
  BY <1>1, UnchangedRows, StatusOnlyKept DEF Told
<1>5. FundTypes'
  BY <1>1, <1>3, <1>4 DEF FundTypes
<1>6. SessionOK(s)' /\ AtWork(s)' /\ PlanOpen(s)'
  <2> HIDE DEF i
  <2>1. /\ SessionOK(s) /\ AtWork(s) /\ PlanOpen(s) /\ i = funder[s].act
    BY DEF Books, i
  <2>2. SessionOK(s)'
    BY <1>2, <1>3, <1>4, <2>1 DEF SessionOK, Moving
  <2>3. AtWork(s)'
    BY <1>1, <1>2, <1>3, <1>4, <2>1 DEF AtWork, Moving
  <2>4. PlanOpen(s)'
    BY <1>1, <1>2, <1>3, <2>1 DEF PlanOpen, Moving
  <2> QED BY <2>2, <2>3, <2>4
<1>7. OthersStay(s)
  BY <1>3 DEF OthersStay
<1>8. Books' /\ \A f \in Funders, r \in DOMAIN runs' : Plan(f, r)' <=> Plan(f, r)
  BY <1>2, <1>3, <1>4, <1>5, <1>6, <1>7, SteadyBooks DEF StatusOnly
<1> QED BY <1>2, <1>3, <1>4, <1>8

LEMMA BlocksBooks ==
  ASSUME AllocationAssumption, Books, NEW s \in Funders, funder[s].pc = "dispatching", Blocks(s),
         UNCHANGED <<purse, policy, ahead, runs, turns, begun, shared, chosen>>
  PROVE  /\ Books' /\ StatusOnly /\ RowsKept
         /\ \A f \in Funders, r \in DOMAIN runs' : Plan(f, r)' <=> Plan(f, r)
         /\ \A f \in Funders \ {s} : funder'[f] = funder[f]
         /\ funder'[s].pc = funder[s].back /\ funder'[s].run = funder[s].run /\ funder'[s].act = 0
         /\ funder'[s].left = funder[s].left /\ funder'[s].gap = funder[s].gap
         /\ funder'[s].alone = funder[s].alone /\ funder'[s].todo = funder[s].todo
         /\ actions'[funder[s].act].status = "blocked_policy"
         /\ \A j \in DOMAIN actions \ {funder[s].act} : actions'[j] = actions[j]
<1> DEFINE i == funder[s].act
           m == [funder[s] EXCEPT !.pc = funder[s].back, !.act = 0, !.seen = "none"]
<1>1. Moving(s) /\ FundTypes
  BY DEF Moving, Books
<1>2. /\ m \in FunderRows /\ m.pc = funder[s].back /\ m.run = funder[s].run /\ m.act = 0
      /\ m.todo = funder[s].todo /\ m.gap = funder[s].gap /\ m.left = funder[s].left
      /\ m.alone = funder[s].alone
  BY <1>1, AtHand DEF FunderRows, Transfers
<1> HIDE DEF m
<1>3. /\ funder' \in [Funders -> FunderRows] /\ funder'[s] = m
         /\ \A f \in Funders \ {s} : funder'[f] = funder[f]
  <2>1. Fund(s, m)
    BY DEF Blocks, m
  <2> QED BY <1>1, <1>2, <2>1, SessionSet
<1>4. /\ StatusOnly /\ RowsKept /\ actions'[i].status = "blocked_policy" /\ cash' = cash
      /\ \A j \in DOMAIN actions \ {i} : actions'[j] = actions[j]
  <2>1. i \in DOMAIN actions /\ actions' = [actions EXCEPT ![i].status = "blocked_policy"]
          /\ cash' = cash
    BY <1>1, AtHand DEF Blocks
  <2>2. "blocked_policy" \in Statuses
    BY DEF Statuses
  <2> HIDE DEF i
  <2> QED BY <1>1, <2>1, <2>2, StatusSet, StatusOnlyKept
<1>5. FundTypes'
  BY <1>1, <1>3, <1>4 DEF FundTypes, StatusOnly, Rewritten
<1>6. SessionOK(s)' /\ AtWork(s)' /\ PlanOpen(s)'
  <2>1. /\ m.pc \in {"resuming", "choosing"} /\ (m.pc = "resuming" <=> m.run = 0)
           /\ m.run \in 0..Len(runs)
        /\ (m.alone => m.run # 0) /\ m.todo \subseteq DOMAIN actions
        /\ (m.run # 0 => m.todo = {} /\ m.gap \in [Wallets -> Nat] /\ runs[m.run].plan = "planning")
    BY <1>1, <1>2, AtHand
  <2>2. DOMAIN actions' = DOMAIN actions /\ Len(actions') \in Nat
    BY <1>4, <1>5 DEF StatusOnly, Rewritten, FundTypes
  <2>3. SessionOK(s)'
    BY <1>2, <1>3, <2>1, <2>2 DEF SessionOK, Moving
  <2>4. AtWork(s)' /\ PlanOpen(s)'
    BY <1>2, <1>3, <2>1 DEF AtWork, PlanOpen, Moving
  <2> QED BY <2>3, <2>4
<1>7. OthersStay(s)
  BY <1>3 DEF OthersStay
<1>8. funder'[s].run = funder[s].run /\ funder'[s].pc # "planning"
  BY <1>1, <1>2, <1>3, AtHand
<1>9. Books' /\ \A f \in Funders, r \in DOMAIN runs' : Plan(f, r)' <=> Plan(f, r)
  BY <1>4, <1>5, <1>6, <1>7, <1>8, SteadyBooks DEF StatusOnly
<1> QED BY <1>2, <1>3, <1>4, <1>9

LEMMA MakesBooks ==
  ASSUME AllocationAssumption, Books, NEW s \in Funders, funder[s].pc = "dispatching", Makes(s),
         UNCHANGED <<purse, policy, ahead, runs, turns, begun, shared, chosen>>
  PROVE  /\ Books' /\ Rewritten /\ RowsKept
         /\ \A f \in Funders, r \in DOMAIN runs' : Plan(f, r)' <=> Plan(f, r)
         /\ \A f \in Funders \ {s} : funder'[f] = [funder[f] EXCEPT !.alone = FALSE]
         /\ funder'[s].pc = "noting" /\ funder'[s].run = funder[s].run /\ funder'[s].act = funder[s].act
         /\ funder'[s].left = funder[s].left /\ funder'[s].gap = funder[s].gap
         /\ funder'[s].alone = funder[s].alone /\ funder'[s].todo = funder[s].todo
         /\ funder'[s].seen \in {"active", "failed"}
         /\ actions'[funder[s].act].transfer = funder'[s].seen
         /\ actions'[funder[s].act].status = actions[funder[s].act].status
         /\ cash' = IF funder'[s].seen = "failed" THEN cash
                    ELSE [cash EXCEPT ![actions[funder[s].act].from] = @ - actions[funder[s].act].amount]
         /\ \A j \in DOMAIN actions \ {funder[s].act} : actions'[j] = actions[j]
<1> DEFINE i == funder[s].act
<1>1. Moving(s) /\ FundTypes
  BY DEF Moving, Books
<1>0. PICK t \in {"active", "failed"} :
        /\ actions' = [actions EXCEPT ![i].transfer = t]
        /\ cash' = IF t = "failed" THEN cash
           ELSE [cash EXCEPT ![actions[i].from] = @ - actions[i].amount]
        /\ FundAlone(s, [funder[s] EXCEPT !.pc = "noting", !.seen = t])
  BY DEF Makes
<1> DEFINE m == [funder[s] EXCEPT !.pc = "noting", !.seen = t]
<1>2. /\ m \in FunderRows /\ m.pc = "noting" /\ m.run = funder[s].run /\ m.act = i
      /\ m.todo = funder[s].todo /\ m.gap = funder[s].gap /\ m.left = funder[s].left
      /\ m.alone = funder[s].alone /\ m.back = funder[s].back /\ m.seen = t
  BY <1>1, AtHand DEF FunderRows, Transfers
<1> HIDE DEF m
<1>3. /\ funder' \in [Funders -> FunderRows] /\ funder'[s] = m
      /\ \A f \in Funders \ {s} : funder'[f] = [funder[f] EXCEPT !.alone = FALSE]
  <2>1. funder' = [f \in Funders |-> IF f = s THEN m ELSE [funder[f] EXCEPT !.alone = FALSE]]
    BY <1>0 DEF FundAlone, m
  <2>2. \A f \in Funders : [funder[f] EXCEPT !.alone = FALSE] \in FunderRows
    BY <1>1, TypeFacts DEF FunderRows
  <2> QED BY <1>2, <2>1, <2>2
<1>4. /\ Rewritten /\ actions'[i].transfer = t /\ actions'[i].status = actions[i].status
      /\ \A j \in DOMAIN actions \ {i} : actions'[j] = actions[j]
  <2>1. i \in DOMAIN actions /\ t \in Transfers
    BY <1>1, AtHand DEF Transfers
  <2> HIDE DEF i
  <2> QED BY <1>0, <1>1, <2>1, TransferSet
<1>5. RowsKept
  <2>1. \A j \in DOMAIN actions :
          /\ actions[j].transfer # "none" => actions'[j].transfer # "none"
          /\ actions[j].transfer = "failed" => actions'[j].transfer = "failed"
    BY <1>4 DEF Makes
  <2> QED BY <1>1, <1>4, <2>1, RewrittenKept
<1>6. FundTypes'
  <2>1. cash' \in [Sources -> Int]
    <3> DEFINE n == actions[i].amount
    <3>1. actions[i] \in ActionRows /\ cash \in [Sources -> Int]
      BY <1>1, AtHand DEF FundTypes
    <3>2. actions[i].amount \in MinTransfer..MaxSingle
      BY <3>1 DEF ActionRows
    <3>3. n \in Nat
      BY <3>2, Numbers
    <3>4. cash' = cash \/ cash' = [cash EXCEPT ![actions[i].from] = @ - n]
      BY <1>0
    <3> HIDE DEF n
    <3>5. \A x \in Sources : cash[x] - n \in Int
      BY <3>1, <3>3
    <3> QED BY <3>1, <3>4, <3>5
  <2> QED BY <1>1, <1>3, <1>4, <2>1 DEF FundTypes, Rewritten
<1>7. SessionOK(s)' /\ AtWork(s)' /\ PlanOpen(s)'
  <2>0. DOMAIN actions' = DOMAIN actions /\ Len(actions') = Len(actions)
    BY <1>4 DEF Rewritten
  <2>5. i \in DOMAIN actions /\ actions'[i].run = actions[i].run
          /\ actions'[i].amount = actions[i].amount
        /\ actions'[i].to = actions[i].to
    BY <1>1, <1>4, AtHand DEF Rewritten
  <2> HIDE DEF i
  <2>1. /\ SessionOK(s) /\ AtWork(s) /\ PlanOpen(s) /\ i = funder[s].act
    BY DEF Books, i
  <2>2. SessionOK(s)'
    BY <1>2, <1>3, <2>0, <2>1 DEF SessionOK, Moving
  <2>3. AtWork(s)'
    BY <1>1, <1>2, <1>3, <1>4, <2>1, <2>5 DEF AtWork, Moving
  <2>4. PlanOpen(s)'
    BY <1>1, <1>2, <1>3, <2>1 DEF PlanOpen, Moving
  <2> QED BY <2>2, <2>3, <2>4
<1>8. OthersStay(s)
  BY <1>3 DEF OthersStay
<1>9. Books' /\ \A f \in Funders, r \in DOMAIN runs' : Plan(f, r)' <=> Plan(f, r)
  BY <1>2, <1>3, <1>4, <1>5, <1>6, <1>7, <1>8, SteadyBooks
<1> QED BY <1>0, <1>2, <1>3, <1>4, <1>5, <1>9

\* A step that no session takes
LEMMA WorldBooks ==
  ASSUME AllocationAssumption, Books, FundTypes', Rewritten, RowsKept, runs' = runs,
         \A f \in Funders : funder'[f] = funder[f] \/ funder'[f] = [funder[f] EXCEPT !.alone = FALSE]
  PROVE  Books' /\ \A f \in Funders, r \in DOMAIN runs' : Plan(f, r)' <=> Plan(f, r)
<1>1. /\ FundTypes /\ \A f \in Funders : funder[f] \in FunderRows
      /\ Len(runs) \in Nat /\ Len(runs') \in Nat /\ Len(actions') \in Nat
  BY TypeFacts DEF Books, FundTypes
<1>2. \A f \in Funders : funder'[f].pc = funder[f].pc /\ funder'[f].run = funder[f].run
  BY <1>1 DEF FunderRows
<1>3. \A f \in Funders, r \in DOMAIN runs' : Plan(f, r)' <=> Plan(f, r)
  BY <1>2 DEF Plan
<1>4. PlansOK'
  BY <1>3, PlansBy
<1>5. \A f \in Funders : SessionOK(f)' /\ AtWork(f)' /\ PlanOpen(f)'
  <2> SUFFICES ASSUME NEW f \in Funders PROVE SessionOK(f)' /\ AtWork(f)' /\ PlanOpen(f)'
    OBVIOUS
  <2>1. Len(runs) <= Len(runs') /\ \A r \in DOMAIN runs : Plan(f, r) => runs'[r].plan = runs[r].plan
    BY <1>1
  <2> QED BY <1>1, <2>1, OthersKept
<1> QED BY <1>3, <1>4, <1>5 DEF Books

LEMMA SettleBooks ==
  ASSUME AllocationAssumption, Books, NEW i \in DOMAIN actions, Settle(i)
  PROVE  /\ Books' /\ Rewritten /\ RowsKept /\ funder' = funder /\ runs' = runs
         /\ \A f \in Funders, r \in DOMAIN runs' : Plan(f, r)' <=> Plan(f, r)
         /\ actions[i].transfer = "active" /\ actions'[i].transfer \in {"done", "failed"}
         /\ actions'[i].status = actions[i].status
         /\ cash' = IF actions'[i].transfer = "failed"
                      THEN [cash EXCEPT ![actions[i].from] = @ + actions[i].amount] ELSE cash
         /\ \A j \in DOMAIN actions \ {i} : actions'[j] = actions[j]
         /\ UNCHANGED <<purse, policy, ahead, runs, funder, turns, begun, shared, strained, chosen>>
<1>1. PICK t \in {"done", "failed"} :
        /\ actions' = [actions EXCEPT ![i].transfer = t]
        /\ cash' = IF t = "failed" THEN [cash EXCEPT ![actions[i].from] = @ + actions[i].amount]
           ELSE cash
  BY DEF Settle
<1>2. /\ actions[i].transfer = "active"
      /\ UNCHANGED <<purse, policy, ahead, runs, funder, turns, begun, shared, strained, chosen>>
  BY DEF Settle
<1>3. FundTypes /\ t \in Transfers
  BY DEF Books, Transfers
<1>4. /\ Rewritten /\ actions'[i].transfer = t /\ actions'[i].status = actions[i].status
      /\ \A j \in DOMAIN actions \ {i} : actions'[j] = actions[j]
  BY <1>1, <1>3, TransferSet
<1>5. RowsKept
  <2>1. \A j \in DOMAIN actions :
          /\ actions[j].transfer # "none" => actions'[j].transfer # "none"
          /\ actions[j].transfer = "failed" => actions'[j].transfer = "failed"
    BY <1>2, <1>4
  <2> QED BY <1>3, <1>4, <2>1, RewrittenKept
<1>6. FundTypes'
  <2>1. cash' \in [Sources -> Int]
    <3> DEFINE n == actions[i].amount
    <3>1. actions[i] \in ActionRows /\ cash \in [Sources -> Int]
      BY <1>3, TypeFacts DEF FundTypes
    <3>2. actions[i].amount \in MinTransfer..MaxSingle
      BY <3>1 DEF ActionRows
    <3>3. n \in Nat
      BY <3>2, Numbers
    <3>4. cash' = cash \/ cash' = [cash EXCEPT ![actions[i].from] = @ + n]
      BY <1>1
    <3> HIDE DEF n
    <3>5. \A x \in Sources : cash[x] + n \in Int
      BY <3>1, <3>3
    <3> QED BY <3>1, <3>4, <3>5
  <2> QED BY <1>2, <1>3, <1>4, <2>1 DEF FundTypes, Rewritten
<1>7. Books' /\ \A f \in Funders, r \in DOMAIN runs' : Plan(f, r)' <=> Plan(f, r)
  <2>1. funder' = funder /\ runs' = runs
    BY <1>2
  <2> QED BY <1>4, <1>5, <1>6, <2>1, WorldBooks
<1> QED BY <1>1, <1>2, <1>4, <1>5, <1>7

ArrivedRow(i) == IF actions[i].transfer = "done" THEN [actions[i] EXCEPT !.transfer = "arrived"]
  ELSE actions[i]

LEMMA SyncBooks ==
  ASSUME AllocationAssumption, Books, SyncBalances
  PROVE  /\ Books' /\ Rewritten /\ RowsKept /\ funder' = funder /\ runs' = runs
         /\ \A f \in Funders, r \in DOMAIN runs' : Plan(f, r)' <=> Plan(f, r)
         /\ \A i \in DOMAIN actions :
              /\ actions'[i].status = actions[i].status
              /\ actions'[i].transfer = IF actions[i].transfer = "done" THEN "arrived"
                 ELSE actions[i].transfer
         /\ purse' \in [Wallets -> Nat]
         /\ \A w \in Wallets :
              /\ purse'[w] = purse[w] + Amount(actions,
                 {i \in DOMAIN actions : actions[i].transfer = "done" /\ actions[i].to = w})
              /\ purse[w] <= purse'[w]
         /\ UNCHANGED <<cash, policy, ahead, runs, funder, turns, begun, shared, strained, chosen>>
<1> DEFINE rows == [i \in DOMAIN actions |-> ArrivedRow(i)]
           Came(w) == {i \in DOMAIN actions : actions[i].transfer = "done" /\ actions[i].to = w}
<1>1. /\ actions' = rows
      /\ purse' = [w \in Wallets |-> purse[w] + Amount(actions, Came(w))]
      /\ UNCHANGED <<cash, policy, ahead, runs, funder, turns, begun, shared, strained, chosen>>
  <2>1. /\ actions' = [i \in DOMAIN actions |->
                   IF i \in {j \in DOMAIN actions : actions[j].transfer = "done"}
                     THEN [actions[i] EXCEPT !.transfer = "arrived"] ELSE actions[i]]
        /\ purse' = [w \in Wallets |-> purse[w] + Moved({i \in {j \in DOMAIN actions : actions[j].transfer = "done"} :
                                                            actions[i].to = w})]
    BY DEF SyncBalances
  <2>2. \A w : {i \in {j \in DOMAIN actions : actions[j].transfer = "done"} : actions[i].to = w} = Came(w)
    OBVIOUS
  <2>3. actions' = rows
    BY <2>1 DEF ArrivedRow
  <2>4. purse' = [w \in Wallets |-> purse[w] + Amount(actions, Came(w))]
    BY <2>1, <2>2, MovedIs
  <2> QED BY <2>3, <2>4 DEF SyncBalances
<1>2. FundTypes /\ \A i \in DOMAIN actions : actions[i] \in ActionRows
  BY TypeFacts DEF Books
<1>3. \A i \in DOMAIN actions :
        /\ rows[i] \in ActionRows
        /\ rows[i].run = actions[i].run /\ rows[i].to = actions[i].to
        /\ rows[i].from = actions[i].from /\ rows[i].amount = actions[i].amount
        /\ rows[i].status = actions[i].status
        /\ rows[i].transfer = IF actions[i].transfer = "done" THEN "arrived" ELSE actions[i].transfer
  BY <1>2 DEF ArrivedRow, ActionRows, Transfers
<1>4. rows \in [DOMAIN actions -> ActionRows]
  BY <1>3
<1> HIDE DEF rows
<1>5. Rewritten
  BY <1>1, <1>2, <1>3, <1>4, Rewriting
<1>6. RowsKept
  <2>1. \A j \in DOMAIN actions :
          /\ actions[j].transfer # "none" => actions'[j].transfer # "none"
          /\ actions[j].transfer = "failed" => actions'[j].transfer = "failed"
    BY <1>1, <1>3
  <2> QED BY <1>2, <1>5, <2>1, RewrittenKept
<1>7. \A w \in Wallets : Amount(actions, Came(w)) \in Nat /\ purse[w] \in Nat
  <2> SUFFICES ASSUME NEW w \in Wallets PROVE Amount(actions, Came(w)) \in Nat /\ purse[w] \in Nat
    OBVIOUS
  <2>1. Came(w) \in SUBSET DOMAIN actions
    OBVIOUS
  <2>2. \A i \in DOMAIN actions : actions[i].amount \in Nat
    <3>1. \A i \in DOMAIN actions : actions[i].amount \in MinTransfer..MaxSingle
      BY <1>2 DEF ActionRows
    <3> QED BY <3>1, Numbers
  <2> HIDE DEF Came
  <2>3. IsFiniteSet(Came(w)) /\ \A i \in Came(w) : actions[i].amount \in Nat
    BY <1>2, <2>1, <2>2, TypeFacts, FS_Subset
  <2> QED BY <1>2, <2>3, AmountType DEF FundTypes
<1>8. /\ purse' \in [Wallets -> Nat]
      /\ \A w \in Wallets : purse'[w] = purse[w] + Amount(actions, Came(w)) /\ purse[w] <= purse'[w]
  <2> DEFINE more == [w \in Wallets |-> Amount(actions, Came(w))]
  <2>1. \A w \in Wallets : more[w] \in Nat /\ purse[w] \in Nat /\ more[w] = Amount(actions, Came(w))
    BY <1>7
  <2>2. purse' = [w \in Wallets |-> purse[w] + more[w]]
    BY <1>1
  <2> HIDE DEF more
  <2>4. \A w \in Wallets : purse[w] + more[w] \in Nat /\ purse[w] <= purse[w] + more[w]
    <3>1. \A m, n \in Nat : m + n \in Nat /\ m <= m + n
      OBVIOUS
    <3> QED BY <2>1, <3>1
  <2>5. purse' \in [Wallets -> Nat]
    BY <2>2, <2>4
  <2>6. \A w \in Wallets : purse'[w] = purse[w] + more[w]
    BY <2>2
  <2>3. purse' \in [Wallets -> Nat] /\ \A w \in Wallets : purse'[w] = purse[w] + more[w]
          /\ purse[w] <= purse'[w]
    BY <2>4, <2>5, <2>6
  <2> QED BY <2>1, <2>3
<1>9. FundTypes'
  BY <1>1, <1>2, <1>5, <1>8 DEF FundTypes, Rewritten
<1>10. Books' /\ \A f \in Funders, r \in DOMAIN runs' : Plan(f, r)' <=> Plan(f, r)
  <2>1. funder' = funder /\ runs' = runs
    BY <1>1
  <2> QED BY <1>5, <1>6, <1>9, <2>1, WorldBooks
<1> QED BY <1>1, <1>3, <1>5, <1>6, <1>8, <1>10

LEMMA TidyType ==
  ASSUME FundTypes
  PROVE  Tidy \in [Sources -> Policies]
<1>1. \A a \in Sources : policy[a] \in Policies
  BY DEF FundTypes
<1>2. \A a \in Sources : Tidied(policy[a], a) \in Policies
  BY <1>1 DEF Tidied, Policies
<1> QED BY <1>2 DEF Tidy

\* A change of the world, by its three kinds
Turn ==
  /\ turns < TurnLimit /\ turns' = turns + 1
  /\ funder' = [f \in Funders |-> [funder[f] EXCEPT !.alone = FALSE]]
  /\ UNCHANGED <<purse, runs, actions, begun, shared, strained>>

LEMMA TurnBooks ==
  ASSUME AllocationAssumption, Books, Spend \/ BillArrives \/ OwnerSetsPolicy
  PROVE  /\ Books' /\ StatusOnly /\ RowsKept /\ Turn
         /\ \A f \in Funders, r \in DOMAIN runs' : Plan(f, r)' <=> Plan(f, r)
         /\ \A f \in Funders : funder'[f] = [funder[f] EXCEPT !.alone = FALSE]
<1>1. Turn
  BY DEF Turn, Spend, BillArrives, OwnerSetsPolicy, World
<1>2. FundTypes /\ \A f \in Funders : funder[f] \in FunderRows
  BY TypeFacts DEF Books
<1>3. StatusOnly /\ RowsKept
  BY <1>1, <1>2, UnchangedRows, StatusOnlyKept DEF Turn
<1>4. cash' \in [Sources -> Int]
  <2>1. cash \in [Sources -> Int] /\ Invoice \in Nat
    BY <1>2, Numbers DEF FundTypes
  <2>2. cash' = cash \/ \E a \in Sources : cash' = [cash EXCEPT ![a] = @ - Invoice]
    BY DEF Spend, BillArrives, OwnerSetsPolicy, World
  <2> QED BY <2>1, <2>2
<1>5. policy' \in [Sources -> Policies] /\ chosen' \in [Sources -> {"none", "operating", "disabled"}]
  <2>1. /\ policy \in [Sources -> Policies] /\ Tidy \in [Sources -> Policies]
        /\ chosen \in [Sources -> {"none", "operating", "disabled"}]
    BY <1>2, TidyType DEF FundTypes
  <2>2. CASE policy' = policy /\ chosen' = chosen
    BY <2>1, <2>2
  <2>3. CASE \E a \in Sources, role \in {"operating", "disabled"}, plain \in BOOLEAN :
               /\ policy' = [Tidy EXCEPT ![a] = [role |-> role, plain |-> plain]]
               /\ chosen' = [chosen EXCEPT ![a] = IF plain THEN "none" ELSE role]
    <3>1. PICK a \in Sources, role \in {"operating", "disabled"}, plain \in BOOLEAN :
               /\ policy' = [Tidy EXCEPT ![a] = [role |-> role, plain |-> plain]]
               /\ chosen' = [chosen EXCEPT ![a] = IF plain THEN "none" ELSE role]
      BY <2>3
    <3>2. [role |-> role, plain |-> plain] \in Policies
      BY DEF Policies
    <3> QED BY <2>1, <3>1, <3>2
  <2> QED BY <2>2, <2>3 DEF Spend, BillArrives, OwnerSetsPolicy, World
<1>6. ahead' \in Futures
  <2>1. ahead \in Futures
    BY <1>2 DEF FundTypes
  <2>2. CASE ahead' = ahead
    BY <2>1, <2>2
  <2>3. CASE ahead' = ahead \cup {[day |-> 0, kind |-> "bill", amount |-> Invoice]}
    <3> DEFINE e == [day |-> 0, kind |-> "bill", amount |-> Invoice]
    <3>1. e \in Items
      BY Numbers DEF Items
    <3>2. ahead \in SUBSET Items /\ IsFiniteSet(ahead)
      BY <2>1 DEF Futures
    <3> HIDE DEF e
    <3>3. IsFiniteSet(ahead \cup {e}) /\ ahead \cup {e} \in SUBSET Items
      BY <3>1, <3>2, FS_AddElement
    <3>4. ahead \cup {e} \in Futures
      BY <3>3 DEF Futures
    <3> QED BY <2>3, <3>4 DEF e
  <2> QED BY <2>2, <2>3 DEF Spend, BillArrives, OwnerSetsPolicy, World
<1>7. /\ funder' \in [Funders -> FunderRows]
      /\ \A f \in Funders : funder'[f] = [funder[f] EXCEPT !.alone = FALSE]
  <2>1. \A f \in Funders : [funder[f] EXCEPT !.alone = FALSE] \in FunderRows
    BY <1>2 DEF FunderRows
  <2> QED BY <1>1, <2>1 DEF Turn
<1>8. turns' \in 0..TurnLimit
  <2>1. turns \in 0..TurnLimit
    BY <1>2 DEF FundTypes
  <2>2. turns < TurnLimit /\ turns' = turns + 1
    BY <1>1 DEF Turn
  <2>3. TurnLimit \in Nat
    BY Numbers
  <2> QED BY <2>1, <2>2, <2>3
<1>9. FundTypes'
  BY <1>1, <1>2, <1>3, <1>4, <1>5, <1>6, <1>7, <1>8 DEF FundTypes, StatusOnly, Rewritten, Turn
<1>10. Books' /\ \A f \in Funders, r \in DOMAIN runs' : Plan(f, r)' <=> Plan(f, r)
  <2>1. runs' = runs
    BY <1>1 DEF Turn
  <2> QED BY <1>3, <1>7, <1>9, <2>1, WorldBooks DEF StatusOnly
<1> QED BY <1>1, <1>3, <1>7, <1>10

LEMMA PoliciesBooks ==
  ASSUME AllocationAssumption, Books, EnsurePolicies
  PROVE  /\ Books' /\ StatusOnly /\ RowsKept /\ funder' = funder
         /\ \A f \in Funders, r \in DOMAIN runs' : Plan(f, r)' <=> Plan(f, r)
<1>1. /\ policy' = Tidy
      /\ UNCHANGED <<cash, purse, ahead, runs, actions, funder, turns, begun, shared, strained, chosen>>
  BY DEF EnsurePolicies
<1>2. FundTypes
  BY DEF Books
<1>3. StatusOnly /\ RowsKept
  BY <1>1, <1>2, UnchangedRows, StatusOnlyKept
<1>4. FundTypes'
  BY <1>1, <1>2, TidyType DEF FundTypes
<1>5. Books' /\ \A f \in Funders, r \in DOMAIN runs' : Plan(f, r)' <=> Plan(f, r)
  <2>1. funder' = funder /\ runs' = runs
    BY <1>1
  <2> QED BY <1>3, <1>4, <2>1, WorldBooks DEF StatusOnly
<1> QED BY <1>1, <1>3, <1>5

-----------------------------------------------------------------------------
(*****************************************************************************)
(* What a run may still move                                                 *)
(*****************************************************************************)

LEMMA AmountOf ==
  ASSUME AllocationAssumption, FundTypes, NEW S \in SUBSET DOMAIN actions
  PROVE  /\ IsFiniteSet(S) /\ \A i \in S : actions[i].amount \in Nat
         /\ Amount(actions, S) \in Nat
<1>1. \A i \in DOMAIN actions : actions[i].amount \in Nat
  <2>1. \A i \in DOMAIN actions : actions[i].amount \in MinTransfer..MaxSingle
    BY TypeFacts DEF ActionRows
  <2> QED BY <2>1, Numbers
<1>2. IsFiniteSet(S)
  BY TypeFacts, FS_Subset
<1>3. \A i \in S : actions[i].amount \in Nat
  BY <1>1
<1> QED BY <1>2, <1>3, AmountType

\* Nobody starts to plan a run, or to hold an action.
NoNewHands ==
  /\ \A f \in Funders, r \in DOMAIN runs' : Plan(f, r)' => r \in DOMAIN runs /\ Plan(f, r)
  /\ \A f \in Funders, i \in DOMAIN actions' : InHand(f, i)' => i \in DOMAIN actions /\ InHand(f, i)

LEMMA OwnHandsBy ==
  ASSUME OwnHands, RowsKept, NoNewHands, shared \subseteq shared'
  PROVE  OwnHands'
<1> SUFFICES ASSUME NEW f \in Funders, NEW g \in Funders, NEW r \in DOMAIN runs', f # g,
                        Plan(f, r)', r \notin shared',
                    NEW i \in DOMAIN actions', InHand(g, i)'
             PROVE  actions'[i].run # r
  BY DEF OwnHands
<1>1. r \in DOMAIN runs /\ Plan(f, r) /\ i \in DOMAIN actions /\ InHand(g, i) /\ r \notin shared
  BY DEF NoNewHands
<1>2. actions[i].run # r
  BY <1>1 DEF OwnHands
<1> QED BY <1>1, <1>2 DEF RowsKept

\* A planner has what it still holds within what it has left.
LEMMA WithinSurplus ==
  ASSUME AllocationAssumption, Books, NEW r \in DOMAIN runs, Budgeted(r), r \notin shared
  PROVE  /\ Amount(actions, Live(r)) \in Nat /\ Amount(actions, Live(r)) <= runs[r].surplus
<1>1. FundTypes /\ runs[r].surplus \in Nat /\ Live(r) \in SUBSET DOMAIN actions
  <2>1. FundTypes /\ runs[r] \in RunRows
    BY TypeFacts DEF Books
  <2> QED BY <2>1 DEF RunRows, Live
<1>2. IsFiniteSet(Live(r)) /\ (\A i \in Live(r) : actions[i].amount \in Nat)
        /\ Amount(actions, Live(r)) \in Nat
  BY <1>1, AmountOf
<1>3. CASE \A f \in Funders : ~Plan(f, r)
  BY <1>2, <1>3 DEF Budgeted
<1>4. CASE \E f \in Funders : Plan(f, r)
  <2>1. PICK f \in Funders : Plan(f, r)
    BY <1>4
  <2> DEFINE i == funder[f].act
             rest == Amount(actions, Live(r) \ {i})
             left == funder[f].left
  <2>2. rest + left <= runs[r].surplus
    BY <2>1 DEF Budgeted
  <2>3. left \in Nat
    BY <1>1, TypeFacts DEF FunderRows
  <2>4. CASE i \in Live(r)
    <3>1. Amount(actions, Live(r)) = actions[i].amount + rest /\ rest \in Nat
      BY <1>2, <2>4, AmountOne
    <3>2. i \in DOMAIN actions /\ i # 0
      BY <1>1, <2>4, TypeFacts DEF Live
    <3>3. Moving(f) /\ AtWork(f) /\ funder[f].run # 0
      <4>1. SessionOK(f) /\ AtWork(f)
        BY DEF Books
      <4>2. r # 0 /\ funder[f].run = r
        BY <1>1, <2>1, TypeFacts DEF Plan
      <4> QED BY <3>2, <4>1, <4>2 DEF SessionOK
    <3>4. actions[i].amount <= left
      BY <3>3 DEF AtWork
    <3>5. actions[i].amount \in Nat
      BY <1>2, <2>4
    <3> HIDE DEF rest, left, i
    <3> QED BY <1>1, <1>2, <2>2, <2>3, <3>1, <3>4, <3>5
  <2>5. CASE i \notin Live(r)
    <3>1. Live(r) \ {i} = Live(r)
      BY <2>5
    <3>2. rest = Amount(actions, Live(r))
      BY <3>1
    <3> HIDE DEF rest, left, i
    <3> QED BY <1>1, <1>2, <2>2, <2>3, <3>2
  <2> QED BY <2>4, <2>5
<1> QED BY <1>3, <1>4

\* What a planner has to give does not grow.
LEMMA BudgetBy ==
  ASSUME AllocationAssumption, Books, FundTypes', RowsKept, NEW r \in DOMAIN runs,
         r \in DOMAIN runs', Budgeted(r),
         shared \subseteq shared', runs'[r].surplus = runs[r].surplus,
         (\A f \in Funders : ~Plan(f, r)') => Live(r)' \subseteq Live(r),
         \A f \in Funders : Plan(f, r)' =>
           /\ Plan(f, r)
           /\ Amount(actions, Live(r) \ {funder[f].act})' + funder'[f].left
                <= Amount(actions, Live(r) \ {funder[f].act}) + funder[f].left
  PROVE  Budgeted(r)'
<1> SUFFICES ASSUME r \notin shared'
             PROVE  /\ (\A f \in Funders : ~Plan(f, r)') =>
                         Amount(actions', Live(r)') <= runs'[r].surplus
                    /\ \A f \in Funders : Plan(f, r)' =>
                         Amount(actions, Live(r) \ {funder[f].act})' + funder'[f].left
                           <= runs'[r].surplus
  BY DEF Budgeted
<1>0. r \notin shared
  OBVIOUS
<1>1. FundTypes /\ runs[r].surplus \in Nat
  <2>1. FundTypes /\ runs[r] \in RunRows
    BY TypeFacts DEF Books
  <2> QED BY <2>1 DEF RunRows
<1>2. ASSUME \A f \in Funders : ~Plan(f, r)' PROVE Amount(actions', Live(r)') <= runs'[r].surplus
  <2>1. Live(r)' \in SUBSET Live(r) /\ Live(r) \in SUBSET DOMAIN actions
    BY <1>2 DEF Live
  <2>2. IsFiniteSet(Live(r)) /\ \A i \in Live(r) : actions[i].amount \in Nat
    BY <1>1, <2>1, AmountOf
  <2>3. \A i \in Live(r)' : actions'[i].amount = actions[i].amount
    BY <2>1 DEF RowsKept
  <2>4. /\ Amount(actions', Live(r)') \in Nat /\ Amount(actions, Live(r)) \in Nat
        /\ Amount(actions', Live(r)') <= Amount(actions, Live(r))
    BY <2>1, <2>2, <2>3, AmountLess
  <2>5. Amount(actions, Live(r)) <= runs[r].surplus
    BY <1>0, WithinSurplus
  <2> QED BY <1>1, <2>4, <2>5
<1>3. ASSUME NEW f \in Funders, Plan(f, r)'
      PROVE  Amount(actions, Live(r) \ {funder[f].act})' + funder'[f].left <= runs'[r].surplus
  <2> DEFINE x == Amount(actions, Live(r) \ {funder[f].act})' + funder'[f].left
             y == Amount(actions, Live(r) \ {funder[f].act}) + funder[f].left
  <2>1. x <= y
    BY <1>3
  <2>2. y <= runs[r].surplus
    BY <1>0, <1>3 DEF Budgeted
  <2>3. x \in Int /\ y \in Int
    <3>1. Live(r) \ {funder[f].act} \in SUBSET DOMAIN actions
      BY DEF Live
    <3>2. Amount(actions, Live(r) \ {funder[f].act}) \in Nat
      BY <1>1, <3>1, AmountOf
    <3>3. (Live(r) \ {funder[f].act})' \in SUBSET DOMAIN actions'
      BY DEF Live
    <3>4. \A i \in DOMAIN actions' : actions'[i].amount \in Nat
      <4>1. \A i \in DOMAIN actions' : actions'[i] \in ActionRows
        BY DEF FundTypes
      <4>2. \A i \in DOMAIN actions' : actions'[i].amount \in MinTransfer..MaxSingle
        BY <4>1 DEF ActionRows
      <4> QED BY <4>2, Numbers
    <3>5. IsFiniteSet(DOMAIN actions')
      <4>1. DOMAIN actions' = 1..Len(actions') /\ Len(actions') \in Nat
        BY DEF FundTypes
      <4>2. 1 \in Int /\ Len(actions') \in Int
        BY <4>1
      <4> QED BY <4>1, <4>2, FS_Interval
    <3>6. IsFiniteSet((Live(r) \ {funder[f].act})')
            /\ \A i \in (Live(r) \ {funder[f].act})' : actions'[i].amount \in Nat
      BY <3>3, <3>4, <3>5, FS_Subset
    <3>7. Amount(actions, Live(r) \ {funder[f].act})' \in Nat
      BY <3>6, AmountType
    <3>8. funder'[f] \in FunderRows /\ funder[f] \in FunderRows
      BY <1>1 DEF FundTypes
    <3>9. funder'[f].left \in Nat /\ funder[f].left \in Nat
      BY <3>8 DEF FunderRows
    <3> QED BY <3>2, <3>7, <3>9
  <2> HIDE DEF x, y
  <2>4. x <= runs'[r].surplus
    BY <1>1, <2>1, <2>2, <2>3
  <2> QED BY <2>4 DEF x
<1> QED BY <1>2, <1>3

LEMMA AmountShrinks ==
  ASSUME AllocationAssumption, FundTypes, RowsKept, NEW S \in SUBSET DOMAIN actions, NEW T \in SUBSET S
  PROVE  /\ Amount(actions', T) \in Nat /\ Amount(actions, S) \in Nat
         /\ Amount(actions', T) <= Amount(actions, S)
<1>1. IsFiniteSet(S) /\ \A i \in S : actions[i].amount \in Nat
  BY AmountOf
<1>2. \A i \in T : actions'[i].amount = actions[i].amount
  BY DEF RowsKept
<1> QED BY <1>1, <1>2, AmountLess

\* An action that may still go could go before.
LEMMA MayGoLess ==
  ASSUME DOMAIN actions' = DOMAIN actions,
         \A i \in DOMAIN actions : actions'[i].transfer = "none" =>
           /\ actions[i].transfer = "none"
           /\ actions'[i].status \in {"planned", "dispatching"} =>
                actions[i].status \in {"planned", "dispatching"} \/ \E f \in Funders : InHand(f, i)
           /\ \A f \in Funders : InHand(f, i)' => InHand(f, i)
              \/ actions[i].status \in {"planned", "dispatching"}
  PROVE  \A i \in DOMAIN actions : MayGo(i)' => MayGo(i)
BY DEF MayGo

LEMMA LiveLess ==
  ASSUME Rewritten, \A i \in DOMAIN actions : MayGo(i)' => MayGo(i),
         \A i \in DOMAIN actions : actions'[i].transfer \notin Gone
           => actions[i].transfer \notin Gone \/ MayGo(i)
  PROVE  \A r : Live(r)' \subseteq Live(r)
<1> SUFFICES ASSUME NEW r, NEW i \in Live(r)' PROVE i \in Live(r)
  OBVIOUS
<1>1. i \in DOMAIN actions' /\ actions'[i].run = r /\ (actions'[i].transfer \notin Gone \/ MayGo(i)')
  BY DEF Live
<1>2. i \in DOMAIN actions /\ actions[i].run = r
  BY <1>1 DEF Rewritten
<1>3. actions[i].transfer \notin Gone \/ MayGo(i)
  BY <1>1, <1>2
<1> QED BY <1>2, <1>3 DEF Live

\* How a step keeps the budget of every run: each planner has no more left, and holds what
\* it held, or has let go what cannot move any more, or what it has taken off.
LEMMA BudgetsKept ==
  ASSUME AllocationAssumption, Books, FundTypes', RowsKept, \A r \in DOMAIN runs : Budgeted(r),
         shared \subseteq shared',
         \A r \in DOMAIN runs : Live(r)' \subseteq Live(r),
         \A r \in DOMAIN runs' :
           \/ r \in DOMAIN runs /\ runs'[r].surplus = runs[r].surplus
           \/ Live(r)' = {} /\ \A f \in Funders : ~Plan(f, r)',
         \A r \in DOMAIN runs, f \in Funders : r \notin shared' /\ Plan(f, r)' =>
           /\ Plan(f, r)
           /\ \/ /\ funder'[f].left <= funder[f].left
                 /\ funder'[f].act = funder[f].act \/ funder[f].act \notin Live(r)'
              \/ /\ funder[f].act \in DOMAIN actions
                 /\ funder'[f].left + actions[funder[f].act].amount <= funder[f].left
  PROVE  \A r \in DOMAIN runs' : Budgeted(r)'
<1> SUFFICES ASSUME NEW r \in DOMAIN runs', r \notin shared' PROVE Budgeted(r)'
  BY DEF Budgeted
<1>1. FundTypes /\ \A f \in Funders : funder[f].left \in Nat /\ funder'[f].left \in Nat
  <2>1. FundTypes /\ \A f \in Funders : funder[f] \in FunderRows /\ funder'[f] \in FunderRows
    BY DEF FundTypes, Books
  <2> QED BY <2>1 DEF FunderRows
<1>2. CASE r \in DOMAIN runs /\ runs'[r].surplus = runs[r].surplus
  <2>1. ASSUME NEW f \in Funders, Plan(f, r)'
        PROVE  /\ Plan(f, r)
               /\ Amount(actions, Live(r) \ {funder[f].act})' + funder'[f].left
                    <= Amount(actions, Live(r) \ {funder[f].act}) + funder[f].left
    <3> DEFINE i == funder[f].act
               S == Live(r) \ {i}
               T == Live(r)' \ {funder'[f].act}
    <3>1. Live(r) \in SUBSET DOMAIN actions /\ Live(r)' \subseteq Live(r) /\ S \in SUBSET DOMAIN actions
      BY <1>2 DEF Live
    <3>2. CASE /\ funder'[f].left <= funder[f].left
               /\ funder'[f].act = funder[f].act \/ funder[f].act \notin Live(r)'
      <4>1. T \in SUBSET S
        BY <3>1, <3>2
      <4> HIDE DEF T, S
      <4>2. Amount(actions', T) \in Nat /\ Amount(actions, S) \in Nat
              /\ Amount(actions', T) <= Amount(actions, S)
        BY <1>1, <3>1, <4>1, AmountShrinks
      <4>3. Amount(actions', T) + funder'[f].left <= Amount(actions, S) + funder[f].left
        BY <1>1, <3>2, <4>2
      <4>4. Plan(f, r)
        BY <1>2, <2>1
      <4> QED BY <4>3, <4>4 DEF T, S
    <3>3. CASE i \in DOMAIN actions /\ funder'[f].left + actions[i].amount <= funder[f].left
      <4>1. T \in SUBSET Live(r)
        BY <3>1
      <4>2. /\ IsFiniteSet(Live(r)) /\ \A j \in Live(r) : actions[j].amount \in Nat
            /\ Amount(actions, S) \in Nat
        BY <1>1, <3>1, AmountOf
      <4>3. /\ Amount(actions', T) \in Nat /\ Amount(actions, Live(r)) \in Nat
            /\ Amount(actions', T) <= Amount(actions, Live(r))
        BY <1>1, <3>1, <4>1, AmountShrinks
      <4>4. actions[i].amount \in Nat
        <5>1. {i} \in SUBSET DOMAIN actions
          BY <3>3
        <5>2. \A j \in {i} : actions[j].amount \in Nat
          BY <1>1, <5>1, AmountOf
        <5> QED BY <5>2
      <4>5. Amount(actions, Live(r)) <= Amount(actions, S) + actions[i].amount
        <5>1. CASE i \in Live(r)
          <6>1. Amount(actions, Live(r)) = actions[i].amount + Amount(actions, Live(r) \ {i})
            BY <4>2, <5>1, AmountOne
          <6> QED BY <6>1, <4>2, <4>3, <4>4
        <5>2. CASE i \notin Live(r)
          <6>1. S = Live(r)
            BY <5>2
          <6>2. Amount(actions, S) = Amount(actions, Live(r))
            BY <6>1
          <6> HIDE DEF S
          <6> QED BY <6>2, <4>2, <4>3, <4>4
        <5> QED BY <5>1, <5>2
      <4> DEFINE x == Amount(actions', T)
                 y == Amount(actions, S)
                 z == Amount(actions, Live(r))
                 n == actions[i].amount
      <4>6. x \in Nat /\ y \in Nat /\ z \in Nat /\ n \in Nat /\ x <= z /\ z <= y + n
              /\ funder'[f].left + n <= funder[f].left
        BY <3>3, <4>2, <4>3, <4>4, <4>5
      <4>8. x = Amount(actions, Live(r) \ {funder[f].act})'
              /\ y = Amount(actions, Live(r) \ {funder[f].act})
        OBVIOUS
      <4> HIDE DEF x, y, z, n
      <4>7. x + funder'[f].left <= y + funder[f].left
        BY <1>1, <4>6
      <4>9. Plan(f, r)
        BY <1>2, <2>1
      <4> QED BY <4>7, <4>8, <4>9
    <3> QED BY <1>2, <2>1, <3>2, <3>3
  <2>2. Live(r)' \subseteq Live(r) /\ Budgeted(r)
    BY <1>2
  <2> QED BY <1>2, <2>1, <2>2, BudgetBy
<1>3. CASE Live(r)' = {} /\ \A f \in Funders : ~Plan(f, r)'
  <2>1. runs'[r] \in RunRows
    <3>1. runs' \in Seq(RunRows) /\ r \in DOMAIN runs'
      BY DEF FundTypes
    <3> QED BY <3>1
  <2>2. runs'[r].surplus \in Nat
    BY <2>1 DEF RunRows
  <2>3. Amount(actions', Live(r)') = 0
    BY <1>3, AmountEmpty
  <2> QED BY <1>3, <2>2, <2>3 DEF Budgeted
<1> QED BY <1>2, <1>3

\* A session that another one's step leaves as it is
Still(f) ==
  /\ funder'[f].pc = funder[f].pc /\ funder'[f].run = funder[f].run /\ funder'[f].act = funder[f].act
  /\ funder'[f].todo = funder[f].todo /\ funder'[f].gap = funder[f].gap
     /\ funder'[f].left = funder[f].left
  /\ funder'[f].back = funder[f].back /\ funder'[f].seen = funder[f].seen
  /\ funder'[f].alone => funder[f].alone

LEMMA StillIs ==
  ASSUME AllocationAssumption, Books, NEW f \in Funders,
         funder'[f] = funder[f] \/ funder'[f] = [funder[f] EXCEPT !.alone = FALSE]
  PROVE  Still(f)
<1>1. funder[f] \in FunderRows
  BY TypeFacts DEF Books
<1> QED BY <1>1 DEF Still, FunderRows

Funds == OwnHands /\ \A r \in DOMAIN runs : Budgeted(r)
Pending(i) == actions[i].status \in {"planned", "dispatching"}

\* A step that begins no plan and takes up no action
LEMMA QuietFunds ==
  ASSUME AllocationAssumption, Books, FundTypes', Rewritten, RowsKept, Funds,
         shared \subseteq shared', NoNewHands,
         \A i \in DOMAIN actions :
           /\ actions'[i].transfer = "none" =>
                /\ actions[i].transfer = "none"
                /\ Pending(i)' => Pending(i) \/ \E f \in Funders : InHand(f, i)
           /\ actions'[i].transfer \notin Gone => actions[i].transfer \notin Gone \/ MayGo(i),
         \A r \in DOMAIN runs' :
           \/ r \in DOMAIN runs /\ runs'[r].surplus = runs[r].surplus
           \/ Live(r)' = {} /\ \A f \in Funders : ~Plan(f, r)',
         \A r \in DOMAIN runs, f \in Funders : r \notin shared' /\ Plan(f, r)' =>
           /\ Plan(f, r)
           /\ \/ /\ funder'[f].left <= funder[f].left
                 /\ funder'[f].act = funder[f].act \/ funder[f].act \notin Live(r)'
              \/ /\ funder[f].act \in DOMAIN actions
                 /\ funder'[f].left + actions[funder[f].act].amount <= funder[f].left
  PROVE  Funds'
<1>1. OwnHands'
  BY OwnHandsBy DEF Funds
<1>2. DOMAIN actions' = DOMAIN actions
  BY DEF Rewritten
<1>3. \A i \in DOMAIN actions : actions'[i].transfer = "none" =>
           /\ actions[i].transfer = "none"
           /\ actions'[i].status \in {"planned", "dispatching"} =>
                actions[i].status \in {"planned", "dispatching"} \/ \E f \in Funders : InHand(f, i)
           /\ \A f \in Funders : InHand(f, i)' => InHand(f, i)
              \/ actions[i].status \in {"planned", "dispatching"}
  <2>1. \A f \in Funders, i \in DOMAIN actions : InHand(f, i)' => InHand(f, i)
    BY <1>2 DEF NoNewHands
  <2> QED BY <2>1 DEF Pending
<1>4. \A i \in DOMAIN actions : MayGo(i)' => MayGo(i)
  BY <1>2, <1>3, MayGoLess
<1>5. \A r : Live(r)' \subseteq Live(r)
  BY <1>4, LiveLess
<1>6. \A r \in DOMAIN runs' : Budgeted(r)'
  BY <1>5, BudgetsKept DEF Funds
<1> QED BY <1>1, <1>6 DEF Funds

\* A step after which every session is as it was, or done, and the transfers are as they were
\* or further
LEMMA EasyFunds ==
  ASSUME AllocationAssumption, Books, FundTypes', Rewritten, RowsKept, Funds, shared' = shared,
         DOMAIN runs' = DOMAIN runs, \A r \in DOMAIN runs : runs'[r].surplus = runs[r].surplus,
         \A i \in DOMAIN actions :
           /\ actions'[i].transfer = "none" => actions[i].transfer = "none"
              /\ actions'[i].status = actions[i].status
           /\ actions'[i].transfer \notin Gone => actions[i].transfer \notin Gone
              \/ \E f \in Funders : funder[f].act = i
           /\ actions'[i].transfer \notin Gone /\ actions[i].transfer \in Gone
              => actions[i].transfer = "none",
         \A f \in Funders :
           \/ /\ funder'[f].run = funder[f].run /\ funder'[f].act = funder[f].act
              /\ funder'[f].todo = funder[f].todo /\ funder'[f].left = funder[f].left
              /\ funder'[f].pc # "planning" => funder[f].pc # "planning"
           \/ funder'[f].run = 0 /\ funder'[f].act = 0 /\ funder'[f].todo = {}
  PROVE  Funds'
<1>1. /\ DOMAIN runs = 1..Len(runs) /\ Len(runs) \in Nat /\ DOMAIN actions = 1..Len(actions)
      /\ Len(actions) \in Nat /\ DOMAIN actions' = DOMAIN actions
      /\ \A f \in Funders : funder[f].left \in Nat
  <2>1. FundTypes /\ \A f \in Funders : funder[f] \in FunderRows
    BY TypeFacts DEF Books
  <2> QED BY <2>1, TypeFacts DEF Rewritten, FunderRows
<1>2. 0 \notin DOMAIN runs /\ 0 \notin DOMAIN actions
  BY <1>1
<1>3. \A f \in Funders, r \in DOMAIN runs' :
        Plan(f, r)' => /\ r \in DOMAIN runs /\ Plan(f, r) /\ funder'[f].left = funder[f].left
                       /\ funder'[f].act = funder[f].act
  BY <1>2 DEF Plan
<1>4. \A f \in Funders, i \in DOMAIN actions' : InHand(f, i)' => i \in DOMAIN actions /\ InHand(f, i)
  BY <1>1, <1>2 DEF InHand
<1>5. NoNewHands
  BY <1>3, <1>4 DEF NoNewHands
<1>6. \A i \in DOMAIN actions :
           /\ actions'[i].transfer = "none" =>
                /\ actions[i].transfer = "none"
                /\ Pending(i)' => Pending(i) \/ \E f \in Funders : InHand(f, i)
           /\ actions'[i].transfer \notin Gone => actions[i].transfer \notin Gone \/ MayGo(i)
  BY DEF Pending, MayGo, InHand
<1>7. \A r \in DOMAIN runs, f \in Funders : r \notin shared' /\ Plan(f, r)' =>
           /\ Plan(f, r)
           /\ funder'[f].left <= funder[f].left
           /\ funder'[f].act = funder[f].act
  BY <1>1, <1>3
<1> QED BY <1>5, <1>6, <1>7, QuietFunds

LEMMA BeginCycleFunds ==
  ASSUME AllocationAssumption, Books, Funds, NEW s \in Funders, BeginCycle(s)
  PROVE  Funds'
<1> DEFINE todo == {i \in DOMAIN actions : Reconciled[i].status = "planned"}
           m == [Waiting EXCEPT !.pc = "resuming", !.todo = todo]
<1>1. Books' /\ StatusOnly /\ RowsKept /\ FundTypes /\ FundTypes'
  BY BeginCycleBooks DEF Books
<1>2. /\ funder[s].pc = "idle" /\ actions' = Reconciled
      /\ shared' = shared \cup {r \in DOMAIN runs : \E i \in todo, f \in Funders \ {s} :
                                              actions[i].run = r /\ PlannedRun(f) = r}
      /\ Fund(s, m) /\ runs' = runs
  BY DEF BeginCycle
<1>3. /\ funder'[s].run = 0 /\ funder'[s].act = 0 /\ funder'[s].todo = todo
      /\ \A f \in Funders \ {s} : funder'[f] = funder[f]
  BY <1>1, <1>2 DEF Fund, FundTypes, Waiting
<1>4. /\ DOMAIN runs = 1..Len(runs) /\ Len(runs) \in Nat /\ DOMAIN actions = 1..Len(actions)
      /\ Len(actions) \in Nat /\ DOMAIN actions' = DOMAIN actions /\ 0 \notin DOMAIN runs
         /\ 0 \notin DOMAIN actions
      /\ \A f \in Funders : funder[f].left \in Nat
  <2>1. FundTypes /\ \A f \in Funders : funder[f] \in FunderRows
    BY <1>1, TypeFacts
  <2> QED BY <1>1, <2>1, TypeFacts DEF StatusOnly, Rewritten, FunderRows
<1>5. \A i \in DOMAIN actions : actions[i].transfer = "none" => (Pending(i)' => Pending(i))
        /\ (i \in todo => Pending(i))
  <2>1. \A i \in DOMAIN actions :
              actions[i].transfer = "none" =>
                \/ actions'[i].status = actions[i].status
                \/ actions[i].status = "dispatching" /\ actions'[i].status = "planned"
    BY <1>1, <1>2, Reconciling
  <2>2. \A i \in todo : actions'[i].status = "planned"
    BY <1>2
  <2> HIDE DEF todo
  <2> QED BY <2>1, <2>2 DEF Pending
<1> HIDE DEF todo, m
<1>6. \A f \in Funders, r \in DOMAIN runs : Plan(f, r)' => f # s /\ Plan(f, r)
  BY <1>3, <1>4 DEF Plan
<1>7. OwnHands'
  <2> SUFFICES ASSUME NEW f \in Funders, NEW g \in Funders, NEW r \in DOMAIN runs, f # g,
                          Plan(f, r)', r \notin shared',
                      NEW i \in DOMAIN actions, InHand(g, i)'
               PROVE  actions'[i].run # r
    BY <1>2, <1>4 DEF OwnHands
  <2>1. f # s /\ Plan(f, r) /\ r \notin shared
    BY <1>2, <1>6
  <2>2. actions'[i].run = actions[i].run
    BY <1>1 DEF RowsKept
  <2>3. CASE g = s
    <3>1. i \in todo
      BY <1>3, <1>4, <2>3 DEF InHand
    <3>2. PlannedRun(f) = r
      BY <2>1 DEF Plan, PlannedRun
    <3> QED BY <1>2, <2>1, <2>2, <3>1, <3>2
  <2>4. CASE g # s
    <3>1. InHand(g, i)
      BY <1>3, <2>4 DEF InHand
    <3> QED BY <2>1, <2>2, <3>1 DEF Funds, OwnHands
  <2> QED BY <2>3, <2>4
<1>8. \A i \in DOMAIN actions : actions'[i].transfer = "none" =>
           /\ actions[i].transfer = "none"
           /\ actions'[i].status \in {"planned", "dispatching"} =>
                actions[i].status \in {"planned", "dispatching"} \/ \E f \in Funders : InHand(f, i)
           /\ \A f \in Funders : InHand(f, i)' => InHand(f, i)
              \/ actions[i].status \in {"planned", "dispatching"}
  <2>1. \A i \in DOMAIN actions : actions'[i].transfer = actions[i].transfer
    BY <1>1 DEF StatusOnly
  <2>2. \A f \in Funders, i \in DOMAIN actions : InHand(f, i)' => InHand(f, i) \/ i \in todo
    BY <1>3, <1>4 DEF InHand
  <2> QED BY <1>5, <2>1, <2>2 DEF Pending
<1>9. \A r : Live(r)' \subseteq Live(r)
  <2>1. \A i \in DOMAIN actions : MayGo(i)' => MayGo(i)
    BY <1>4, <1>8, MayGoLess
  <2>2. \A i \in DOMAIN actions : actions'[i].transfer \notin Gone
          => actions[i].transfer \notin Gone \/ MayGo(i)
    BY <1>1 DEF StatusOnly
  <2> QED BY <1>1, <2>1, <2>2, LiveLess DEF StatusOnly
<1>10. \A r \in DOMAIN runs, f \in Funders : Plan(f, r)' => Plan(f, r) /\ funder'[f] = funder[f]
  BY <1>3, <1>6
<1>11. \A r \in DOMAIN runs' : Budgeted(r)'
  <2>1. \A r \in DOMAIN runs, f \in Funders : r \notin shared' /\ Plan(f, r)' =>
           /\ Plan(f, r) /\ funder'[f].left <= funder[f].left /\ funder'[f].act = funder[f].act
    BY <1>4, <1>10
  <2>2. shared \subseteq shared' /\ runs' = runs
    BY <1>2
  <2> QED BY <1>1, <1>9, <2>1, <2>2, BudgetsKept DEF Funds
<1> QED BY <1>7, <1>11 DEF Funds

LEMMA ResumeFunds ==
  ASSUME AllocationAssumption, Books, Funds, NEW s \in Funders, Resume(s)
  PROVE  Funds'
<1> DEFINE i == Min(funder[s].todo)
           m == [funder[s] EXCEPT !.pc = "dispatching", !.act = i, !.back = "resuming", !.todo = @ \ {i}]
<1>1. Books' /\ StatusOnly /\ RowsKept /\ FundTypes /\ FundTypes' /\ Rewritten
  BY ResumeBooks DEF Books, StatusOnly
<1>2. /\ funder[s].pc = "resuming" /\ funder[s].todo # {}
      /\ actions' = [actions EXCEPT ![i].status = "dispatching"] /\ Fund(s, m)
      /\ UNCHANGED <<runs, shared>>
  BY DEF Resume
<1>3. funder[s] \in FunderRows /\ funder[s].todo \subseteq DOMAIN actions /\ funder[s].run = 0
  BY <1>1, <1>2, TypeFacts DEF Books, SessionOK
<1>4. /\ DOMAIN runs = 1..Len(runs) /\ Len(runs) \in Nat /\ DOMAIN actions = 1..Len(actions)
      /\ Len(actions) \in Nat /\ DOMAIN actions' = DOMAIN actions /\ 0 \notin DOMAIN runs
         /\ 0 \notin DOMAIN actions
      /\ \A f \in Funders : funder[f].left \in Nat
  <2>1. FundTypes /\ \A f \in Funders : funder[f] \in FunderRows
    BY <1>1, TypeFacts
  <2> QED BY <1>1, <2>1, TypeFacts DEF StatusOnly, Rewritten, FunderRows
<1>5. i \in funder[s].todo
  <2>1. funder[s].todo \in SUBSET Int /\ IsFiniteSet(funder[s].todo)
    BY <1>1, <1>3, <1>4, TypeFacts, FS_Subset
  <2> QED BY <1>2, <2>1, MinIs
<1> HIDE DEF i
<1>6. /\ m.run = 0 /\ m.act = i /\ m.todo = funder[s].todo \ {i}
  BY <1>3 DEF FunderRows
<1> HIDE DEF m
<1>7. /\ funder'[s] = m /\ \A f \in Funders \ {s} : funder'[f] = funder[f]
  BY <1>1, <1>2 DEF Fund, FundTypes
<1>8. \A f \in Funders, r \in DOMAIN runs' : Plan(f, r)' => r \in DOMAIN runs /\ Plan(f, r) /\ f # s
  BY <1>2, <1>4, <1>6, <1>7 DEF Plan
<1>9. \A f \in Funders, j \in DOMAIN actions' : InHand(f, j)' => j \in DOMAIN actions /\ InHand(f, j)
  BY <1>4, <1>5, <1>6, <1>7 DEF InHand
<1>10. NoNewHands
  BY <1>8, <1>9 DEF NoNewHands
<1>11. \A j \in DOMAIN actions :
           /\ actions'[j].transfer = "none" =>
                /\ actions[j].transfer = "none"
                /\ Pending(j)' => Pending(j) \/ \E f \in Funders : InHand(f, j)
           /\ actions'[j].transfer \notin Gone => actions[j].transfer \notin Gone \/ MayGo(j)
  <2>1. \A j \in DOMAIN actions : actions'[j].transfer = actions[j].transfer
    BY <1>1 DEF StatusOnly
  <2>2. \A j \in DOMAIN actions \ {i} : actions'[j] = actions[j]
    BY <1>2
  <2>3. InHand(s, i)
    BY <1>5 DEF InHand
  <2> QED BY <2>1, <2>2, <2>3 DEF Pending
<1>12. \A r \in DOMAIN runs, f \in Funders : r \notin shared' /\ Plan(f, r)' =>
           /\ Plan(f, r) /\ funder'[f].left <= funder[f].left /\ funder'[f].act = funder[f].act
  BY <1>2, <1>4, <1>7, <1>8
<1>13. shared \subseteq shared' /\ \A r \in DOMAIN runs' : r \in DOMAIN runs
         /\ runs'[r].surplus = runs[r].surplus
  BY <1>2
<1> QED BY <1>1, <1>10, <1>11, <1>12, <1>13, QuietFunds

LEMMA ForecastFunds ==
  ASSUME AllocationAssumption, Books, Funds, NEW s \in Funders, Forecast(s)
  PROVE  Funds'
<1>1. Books' /\ StatusOnly /\ RowsKept /\ FundTypes /\ FundTypes' /\ Rewritten
  BY ForecastBooks DEF Books, StatusOnly
<1>2. /\ actions' = Reconciled /\ shared' = shared /\ (runs' = runs \/ runs' = Append(runs, NewRun))
  BY ForecastBooks DEF Forecast
<1>3. PICK r \in DOMAIN runs' : Fund(s, [Waiting EXCEPT !.pc = "planning", !.run = r, !.alone = TRUE])
  BY ForecastBooks
<1>4. /\ funder'[s].pc = "planning" /\ funder'[s].act = 0 /\ funder'[s].todo = {}
      /\ \A f \in Funders \ {s} : funder'[f] = funder[f]
  BY <1>1, <1>3 DEF Fund, FundTypes, Waiting
<1>5. /\ DOMAIN runs = 1..Len(runs) /\ Len(runs) \in Nat /\ DOMAIN actions = 1..Len(actions)
      /\ Len(actions) \in Nat /\ DOMAIN actions' = DOMAIN actions /\ 0 \notin DOMAIN actions
      /\ \A f \in Funders : funder[f].left \in Nat /\ funder[f].run \in 0..Len(runs)
  <2>1. FundTypes /\ \A f \in Funders : funder[f] \in FunderRows /\ SessionOK(f)
    BY <1>1, TypeFacts DEF Books
  <2> QED BY <1>1, <2>1, TypeFacts DEF StatusOnly, Rewritten, FunderRows, SessionOK
<1>6. \A q \in DOMAIN runs' : q \in Nat \ {0} /\ (q \in DOMAIN runs => runs'[q] = runs[q])
  <2>1. NewRun \in RunRows /\ runs \in Seq(RunRows)
    BY <1>1, ForecastTypes DEF FundTypes
  <2> QED BY <1>2, <1>5, <2>1
<1>7. \A f \in Funders, q \in DOMAIN runs' : Plan(f, q)' => q \in DOMAIN runs /\ Plan(f, q) /\ f # s
  BY <1>4, <1>5, <1>6 DEF Plan
<1>8. \A f \in Funders, j \in DOMAIN actions' : InHand(f, j)' => j \in DOMAIN actions /\ InHand(f, j)
  BY <1>4, <1>5 DEF InHand
<1>9. NoNewHands
  BY <1>7, <1>8 DEF NoNewHands
<1>10. \A j \in DOMAIN actions :
           /\ actions'[j].transfer = "none" =>
                /\ actions[j].transfer = "none"
                /\ Pending(j)' => Pending(j) \/ \E f \in Funders : InHand(f, j)
           /\ actions'[j].transfer \notin Gone => actions[j].transfer \notin Gone \/ MayGo(j)
  <2>1. \A j \in DOMAIN actions : actions'[j].transfer = actions[j].transfer
    BY <1>1 DEF StatusOnly
  <2>2. \A j \in DOMAIN actions :
              actions[j].transfer = "none" =>
                \/ actions'[j].status = actions[j].status
                \/ actions[j].status = "dispatching" /\ actions'[j].status = "planned"
    BY <1>1, <1>2, Reconciling
  <2> QED BY <2>1, <2>2 DEF Pending
<1>11. \A q \in DOMAIN runs' :
           \/ q \in DOMAIN runs /\ runs'[q].surplus = runs[q].surplus
           \/ Live(q)' = {} /\ \A f \in Funders : ~Plan(f, q)'
  <2>1. \A q : q \notin DOMAIN runs => Live(q)' = {}
    <3>1. \A i \in DOMAIN actions' : actions'[i].run \in DOMAIN runs
      BY <1>1 DEF Books, PlansOK, Rewritten
    <3> QED BY <3>1 DEF Live
  <2> QED BY <1>6, <1>7, <2>1
<1>12. \A q \in DOMAIN runs, f \in Funders : q \in DOMAIN runs' /\ q \notin shared' /\ Plan(f, q)' =>
           /\ Plan(f, q) /\ funder'[f].left <= funder[f].left /\ funder'[f].act = funder[f].act
  BY <1>4, <1>5, <1>7
<1>13. DOMAIN runs \subseteq DOMAIN runs'
  BY <1>2, <1>5
<1>14. \A q \in DOMAIN runs, f \in Funders : q \notin shared' /\ Plan(f, q)' =>
           /\ Plan(f, q) /\ funder'[f].left <= funder[f].left /\ funder'[f].act = funder[f].act
  BY <1>12, <1>13
<1> QED BY <1>1, <1>2, <1>9, <1>10, <1>11, <1>14, QuietFunds

LEMMA RunsFacts ==
  ASSUME AllocationAssumption, Books
  PROVE  /\ FundTypes /\ DOMAIN runs = 1..Len(runs) /\ Len(runs) \in Nat
            /\ DOMAIN actions = 1..Len(actions)
         /\ Len(actions) \in Nat /\ 0 \notin DOMAIN runs /\ 0 \notin DOMAIN actions
         /\ \A f \in Funders : funder[f] \in FunderRows /\ funder[f].left \in Nat
            /\ funder[f].run \in 0..Len(runs)
<1>1. FundTypes /\ \A f \in Funders : funder[f] \in FunderRows /\ SessionOK(f)
  BY TypeFacts DEF Books
<1> QED BY <1>1, TypeFacts DEF FunderRows, SessionOK

LEMMA OpenPlanFunds ==
  ASSUME AllocationAssumption, Books, Funds, NEW s \in Funders, OpenPlan(s), funder'[s] # Waiting
  PROVE  Funds'
<1> DEFINE r == funder[s].run
<1>1. /\ Books' /\ StatusOnly /\ RowsKept /\ FundTypes' /\ Rewritten
      /\ actions' = actions /\ shared' = shared
  BY OpenPlanBooks DEF Books, StatusOnly, OpenPlan
<1>2. /\ r \in DOMAIN runs /\ \A i \in DOMAIN actions : actions[i].run # r
      /\ \A f \in Funders, q \in DOMAIN runs' : Plan(f, q)' => (f = s /\ q = r) \/ Plan(f, q)
      /\ DOMAIN runs' = DOMAIN runs
      /\ \A q \in DOMAIN runs : runs'[q].surplus = runs[q].surplus
      /\ funder'[s].left = runs[r].surplus /\ funder'[s].act = 0 /\ funder'[s].run = r
      /\ \A f \in Funders \ {s} : funder'[f] = funder[f]
      /\ \A f \in Funders : ~Plan(f, r)
  BY OpenPlanBooks
<1>3. funder[s].pc = "planning" /\ funder'[s].todo = {}
  <2>1. /\ funder[s].pc = "planning" /\ funder[s] \in FunderRows /\ funder[s].todo = {}
    BY OpenPlanBooks, RunsFacts DEF Books, SessionOK
  <2>2. funder'[s].todo = funder[s].todo
    <3>1. Fund(s, [funder[s] EXCEPT !.pc = "choosing", !.left = runs[r].surplus,
                      !.gap = [w \in Wallets |-> Gap(w)],
                      !.queue = {a \in Sources : policy[a].role = "operating"}])
      <4>1. ~Fund(s, Waiting)
        BY RunsFacts DEF Fund, FundTypes
      <4> QED BY <4>1 DEF OpenPlan
    <3> HIDE DEF r
    <3> QED BY <2>1, <3>1, RunsFacts DEF Fund, FundTypes, FunderRows
  <2> QED BY <2>1, <2>2
<1> HIDE DEF r
<1>4. /\ \A f \in Funders, j \in DOMAIN actions' : InHand(f, j)' => j \in DOMAIN actions /\ InHand(f, j)
  BY <1>1, <1>2, <1>3, RunsFacts DEF InHand
<1>5. OwnHands'
  <2> SUFFICES ASSUME NEW f \in Funders, NEW g \in Funders, NEW q \in DOMAIN runs, f # g,
                          Plan(f, q)', q \notin shared,
                      NEW i \in DOMAIN actions, InHand(g, i)'
               PROVE  actions[i].run # q
    BY <1>1, <1>2 DEF OwnHands
  <2>1. CASE q = r
    BY <1>2, <2>1
  <2>2. CASE q # r
    BY <1>1, <1>2, <1>4, <2>2 DEF Funds, OwnHands
  <2> QED BY <2>1, <2>2
<1>6. \A q : Live(q)' \subseteq Live(q)
  <2>1. \A i \in DOMAIN actions : MayGo(i)' => MayGo(i)
    BY <1>1, <1>4 DEF MayGo
  <2>2. \A i \in DOMAIN actions : actions'[i].transfer \notin Gone
          => actions[i].transfer \notin Gone \/ MayGo(i)
    BY <1>1
  <2> QED BY <1>1, <2>1, <2>2, LiveLess
<1>7. ASSUME NEW q \in DOMAIN runs PROVE Budgeted(q)'
  <2>1. CASE q = r
    <3>1. Live(q)' = {}
      <4>1. Live(r) = {}
        BY <1>2 DEF Live
      <4> QED BY <1>6, <2>1, <4>1
    <3>2. \A f \in Funders : Plan(f, q)' => f = s
      BY <1>2, <2>1
    <3>3. runs'[q].surplus \in Nat /\ funder'[s].left = runs'[q].surplus
      <4>1. runs[r] \in RunRows
        BY <1>2, TypeFacts, RunsFacts
      <4> QED BY <1>2, <2>1, <4>1 DEF RunRows
    <3>4. Amount(actions', {}) = 0
      BY AmountEmpty
    <3>5. \A x : Live(q)' \ {x} = {}
      BY <3>1
    <3>6. Amount(actions', Live(q)') = 0 /\ \A x : Amount(actions', Live(q)' \ {x}) = 0
      BY <3>1, <3>4, <3>5
    <3>7. Amount(actions', Live(q)') <= runs'[q].surplus
      BY <3>3, <3>6
    <3>8. \A f \in Funders : Plan(f, q)' => Amount(actions,
            Live(q) \ {funder[f].act})' + funder'[f].left <= runs'[q].surplus
      BY <3>2, <3>3, <3>6
    <3> QED BY <3>7, <3>8 DEF Budgeted
  <2>2. CASE q # r
    <3>1. \A f \in Funders : Plan(f, q)' => Plan(f, q) /\ f # s
      BY <1>2, <2>2 DEF Plan
    <3>2. ASSUME NEW f \in Funders, Plan(f, q)'
          PROVE  /\ Plan(f, q)
                 /\ Amount(actions, Live(q) \ {funder[f].act})' + funder'[f].left
                      <= Amount(actions, Live(q) \ {funder[f].act}) + funder[f].left
      <4> DEFINE S == Live(q) \ {funder[f].act}
                 T == Live(q)' \ {funder'[f].act}
      <4>1. Plan(f, q) /\ funder'[f] = funder[f] /\ funder[f].left \in Nat
        BY <1>2, <3>1, <3>2, RunsFacts
      <4>2. T \in SUBSET S /\ S \in SUBSET DOMAIN actions
        BY <1>6, <4>1 DEF Live
      <4> HIDE DEF S, T
      <4>3. Amount(actions', T) \in Nat /\ Amount(actions, S) \in Nat
              /\ Amount(actions', T) <= Amount(actions, S)
        BY <1>1, <4>2, AmountShrinks, RunsFacts
      <4>4. Amount(actions', T) + funder'[f].left <= Amount(actions, S) + funder[f].left
        BY <4>1, <4>3
      <4> QED BY <4>1, <4>4 DEF S, T
    <3>3. Live(q)' \subseteq Live(q) /\ Budgeted(q)
      BY <1>6 DEF Funds
    <3> QED BY <1>1, <1>2, <3>2, <3>3, BudgetBy
  <2> QED BY <2>1, <2>2
<1> QED BY <1>2, <1>5, <1>7 DEF Funds

LEMMA ChooseFunds ==
  ASSUME AllocationAssumption, Books, Funds, NEW s \in Funders, ChooseMove(s), actions' # actions
  PROVE  Funds'
<1>0. PICK r \in DOMAIN runs, n \in Nat : r = funder[s].run /\ n = Len(actions) + 1
  <2>1. funder[s].run \in DOMAIN runs /\ Len(actions) + 1 \in Nat
    BY ChooseBooks, RunsFacts
  <2> QED BY <2>1
<1>1. /\ Books' /\ RowsKept /\ FundTypes' /\ shared' = shared
  BY ChooseBooks DEF Books, ChooseMove
<1>2. /\ Plan(s, r) /\ funder[s].act = 0
      /\ \A f \in Funders, q \in DOMAIN runs' : Plan(f, q)' <=> Plan(f, q)
      /\ DOMAIN runs' = DOMAIN runs /\ \A q \in DOMAIN runs : runs'[q].surplus = runs[q].surplus
      /\ funder'[s].act = n /\ funder'[s].left = funder[s].left /\ funder'[s].todo = {}
      /\ \A f \in Funders \ {s} : funder'[f] = funder[f]
      /\ DOMAIN actions' = DOMAIN actions \cup {n} /\ \A i \in DOMAIN actions : actions'[i] = actions[i]
  <2>1. funder[s].pc = "choosing"
    BY ChooseBooks
  <2>2. Plan(s, r) /\ funder[s].act = 0
    BY <1>0, <2>1 DEF Plan, Books, SessionOK, Moving
  <2> QED BY <1>0, <2>1, <2>2, ChooseBooks
<1>3. n \notin DOMAIN actions /\ actions'[n].run = r
  <2>1. n \notin DOMAIN actions
    BY <1>0, RunsFacts
  <2>2. \E a \in Sources, w \in Wallets : actions' = Append(actions, NewRow(s, a, w))
          /\ NewRow(s, a, w) \in ActionRows
    BY ChooseBooks
  <2>3. PICK a \in Sources, w \in Wallets : actions' = Append(actions, NewRow(s, a, w))
             /\ NewRow(s, a, w) \in ActionRows
    BY <2>2
  <2>4. actions \in Seq(ActionRows)
    BY RunsFacts DEF FundTypes
  <2>5. actions'[n] = NewRow(s, a, w)
    BY <1>0, <2>3, <2>4
  <2> QED BY <1>0, <2>1, <2>5 DEF NewRow
<1>4. \A q \in DOMAIN runs, f \in Funders : Plan(f, q) /\ q = r => f = s
  BY <1>2 DEF Books, PlansOK
<1>5. \A f \in Funders, j \in DOMAIN actions : InHand(f, j)' => InHand(f, j)
  BY <1>2, <1>3 DEF InHand
<1>6. \A f \in Funders \ {s} : ~InHand(f, n)'
  <2> SUFFICES ASSUME NEW f \in Funders \ {s}, InHand(f, n)' PROVE FALSE
    OBVIOUS
  <2>1. n \in funder[f].todo \/ funder[f].act = n
    BY <1>2 DEF InHand
  <2>2. funder[f].todo \subseteq DOMAIN actions /\ funder[f].act \in 0..Len(actions)
    BY DEF Books, SessionOK
  <2> QED BY <1>0, <1>3, <2>1, <2>2, RunsFacts
<1>7. OwnHands'
  <2> SUFFICES ASSUME NEW f \in Funders, NEW g \in Funders, NEW q \in DOMAIN runs, f # g,
                          Plan(f, q), q \notin shared,
                      NEW i \in DOMAIN actions', InHand(g, i)'
               PROVE  actions'[i].run # q
    BY <1>1, <1>2 DEF OwnHands
  <2>1. CASE i = n
    <3>1. g = s
      BY <1>6, <2>1
    <3> QED BY <1>3, <1>4, <2>1, <3>1
  <2>2. CASE i \in DOMAIN actions
    <3>1. InHand(g, i) /\ actions'[i] = actions[i]
      BY <1>2, <1>5, <2>2
    <3> QED BY <2>2, <3>1 DEF Funds, OwnHands
  <2> QED BY <1>2, <2>1, <2>2
<1>8. \A q : /\ Live(q)' \ {n} \subseteq Live(q)
             /\ q # r => Live(q)' \subseteq Live(q)
  <2> SUFFICES ASSUME NEW q, NEW i \in Live(q)' PROVE (i # n \/ q # r) => i \in Live(q)
    OBVIOUS
  <2>1. /\ i \in DOMAIN actions' /\ actions'[i].run = q
        /\ (actions'[i].transfer \notin Gone \/ MayGo(i)')
    BY DEF Live
  <2>2. CASE i = n
    BY <1>3, <2>1, <2>2
  <2>3. CASE i \in DOMAIN actions
    <3>1. actions'[i] = actions[i] /\ \A f \in Funders : InHand(f, i)' => InHand(f, i)
      BY <1>2, <1>5, <2>3
    <3>2. MayGo(i)' => MayGo(i)
      BY <3>1 DEF MayGo
    <3> QED BY <2>1, <2>3, <3>1, <3>2 DEF Live
  <2> QED BY <1>2, <2>1, <2>2, <2>3
<1>9. ASSUME NEW q \in DOMAIN runs PROVE Budgeted(q)'
  <2>1. ASSUME NEW f \in Funders, Plan(f, q)'
        PROVE  /\ Plan(f, q)
               /\ Amount(actions, Live(q) \ {funder[f].act})' + funder'[f].left
                    <= Amount(actions, Live(q) \ {funder[f].act}) + funder[f].left
    <3> DEFINE S == Live(q) \ {funder[f].act}
               T == Live(q)' \ {funder'[f].act}
    <3>1. Plan(f, q) /\ funder'[f].left = funder[f].left /\ funder[f].left \in Nat
      BY <1>2, <2>1, RunsFacts
    <3>2. T \in SUBSET S /\ S \in SUBSET DOMAIN actions
      <4>1. CASE f = s
        <5>1. 0 \notin Live(q)
          BY RunsFacts DEF Live
        <5> QED BY <1>2, <1>8, <4>1, <5>1 DEF Live
      <4>2. CASE f # s
        <5>1. q # r
          BY <1>4, <3>1, <4>2
        <5> QED BY <1>2, <1>8, <4>2, <5>1 DEF Live
      <4> QED BY <4>1, <4>2
    <3> HIDE DEF S, T
    <3>3. Amount(actions', T) \in Nat /\ Amount(actions, S) \in Nat
            /\ Amount(actions', T) <= Amount(actions, S)
      BY <1>1, <3>2, AmountShrinks, RunsFacts
    <3>4. Amount(actions', T) + funder'[f].left <= Amount(actions, S) + funder[f].left
      BY <3>1, <3>3
    <3> QED BY <3>1, <3>4 DEF S, T
  <2>2. (\A f \in Funders : ~Plan(f, q)') => Live(q)' \subseteq Live(q)
    BY <1>2, <1>8
  <2>3. Budgeted(q)
    BY DEF Funds
  <2> QED BY <1>1, <1>2, <2>1, <2>2, <2>3, BudgetBy
<1> QED BY <1>2, <1>7, <1>9 DEF Funds

LEMMA LeaveFunds ==
  ASSUME AllocationAssumption, Books, Funds, NEW s \in Funders, Fund(s, Waiting), actions' = actions,
         UNCHANGED <<cash, purse, policy, ahead, begun, shared, chosen>>, turns' \in 0..TurnLimit,
         \/ runs' = runs
         \/ /\ funder[s].pc = "choosing"
            /\ \/ runs' = [runs EXCEPT ![funder[s].run].plan = "settled"]
               \/ /\ runs[funder[s].run].plan = "flushed"
                  /\ runs' = [runs EXCEPT ![funder[s].run].plan = "none"]
  PROVE  Funds'
<1>1. /\ Books' /\ StatusOnly /\ RowsKept /\ DOMAIN runs' = DOMAIN runs
      /\ \A q \in DOMAIN runs : runs'[q].surplus = runs[q].surplus
  BY LeaveBooks
<1>2. FundTypes' /\ Rewritten
  BY <1>1 DEF Books, StatusOnly
<1>3. /\ funder'[s].run = 0 /\ funder'[s].act = 0 /\ funder'[s].todo = {}
      /\ \A f \in Funders \ {s} : funder'[f] = funder[f]
  BY RunsFacts DEF Fund, FundTypes, Waiting
<1> QED BY <1>1, <1>2, <1>3, EasyFunds

LEMMA SkipFunds ==
  ASSUME AllocationAssumption, Books, Funds, NEW s \in Funders, Skips(s),
         UNCHANGED <<cash, purse, policy, ahead, turns, begun, shared, strained, chosen>>
  PROVE  Funds'
<1>1. /\ Books' /\ StatusOnly /\ RowsKept /\ runs' = runs /\ actions' = actions
         /\ funder[s].pc = "choosing"
      /\ \A f \in Funders \ {s} : funder'[f] = funder[f]
      /\ funder'[s].run = funder[s].run /\ funder'[s].act = funder[s].act
      /\ funder'[s].left = funder[s].left /\ funder'[s].todo = funder[s].todo
  BY SkipBooks DEF Skips
<1>2. FundTypes' /\ Rewritten
  BY <1>1 DEF Books, StatusOnly
<1> QED BY <1>1, <1>2, EasyFunds

LEMMA ToldFunds ==
  ASSUME AllocationAssumption, Books, Funds, NEW s \in Funders, funder[s].pc = "dispatching", Told(s),
         UNCHANGED <<purse, policy, ahead, runs, turns, begun, shared, chosen>>
  PROVE  Funds'
<1>1. /\ Books' /\ StatusOnly /\ RowsKept /\ actions' = actions
      /\ \A f \in Funders \ {s} : funder'[f] = funder[f]
      /\ funder'[s].run = funder[s].run /\ funder'[s].act = funder[s].act
      /\ funder'[s].left = funder[s].left /\ funder'[s].todo = funder[s].todo
  BY ToldBooks DEF Told
<1>2. FundTypes' /\ Rewritten
  BY <1>1 DEF Books, StatusOnly
<1> QED BY <1>1, <1>2, EasyFunds

LEMMA MakesFunds ==
  ASSUME AllocationAssumption, Books, Funds, NEW s \in Funders, funder[s].pc = "dispatching", Makes(s),
         UNCHANGED <<purse, policy, ahead, runs, turns, begun, shared, chosen>>
  PROVE  Funds'
<1>1. /\ Books' /\ Rewritten /\ RowsKept
      /\ \A f \in Funders \ {s} : funder'[f] = [funder[f] EXCEPT !.alone = FALSE]
      /\ funder'[s].run = funder[s].run /\ funder'[s].act = funder[s].act
      /\ funder'[s].left = funder[s].left /\ funder'[s].todo = funder[s].todo
      /\ actions'[funder[s].act].transfer \in {"active", "failed"}
      /\ actions[funder[s].act].transfer = "none"
      /\ \A j \in DOMAIN actions \ {funder[s].act} : actions'[j] = actions[j]
  BY MakesBooks DEF Makes
<1>2. FundTypes'
  BY <1>1 DEF Books
<1>3. ASSUME NEW f \in Funders
      PROVE /\ funder'[f].run = funder[f].run /\ funder'[f].act = funder[f].act
            /\ funder'[f].todo = funder[f].todo /\ funder'[f].left = funder[f].left
            /\ funder'[f].pc # "planning" => funder[f].pc # "planning"
  <2>1. CASE f = s
    BY <1>1, <2>1
  <2>2. CASE f # s
    <3>1. Still(f)
      BY <1>1, <2>2, StillIs
    <3> QED BY <3>1 DEF Still
  <2> QED BY <2>1, <2>2
<1>4. \A i \in DOMAIN actions :
           /\ actions'[i].transfer = "none" => actions[i].transfer = "none"
              /\ actions'[i].status = actions[i].status
           /\ actions'[i].transfer \notin Gone => actions[i].transfer \notin Gone
              \/ \E f \in Funders : funder[f].act = i
           /\ actions'[i].transfer \notin Gone /\ actions[i].transfer \in Gone
              => actions[i].transfer = "none"
  BY <1>1
<1> QED BY <1>1, <1>2, <1>3, <1>4, EasyFunds

LEMMA SettleFunds ==
  ASSUME AllocationAssumption, Books, Funds, NEW i \in DOMAIN actions, Settle(i)
  PROVE  Funds'
<1>1. /\ Books' /\ Rewritten /\ RowsKept /\ UNCHANGED <<funder, runs, shared>>
      /\ actions[i].transfer = "active" /\ actions'[i].transfer \in {"done", "failed"}
      /\ \A j \in DOMAIN actions \ {i} : actions'[j] = actions[j]
  BY SettleBooks
<1>2. FundTypes'
  BY <1>1 DEF Books
<1>3. \A j \in DOMAIN actions :
           /\ actions'[j].transfer = "none" => actions[j].transfer = "none"
              /\ actions'[j].status = actions[j].status
           /\ actions'[j].transfer \notin Gone => actions[j].transfer \notin Gone
  BY <1>1 DEF Gone
<1> QED BY <1>1, <1>2, <1>3, EasyFunds

LEMMA SyncFunds ==
  ASSUME AllocationAssumption, Books, Funds, SyncBalances
  PROVE  Funds'
<1>1. /\ Books' /\ Rewritten /\ RowsKept /\ UNCHANGED <<funder, runs, shared>>
      /\ \A i \in DOMAIN actions :
              /\ actions'[i].status = actions[i].status
              /\ actions'[i].transfer = IF actions[i].transfer = "done" THEN "arrived"
                 ELSE actions[i].transfer
  BY SyncBooks
<1>2. FundTypes'
  BY <1>1 DEF Books
<1>3. \A j \in DOMAIN actions :
           /\ actions'[j].transfer = "none" => actions[j].transfer = "none"
              /\ actions'[j].status = actions[j].status
           /\ actions'[j].transfer \notin Gone => actions[j].transfer \notin Gone
  BY <1>1 DEF Gone
<1> QED BY <1>1, <1>2, <1>3, EasyFunds

LEMMA WorldFunds ==
  ASSUME AllocationAssumption, Books, Funds, Spend \/ BillArrives \/ OwnerSetsPolicy \/ EnsurePolicies
  PROVE  Funds'
<1>1. CASE Spend \/ BillArrives \/ OwnerSetsPolicy
  <2>1. /\ Books' /\ StatusOnly /\ RowsKept /\ UNCHANGED <<runs, actions, shared>>
        /\ \A f \in Funders : funder'[f] = [funder[f] EXCEPT !.alone = FALSE]
    BY <1>1, TurnBooks DEF Turn
  <2>2. \A f \in Funders : Still(f)
    BY <2>1, StillIs
  <2>3. FundTypes' /\ Rewritten
    BY <2>1 DEF Books, StatusOnly
  <2>4. \A f \in Funders :
           /\ funder'[f].run = funder[f].run /\ funder'[f].act = funder[f].act
           /\ funder'[f].todo = funder[f].todo /\ funder'[f].left = funder[f].left
           /\ funder'[f].pc # "planning" => funder[f].pc # "planning"
    BY <2>2 DEF Still
  <2> QED BY <2>1, <2>3, <2>4, EasyFunds
<1>2. CASE EnsurePolicies
  <2>1. /\ Books' /\ StatusOnly /\ RowsKept /\ UNCHANGED <<runs, actions, shared, funder>>
    BY <1>2, PoliciesBooks DEF EnsurePolicies
  <2>2. FundTypes' /\ Rewritten
    BY <2>1 DEF Books, StatusOnly
  <2> QED BY <2>1, <2>2, EasyFunds
<1> QED BY <1>1, <1>2

LEMMA BlocksFunds ==
  ASSUME AllocationAssumption, Books, Funds, NEW s \in Funders, funder[s].pc = "dispatching", Blocks(s),
         UNCHANGED <<purse, policy, ahead, runs, turns, begun, shared, chosen>>
  PROVE  Funds'
<1>0. PICK i \in DOMAIN actions : i = funder[s].act
  BY AtHand DEF Moving
<1>1. /\ Books' /\ StatusOnly /\ RowsKept
      /\ \A f \in Funders \ {s} : funder'[f] = funder[f]
      /\ funder'[s].run = funder[s].run /\ funder'[s].act = 0
      /\ funder'[s].left = funder[s].left /\ funder'[s].todo = funder[s].todo
      /\ actions'[i].status = "blocked_policy"
      /\ \A j \in DOMAIN actions \ {i} : actions'[j] = actions[j]
      /\ UNCHANGED <<runs, shared>>
  BY <1>0, BlocksBooks
<1>2. FundTypes' /\ Rewritten /\ Moving(s)
  BY <1>1 DEF Books, StatusOnly, Moving
<1>3. /\ funder[s].back \in {"resuming", "choosing"}
      /\ (funder[s].back = "resuming" <=> funder[s].run = 0)
      /\ (funder[s].back = "choosing" => funder[s].todo = {})
  BY <1>2, AtHand
<1>4. \A f \in Funders, r \in DOMAIN runs' : Plan(f, r)' => r \in DOMAIN runs /\ Plan(f, r)
  BY <1>1, <1>2 DEF Plan, Moving
<1>5. \A f \in Funders, j \in DOMAIN actions' : InHand(f, j)' => j \in DOMAIN actions /\ InHand(f, j)
  <2>1. DOMAIN actions' = DOMAIN actions /\ 0 \notin DOMAIN actions
    BY <1>2, RunsFacts DEF Rewritten
  <2> QED BY <1>1, <2>1 DEF InHand
<1>6. NoNewHands
  BY <1>4, <1>5 DEF NoNewHands
<1>7. \A j \in DOMAIN actions :
           /\ actions'[j].transfer = actions[j].transfer
           /\ Pending(j)' => Pending(j)
  BY <1>1 DEF StatusOnly, Pending
<1>8. ASSUME NEW r \in DOMAIN runs, NEW f \in Funders, r \notin shared', Plan(f, r)'
      PROVE  /\ Plan(f, r) /\ funder'[f].left <= funder[f].left
             /\ funder'[f].act = funder[f].act \/ funder[f].act \notin Live(r)'
  <2>1. Plan(f, r) /\ funder[f].left \in Nat /\ funder'[f].left = funder[f].left
    BY <1>1, <1>4, <1>8, RunsFacts
  <2>2. CASE f # s
    BY <1>1, <2>1, <2>2
  <2>3. CASE f = s
    <3>1. r # 0 /\ funder[s].run = r
      BY <2>1, <2>3, RunsFacts DEF Plan
    <3>2. funder[s].todo = {} /\ actions[i].run = r
      <4>1. funder[s].back = "choosing"
        BY <1>3, <3>1
      <4> QED BY <1>0, <1>2, <3>1, <4>1, AtHand
    <3>3. \A g \in Funders \ {s} : ~InHand(g, i)
      BY <1>1, <1>8, <2>1, <2>3, <3>2 DEF Funds, OwnHands
    <3>4. 0 \notin DOMAIN actions
      BY RunsFacts
    <3>5. \A g \in Funders : ~InHand(g, i)'
      <4>1. ~InHand(s, i)'
        BY <1>1, <1>3, <3>2, <3>4 DEF InHand
      <4>2. \A g \in Funders \ {s} : ~InHand(g, i)'
        BY <1>1, <3>3 DEF InHand
      <4> QED BY <4>1, <4>2
    <3>6. ~MayGo(i)'
      BY <1>1, <3>5 DEF MayGo
    <3>7. actions'[i].transfer = "none"
      BY <1>0, <1>7 DEF Blocks
    <3>8. i \notin Live(r)'
      BY <3>6, <3>7 DEF Live, Gone
    <3> QED BY <1>0, <2>1, <2>3, <3>8
  <2> QED BY <2>2, <2>3
<1>9. /\ shared \subseteq shared' /\ \A r \in DOMAIN runs' : r \in DOMAIN runs
         /\ runs'[r].surplus = runs[r].surplus
  BY <1>1
<1> QED BY <1>1, <1>2, <1>6, <1>7, <1>8, <1>9, QuietFunds

LEMMA NoteFunds ==
  ASSUME AllocationAssumption, Books, Funds, NEW s \in Funders, Note(s)
  PROVE  Funds'
<1>0. PICK i \in DOMAIN actions : i = funder[s].act
  BY AtHand DEF Moving, Note
<1> DEFINE spent == IF funder[s].seen = "failed" THEN 0 ELSE actions[i].amount
           left == IF funder[s].back = "choosing" THEN Positive(funder[s].left - spent)
             ELSE funder[s].left
<1>1. /\ Books' /\ StatusOnly /\ RowsKept
  BY NoteBooks
<1>2. FundTypes' /\ Rewritten /\ Moving(s) /\ funder[s].pc = "noting" /\ UNCHANGED <<runs, shared>>
  BY <1>1 DEF Books, StatusOnly, Moving, Note
<1>3. /\ funder[s].back \in {"resuming", "choosing"}
      /\ (funder[s].back = "resuming" <=> funder[s].run = 0)
      /\ (funder[s].back = "choosing" => actions[i].amount <= funder[s].left)
      /\ funder[s] \in FunderRows
  BY <1>0, <1>2, AtHand
<1>4. actions[i].transfer # "none" /\ (funder[s].seen = "failed" => actions[i].transfer = "failed")
  BY <1>0, <1>2 DEF Books, AtWork
<1>5. /\ funder'[s].run = funder[s].run /\ funder'[s].act = 0 /\ funder'[s].todo = funder[s].todo
      /\ funder'[s].left = left
      /\ \A f \in Funders \ {s} : funder'[f] = funder[f]
  <2>1. funder' = [funder EXCEPT ![s] = [funder[s] EXCEPT !.pc = funder[s].back, !.act = 0,
          !.seen = "none",
                !.left = left,
                !.gap = IF funder[s].back = "choosing"
                          THEN [w \in Wallets |-> IF w = actions[i].to /\ w \in {"tax", "reserve"}
                                                    THEN Positive(funder[s].gap[w] - spent)
                                                      ELSE funder[s].gap[w]]
                          ELSE funder[s].gap]]
    BY <1>0 DEF Note, Fund
  <2>2. funder \in [Funders -> FunderRows]
    BY RunsFacts DEF FundTypes
  <2> HIDE DEF left, spent
  <2> QED BY <1>3, <2>1, <2>2 DEF FunderRows
<1>6. actions[i].amount \in Nat
  <2>1. {i} \in SUBSET DOMAIN actions
    BY <1>3
  <2>2. \A j \in {i} : actions[j].amount \in Nat
    BY <2>1, AmountOf, RunsFacts
  <2> QED BY <2>2
<1>7. \A f \in Funders, r \in DOMAIN runs' : Plan(f, r)' => r \in DOMAIN runs /\ Plan(f, r)
  BY <1>2, <1>5 DEF Plan
<1>8. \A f \in Funders, j \in DOMAIN actions' : InHand(f, j)' => j \in DOMAIN actions /\ InHand(f, j)
  <2>1. DOMAIN actions' = DOMAIN actions /\ 0 \notin DOMAIN actions
    BY <1>2, RunsFacts DEF Rewritten
  <2> HIDE DEF left
  <2> QED BY <1>5, <2>1 DEF InHand
<1>9. NoNewHands
  BY <1>7, <1>8 DEF NoNewHands
<1>10. \A j \in DOMAIN actions :
           /\ actions'[j].transfer = actions[j].transfer
           /\ actions'[j].transfer = "none" => (Pending(j)' => Pending(j))
  <2>1. \A j \in DOMAIN actions \ {i} : actions'[j] = actions[j]
    BY <1>0 DEF Note
  <2>2. \A j \in DOMAIN actions : actions'[j].transfer = actions[j].transfer
    BY <1>1 DEF StatusOnly
  <2> QED BY <1>4, <2>1, <2>2 DEF Pending
<1>11. ASSUME NEW r \in DOMAIN runs, NEW f \in Funders, r \notin shared', Plan(f, r)'
      PROVE  /\ Plan(f, r)
             /\ \/ /\ funder'[f].left <= funder[f].left
                   /\ funder'[f].act = funder[f].act \/ funder[f].act \notin Live(r)'
                \/ /\ funder[f].act \in DOMAIN actions
                   /\ funder'[f].left + actions[funder[f].act].amount <= funder[f].left
  <2>1. Plan(f, r) /\ funder[f].left \in Nat
    BY <1>7, <1>2, <1>11, RunsFacts
  <2>2. CASE f # s
    BY <1>5, <2>1, <2>2
  <2>3. CASE f = s
    <3>1. funder[s].back = "choosing"
      BY <1>3, <2>1, <2>3, RunsFacts DEF Plan
    <3>2. CASE funder[s].seen = "failed"
      <4>1. left = funder[s].left
        BY <2>1, <2>3, <3>2 DEF Positive
      <4>2. i \notin Live(r)'
        <5>1. actions'[i].transfer = "failed"
          BY <1>3, <1>4, <1>10, <3>2
        <5> QED BY <5>1 DEF Live, Gone, MayGo
      <4> HIDE DEF left
      <4> QED BY <1>0, <1>5, <2>1, <2>3, <4>1, <4>2
    <3>3. CASE funder[s].seen # "failed"
      <4>1. left = funder[s].left - actions[i].amount
        BY <1>3, <1>6, <2>1, <2>3, <3>1, <3>3 DEF Positive
      <4> HIDE DEF left
      <4> QED BY <1>0, <1>3, <1>5, <1>6, <2>1, <2>3, <4>1
    <3> QED BY <3>2, <3>3
  <2> QED BY <2>2, <2>3
<1>12. /\ shared \subseteq shared' /\ \A r \in DOMAIN runs' : r \in DOMAIN runs
          /\ runs'[r].surplus = runs[r].surplus
  BY <1>2
<1> HIDE DEF left, spent
<1> QED BY <1>1, <1>2, <1>9, <1>10, <1>11, <1>12, QuietFunds

-----------------------------------------------------------------------------
(*****************************************************************************)
(* A planner that runs alone                                                 *)
(*****************************************************************************)

LEMMA FilledType ==
  ASSUME AllocationAssumption, FundTypes, NEW w \in Wallets
  PROVE  /\ Filled(w) \in Int /\ Held(w) \in Int /\ purse[w] \in Nat
         /\ Moved(Sent(w)) = Amount(actions, Sent(w)) /\ Sent(w) \in SUBSET DOMAIN actions
         /\ Held(w) = purse[w] + Amount(actions, {i \in Sent(w) : actions[i].transfer # "arrived"})
<1>1. Sent(w) \in SUBSET DOMAIN actions
        /\ {i \in Sent(w) : actions[i].transfer # "arrived"} \in SUBSET DOMAIN actions
  BY DEF Sent
<1>2. /\ Amount(actions, Sent(w)) \in Nat
      /\ Amount(actions, {i \in Sent(w) : actions[i].transfer # "arrived"}) \in Nat
  BY <1>1, AmountOf
<1>3. /\ Moved(Sent(w)) = Amount(actions, Sent(w))
      /\ Held(w) = purse[w] + Amount(actions, {i \in Sent(w) : actions[i].transfer # "arrived"})
  BY MovedIs DEF Held
<1>4. purse[w] \in Nat
  BY DEF FundTypes
<1> QED BY <1>1, <1>2, <1>3, <1>4 DEF Filled

\* A wallet that nothing new is on its way to
LEMMA FilledLess ==
  ASSUME AllocationAssumption, FundTypes, FundTypes', RowsKept, purse' = purse,
         \A i \in DOMAIN actions' : actions'[i].transfer \notin Gone =>
           /\ i \in DOMAIN actions /\ actions[i].transfer \notin Gone
           /\ actions[i].transfer = "arrived" => actions'[i].transfer = "arrived",
         NEW w \in Wallets
  PROVE  Filled(w)' \in Int /\ Filled(w) \in Int /\ Filled(w)' <= Filled(w)
<1> DEFINE T == {i \in Sent(w) : actions[i].transfer # "arrived"}
<1>1. Sent(w)' \in SUBSET Sent(w) /\ T' \in SUBSET T /\ Sent(w) \in SUBSET DOMAIN actions
        /\ T \in SUBSET DOMAIN actions
  BY DEF RowsKept, Sent
<1>2. /\ Amount(actions', Sent(w)') \in Nat /\ Amount(actions, Sent(w)) \in Nat
      /\ Amount(actions', Sent(w)') <= Amount(actions, Sent(w))
  BY <1>1, AmountShrinks
<1>3. Amount(actions', T') \in Nat /\ Amount(actions, T) \in Nat
        /\ Amount(actions', T') <= Amount(actions, T)
  <2> HIDE DEF T
  <2> QED BY <1>1, AmountShrinks
<1>4. /\ Filled(w) = IF w = "tax" THEN Amount(actions, Sent(w)) ELSE purse[w] + Amount(actions, T)
      /\ Filled(w)' = IF w = "tax" THEN Amount(actions', Sent(w)') ELSE purse'[w] + Amount(actions', T')
  <2>1. Moved(Sent(w)) = Amount(actions, Sent(w)) /\ Held(w) = purse[w] + Amount(actions, T)
    BY FilledType
  <2>2. Moved(Sent(w))' = Amount(actions', Sent(w)') /\ Held(w)' = purse'[w] + Amount(actions', T')
    BY DEF Moved, Amount, Held
  <2> QED BY <2>1, <2>2 DEF Filled
<1>5. purse[w] \in Nat
  BY DEF FundTypes
<1> HIDE DEF T
<1> QED BY <1>2, <1>3, <1>4, <1>5

LEMMA StartType ==
  ASSUME AllocationAssumption, NEW c \in [Sources -> Int], NEW p \in [Wallets -> Nat], NEW pol, FundTypes
  PROVE  /\ StartOf(c, p, pol) \in Int /\ ProtectedOf(pol) \in Nat
         /\ IsFiniteSet({a \in Sources : pol[a].role # "disabled"}) /\ IsFiniteSet(Wallets)
         /\ SumFunctionOnSet(c, {a \in Sources : pol[a].role # "disabled"}) \in Int
         /\ SumFunctionOnSet(p, Wallets) \in Int
<1>1. IsFiniteSet({a \in Sources : pol[a].role # "disabled"}) /\ IsFiniteSet(Wallets)
  BY TypeFacts, FS_Subset
<1>2. /\ SumFunctionOnSet(c, {a \in Sources : pol[a].role # "disabled"}) \in Int
      /\ SumFunctionOnSet(p, Wallets) \in Int
  <2>1. /\ \A a \in {b \in Sources : pol[b].role # "disabled"} : c[a] \in Int
        /\ \A w \in Wallets : p[w] \in Int
    OBVIOUS
  <2> QED BY <1>1, <2>1, SumType
<1>3. Cardinality({a \in {b \in Sources : pol[b].role # "disabled"} : pol[a].role = "operating"}) \in Nat
  <2>1. IsFiniteSet({a \in {b \in Sources : pol[b].role # "disabled"} : pol[a].role = "operating"})
    BY <1>1, FS_Subset
  <2> QED BY <2>1, FS_CardinalityType
<1>4. ProtectedOf(pol) \in Nat
  BY <1>3, Numbers DEF ProtectedOf
<1> QED BY <1>1, <1>2, <1>4 DEF StartOf

LEMMA SpareShift ==
  ASSUME AllocationAssumption, FundTypes, NEW c \in [Sources -> Int], NEW p \in [Wallets -> Nat],
         NEW c2 \in [Sources -> Int], NEW p2 \in [Wallets -> Nat], NEW pol, NEW future \in Futures,
             NEW n \in Int,
         StartOf(c, p, pol) + n <= StartOf(c2, p2, pol)
  PROVE  /\ Spare(c, p, pol, future) \in Int /\ Spare(c2, p2, pol, future) \in Int
         /\ Spare(c, p, pol, future) + n <= Spare(c2, p2, pol, future)
<1> DEFINE x == StartOf(c, p, pol)
           y == StartOf(c2, p2, pol)
           k == y - x
<1>1. x \in Int /\ y \in Int /\ ProtectedOf(pol) \in Nat /\ x + n <= y
  BY StartType
<1> HIDE DEF x, y
<1>2. k \in Int /\ x + k = y /\ n <= k
  BY <1>1
<1> HIDE DEF k
<1>3. LowPoint(x, future, TRUE) \in Int /\ LowPoint(x, future, TRUE) + k <= LowPoint(x + k, future, TRUE)
  BY <1>1, <1>2, LowOrder
<1>4. LowPoint(y, future, TRUE) \in Int
  BY <1>1, LowOrder
<1>5. LowPoint(x, future, TRUE) + k <= LowPoint(y, future, TRUE)
  BY <1>2, <1>3
<1> DEFINE lx == LowPoint(x, future, TRUE)
           ly == LowPoint(y, future, TRUE)
<1>6. Spare(c, p, pol, future) = lx - ProtectedOf(pol)
        /\ Spare(c2, p2, pol, future) = ly - ProtectedOf(pol)
  BY DEF Spare, x, y
<1>7. lx \in Int /\ ly \in Int /\ lx + k <= ly
  BY <1>3, <1>4, <1>5
<1> HIDE DEF lx, ly
<1> QED BY <1>1, <1>2, <1>6, <1>7

LEMMA SpareOrder ==
  ASSUME AllocationAssumption, FundTypes, NEW c \in [Sources -> Int], NEW p \in [Wallets -> Nat],
         NEW c2 \in [Sources -> Int], NEW p2 \in [Wallets -> Nat], NEW pol, NEW future \in Futures,
         \A a \in Sources : c[a] <= c2[a], \A w \in Wallets : p[w] <= p2[w]
  PROVE  /\ Spare(c, p, pol, future) \in Int /\ Spare(c2, p2, pol, future) \in Int
         /\ Spare(c, p, pol, future) <= Spare(c2, p2, pol, future)
<1> DEFINE M == {a \in Sources : pol[a].role # "disabled"}
<1>1. /\ IsFiniteSet(M) /\ IsFiniteSet(Wallets)
      /\ SumFunctionOnSet(c, M) \in Int /\ SumFunctionOnSet(p, Wallets) \in Int
  BY StartType
<1>2. SumFunctionOnSet(c2, M) \in Int /\ SumFunctionOnSet(p2, Wallets) \in Int
  BY StartType
<1>3. \A a \in M : c[a] \in Int /\ c2[a] \in Int /\ c[a] <= c2[a]
  OBVIOUS
<1>4. \A w \in Wallets : p[w] \in Int /\ p2[w] \in Int /\ p[w] <= p2[w]
  OBVIOUS
<1>5. StartOf(c, p, pol) = SumFunctionOnSet(c, M) + SumFunctionOnSet(p, Wallets)
      /\ StartOf(c2, p2, pol) = SumFunctionOnSet(c2, M) + SumFunctionOnSet(p2, Wallets)
  BY DEF StartOf
<1> HIDE DEF M
<1>6. SumFunctionOnSet(c, M) <= SumFunctionOnSet(c2, M)
  BY <1>1, <1>3, SumOrder
<1>7. SumFunctionOnSet(p, Wallets) <= SumFunctionOnSet(p2, Wallets)
  BY <1>1, <1>4, SumOrder
<1>8. StartOf(c, p, pol) + 0 <= StartOf(c2, p2, pol)
  BY <1>1, <1>2, <1>5, <1>6, <1>7
<1>9. /\ Spare(c, p, pol, future) \in Int /\ Spare(c2, p2, pol, future) \in Int
      /\ Spare(c, p, pol, future) + 0 <= Spare(c2, p2, pol, future)
  <2>1. 0 \in Int
    OBVIOUS
  <2> QED BY <1>8, <2>1, SpareShift
<1> QED BY <1>9

\* Cash that one managed source loses is what the scope has the less.
LEMMA SparePaid ==
  ASSUME AllocationAssumption, FundTypes, NEW a \in Sources, policy[a].role # "disabled", NEW n \in Nat,
         NEW c \in [Sources -> Int], c = [cash EXCEPT ![a] = @ - n]
  PROVE  /\ Here \in Int /\ Spare(c, purse, policy, ahead) \in Int
         /\ Here - n <= Spare(c, purse, policy, ahead)
<1> DEFINE M == {b \in Sources : policy[b].role # "disabled"}
           x == SumFunctionOnSet(cash, M)
           y == SumFunctionOnSet(c, M)
           z == SumFunctionOnSet(purse, Wallets)
<1>0. cash \in [Sources -> Int] /\ purse \in [Wallets -> Nat] /\ ahead \in Futures
  BY DEF FundTypes
<1>1. IsFiniteSet(M) /\ x \in Int /\ y \in Int /\ z \in Int
  BY <1>0, StartType
<1>2. a \in M /\ \A b \in M : cash[b] \in Int /\ c[b] \in Int
  BY <1>0
<1>3. c[a] = cash[a] - n /\ \A b \in M \ {a} : c[b] = cash[b]
  BY <1>0
<1>4. StartOf(cash, purse, policy) = x + z /\ StartOf(c, purse, policy) = y + z
  BY DEF StartOf
<1>5. y = x - n
  <2> HIDE DEF M
  <2>1. x = cash[a] + SumFunctionOnSet(cash, M \ {a})
    BY <1>1, <1>2, SumRemove
  <2>2. y = c[a] + SumFunctionOnSet(c, M \ {a})
    BY <1>1, <1>2, SumRemove
  <2>3. IsFiniteSet(M \ {a})
    BY <1>1, FS_RemoveElement
  <2>4. SumFunctionOnSet(c, M \ {a}) = SumFunctionOnSet(cash, M \ {a})
    <3>1. \A b \in M \ {a} : cash[b] \in Int /\ c[b] = cash[b]
      BY <1>2, <1>3
    <3> QED BY <2>3, <3>1, SumSame
  <2>5. SumFunctionOnSet(cash, M \ {a}) \in Int
    <3>1. \A b \in M \ {a} : cash[b] \in Int
      BY <1>2
    <3> QED BY <2>3, <3>1, SumType
  <2> DEFINE u == SumFunctionOnSet(cash, M \ {a})
  <2>6. x = cash[a] + u /\ y = c[a] + u /\ u \in Int /\ cash[a] \in Int /\ c[a] = cash[a] - n
    BY <1>2, <1>3, <2>1, <2>2, <2>4, <2>5
  <2> HIDE DEF x, y, u
  <2> QED BY <2>6
<1>6. StartOf(cash, purse, policy) + (0 - n) <= StartOf(c, purse, policy)
  <2> HIDE DEF x, y, z
  <2> QED BY <1>1, <1>4, <1>5
<1>7. 0 - n \in Int
  OBVIOUS
<1>8. /\ Spare(cash, purse, policy, ahead) \in Int /\ Spare(c, purse, policy, ahead) \in Int
      /\ Spare(cash, purse, policy, ahead) + (0 - n) <= Spare(c, purse, policy, ahead)
  BY <1>0, <1>6, <1>7, SpareShift
<1> QED BY <1>8 DEF Here

LEMMA HereType ==
  ASSUME AllocationAssumption, FundTypes
  PROVE  Here \in Int
<1>1. cash \in [Sources -> Int] /\ purse \in [Wallets -> Nat] /\ ahead \in Futures
  BY DEF FundTypes
<1>2. (\A a \in Sources : cash[a] <= cash[a]) /\ (\A w \in Wallets : purse[w] <= purse[w])
  BY <1>1
<1>3. Spare(cash, purse, policy, ahead) \in Int
  BY <1>1, <1>2, SpareOrder
<1> QED BY <1>3 DEF Here

\* A session that another one's step leaves as it is, in a world that is no worse
LEMMA StillAlone ==
  ASSUME AllocationAssumption, Books, Books', NEW f \in Funders, Still(f), AloneOK(f), RowsKept,
         policy' = policy, Here' \in Int, Here <= Here',
         \A r \in DOMAIN runs : runs'[r].surplus = runs[r].surplus,
         \A w \in Wallets : Filled(w)' \in Int /\ Filled(w) \in Int /\ Filled(w)' <= Filled(w),
         \A i \in DOMAIN actions : actions[i].transfer = "none" => actions'[i].transfer = "none"
  PROVE  AloneOK(f)'
<1> SUFFICES ASSUME funder[f].alone, funder'[f].alone PROVE AloneOK(f)'
  BY DEF Still, AloneOK
<1>1. /\ FundTypes /\ SessionOK(f) /\ AtWork(f) /\ funder[f] \in FunderRows /\ Here \in Int
      /\ DOMAIN runs = 1..Len(runs) /\ DOMAIN actions = 1..Len(actions)
  BY RunsFacts, HereType DEF Books
<1>2. /\ funder'[f].pc = funder[f].pc /\ funder'[f].run = funder[f].run /\ funder'[f].act = funder[f].act
      /\ funder'[f].gap = funder[f].gap /\ funder'[f].left = funder[f].left
         /\ funder'[f].seen = funder[f].seen
  BY DEF Still
<1>3. funder[f].run \in DOMAIN runs /\ (Moving(f) => funder[f].act \in DOMAIN actions)
  BY <1>1 DEF SessionOK
<1>4. Tidy' = Tidy
  BY DEF Tidy
<1>5. /\ policy = Tidy
      /\ funder[f].pc = "planning" => runs[funder[f].run].surplus <= Positive(Here)
      /\ funder[f].pc # "planning" =>
           /\ funder[f].left - On(f) > 0 => funder[f].left - On(f) <= Here
           /\ \A w \in Wallets \ {"savings"} : Lacking(f, w)
           /\ funder[f].pc = "dispatching" => actions[funder[f].act].transfer = "none"
  BY DEF AloneOK
<1>6. /\ On(f)' = On(f) /\ \A w : OnFor(f, w)' = OnFor(f, w)
  BY <1>2, <1>3 DEF On, OnFor, Moving, RowsKept
<1>7. \A w : Again(f, w) => Again(f, w)'
  BY <1>2 DEF Again, RowsKept
<1>8. runs[funder[f].run].surplus \in Nat /\ funder[f].left \in Nat /\ On(f) \in Int
        /\ \A w : OnFor(f, w) \in Int
  <2>1. runs[funder[f].run] \in RunRows
    BY <1>1, <1>3, TypeFacts
  <2>2. Moving(f) => actions[funder[f].act].amount \in Nat
    <3> SUFFICES ASSUME Moving(f) PROVE actions[funder[f].act].amount \in Nat
      OBVIOUS
    <3>1. {funder[f].act} \in SUBSET DOMAIN actions
      BY <1>3
    <3>2. \A j \in {funder[f].act} : actions[j].amount \in Nat
      BY <1>1, <3>1, AmountOf
    <3> QED BY <3>2
  <2>3. funder[f].pc = "noting" => actions[funder[f].act].amount \in Nat
    BY <2>2 DEF Moving
  <2>4. On(f) \in Int
    BY <2>3 DEF On
  <2> QED BY <1>1, <2>1, <2>4 DEF RunRows, FunderRows, OnFor
<1>9. funder[f].pc = "planning" => runs'[funder[f].run].surplus <= Positive(Here')
  <2> SUFFICES ASSUME funder[f].pc = "planning" PROVE runs[funder[f].run].surplus <= Positive(Here')
    BY <1>3
  <2>1. Positive(Here) <= Positive(Here') /\ Positive(Here) \in Int /\ Positive(Here') \in Int
    BY <1>1 DEF Positive
  <2> QED BY <1>5, <1>8, <2>1
<1>10. ASSUME funder[f].pc # "planning", NEW w \in Wallets \ {"savings"} PROVE Lacking(f, w)'
  <2>1. Lacking(f, w) /\ funder[f].gap \in [Wallets -> Nat]
    BY <1>1, <1>3, <1>5, <1>10 DEF SessionOK
  <2>2. CASE funder[f].gap[w] - OnFor(f, w) <= 0
    BY <1>2, <1>6, <2>2 DEF Lacking
  <2>3. CASE funder[f].gap[w] - OnFor(f, w) <= Target - Filled(w)
    <3> DEFINE n == funder[f].gap[w] - OnFor(f, w)
    <3>1. n \in Int /\ Filled(w) \in Int /\ Filled(w)' \in Int /\ Filled(w)' <= Filled(w)
            /\ Target \in Int
          /\ n <= Target - Filled(w)
      BY <1>8, <2>1, <2>3, Numbers
    <3>2. funder'[f].gap[w] - OnFor(f, w)' = n
      BY <1>2, <1>6
    <3> HIDE DEF n
    <3>3. n <= Target - Filled(w)'
      BY <3>1
    <3> QED BY <3>2, <3>3 DEF Lacking
  <2>4. CASE w = "spending" /\ Again(f, w)
    BY <1>7, <2>4 DEF Lacking
  <2> QED BY <2>1, <2>2, <2>3, <2>4 DEF Lacking
<1>11. funder[f].pc # "planning" => (funder'[f].left - On(f)' > 0 => funder'[f].left - On(f)' <= Here')
  <2> DEFINE n == funder[f].left - On(f)
  <2>1. n \in Int /\ funder'[f].left - On(f)' = n
    BY <1>2, <1>6, <1>8
  <2>2. funder[f].pc # "planning" => (n > 0 => n <= Here)
    BY <1>5
  <2> HIDE DEF n
  <2> QED BY <1>1, <2>1, <2>2
<1>12. funder[f].pc = "dispatching" => actions'[funder[f].act].transfer = "none"
  BY <1>3, <1>5 DEF Moving
<1>13. policy' = Tidy'
  BY <1>4, <1>5
<1> QED BY <1>2, <1>9, <1>10, <1>11, <1>12, <1>13 DEF AloneOK

Calm == \A f \in Funders : AloneOK(f)

\* A step of one session that leaves the cash, the wallets and the transfers as they were
LEMMA QuietCalm ==
  ASSUME AllocationAssumption, Books, Books', Calm, NEW s \in Funders, RowsKept,
         UNCHANGED <<cash, purse, policy, ahead>>, \A f \in Funders \ {s} : funder'[f] = funder[f],
         \A r \in DOMAIN runs : runs'[r].surplus = runs[r].surplus,
         \A i \in DOMAIN actions : actions'[i].transfer = actions[i].transfer,
         \A i \in DOMAIN actions' : actions'[i].transfer \notin Gone => i \in DOMAIN actions,
         AloneOK(s)'
  PROVE  Calm'
<1>1. FundTypes /\ FundTypes' /\ Here \in Int
  BY RunsFacts, HereType DEF Books
<1>2. Here' = Here
  BY DEF Here
<1>3. \A w \in Wallets : Filled(w)' \in Int /\ Filled(w) \in Int /\ Filled(w)' <= Filled(w)
  <2> SUFFICES ASSUME NEW w \in Wallets PROVE Filled(w)' \in Int /\ Filled(w) \in Int
                          /\ Filled(w)' <= Filled(w)
    OBVIOUS
  <2>1. \A i \in DOMAIN actions' : actions'[i].transfer \notin Gone =>
           /\ i \in DOMAIN actions /\ actions[i].transfer \notin Gone
           /\ actions[i].transfer = "arrived" => actions'[i].transfer = "arrived"
    OBVIOUS
  <2> QED BY <1>1, <2>1, FilledLess
<1>4. ASSUME NEW f \in Funders \ {s} PROVE AloneOK(f)'
  <2>1. Still(f) /\ AloneOK(f)
    BY <1>4, StillIs DEF Calm
  <2>2. policy' = policy /\ Here' \in Int /\ Here <= Here'
    BY <1>1, <1>2
  <2> QED BY <1>3, <2>1, <2>2, StillAlone
<1> QED BY <1>4 DEF Calm

LEMMA UnplannedCalm ==
  ASSUME NEW s \in Funders, funder'[s].alone = FALSE
  PROVE  AloneOK(s)'
BY DEF AloneOK

LEMMA BeginCycleCalm ==
  ASSUME AllocationAssumption, Books, Calm, NEW s \in Funders, BeginCycle(s)
  PROVE  Calm'
<1>1. Books' /\ StatusOnly /\ RowsKept
  BY BeginCycleBooks
<1>2. /\ UNCHANGED <<cash, purse, policy, ahead>> /\ runs' = runs
      /\ funder'[s].alone = FALSE /\ \A f \in Funders \ {s} : funder'[f] = funder[f]
  BY RunsFacts DEF BeginCycle, Fund, FundTypes, Waiting
<1>3. AloneOK(s)'
  BY <1>2, UnplannedCalm
<1>4. /\ \A i \in DOMAIN actions : actions'[i].transfer = actions[i].transfer
      /\ \A i \in DOMAIN actions' : i \in DOMAIN actions
      /\ \A r \in DOMAIN runs : runs'[r].surplus = runs[r].surplus
  BY <1>1, <1>2 DEF StatusOnly, Rewritten
<1> QED BY <1>1, <1>2, <1>3, <1>4, QuietCalm

LEMMA ResumeCalm ==
  ASSUME AllocationAssumption, Books, Calm, NEW s \in Funders, Resume(s)
  PROVE  Calm'
<1> DEFINE i == Min(funder[s].todo)
           m == [funder[s] EXCEPT !.pc = "dispatching", !.act = i, !.back = "resuming", !.todo = @ \ {i}]
<1>1. Books' /\ StatusOnly /\ RowsKept
  BY ResumeBooks
<1>2. /\ UNCHANGED <<cash, purse, policy, ahead>> /\ runs' = runs /\ funder[s].pc = "resuming"
      /\ Fund(s, m)
  BY DEF Resume
<1>3. funder[s].alone = FALSE /\ funder[s] \in FunderRows
  <2>1. SessionOK(s) /\ funder[s] \in FunderRows
    BY RunsFacts DEF Books
  <2> QED BY <1>2, <2>1 DEF SessionOK, FunderRows
<1>4. m.alone = FALSE
  <2> HIDE DEF i
  <2> QED BY <1>3 DEF FunderRows
<1> HIDE DEF m
<1>5. funder'[s] = m /\ \A f \in Funders \ {s} : funder'[f] = funder[f]
  BY <1>2, RunsFacts DEF Fund, FundTypes
<1>6. AloneOK(s)'
  BY <1>4, <1>5, UnplannedCalm
<1>7. /\ \A j \in DOMAIN actions : actions'[j].transfer = actions[j].transfer
      /\ \A j \in DOMAIN actions' : j \in DOMAIN actions
      /\ \A r \in DOMAIN runs : runs'[r].surplus = runs[r].surplus
  BY <1>1, <1>2 DEF StatusOnly, Rewritten
<1> QED BY <1>1, <1>2, <1>5, <1>6, <1>7, QuietCalm

\* The session that forecasts finds the run of the world as it is.
LEMMA ForecastCalm ==
  ASSUME AllocationAssumption, Books, Calm, RunsOK, NEW s \in Funders, Forecast(s)
  PROVE  Calm' /\ RunsOK'
<1>1. Books' /\ StatusOnly /\ RowsKept /\ FundTypes
  BY ForecastBooks, RunsFacts
<1>2. /\ UNCHANGED <<cash, purse, policy, ahead>> /\ policy = Tidy
      /\ (runs' = runs \/ runs' = Append(runs, NewRun))
  BY ForecastBooks DEF Forecast
<1>3. PICK r \in DOMAIN runs' : /\ Fund(s, [Waiting EXCEPT !.pc = "planning", !.run = r, !.alone = TRUE])
                                /\ runs'[r].print = Fingerprint
  BY ForecastBooks
<1>4. /\ funder'[s].pc = "planning" /\ funder'[s].run = r
         /\ \A f \in Funders \ {s} : funder'[f] = funder[f]
  BY <1>1, <1>3 DEF Fund, FundTypes, Waiting
<1>5. /\ DOMAIN runs \subseteq DOMAIN runs' /\ \A q \in DOMAIN runs : runs'[q] = runs[q]
      /\ \A q \in DOMAIN runs' : q \in DOMAIN runs \/ runs'[q] = NewRun
  <2>1. NewRun \in RunRows /\ runs \in Seq(RunRows)
    BY <1>1, ForecastTypes DEF FundTypes
  <2> QED BY <1>2, <2>1
<1>6. RunsOK'
  <2>1. /\ NewRun.low <= NewRun.base
        /\ NewRun.surplus = Positive(Spare(NewRun.print[1], NewRun.print[2], NewRun.print[3],
           NewRun.print[4]))
    <3>1. NewRun.print = Fingerprint /\ NewRun.surplus = Positive(Here) /\ NewRun.low <= NewRun.base
      BY <1>1, ForecastTypes
    <3>2. /\ NewRun.print[1] = cash /\ NewRun.print[2] = purse /\ NewRun.print[3] = policy
          /\ NewRun.print[4] = ahead
      BY <3>1 DEF Fingerprint
    <3> QED BY <3>1, <3>2 DEF Here
  <2> SUFFICES ASSUME NEW q \in DOMAIN runs'
               PROVE  /\ runs'[q].low <= runs'[q].base
                      /\ runs'[q].surplus = Positive(Spare(runs'[q].print[1], runs'[q].print[2],
                                                           runs'[q].print[3], runs'[q].print[4]))
    BY DEF RunsOK
  <2>2. CASE q \in DOMAIN runs
    <3>1. runs'[q] = runs[q]
      BY <1>5, <2>2
    <3>2. /\ runs[q].low <= runs[q].base
          /\ runs[q].surplus = Positive(Spare(runs[q].print[1], runs[q].print[2], runs[q].print[3],
             runs[q].print[4]))
      BY <2>2 DEF RunsOK
    <3> QED BY <3>1, <3>2
  <2>3. CASE runs'[q] = NewRun
    BY <2>1, <2>3
  <2> QED BY <1>5, <2>2, <2>3
<1>7. runs'[r].surplus = Positive(Here)
  <2>1. runs'[r].surplus = Positive(Spare(runs'[r].print[1], runs'[r].print[2], runs'[r].print[3],
          runs'[r].print[4]))
    BY <1>6 DEF RunsOK
  <2>2. /\ runs'[r].print[1] = cash /\ runs'[r].print[2] = purse /\ runs'[r].print[3] = policy
        /\ runs'[r].print[4] = ahead
    BY <1>3 DEF Fingerprint
  <2> QED BY <2>1, <2>2 DEF Here
<1>8. AloneOK(s)'
  <2>1. Here' = Here /\ Tidy' = Tidy
    BY <1>2 DEF Here, Tidy
  <2>2. runs'[funder'[s].run].surplus <= Positive(Here')
    <3>1. Positive(Here) \in Int
      BY <1>1, HereType DEF Positive
    <3> QED BY <1>4, <1>7, <2>1, <3>1
  <2> QED BY <1>2, <1>4, <2>1, <2>2 DEF AloneOK
<1>9. /\ \A j \in DOMAIN actions : actions'[j].transfer = actions[j].transfer
      /\ \A j \in DOMAIN actions' : j \in DOMAIN actions
      /\ \A q \in DOMAIN runs : runs'[q].surplus = runs[q].surplus
  BY <1>1, <1>5 DEF StatusOnly, Rewritten
<1>10. Calm'
  BY <1>1, <1>2, <1>4, <1>8, <1>9, QuietCalm
<1> QED BY <1>6, <1>10

LEMMA OpenPlanCalm ==
  ASSUME AllocationAssumption, Books, Calm, NEW s \in Funders, OpenPlan(s), funder'[s] # Waiting
  PROVE  Calm'
<1>0. PICK r \in DOMAIN runs : r = funder[s].run
  BY OpenPlanBooks
<1>1. /\ Books' /\ StatusOnly /\ RowsKept /\ FundTypes /\ FundTypes'
      /\ UNCHANGED <<cash, purse, policy, ahead, actions>>
  BY OpenPlanBooks, RunsFacts DEF Books, OpenPlan
<1>2. /\ funder[s].pc = "planning"
      /\ \A q \in DOMAIN runs : runs'[q].surplus = runs[q].surplus
      /\ funder'[s].pc = "choosing" /\ funder'[s].left = runs[r].surplus
      /\ funder'[s].gap = [w \in Wallets |-> Gap(w)] /\ funder'[s].act = 0
      /\ funder'[s].run = r /\ funder'[s].alone = funder[s].alone
      /\ \A f \in Funders \ {s} : funder'[f] = funder[f]
  BY <1>0, OpenPlanBooks
<1>3. AloneOK(s)'
  <2> SUFFICES ASSUME funder[s].alone PROVE AloneOK(s)'
    BY <1>2 DEF AloneOK
  <2>1. policy = Tidy /\ runs[r].surplus <= Positive(Here)
    BY <1>0, <1>2 DEF Calm, AloneOK
  <2>2. policy' = Tidy' /\ Here' = Here
    BY <1>1, <2>1 DEF Tidy, Here
  <2>3. runs[r].surplus \in Nat /\ Here \in Int
    <3>1. runs[r] \in RunRows
      BY <1>1, TypeFacts
    <3> QED BY <1>1, <3>1, HereType DEF RunRows
  <2>4. On(s)' = 0 /\ \A w : OnFor(s, w)' = 0
    BY <1>2 DEF On, OnFor
  <2>5. funder'[s].left - On(s)' > 0 => funder'[s].left - On(s)' <= Here'
    BY <1>2, <2>1, <2>2, <2>3, <2>4 DEF Positive
  <2>6. ASSUME NEW w \in Wallets \ {"savings"} PROVE Lacking(s, w)'
    <3>1. Filled(w) \in Int /\ Target \in Int
      <4>1. w \in Wallets /\ Target \in Nat
        BY Numbers
      <4>2. Filled(w) \in Int
        BY <1>1, <4>1, FilledType
      <4> QED BY <4>1, <4>2
    <3>2. Filled(w)' = Filled(w)
      BY <1>1 DEF Filled, Held, Moved, Sent
    <3>3. funder'[s].gap[w] = Positive(Target - Filled(w))
      BY <1>2 DEF Gap
    <3>4. Positive(Target - Filled(w)) - 0 <= 0 \/ Positive(Target - Filled(w)) - 0 <= Target - Filled(w)
      BY <3>1 DEF Positive
    <3> QED BY <2>4, <3>2, <3>3, <3>4 DEF Lacking
  <2> QED BY <1>2, <2>2, <2>5, <2>6 DEF AloneOK
<1>4. \A i \in DOMAIN actions : actions'[i].transfer = actions[i].transfer
  BY <1>1
<1> QED BY <1>1, <1>2, <1>3, <1>4, QuietCalm

LEMMA LeaveCalm ==
  ASSUME AllocationAssumption, Books, Calm, NEW s \in Funders, Fund(s, Waiting), actions' = actions,
         UNCHANGED <<cash, purse, policy, ahead, begun, shared, chosen>>, turns' \in 0..TurnLimit,
         \/ runs' = runs
         \/ /\ funder[s].pc = "choosing"
            /\ \/ runs' = [runs EXCEPT ![funder[s].run].plan = "settled"]
               \/ /\ runs[funder[s].run].plan = "flushed"
                  /\ runs' = [runs EXCEPT ![funder[s].run].plan = "none"]
  PROVE  Calm'
<1>1. /\ Books' /\ StatusOnly /\ RowsKept
      /\ \A q \in DOMAIN runs : runs'[q].surplus = runs[q].surplus
  BY LeaveBooks
<1>2. funder'[s].alone = FALSE /\ \A f \in Funders \ {s} : funder'[f] = funder[f]
  BY RunsFacts DEF Fund, FundTypes, Waiting
<1>3. AloneOK(s)'
  BY <1>2, UnplannedCalm
<1> QED BY <1>1, <1>2, <1>3, QuietCalm

LEMMA SkipCalm ==
  ASSUME AllocationAssumption, Books, Calm, NEW s \in Funders, Skips(s),
         UNCHANGED <<cash, purse, policy, ahead, turns, begun, shared, strained, chosen>>
  PROVE  Calm'
<1>1. /\ Books' /\ StatusOnly /\ RowsKept /\ runs' = runs /\ actions' = actions
      /\ \A f \in Funders \ {s} : funder'[f] = funder[f]
      /\ funder[s].pc = "choosing" /\ funder'[s].pc = "choosing" /\ funder'[s].run = funder[s].run
      /\ funder'[s].act = funder[s].act /\ funder'[s].left = funder[s].left
      /\ funder'[s].gap = funder[s].gap /\ funder'[s].alone = funder[s].alone
  BY SkipBooks DEF Skips
<1>2. AloneOK(s)'
  <2>1. AloneOK(s)
    BY DEF Calm
  <2>2. Here' = Here /\ Tidy' = Tidy /\ \A w : Filled(w)' = Filled(w)
    BY <1>1 DEF Here, Tidy, Filled, Held, Moved, Sent
  <2>3. On(s) = 0 /\ On(s)' = 0 /\ \A w : OnFor(s, w) = 0 /\ OnFor(s, w)' = 0
    BY <1>1 DEF On, OnFor
  <2>4. \A w : Again(s, w)' <=> Again(s, w)
    BY <1>1 DEF Again
  <2>5. \A w : Lacking(s, w)' <=> Lacking(s, w)
    BY <1>1, <2>2, <2>3, <2>4 DEF Lacking
  <2> QED BY <1>1, <2>1, <2>2, <2>3, <2>5 DEF AloneOK
<1>3. /\ \A i \in DOMAIN actions : actions'[i].transfer = actions[i].transfer
      /\ \A i \in DOMAIN actions' : i \in DOMAIN actions
      /\ \A r \in DOMAIN runs : runs'[r].surplus = runs[r].surplus
  BY <1>1
<1> QED BY <1>1, <1>2, <1>3, QuietCalm

LEMMA ChooseCalm ==
  ASSUME AllocationAssumption, Books, Calm, NEW s \in Funders, ChooseMove(s), actions' # actions
  PROVE  Calm'
<1>0. PICK r \in DOMAIN runs, n \in Nat : r = funder[s].run /\ n = Len(actions) + 1
           /\ n \notin DOMAIN actions
  <2>1. funder[s].run \in DOMAIN runs /\ Len(actions) + 1 \in Nat
          /\ Len(actions) + 1 \notin DOMAIN actions
    BY ChooseBooks, RunsFacts
  <2> QED BY <2>1
<1>1. /\ Books' /\ RowsKept /\ UNCHANGED <<cash, purse, policy, ahead>> /\ FundTypes /\ FundTypes'
  BY ChooseBooks, RunsFacts DEF Books, ChooseMove
<1>2. /\ funder[s].pc = "choosing"
      /\ \A q \in DOMAIN runs : runs'[q].surplus = runs[q].surplus
      /\ funder'[s].pc = "dispatching" /\ funder'[s].act = n
      /\ funder'[s].run = funder[s].run /\ funder'[s].left = funder[s].left
         /\ funder'[s].gap = funder[s].gap
      /\ funder'[s].alone = funder[s].alone
      /\ \A f \in Funders \ {s} : funder'[f] = funder[f]
      /\ DOMAIN actions' = DOMAIN actions \cup {n} /\ \A i \in DOMAIN actions : actions'[i] = actions[i]
  BY <1>0, ChooseBooks
<1>3. actions'[n].transfer = "none"
  <2>1. PICK a \in Sources, w \in Wallets : actions' = Append(actions, NewRow(s, a, w))
             /\ NewRow(s, a, w) \in ActionRows
    BY ChooseBooks
  <2>2. actions \in Seq(ActionRows)
    BY <1>1 DEF FundTypes
  <2>3. actions'[n] = NewRow(s, a, w)
    BY <1>0, <2>1, <2>2
  <2> QED BY <2>3 DEF NewRow
<1>4. \A i \in DOMAIN actions' : actions'[i].transfer \notin Gone => i \in DOMAIN actions
  BY <1>2, <1>3 DEF Gone
<1>5. AloneOK(s)'
  <2> SUFFICES ASSUME funder[s].alone PROVE AloneOK(s)'
    BY <1>2 DEF AloneOK
  <2>1. AloneOK(s)
    BY DEF Calm
  <2>2. Here' = Here /\ Tidy' = Tidy
    BY <1>1 DEF Here, Tidy
  <2>3. On(s) = 0 /\ On(s)' = 0 /\ \A w : OnFor(s, w) = 0 /\ OnFor(s, w)' = 0
    BY <1>2 DEF On, OnFor
  <2>4. \A w : Again(s, w) => Again(s, w)'
    BY <1>0, <1>2 DEF Again
  <2>5. ASSUME NEW w \in Wallets \ {"savings"} PROVE Lacking(s, w)'
    <3>1. Lacking(s, w) /\ funder[s].gap \in [Wallets -> Nat]
      <4>1. SessionOK(s)
        BY DEF Books
      <4> QED BY <1>2, <2>1, <4>1, RunsFacts, <1>0 DEF AloneOK, SessionOK
    <3>2. \A i \in DOMAIN actions' : actions'[i].transfer \notin Gone =>
           /\ i \in DOMAIN actions /\ actions[i].transfer \notin Gone
           /\ actions[i].transfer = "arrived" => actions'[i].transfer = "arrived"
      BY <1>2, <1>4
    <3>3. Filled(w)' \in Int /\ Filled(w) \in Int /\ Filled(w)' <= Filled(w)
      BY <1>1, <3>2, FilledLess
    <3>4. Target \in Int /\ funder[s].gap[w] \in Int
      BY <3>1, Numbers
    <3> DEFINE Low1 == funder[s].gap[w] - 0 <= Target - Filled(w)
               Low2 == funder[s].gap[w] - 0 <= 0
               Twice == w = "spending" /\ Again(s, w)
    <3>5. Low1 => Lacking(s, w)'
      <4> SUFFICES ASSUME Low1 PROVE Lacking(s, w)'
        OBVIOUS
      <4>1. funder[s].gap[w] - 0 <= Target - Filled(w)'
        BY <3>3, <3>4
      <4> QED BY <1>2, <2>3, <4>1 DEF Lacking
    <3>6. Low2 => Lacking(s, w)'
      BY <1>2, <2>3 DEF Lacking
    <3>7. Twice => Lacking(s, w)'
      BY <2>4 DEF Lacking
    <3>8. Low1 \/ Low2 \/ Twice
      BY <2>3, <3>1 DEF Lacking
    <3> HIDE DEF Low1, Low2, Twice
    <3> QED BY <3>5, <3>6, <3>7, <3>8
  <2>6. policy' = Tidy' /\ funder'[s].left - On(s)' = funder[s].left - On(s)
    BY <1>1, <1>2, <2>1, <2>2, <2>3 DEF AloneOK
  <2>7. actions'[n].transfer = "none" /\ Here' = Here
    BY <1>3, <2>2
  <2>8. funder[s].left - On(s) > 0 => funder[s].left - On(s) <= Here
    BY <1>2, <2>1 DEF AloneOK
  <2> QED BY <1>2, <2>5, <2>6, <2>7, <2>8 DEF AloneOK
<1>6. \A i \in DOMAIN actions : actions'[i].transfer = actions[i].transfer
  BY <1>2
<1> QED BY <1>1, <1>2, <1>4, <1>5, <1>6, QuietCalm

LEMMA ToldCalm ==
  ASSUME AllocationAssumption, Books, Calm, NEW s \in Funders, funder[s].pc = "dispatching", Told(s),
         UNCHANGED <<purse, policy, ahead, runs, turns, begun, shared, chosen>>
  PROVE  Calm'
<1>1. /\ Books' /\ StatusOnly /\ RowsKept /\ actions' = actions /\ cash' = cash
      /\ \A f \in Funders \ {s} : funder'[f] = funder[f]
      /\ funder'[s].alone = funder[s].alone
  BY ToldBooks DEF Told
<1>2. ~funder[s].alone
  BY DEF Calm, AloneOK, Told
<1>3. AloneOK(s)'
  BY <1>1, <1>2 DEF AloneOK
<1> QED BY <1>1, <1>3, QuietCalm

\* What a wallet has got depends on the transfers alone.
LEMMA FilledSame ==
  ASSUME AllocationAssumption, FundTypes, Rewritten, purse' = purse,
         \A i \in DOMAIN actions : actions'[i].transfer = actions[i].transfer, NEW w \in Wallets
  PROVE  Filled(w)' = Filled(w)
<1> DEFINE T == {i \in Sent(w) : actions[i].transfer # "arrived"}
<1>1. Sent(w)' = Sent(w) /\ T' = T /\ Sent(w) \in SUBSET DOMAIN actions /\ T \in SUBSET DOMAIN actions
  BY DEF Sent, Rewritten
<1>2. ASSUME NEW S \in SUBSET DOMAIN actions PROVE Amount(actions', S) = Amount(actions, S)
  <2>1. IsFiniteSet(S) /\ \A i \in S : actions[i].amount \in Nat
          /\ actions'[i].amount = actions[i].amount
    BY AmountOf DEF Rewritten
  <2> QED BY <2>1, AmountSame
<1>3. Moved(Sent(w))' = Amount(actions', Sent(w)') /\ Moved(T)' = Amount(actions', T')
  BY DEF Moved, Amount
<1>4. Moved(Sent(w)) = Amount(actions, Sent(w)) /\ Moved(T) = Amount(actions, T)
  BY MovedIs
<1>5. Filled(w)' = IF w = "tax" THEN Moved(Sent(w))' ELSE purse'[w] + Moved(T)'
  BY DEF Filled, Held
<1>6. Filled(w) = IF w = "tax" THEN Moved(Sent(w)) ELSE purse[w] + Moved(T)
  BY DEF Filled, Held
<1> HIDE DEF T
<1>7. Amount(actions', T) = Amount(actions, T) /\ Amount(actions', Sent(w)) = Amount(actions, Sent(w))
  BY <1>1, <1>2
<1>8. Moved(Sent(w))' = Moved(Sent(w)) /\ Moved(T)' = Moved(T)
  BY <1>1, <1>3, <1>4, <1>7
<1> QED BY <1>5, <1>6, <1>8

LEMMA BlocksCalm ==
  ASSUME AllocationAssumption, Books, Calm, NEW s \in Funders, funder[s].pc = "dispatching", Blocks(s),
         UNCHANGED <<purse, policy, ahead, runs, turns, begun, shared, chosen>>
  PROVE  Calm'
<1>1. /\ Books' /\ StatusOnly /\ Rewritten /\ RowsKept /\ UNCHANGED <<cash, runs>> /\ FundTypes
         /\ FundTypes'
      /\ \A f \in Funders \ {s} : funder'[f] = funder[f]
      /\ funder'[s].pc = funder[s].back /\ funder'[s].run = funder[s].run
      /\ funder'[s].left = funder[s].left /\ funder'[s].gap = funder[s].gap
      /\ funder'[s].alone = funder[s].alone
  BY BlocksBooks, RunsFacts DEF Blocks, Books, StatusOnly
<1>2. funder[s].back \in {"resuming", "choosing"}
  BY AtHand DEF Moving
<1>3. \A i \in DOMAIN actions : actions'[i].transfer = actions[i].transfer
  BY <1>1 DEF StatusOnly
<1>4. AloneOK(s)'
  <2> SUFFICES ASSUME funder[s].alone PROVE AloneOK(s)'
    BY <1>1 DEF AloneOK
  <2>1. AloneOK(s)
    BY DEF Calm
  <2>2. Here' = Here /\ Tidy' = Tidy
    BY <1>1 DEF Here, Tidy
  <2>3. On(s) = 0 /\ On(s)' = 0 /\ \A w : OnFor(s, w) = 0 /\ OnFor(s, w)' = 0
    BY <1>1, <1>2 DEF On, OnFor
  <2>4. \A w : Again(s, w) => Again(s, w)'
    BY <1>1, <1>2 DEF Again, Rewritten
  <2>5. ASSUME NEW w \in Wallets \ {"savings"} PROVE Lacking(s, w)'
    <3>1. Filled(w)' = Filled(w)
      BY <1>1, <1>3, FilledSame DEF Blocks
    <3>2. Lacking(s, w)
      BY <2>1 DEF AloneOK
    <3>3. funder'[s].gap = funder[s].gap /\ OnFor(s, w) = 0 /\ OnFor(s, w)' = 0
            /\ (Again(s, w) => Again(s, w)')
      BY <1>1, <2>3, <2>4
    <3> QED BY <3>1, <3>2, <3>3 DEF Lacking
  <2> QED BY <1>1, <1>2, <2>1, <2>2, <2>3, <2>5 DEF AloneOK
<1>5. /\ \A i \in DOMAIN actions' : i \in DOMAIN actions
      /\ \A r \in DOMAIN runs : runs'[r].surplus = runs[r].surplus
  BY <1>1 DEF Rewritten
<1> QED BY <1>1, <1>3, <1>4, <1>5, QuietCalm

LEMMA NoteCalm ==
  ASSUME AllocationAssumption, Books, Calm, NEW s \in Funders, Note(s)
  PROVE  Calm'
<1>0. PICK i \in DOMAIN actions : i = funder[s].act
  BY AtHand DEF Moving, Note
<1> DEFINE spent == IF funder[s].seen = "failed" THEN 0 ELSE actions[i].amount
           left == IF funder[s].back = "choosing" THEN Positive(funder[s].left - spent)
             ELSE funder[s].left
           gap == IF funder[s].back = "choosing"
                    THEN [w \in Wallets |-> IF w = actions[i].to /\ w \in {"tax", "reserve"}
                                              THEN Positive(funder[s].gap[w] - spent)
                                                ELSE funder[s].gap[w]]
                    ELSE funder[s].gap
<1>1. /\ Books' /\ StatusOnly /\ Rewritten /\ RowsKept /\ FundTypes /\ FundTypes'
      /\ UNCHANGED <<cash, purse, policy, ahead, runs>> /\ funder[s].pc = "noting" /\ Moving(s)
  BY NoteBooks, RunsFacts DEF Books, StatusOnly, Note, Moving
<1>2. /\ funder[s].back \in {"resuming", "choosing"} /\ funder[s] \in FunderRows
      /\ (funder[s].back = "resuming" <=> funder[s].run = 0) /\ (funder[s].alone => funder[s].run # 0)
      /\ (funder[s].back = "choosing" => funder[s].gap \in [Wallets -> Nat]
         /\ actions[i].run = funder[s].run)
  BY <1>0, <1>1, AtHand
<1>3. actions[i].amount \in Nat
  <2>1. {i} \in SUBSET DOMAIN actions
    BY <1>0
  <2>2. \A j \in {i} : actions[j].amount \in Nat
    BY <1>1, <2>1, AmountOf
  <2> QED BY <2>2
<1>4. /\ funder'[s].run = funder[s].run /\ funder'[s].pc = funder[s].back
         /\ funder'[s].alone = funder[s].alone
      /\ funder'[s].left = left /\ funder'[s].gap = gap
      /\ \A f \in Funders \ {s} : funder'[f] = funder[f]
  <2>1. funder' = [funder EXCEPT ![s] = [funder[s] EXCEPT !.pc = funder[s].back, !.act = 0,
          !.seen = "none",
                !.left = left, !.gap = gap]]
    BY <1>0 DEF Note, Fund
  <2>2. funder \in [Funders -> FunderRows]
    BY <1>1 DEF FundTypes
  <2> HIDE DEF left, gap
  <2> QED BY <1>2, <2>1, <2>2 DEF FunderRows
<1>5. \A j \in DOMAIN actions : actions'[j].transfer = actions[j].transfer
  BY <1>1 DEF StatusOnly
<1>6. AloneOK(s)'
  <2> SUFFICES ASSUME funder[s].alone PROVE AloneOK(s)'
    BY <1>4 DEF AloneOK
  <2>1. AloneOK(s) /\ funder[s].back = "choosing"
    BY <1>2 DEF Calm
  <2>2. Here' = Here /\ Tidy' = Tidy /\ Here \in Int
    BY <1>1, HereType DEF Here, Tidy
  <2>3. /\ On(s) = spent /\ spent \in Nat /\ On(s)' = 0 /\ (\A w : OnFor(s, w)' = 0)
        /\ \A w : OnFor(s, w) = IF actions[i].to = w THEN spent ELSE 0
    BY <1>0, <1>1, <1>3, <1>4, <2>1 DEF On, OnFor
  <2>4. funder[s].left \in Nat
    BY <1>2 DEF FunderRows
  <2>5. funder'[s].left - On(s)' > 0 => funder'[s].left - On(s)' <= Here'
    <3>1. funder[s].left - spent > 0 => funder[s].left - spent <= Here
      BY <1>1, <2>1, <2>3 DEF AloneOK
    <3>2. funder'[s].left = Positive(funder[s].left - spent) /\ On(s)' = 0
      BY <1>4, <2>1, <2>3
    <3> HIDE DEF spent, left
    <3> QED BY <2>2, <2>3, <2>4, <3>1, <3>2 DEF Positive
  <2>6. ASSUME NEW w \in Wallets \ {"savings"} PROVE Lacking(s, w)'
    <3>1. /\ Filled(w)' = Filled(w) /\ Target \in Int /\ Filled(w) \in Int
      <4>1. w \in Wallets /\ Target \in Nat
        BY Numbers
      <4>2. Filled(w)' = Filled(w)
        BY <1>1, <1>5, <4>1, FilledSame
      <4>3. Filled(w) \in Int
        BY <1>1, <4>1, FilledType
      <4> QED BY <4>1, <4>2, <4>3
    <3>2. Lacking(s, w) /\ funder[s].gap[w] \in Nat
      BY <1>1, <1>2, <2>1 DEF AloneOK
    <3>3. funder'[s].gap[w] = IF w = actions[i].to /\ w \in {"tax", "reserve"}
                                THEN Positive(funder[s].gap[w] - spent) ELSE funder[s].gap[w]
      BY <1>4, <2>1
    <3>4. Again(s, w) => Again(s, w)'
      BY <1>1, <1>2, <1>4, <2>1 DEF Again, Rewritten
    <3>5. actions[i].to = w => Again(s, w)'
      BY <1>0, <1>1, <1>2, <1>4, <2>1 DEF Again, Rewritten
    <3> DEFINE g == funder[s].gap[w]
               h == funder'[s].gap[w]
               o == OnFor(s, w)
               room == Target - Filled(w)
    <3>6. /\ g \in Nat /\ o \in Nat /\ room \in Int /\ OnFor(s, w)' = 0 /\ Target - Filled(w)' = room
          /\ o = IF actions[i].to = w THEN spent ELSE 0
          /\ h = IF w = actions[i].to /\ w \in {"tax", "reserve"} THEN Positive(g - spent) ELSE g
      BY <2>3, <3>1, <3>2, <3>3
    <3>7. g - o <= 0 \/ g - o <= room \/ (w = "spending" /\ Again(s, w))
      BY <3>2 DEF Lacking
    <3>8. w \in {"spending", "tax", "reserve"}
      BY DEF AllocationAssumption
    <3>9. SUFFICES h - 0 <= 0 \/ h - 0 <= room \/ (w = "spending" /\ Again(s, w)')
      BY <3>6 DEF Lacking
    <3> HIDE DEF g, h, o, room, spent
    <3>10. CASE w = actions[i].to /\ w \in {"tax", "reserve"}
      <4>1. h = Positive(g - o) /\ w # "spending"
        BY <3>6, <3>10
      <4> QED BY <3>6, <3>7, <4>1 DEF Positive
    <3>11. CASE w # actions[i].to
      <4>1. h = g /\ o = 0
        BY <3>6, <3>11
      <4> QED BY <3>4, <3>6, <3>7, <4>1
    <3>12. CASE w = actions[i].to /\ w = "spending"
      BY <3>5, <3>12
    <3> QED BY <3>8, <3>10, <3>11, <3>12
  <2> HIDE DEF left, gap, spent
  <2>7. policy = Tidy
    BY <2>1 DEF AloneOK
  <2> QED BY <1>1, <1>4, <2>1, <2>2, <2>5, <2>6, <2>7 DEF AloneOK
<1>7. /\ \A j \in DOMAIN actions' : j \in DOMAIN actions
      /\ \A r \in DOMAIN runs : runs'[r].surplus = runs[r].surplus
  BY <1>1 DEF Rewritten
<1> HIDE DEF left, gap, spent
<1> QED BY <1>1, <1>4, <1>5, <1>6, <1>7, QuietCalm

LEMMA SettleCalm ==
  ASSUME AllocationAssumption, Books, Calm, NEW i \in DOMAIN actions, Settle(i)
  PROVE  Calm'
<1>1. /\ Books' /\ Rewritten /\ RowsKept /\ UNCHANGED <<purse, policy, ahead, runs, funder>>
      /\ FundTypes /\ FundTypes'
      /\ actions[i].transfer = "active" /\ actions'[i].transfer \in {"done", "failed"}
      /\ cash' = IF actions'[i].transfer = "failed"
                   THEN [cash EXCEPT ![actions[i].from] = @ + actions[i].amount] ELSE cash
      /\ \A j \in DOMAIN actions \ {i} : actions'[j] = actions[j]
  BY SettleBooks, RunsFacts DEF Books
<1>2. /\ cash \in [Sources -> Int] /\ cash' \in [Sources -> Int] /\ purse \in [Wallets -> Nat]
         /\ ahead \in Futures
      /\ policy \in [Sources -> Policies]
  BY <1>1 DEF FundTypes
<1>3. actions[i].amount \in Nat
  <2>1. {i} \in SUBSET DOMAIN actions
    OBVIOUS
  <2>2. \A j \in {i} : actions[j].amount \in Nat
    BY <1>1, <2>1, AmountOf
  <2> QED BY <2>2
<1>4. \A a \in Sources : cash[a] <= cash'[a]
  <2> DEFINE n == actions[i].amount
  <2>1. n \in Nat /\ (cash' = cash \/ cash' = [cash EXCEPT ![actions[i].from] = @ + n])
    BY <1>1, <1>3
  <2> HIDE DEF n
  <2> QED BY <1>2, <2>1
<1>5. Here' \in Int /\ Here <= Here'
  <2>1. \A w \in Wallets : purse[w] <= purse[w]
    BY <1>2
  <2>2. /\ Spare(cash', purse, policy, ahead) \in Int
        /\ Spare(cash, purse, policy, ahead) <= Spare(cash', purse, policy, ahead)
    BY <1>1, <1>2, <1>4, <2>1, SpareOrder
  <2>3. Here' = Spare(cash', purse, policy, ahead)
    BY <1>1 DEF Here
  <2> QED BY <2>2, <2>3 DEF Here
<1>6. \A w \in Wallets : Filled(w)' \in Int /\ Filled(w) \in Int /\ Filled(w)' <= Filled(w)
  <2> SUFFICES ASSUME NEW w \in Wallets PROVE Filled(w)' \in Int /\ Filled(w) \in Int
                          /\ Filled(w)' <= Filled(w)
    OBVIOUS
  <2>1. \A j \in DOMAIN actions' : actions'[j].transfer \notin Gone =>
           /\ j \in DOMAIN actions /\ actions[j].transfer \notin Gone
           /\ actions[j].transfer = "arrived" => actions'[j].transfer = "arrived"
    BY <1>1 DEF Gone, Rewritten
  <2> QED BY <1>1, <2>1, FilledLess
<1>7. \A j \in DOMAIN actions : actions[j].transfer = "none" => actions'[j].transfer = "none"
  BY <1>1
<1>8. ASSUME NEW f \in Funders PROVE AloneOK(f)'
  <2>1. Still(f) /\ AloneOK(f)
    BY <1>1, StillIs DEF Calm
  <2>2. policy' = policy /\ \A r \in DOMAIN runs : runs'[r].surplus = runs[r].surplus
    BY <1>1
  <2> QED BY <1>1, <1>5, <1>6, <1>7, <2>1, <2>2, StillAlone
<1> QED BY <1>8 DEF Calm

LEMMA SyncCalm ==
  ASSUME AllocationAssumption, Books, Calm, SyncBalances
  PROVE  Calm'
<1> DEFINE Came(w) == {i \in DOMAIN actions : actions[i].transfer = "done" /\ actions[i].to = w}
<1>1. /\ Books' /\ Rewritten /\ RowsKept /\ UNCHANGED <<cash, policy, ahead, runs, funder>>
      /\ FundTypes /\ FundTypes' /\ purse' \in [Wallets -> Nat]
      /\ \A i \in DOMAIN actions :
              actions'[i].transfer = IF actions[i].transfer = "done" THEN "arrived"
                ELSE actions[i].transfer
      /\ \A w \in Wallets : purse'[w] = purse[w] + Amount(actions, Came(w)) /\ purse[w] <= purse'[w]
  BY SyncBooks, RunsFacts DEF Books
<1>2. cash \in [Sources -> Int] /\ purse \in [Wallets -> Nat] /\ ahead \in Futures
  BY <1>1 DEF FundTypes
<1>3. Here' \in Int /\ Here <= Here'
  <2>0. \A a \in Sources : cash[a] <= cash[a]
    BY <1>2
  <2>1. \A w \in Wallets : purse[w] <= purse'[w]
    BY <1>1
  <2>2. /\ Spare(cash, purse', policy, ahead) \in Int
        /\ Spare(cash, purse, policy, ahead) <= Spare(cash, purse', policy, ahead)
    BY <1>1, <1>2, <2>0, <2>1, SpareOrder
  <2>3. Here' = Spare(cash, purse', policy, ahead)
    BY <1>1 DEF Here
  <2> QED BY <2>2, <2>3 DEF Here
<1>4. ASSUME NEW w \in Wallets PROVE Filled(w)' \in Int /\ Filled(w) \in Int /\ Filled(w)' <= Filled(w)
  <2> DEFINE T == {i \in Sent(w) : actions[i].transfer # "arrived"}
  <2>1. Sent(w)' = Sent(w) /\ Sent(w) \in SUBSET DOMAIN actions /\ T \in SUBSET DOMAIN actions
    BY <1>1 DEF Sent, Gone, Rewritten
  <2>2. T' = T \ Came(w) /\ Came(w) \in SUBSET T
    BY <1>1 DEF Sent, Gone, Rewritten
  <2>3. ASSUME NEW S \in SUBSET DOMAIN actions
        PROVE /\ Amount(actions', S) = Amount(actions, S) /\ Amount(actions, S) \in Nat
              /\ IsFiniteSet(S) /\ \A i \in S : actions[i].amount \in Nat
    <3>1. /\ IsFiniteSet(S) /\ \A i \in S : actions[i].amount \in Nat
             /\ actions'[i].amount = actions[i].amount
          /\ Amount(actions, S) \in Nat
      BY <1>1, AmountOf DEF Rewritten
    <3> QED BY <3>1, AmountSame
  <2>4. /\ Filled(w) = IF w = "tax" THEN Amount(actions, Sent(w)) ELSE purse[w] + Amount(actions, T)
        /\ Filled(w)' = IF w = "tax" THEN Amount(actions', Sent(w)')
           ELSE purse'[w] + Amount(actions', T')
    <3>1. Moved(Sent(w)) = Amount(actions, Sent(w)) /\ Held(w) = purse[w] + Amount(actions, T)
      BY <1>1, <1>4, FilledType
    <3>2. Moved(Sent(w))' = Amount(actions', Sent(w)') /\ Held(w)' = purse'[w] + Amount(actions', T')
      BY DEF Moved, Amount, Held
    <3> QED BY <3>1, <3>2 DEF Filled
  <2>5. purse'[w] = purse[w] + Amount(actions, Came(w)) /\ purse[w] \in Nat
    BY <1>1, <1>2, <1>4
  <2> HIDE DEF T, Came
  <2>6. Amount(actions, T) = Amount(actions, Came(w)) + Amount(actions, T \ Came(w))
    <3>1. IsFiniteSet(T) /\ \A i \in T : actions[i].amount \in Nat
      BY <2>1, <2>3
    <3> QED BY <2>2, <3>1, AmountUnion
  <2>7. /\ Amount(actions', T') = Amount(actions, T \ Came(w)) /\ Amount(actions, T \ Came(w)) \in Nat
        /\ Amount(actions, Came(w)) \in Nat /\ Amount(actions', Sent(w)') = Amount(actions, Sent(w))
        /\ Amount(actions, Sent(w)) \in Nat
    <3>1. T \ Came(w) \in SUBSET DOMAIN actions /\ Came(w) \in SUBSET DOMAIN actions
      BY <2>1, <2>2
    <3> QED BY <2>1, <2>2, <2>3, <3>1
  <2> QED BY <2>4, <2>5, <2>6, <2>7
<1>5. \A j \in DOMAIN actions : actions[j].transfer = "none" => actions'[j].transfer = "none"
  BY <1>1
<1>6. ASSUME NEW f \in Funders PROVE AloneOK(f)'
  <2>1. Still(f) /\ AloneOK(f)
    BY <1>1, StillIs DEF Calm
  <2>2. policy' = policy /\ \A r \in DOMAIN runs : runs'[r].surplus = runs[r].surplus
    BY <1>1
  <2> QED BY <1>1, <1>3, <1>4, <1>5, <2>1, <2>2, StillAlone
<1> QED BY <1>6 DEF Calm

LEMMA WorldCalm ==
  ASSUME AllocationAssumption, Books, Calm, Spend \/ BillArrives \/ OwnerSetsPolicy
  PROVE  Calm'
<1>1. \A f \in Funders : funder'[f].alone = FALSE
  <2>1. \A f \in Funders : funder'[f] = [funder[f] EXCEPT !.alone = FALSE] /\ funder[f] \in FunderRows
    BY TurnBooks, RunsFacts
  <2> QED BY <2>1 DEF FunderRows
<1> QED BY <1>1 DEF Calm, AloneOK

LEMMA PoliciesCalm ==
  ASSUME AllocationAssumption, Books, Calm, EnsurePolicies
  PROVE  Calm'
<1>1. policy # Tidy /\ funder' = funder
  BY DEF EnsurePolicies
<1>2. \A f \in Funders : ~funder[f].alone
  BY <1>1 DEF Calm, AloneOK
<1> QED BY <1>1, <1>2 DEF Calm, AloneOK

\* What a planner that runs alone knows of the action at hand
LEMMA AloneAtHand ==
  ASSUME AllocationAssumption, Books, Calm, NEW s \in Funders, funder[s].pc = "dispatching",
         funder[s].alone
  PROVE  LET a == actions[funder[s].act] IN
         /\ funder[s].back = "choosing" /\ a.run = funder[s].run /\ a.to \in Wallets
            /\ a.from \in Sources
         /\ a.amount \in Nat /\ a.amount > 0 /\ funder[s].left \in Nat
         /\ funder[s].gap \in [Wallets -> Nat]
         /\ a.amount <= funder[s].left /\ (a.to # "savings" => a.amount <= funder[s].gap[a.to])
         /\ funder[s].left <= Here /\ policy = Tidy
         /\ \A w \in Wallets \ {"savings"} :
              \/ funder[s].gap[w] <= 0 \/ funder[s].gap[w] <= Target - Filled(w)
              \/ w = "spending" /\ Again(s, w)
<1> DEFINE a == actions[funder[s].act]
<1>1. /\ FundTypes /\ funder[s].run # 0 /\ a \in ActionRows /\ funder[s].back = "choosing"
      /\ a.run = funder[s].run /\ a.amount <= funder[s].left /\ funder[s].gap \in [Wallets -> Nat]
      /\ (a.to # "savings" => a.amount <= funder[s].gap[a.to]) /\ funder[s] \in FunderRows
  BY AtHand DEF Moving
<1>2. a.to \in Wallets /\ a.from \in Sources /\ a.amount \in Nat /\ a.amount > 0
        /\ funder[s].left \in Nat
  <2> HIDE DEF a
  <2> QED BY <1>1, RowsFacts DEF FunderRows
<1>3. AloneOK(s)
  BY DEF Calm
<1>4. On(s) = 0 /\ \A w : OnFor(s, w) = 0
  BY DEF On, OnFor
<1>5. funder[s].left - On(s) = funder[s].left
  BY <1>2, <1>4
<1>6. funder[s].left <= Here /\ policy = Tidy /\ \A w \in Wallets \ {"savings"} : Lacking(s, w)
  <2>1. funder[s].left > 0
    <3> HIDE DEF a
    <3> QED BY <1>1, <1>2
  <2>2. /\ policy = Tidy /\ (funder[s].left - On(s) > 0 => funder[s].left - On(s) <= Here)
        /\ \A w \in Wallets \ {"savings"} : Lacking(s, w)
    BY <1>3 DEF AloneOK
  <2> QED BY <1>5, <2>1, <2>2
<1>7. ASSUME NEW w \in Wallets \ {"savings"}
      PROVE  \/ funder[s].gap[w] <= 0 \/ funder[s].gap[w] <= Target - Filled(w)
             \/ w = "spending" /\ Again(s, w)
  <2>1. funder[s].gap[w] - OnFor(s, w) = funder[s].gap[w]
    BY <1>1, <1>4
  <2>2. Lacking(s, w)
    BY <1>6
  <2> QED BY <2>1, <2>2 DEF Lacking
<1> QED BY <1>1, <1>2, <1>6, <1>7

\* Here is the lowest point of the scope, less its floor.
LEMMA HereIs ==
  ASSUME AllocationAssumption, FundTypes
  PROVE  Low \in Int /\ Protected \in Nat /\ Here = Low - Protected
<1>1. Start \in Int /\ Start = StartOf(cash, purse, policy)
  <2>1. cash \in [Sources -> Int] /\ purse \in [Wallets -> Nat]
    BY DEF FundTypes
  <2>2. StartOf(cash, purse, policy) \in Int
    BY <2>1, StartType
  <2> QED BY <2>2 DEF Start, StartOf, Managed
<1>2. Protected \in Nat /\ Protected = ProtectedOf(policy)
  <2>1. cash \in [Sources -> Int] /\ purse \in [Wallets -> Nat]
    BY DEF FundTypes
  <2>2. ProtectedOf(policy) \in Nat
    BY <2>1, StartType
  <2> QED BY <2>2 DEF Protected, ProtectedOf, Managed
<1>3. LowPoint(Start, ahead, TRUE) \in Int
  <2>1. ahead \in Futures /\ 0 \in Int /\ TRUE \in BOOLEAN
    BY DEF FundTypes
  <2> QED BY <1>1, <2>1, LowOrder
<1> QED BY <1>1, <1>2, <1>3 DEF Low, Here, Spare

LEMMA NoStrain ==
  ASSUME AllocationAssumption, Books, Calm, NEW s \in Funders, funder[s].pc = "dispatching"
  PROVE  Strains(s, actions[funder[s].act]) = {}
<1> DEFINE a == actions[funder[s].act]
<1>1. CASE ~(funder[s].alone /\ funder[s].back = "choosing")
  BY <1>1 DEF Strains
<1>2. CASE funder[s].alone /\ funder[s].back = "choosing"
  <2> DEFINE n == a.amount
             w == a.to
             again == \E i \in DOMAIN actions : i # funder[s].act /\ actions[i].run = a.run
               /\ actions[i].to = w
  <2>1. /\ a.run = funder[s].run /\ w \in Wallets /\ n \in Nat /\ n > 0 /\ funder[s].left \in Nat
        /\ funder[s].gap \in [Wallets -> Nat] /\ n <= funder[s].left /\ funder[s].left <= Here
        /\ (w # "savings" => n <= funder[s].gap[w])
        /\ w # "savings" => \/ funder[s].gap[w] <= 0 \/ funder[s].gap[w] <= Target - Filled(w)
                            \/ w = "spending" /\ Again(s, w)
    BY <1>2, AloneAtHand
  <2>2. FundTypes
    BY DEF Books
  <2>3. ~(Low - n < Protected)
    <3>1. Low \in Int /\ Protected \in Nat /\ Here = Low - Protected
      BY <2>2, HereIs
    <3> HIDE DEF n
    <3> QED BY <2>1, <3>1
  <2>4. Again(s, w) => again
    BY <2>1 DEF Again
  <2>5. ~(w # "savings" /\ Filled(w) + n > Target /\ ~(w = "spending" /\ again))
    <3> SUFFICES ASSUME w # "savings", Filled(w) + n > Target PROVE w = "spending" /\ again
      OBVIOUS
    <3>1. Filled(w) \in Int /\ Target \in Int /\ funder[s].gap[w] \in Nat
      <4> HIDE DEF w
      <4>1. Filled(w) \in Int
        BY <2>1, <2>2, FilledType
      <4>2. Target \in Int
        BY Numbers
      <4> QED BY <2>1, <4>1, <4>2
    <3> DEFINE g == funder[s].gap[w]
               l == Filled(w)
    <3>2. n \in Nat /\ n > 0 /\ g \in Nat /\ l \in Int /\ Target \in Int /\ n <= g /\ l + n > Target
      BY <2>1, <3>1
    <3>3. ~(g <= 0) /\ ~(g <= Target - l)
      <4> HIDE DEF g, l, n
      <4> QED BY <3>2
    <3>4. w = "spending" /\ Again(s, w)
      BY <2>1, <3>3
    <3> QED BY <2>4, <3>4
  <2>6. Strains(s, a) =
          (IF Low - n < Protected THEN {"floor"} ELSE {})
          \cup (IF w # "savings" /\ Filled(w) + n > Target /\ ~(w = "spending" /\ again) THEN {w}
            ELSE {})
    BY <1>2 DEF Strains
  <2> HIDE DEF again, n, w
  <2> QED BY <2>3, <2>5, <2>6
<1> QED BY <1>1, <1>2

\* A transfer fills its own wallet only, by its amount.
LEMMA FilledMore ==
  ASSUME AllocationAssumption, FundTypes, FundTypes', Rewritten, purse' = purse,
         NEW k \in DOMAIN actions,
         actions[k].transfer = "none", actions'[k].transfer = "active",
         \A j \in DOMAIN actions \ {k} : actions'[j] = actions[j], NEW w \in Wallets
  PROVE  /\ Filled(w) \in Int
         /\ Filled(w)' = Filled(w) + (IF w = actions[k].to THEN actions[k].amount ELSE 0)
<1> DEFINE S == Sent(w)
           T == {i \in Sent(w) : actions[i].transfer # "arrived"}
           mine == w = actions[k].to
<1>1. S \in SUBSET DOMAIN actions /\ T \in SUBSET S /\ k \notin S /\ Sent(w)' \in SUBSET DOMAIN actions
  BY DEF Sent, Gone, Rewritten
<1>2. /\ Sent(w)' = IF mine THEN S \cup {k} ELSE S
      /\ {i \in Sent(w) : actions[i].transfer # "arrived"}' = IF mine THEN T \cup {k} ELSE T
  BY DEF Sent, Gone, Rewritten
<1>3. ASSUME NEW R \in SUBSET DOMAIN actions, k \notin R
      PROVE  /\ Amount(actions', R) = Amount(actions, R) /\ Amount(actions, R) \in Nat
             /\ Amount(actions', R \cup {k}) = Amount(actions, R) + actions[k].amount
  <2>1. /\ IsFiniteSet(R) /\ Amount(actions, R) \in Nat
        /\ \A i \in R : actions[i].amount \in Nat /\ actions'[i].amount = actions[i].amount
    BY AmountOf DEF Rewritten
  <2>2. Amount(actions', R) = Amount(actions, R)
    BY <2>1, AmountSame
  <2>3. R \cup {k} \in SUBSET DOMAIN actions
    OBVIOUS
  <2>4. /\ IsFiniteSet(R \cup {k})
        /\ \A i \in R \cup {k} : actions[i].amount \in Nat /\ actions'[i].amount = actions[i].amount
    BY <2>3, AmountOf DEF Rewritten
  <2>5. \A i \in R \cup {k} : actions'[i].amount \in Nat
    BY <2>4
  <2>6. Amount(actions', R \cup {k}) = actions'[k].amount + Amount(actions', (R \cup {k}) \ {k})
    BY <2>4, <2>5, AmountOne
  <2>7. (R \cup {k}) \ {k} = R /\ actions'[k].amount = actions[k].amount /\ actions[k].amount \in Nat
    BY <1>3, <2>4
  <2>8. Amount(actions', R \cup {k}) = actions[k].amount + Amount(actions', R)
    BY <2>6, <2>7
  <2>9. Amount(actions', R \cup {k}) = actions[k].amount + Amount(actions, R)
    BY <2>2, <2>8
  <2> QED BY <2>1, <2>2, <2>7, <2>9
<1>4. /\ Moved(Sent(w))' = Amount(actions', IF mine THEN S \cup {k} ELSE S)
      /\ Moved({i \in Sent(w) : actions[i].transfer # "arrived"})' = Amount(actions', IF mine
         THEN T \cup {k} ELSE T)
  <2>1. Moved(Sent(w))' = Amount(actions', Sent(w)')
    BY DEF Moved, Amount
  <2>2. Moved({i \in Sent(w) : actions[i].transfer # "arrived"})'
          = Amount(actions', {i \in Sent(w) : actions[i].transfer # "arrived"}')
    BY DEF Moved, Amount
  <2> QED BY <1>2, <2>1, <2>2
<1>5. /\ Filled(w) \in Int /\ Held(w) = purse[w] + Amount(actions, T) /\ purse[w] \in Nat
      /\ Moved(S) = Amount(actions, S)
  BY FilledType
<1>6. /\ Amount(actions, S) \in Nat /\ Amount(actions, T) \in Nat /\ actions[k].amount \in Nat
      /\ Amount(actions', IF mine THEN S \cup {k} ELSE S) = Amount(actions, S) + (IF mine
         THEN actions[k].amount ELSE 0)
      /\ Amount(actions', IF mine THEN T \cup {k} ELSE T) = Amount(actions, T) + (IF mine
         THEN actions[k].amount ELSE 0)
  <2>1. T \in SUBSET DOMAIN actions /\ k \notin T
    BY <1>1
  <2>2. {k} \in SUBSET DOMAIN actions
    OBVIOUS
  <2>3. \A i \in {k} : actions[i].amount \in Nat
    BY <2>2, AmountOf
  <2> HIDE DEF S, T, mine
  <2> QED BY <1>1, <1>3, <2>1, <2>3
<1>7. CASE w = "tax"
  <2>1. Filled(w) = Amount(actions, S) /\ Filled(w)' = Amount(actions', IF mine THEN S \cup {k} ELSE S)
    BY <1>4, <1>5, <1>7 DEF Filled
  <2> QED BY <1>5, <1>6, <2>1
<1>8. CASE w # "tax"
  <2> DEFINE p == purse[w]
             x == Amount(actions, T)
             y == Amount(actions', IF mine THEN T \cup {k} ELSE T)
             n == IF mine THEN actions[k].amount ELSE 0
  <2>1. Filled(w) = p + x /\ Filled(w)' = p + y
    BY <1>4, <1>5, <1>8 DEF Filled, Held
  <2>2. p \in Nat /\ x \in Nat /\ n \in Nat /\ y = x + n
    BY <1>5, <1>6
  <2>3. p + y = p + x + n
    <3> HIDE DEF p, x, y, n
    <3> QED BY <2>2
  <2> QED BY <1>5, <2>1, <2>3
<1> QED BY <1>7, <1>8
\* A move leaves its planner what the forecast still allows.
LEMMA MakesCalm ==
  ASSUME AllocationAssumption, Books, Calm, NEW s \in Funders, funder[s].pc = "dispatching", Makes(s),
         UNCHANGED <<purse, policy, ahead, runs, turns, begun, shared, chosen>>
  PROVE  Calm' /\ (strained = {} => strained' = {})
<1>0. PICK k \in DOMAIN actions : k = funder[s].act
  BY AtHand DEF Moving
<1>1. /\ Books' /\ Rewritten /\ RowsKept /\ UNCHANGED <<purse, policy, ahead, runs>> /\ FundTypes
         /\ FundTypes'
      /\ \A f \in Funders \ {s} : funder'[f] = [funder[f] EXCEPT !.alone = FALSE]
      /\ funder'[s].pc = "noting" /\ funder'[s].run = funder[s].run /\ funder'[s].act = k
      /\ funder'[s].left = funder[s].left /\ funder'[s].gap = funder[s].gap
      /\ funder'[s].alone = funder[s].alone /\ funder'[s].seen \in {"active", "failed"}
      /\ actions'[k].transfer = funder'[s].seen /\ actions[k].transfer = "none"
      /\ cash' = IF funder'[s].seen = "failed" THEN cash
                 ELSE [cash EXCEPT ![actions[k].from] = @ - actions[k].amount]
      /\ \A j \in DOMAIN actions \ {k} : actions'[j] = actions[j]
  BY <1>0, MakesBooks, RunsFacts DEF Makes, Books
<1>2. strained = {} => strained' = {}
  BY NoStrain DEF Makes
<1>3. ASSUME NEW f \in Funders \ {s} PROVE AloneOK(f)'
  <2>1. funder[f] \in FunderRows
    BY <1>1, TypeFacts
  <2>2. funder'[f].alone = FALSE
    BY <1>1, <2>1 DEF FunderRows
  <2> QED BY <2>2, UnplannedCalm
<1>4. AloneOK(s)'
  <2> SUFFICES ASSUME funder[s].alone PROVE AloneOK(s)'
    BY <1>1 DEF AloneOK
  <2> DEFINE n == actions[k].amount
             failed == funder'[s].seen = "failed"
             spent == IF failed THEN 0 ELSE n
  <2>1. /\ n \in Nat /\ funder[s].left \in Nat /\ funder[s].gap \in [Wallets -> Nat]
           /\ funder[s].left <= Here
        /\ policy = Tidy /\ actions[k].from \in Sources /\ actions[k].to \in Wallets
        /\ \A w \in Wallets \ {"savings"} :
             \/ funder[s].gap[w] <= 0 \/ funder[s].gap[w] <= Target - Filled(w)
             \/ w = "spending" /\ Again(s, w)
    BY <1>0, AloneAtHand
  <2>2. Here \in Int /\ Here' \in Int /\ Here - spent <= Here'
    <3>1. CASE failed
      <4>1. Here' = Here /\ spent = 0
        BY <1>1, <3>1 DEF Here
      <4>2. Here \in Int
        BY <1>1, HereType
      <4> HIDE DEF spent
      <4> QED BY <4>1, <4>2
    <3>2. CASE ~failed
      <4>1. policy[actions[k].from].role # "disabled"
        BY <1>0 DEF Makes, Refused
      <4>2. cash' \in [Sources -> Int] /\ cash' = [cash EXCEPT ![actions[k].from] = @ - n]
        BY <1>1, <3>2 DEF FundTypes
      <4>3. Here \in Int /\ Spare(cash', purse, policy, ahead) \in Int
            /\ Here - n <= Spare(cash', purse, policy, ahead)
        <5> HIDE DEF n
        <5> QED BY <1>1, <2>1, <4>1, <4>2, SparePaid
      <4>4. Here' = Spare(cash', purse, policy, ahead) /\ spent = n
        BY <1>1, <3>2 DEF Here
      <4> QED BY <4>3, <4>4
    <3> QED BY <3>1, <3>2
  <2>3. On(s)' = spent /\ spent \in Nat
    BY <1>1, <2>1 DEF On, Rewritten
  <2>4. funder'[s].left - On(s)' > 0 => funder'[s].left - On(s)' <= Here'
    <3> DEFINE l == funder[s].left
               h == Here'
    <3>1. l \in Nat /\ spent \in Nat /\ Here \in Int /\ h \in Int /\ l <= Here /\ Here - spent <= h
      BY <2>1, <2>2, <2>3
    <3>2. funder'[s].left - On(s)' = l - spent
      BY <1>1, <2>3
    <3>3. l - spent <= h
      <4> HIDE DEF l, spent, h
      <4> QED BY <3>1
    <3> QED BY <3>2, <3>3
  <2>5. policy' = Tidy'
    BY <1>1, <2>1 DEF Tidy
  <2>6. ASSUME NEW w \in Wallets \ {"savings"} PROVE Lacking(s, w)'
    <3> DEFINE g == funder[s].gap[w]
               l == Filled(w)
               m == Filled(w)'
               more == IF w = actions[k].to THEN spent ELSE 0
    <3>1. OnFor(s, w)' = more
      BY <1>1, <2>3 DEF OnFor, Rewritten
    <3>2. l \in Int /\ m \in Int /\ m <= l + more
      <4>1. CASE failed
        <5>1. \A i \in DOMAIN actions' : actions'[i].transfer \notin Gone =>
               /\ i \in DOMAIN actions /\ actions[i].transfer \notin Gone
               /\ actions[i].transfer = "arrived" => actions'[i].transfer = "arrived"
          BY <1>1, <4>1 DEF Gone, Rewritten
        <5>2. l \in Int /\ m \in Int /\ m <= l
          BY <1>1, <5>1, FilledLess
        <5>3. more = 0
          BY <4>1
        <5> HIDE DEF l, m, more
        <5> QED BY <5>2, <5>3
      <4>2. CASE ~failed
        <5>1. actions'[k].transfer = "active"
          BY <1>1, <4>2
        <5>2. Filled(w) \in Int /\ Filled(w)' = Filled(w) + (IF w = actions[k].to
                THEN actions[k].amount ELSE 0)
          BY <1>1, <5>1, FilledMore
        <5>3. (IF w = actions[k].to THEN actions[k].amount ELSE 0) = more
          BY <4>2
        <5>4. m = l + more /\ l \in Int /\ more \in Nat
          BY <2>1, <5>2, <5>3
        <5> HIDE DEF l, m, more
        <5> QED BY <5>4
      <4> QED BY <4>1, <4>2
    <3>3. g \in Nat /\ more \in Nat /\ Target \in Int
      BY <2>1, <2>3, Numbers
    <3>4. funder'[s].gap[w] - OnFor(s, w)' = g - more
      BY <1>1, <3>1
    <3>5. g <= 0 => Lacking(s, w)'
      <4>1. g <= 0 => g - more <= 0
        <5> HIDE DEF g, more
        <5> QED BY <3>3
      <4> QED BY <3>4, <4>1 DEF Lacking
    <3>6. g <= Target - l => Lacking(s, w)'
      <4>1. g <= Target - l => g - more <= Target - m
        <5> HIDE DEF g, more, l, m
        <5> QED BY <3>2, <3>3
      <4> QED BY <3>4, <4>1 DEF Lacking
    <3>7. Again(s, w) => Again(s, w)'
      BY <1>1 DEF Again, Rewritten
    <3>8. w = "spending" /\ Again(s, w) => Lacking(s, w)'
      BY <3>7 DEF Lacking
    <3>9. g <= 0 \/ g <= Target - l \/ (w = "spending" /\ Again(s, w))
      BY <2>1
    <3> HIDE DEF g, l
    <3> QED BY <3>5, <3>6, <3>8, <3>9
  <2> QED BY <1>1, <2>4, <2>5, <2>6 DEF AloneOK
<1>5. Calm'
  BY <1>3, <1>4 DEF Calm
<1> QED BY <1>2, <1>5

-----------------------------------------------------------------------------
(*****************************************************************************)
(* The steps preserve it                                                     *)
(*****************************************************************************)

\* The runs, the role an owner gave and the history are as they were.
RunsSame ==
  /\ DOMAIN runs' = DOMAIN runs
  /\ \A q \in DOMAIN runs :
       /\ runs'[q].surplus = runs[q].surplus /\ runs'[q].low = runs[q].low
       /\ runs'[q].base = runs[q].base /\ runs'[q].print = runs[q].print

LEMMA RunsStay == ASSUME RunsOK, RunsSame PROVE RunsOK'
<1> SUFFICES ASSUME NEW r \in DOMAIN runs
             PROVE  /\ runs'[r].low <= runs'[r].base
                    /\ runs'[r].surplus = Positive(Spare(runs'[r].print[1], runs'[r].print[2],
                       runs'[r].print[3],
                                                         runs'[r].print[4]))
  BY DEF RunsOK, RunsSame, Spare, StartOf, ProtectedOf
<1>1. /\ runs'[r].surplus = runs[r].surplus /\ runs'[r].low = runs[r].low
      /\ runs'[r].base = runs[r].base /\ runs'[r].print = runs[r].print
  BY DEF RunsSame
<1> QED BY <1>1 DEF RunsOK

LEMMA ChosenStay == ASSUME ChosenOK, UNCHANGED <<policy, chosen>> PROVE ChosenOK'
BY DEF ChosenOK

LEMMA FundInvIs == FundInv <=> Books /\ Funds /\ RunsOK /\ Calm /\ ChosenOK /\ strained = {}
BY DEF FundInv, Funds, Calm

LEMMA FundInvBy ==
  ASSUME FundInv, Books', Funds', Calm', RunsSame, UNCHANGED <<policy, chosen, strained>>
  PROVE  FundInv'
<1>1. RunsOK' /\ ChosenOK' /\ strained' = {}
  BY RunsStay, ChosenStay, FundInvIs
<1> QED BY <1>1 DEF FundInv, Funds, Calm

LEMMA SameRuns == ASSUME runs' = runs PROVE RunsSame
BY DEF RunsSame

LEMMA FundSession ==
  ASSUME AllocationAssumption, FundInv, NEW s \in Funders,
         BeginCycle(s) \/ Resume(s) \/ Note(s) \/ Forecast(s)
  PROVE  FundInv'
<1>1. Books /\ Funds /\ RunsOK /\ Calm /\ ChosenOK /\ strained = {}
  BY FundInvIs
<1>2. CASE BeginCycle(s)
  <2>1. Books' /\ Funds' /\ Calm'
    BY <1>1, <1>2, BeginCycleBooks, BeginCycleFunds, BeginCycleCalm
  <2>2. UNCHANGED <<runs, policy, chosen, strained>>
    BY <1>2 DEF BeginCycle
  <2> QED BY <2>1, <2>2, SameRuns, FundInvBy
<1>3. CASE Resume(s)
  <2>1. Books' /\ Funds' /\ Calm'
    BY <1>1, <1>3, ResumeBooks, ResumeFunds, ResumeCalm
  <2>2. UNCHANGED <<runs, policy, chosen, strained>>
    BY <1>3 DEF Resume
  <2> QED BY <2>1, <2>2, SameRuns, FundInvBy
<1>4. CASE Note(s)
  <2>1. Books' /\ Funds' /\ Calm'
    BY <1>1, <1>4, NoteBooks, NoteFunds, NoteCalm
  <2>2. UNCHANGED <<runs, policy, chosen, strained>>
    BY <1>4 DEF Note
  <2> QED BY <2>1, <2>2, SameRuns, FundInvBy
<1>5. CASE Forecast(s)
  <2>1. Books' /\ Funds' /\ Calm' /\ RunsOK'
    BY <1>1, <1>5, ForecastBooks, ForecastFunds, ForecastCalm
  <2>2. UNCHANGED <<policy, chosen, strained>>
    BY <1>5 DEF Forecast
  <2>3. ChosenOK' /\ strained' = {}
    BY <1>1, <2>2, ChosenStay
  <2> QED BY <2>1, <2>3 DEF FundInv, Funds, Calm
<1> QED BY <1>2, <1>3, <1>4, <1>5

LEMMA FundLeave ==
  ASSUME AllocationAssumption, FundInv, NEW s \in Funders, Fund(s, Waiting), actions' = actions,
         UNCHANGED <<cash, purse, policy, ahead, begun, shared, strained, chosen>>,
           turns' \in 0..TurnLimit,
         \/ runs' = runs
         \/ /\ funder[s].pc = "choosing"
            /\ \/ runs' = [runs EXCEPT ![funder[s].run].plan = "settled"]
               \/ /\ runs[funder[s].run].plan = "flushed"
                  /\ runs' = [runs EXCEPT ![funder[s].run].plan = "none"]
  PROVE  FundInv'
<1>1. Books /\ Funds /\ Calm
  BY FundInvIs
<1>2. UNCHANGED <<cash, purse, policy, ahead, begun, shared, chosen>>
  OBVIOUS
<1>3. Books' /\ RunsSame
  BY <1>1, <1>2, LeaveBooks DEF RunsSame
<1>4. Funds'
  BY <1>1, <1>2, LeaveFunds
<1>5. Calm'
  BY <1>1, <1>2, LeaveCalm
<1> QED BY <1>3, <1>4, <1>5, FundInvBy

LEMMA FundPlan ==
  ASSUME AllocationAssumption, FundInv, NEW s \in Funders,
         OpenPlan(s) \/ ChooseMove(s) \/ ClosePlan(s) \/ CrashFunder(s)
  PROVE  FundInv'
<1>1. Books /\ Funds /\ Calm /\ FundTypes
  BY FundInvIs DEF Books
<1>2. turns \in 0..TurnLimit /\ TurnLimit \in Nat /\ funder \in [Funders -> FunderRows]
        /\ funder[s] \in FunderRows
  BY <1>1, Numbers DEF FundTypes
<1>3. CASE OpenPlan(s)
  <2>1. UNCHANGED <<cash, purse, policy, ahead, actions, turns, begun, shared, strained, chosen>>
    BY <1>3 DEF OpenPlan
  <2>2. CASE Fund(s, Waiting) /\ runs' = runs
    BY <1>2, <2>1, <2>2, FundLeave
  <2>3. CASE ~(Fund(s, Waiting) /\ runs' = runs)
    <3>1. funder'[s].pc = "choosing"
      BY <1>2, <1>3, <2>3 DEF OpenPlan, Fund, FunderRows
    <3>2. funder'[s] # Waiting
      BY <3>1 DEF Waiting
    <3>3. Books' /\ RunsSame
      BY <1>1, <1>3, <3>2, OpenPlanBooks DEF RunsSame
    <3>4. Funds' /\ Calm'
      BY <1>1, <1>3, <3>2, OpenPlanFunds, OpenPlanCalm
    <3> QED BY <2>1, <3>3, <3>4, FundInvBy
  <2> QED BY <2>2, <2>3
<1>4. CASE ChooseMove(s)
  <2>1. UNCHANGED <<cash, purse, policy, ahead, turns, begun, shared, strained, chosen>>
    BY <1>4 DEF ChooseMove
  <2>2. CASE actions' # actions
    <3>1. Books' /\ RunsSame
      BY <1>1, <1>4, <2>2, ChooseBooks DEF RunsSame
    <3>2. Funds' /\ Calm'
      BY <1>1, <1>4, <2>2, ChooseFunds, ChooseCalm
    <3> QED BY <2>1, <3>1, <3>2, FundInvBy
  <2>3. CASE actions' = actions
    <3>1. Skips(s)
      <4>1. Len(actions) \in Nat /\ actions \in Seq(ActionRows)
        BY <1>1 DEF FundTypes
      <4>2. \A x : actions' # Append(actions, x)
        BY <2>3, <4>1
      <4> QED BY <1>4, <4>2 DEF ChooseMove, Skips
    <3>2. Books' /\ Funds' /\ Calm'
      BY <1>1, <2>1, <3>1, SkipBooks, SkipFunds, SkipCalm
    <3>3. runs' = runs
      BY <3>1 DEF Skips
    <3> QED BY <2>1, <3>2, <3>3, SameRuns, FundInvBy
  <2> QED BY <2>2, <2>3
<1>5. CASE ClosePlan(s)
  <2>1. /\ funder[s].pc = "choosing" /\ runs' = [runs EXCEPT ![funder[s].run].plan = "settled"]
           /\ Fund(s, Waiting)
        /\ actions' = actions
        /\ UNCHANGED <<cash, purse, policy, ahead, begun, shared, strained, chosen>>
           /\ turns' \in 0..TurnLimit
    BY <1>2, <1>5 DEF ClosePlan
  <2> QED BY <2>1, FundLeave
<1>6. CASE CrashFunder(s)
  <2>1. /\ Fund(s, Waiting) /\ actions' = actions
        /\ UNCHANGED <<cash, purse, policy, ahead, begun, shared, strained, chosen>>
           /\ turns' \in 0..TurnLimit
    BY <1>2, <1>6 DEF CrashFunder
  <2>2. \/ runs' = runs
        \/ /\ funder[s].pc = "choosing" /\ runs[funder[s].run].plan = "flushed"
           /\ runs' = [runs EXCEPT ![funder[s].run].plan = "none"]
    BY <1>6 DEF CrashFunder
  <2> QED BY <2>1, <2>2, FundLeave
<1> QED BY <1>3, <1>4, <1>5, <1>6

LEMMA FundDispatch ==
  ASSUME AllocationAssumption, FundInv, NEW s \in Funders, Dispatch(s)
  PROVE  FundInv'
<1>1. Books /\ Funds /\ Calm /\ RunsOK /\ ChosenOK /\ strained = {}
  BY FundInvIs
<1>2. /\ funder[s].pc = "dispatching" /\ (Told(s) \/ Blocks(s) \/ Makes(s))
      /\ UNCHANGED <<purse, policy, ahead, runs, turns, begun, shared, chosen>>
  BY DispatchIs
<1>3. RunsOK' /\ ChosenOK'
  BY <1>1, <1>2, SameRuns, RunsStay, ChosenStay
<1>4. CASE Told(s)
  <2>1. Books' /\ Funds' /\ Calm'
    BY <1>1, <1>2, <1>4, ToldBooks, ToldFunds, ToldCalm
  <2>2. strained' = {}
    BY <1>1, <1>4 DEF Told
  <2> QED BY <1>3, <2>1, <2>2 DEF FundInv, Funds, Calm
<1>5. CASE Blocks(s)
  <2>1. Books' /\ Funds' /\ Calm'
    BY <1>1, <1>2, <1>5, BlocksBooks, BlocksFunds, BlocksCalm
  <2>2. strained' = {}
    BY <1>1, <1>5 DEF Blocks
  <2> QED BY <1>3, <2>1, <2>2 DEF FundInv, Funds, Calm
<1>6. CASE Makes(s)
  <2>1. Books' /\ Funds' /\ Calm' /\ strained' = {}
    BY <1>1, <1>2, <1>6, MakesBooks, MakesFunds, MakesCalm
  <2> QED BY <1>3, <2>1 DEF FundInv, Funds, Calm
<1> QED BY <1>2, <1>4, <1>5, <1>6

LEMMA FundWorld ==
  ASSUME AllocationAssumption, FundInv,
         \/ \E i \in DOMAIN actions : Settle(i)
         \/ SyncBalances \/ EnsurePolicies \/ Spend \/ BillArrives \/ OwnerSetsPolicy
  PROVE  FundInv'
<1>1. Books /\ Funds /\ Calm /\ RunsOK /\ ChosenOK /\ strained = {} /\ FundTypes
  BY FundInvIs DEF Books
<1>2. ASSUME NEW i \in DOMAIN actions, Settle(i) PROVE FundInv'
  <2>1. Books' /\ Funds' /\ Calm'
    BY <1>1, <1>2, SettleBooks, SettleFunds, SettleCalm
  <2>2. UNCHANGED <<runs, policy, chosen, strained>>
    BY <1>2 DEF Settle
  <2> QED BY <2>1, <2>2, SameRuns, FundInvBy
<1>3. CASE SyncBalances
  <2>1. Books' /\ Funds' /\ Calm'
    BY <1>1, <1>3, SyncBooks, SyncFunds, SyncCalm
  <2>2. UNCHANGED <<runs, policy, chosen, strained>>
    BY <1>3 DEF SyncBalances
  <2> QED BY <2>1, <2>2, SameRuns, FundInvBy
<1>4. CASE EnsurePolicies
  <2>1. Books' /\ Funds' /\ Calm'
    BY <1>1, <1>4, PoliciesBooks, WorldFunds, PoliciesCalm
  <2>2. policy' = Tidy /\ UNCHANGED <<runs, chosen, strained>>
    BY <1>4 DEF EnsurePolicies
  <2>3. ChosenOK'
    <3> SUFFICES ASSUME NEW a \in Sources, chosen[a] # "none" PROVE policy'[a].role = chosen[a]
                            /\ ~policy'[a].plain
      BY <2>2 DEF ChosenOK
    <3>1. chosen[a] \in {"operating", "disabled"} /\ policy[a].role = chosen[a] /\ ~policy[a].plain
      BY <1>1 DEF ChosenOK, FundTypes
    <3>2. Tidied(policy[a], a) = policy[a]
      BY <3>1 DEF Tidied
    <3> QED BY <2>2, <3>1, <3>2 DEF Tidy
  <2> QED BY <1>1, <2>1, <2>2, <2>3, SameRuns, RunsStay DEF FundInv, Funds, Calm
<1>5. CASE Spend \/ BillArrives \/ OwnerSetsPolicy
  <2>1. Books' /\ Funds' /\ Calm'
    BY <1>1, <1>5, TurnBooks, WorldFunds, WorldCalm
  <2>2. UNCHANGED <<runs, strained>>
    BY <1>5 DEF Spend, BillArrives, OwnerSetsPolicy, World
  <2>3. CASE Spend \/ BillArrives
    <3>1. UNCHANGED <<policy, chosen>>
      BY <2>3 DEF Spend, BillArrives, World
    <3> QED BY <2>1, <2>2, <3>1, SameRuns, FundInvBy
  <2>4. CASE OwnerSetsPolicy
    <3>1. PICK a \in Sources, role \in {"operating", "disabled"}, plain \in BOOLEAN :
            /\ policy' = [Tidy EXCEPT ![a] = [role |-> role, plain |-> plain]]
            /\ chosen' = [chosen EXCEPT ![a] = IF plain THEN "none" ELSE role]
      BY <2>4 DEF OwnerSetsPolicy, World
    <3>2. ChosenOK'
      <4> SUFFICES ASSUME NEW b \in Sources, chosen'[b] # "none"
                   PROVE  policy'[b].role = chosen'[b] /\ ~policy'[b].plain
        BY DEF ChosenOK
      <4>0. Tidy \in [Sources -> Policies] /\ chosen \in [Sources -> {"none", "operating", "disabled"}]
        BY <1>1, TidyType DEF FundTypes
      <4>1. CASE b = a
        BY <3>1, <4>0, <4>1
      <4>2. CASE b # a
        <5>1. chosen'[b] = chosen[b] /\ policy'[b] = Tidied(policy[b], b)
          BY <3>1, <4>0, <4>2 DEF Tidy
        <5>2. chosen[b] \in {"operating", "disabled"} /\ policy[b].role = chosen[b] /\ ~policy[b].plain
          BY <1>1, <4>0, <5>1 DEF ChosenOK
        <5>3. Tidied(policy[b], b) = policy[b]
          BY <5>2 DEF Tidied
        <5> QED BY <5>1, <5>2, <5>3
      <4> QED BY <4>1, <4>2
    <3> QED BY <1>1, <2>1, <2>2, <3>2, SameRuns, RunsStay DEF FundInv, Funds, Calm
  <2> QED BY <1>5, <2>3, <2>4
<1> QED BY <1>2, <1>3, <1>4, <1>5

LEMMA FundInitTypes ==
  ASSUME AllocationAssumption, AllocationInit
  PROVE  FundTypes
<1>1. /\ Opening \in Nat /\ Target \in Nat /\ Rent \in Nat /\ Salary \in Nat /\ TurnLimit \in Nat
         /\ CycleLimit \in Nat
  BY Numbers
<1>2. cash \in [Sources -> Int] /\ purse \in [Wallets -> Nat]
  BY <1>1 DEF AllocationInit
<1>3. policy \in [Sources -> Policies] /\ chosen \in [Sources -> {"none", "operating", "disabled"}]
  <2>1. PICK role \in GivenRoles :
          /\ policy = [a \in Sources |-> [role |-> role, plain |-> role # "operating"]]
          /\ chosen = [a \in Sources |-> IF role = "operating" THEN role ELSE "none"]
    BY DEF AllocationInit
  <2>2. role \in {"none", "legacy", "operating"}
    BY DEF AllocationAssumption
  <2>3. [role |-> role, plain |-> role # "operating"] \in Policies
    BY <2>2 DEF Policies
  <2> QED BY <2>1, <2>2, <2>3
<1>4. ahead \in Futures
  <2>1. PICK trust \in Trusts :
          ahead = {[day |-> 1, kind |-> "debit", amount |-> Rent],
            [day |-> 2, kind |-> trust, amount |-> Salary]}
    BY DEF AllocationInit
  <2> DEFINE d == [day |-> 1, kind |-> "debit", amount |-> Rent]
             c == [day |-> 2, kind |-> trust, amount |-> Salary]
  <2>2. trust \in {"sure", "likely", "doubtful"}
    BY DEF AllocationAssumption
  <2>3. d \in Items /\ c \in Items
    BY <1>1, <2>2 DEF Items
  <2> HIDE DEF d, c
  <2>4. IsFiniteSet({d})
    BY FS_Singleton
  <2>5. IsFiniteSet({d} \cup {c})
    BY <2>4, FS_AddElement
  <2>6. ahead = {d} \cup {c}
    BY <2>1 DEF d, c
  <2> QED BY <2>3, <2>5, <2>6 DEF Futures
<1>5. /\ runs = <<>> /\ actions = <<>> /\ turns = 0 /\ begun = 0 /\ shared = {}
      /\ funder = [s \in Funders |-> Waiting]
  BY DEF AllocationInit
<1>6. Waiting \in FunderRows
  BY DEF Waiting, FunderRows, Transfers
<1>7. runs \in Seq(RunRows) /\ actions \in Seq(ActionRows)
  BY <1>5
<1> QED BY <1>1, <1>2, <1>3, <1>4, <1>5, <1>6, <1>7 DEF FundTypes

LEMMA FundInitially ==
  ASSUME AllocationAssumption, AllocationInit
  PROVE  FundInv
<1>1. FundTypes
  BY FundInitTypes
<1>2. DOMAIN runs = {} /\ DOMAIN actions = {} /\ Len(runs) = 0 /\ Len(actions) = 0 /\ strained = {}
  BY DEF AllocationInit
<1>3. \A s \in Funders : funder[s] = Waiting
  BY DEF AllocationInit
<1>4. \A s \in Funders : /\ funder[s].pc = "idle" /\ funder[s].run = 0 /\ funder[s].act = 0
        /\ funder[s].todo = {}
                         /\ funder[s].alone = FALSE
  BY <1>3 DEF Waiting
<1>5. \A s \in Funders : SessionOK(s) /\ AtWork(s) /\ PlanOpen(s)
  BY <1>2, <1>4 DEF SessionOK, AtWork, PlanOpen, Moving
<1>6. PlansOK /\ OwnHands /\ RunsOK /\ \A r \in DOMAIN runs : Budgeted(r)
  BY <1>2 DEF PlansOK, OwnHands, RunsOK
<1>7. \A s \in Funders : AloneOK(s)
  BY <1>4 DEF AloneOK
<1>8. ChosenOK
  <2>1. PICK role \in GivenRoles :
          /\ policy = [a \in Sources |-> [role |-> role, plain |-> role # "operating"]]
          /\ chosen = [a \in Sources |-> IF role = "operating" THEN role ELSE "none"]
    BY DEF AllocationInit
  <2> QED BY <2>1 DEF ChosenOK
<1> QED BY <1>1, <1>2, <1>5, <1>6, <1>7, <1>8 DEF FundInv, Books

LEMMA FundStutter ==
  ASSUME FundInv, UNCHANGED allocationVars
  PROVE  FundInv'
<1>1. FundInv' <=> FundInv
  BY DEF allocationVars, FundInv, Books, FundTypes, SessionOK, AtWork, PlanOpen, PlansOK, Plan, Moving,
         OwnHands, InHand, Budgeted, Live, MayGo, Amount, RunsOK, AloneOK, On, OnFor, Again,
           Lacking, Filled, Held,
         Moved, Sent, Tidy, Here, ChosenOK
<1> QED BY <1>1

LEMMA FundNext ==
  ASSUME AllocationAssumption, FundInv, [AllocationNext]_allocationVars
  PROVE  FundInv'
<1>1. CASE AllocationNext
  BY <1>1, FundSession, FundPlan, FundDispatch, FundWorld DEF AllocationNext
<1>2. CASE UNCHANGED allocationVars
  BY <1>2, FundStutter
<1> QED BY <1>1, <1>2

LEMMA FundTypeOK == ASSUME AllocationAssumption, FundInv PROVE AllocationTypeOK
<1>1. FundTypes /\ \A s \in Funders : SessionOK(s) /\ funder[s] \in FunderRows
  BY TypeFacts DEF FundInv, Books
<1>2. \A r \in DOMAIN runs : runs[r].plan \in PlanStates
  BY <1>1, TypeFacts DEF RunRows
<1>3. \A i \in DOMAIN actions :
        /\ actions[i].amount \in MinTransfer..MaxSingle /\ actions[i].status \in Statuses
        /\ actions[i].transfer \in Transfers
  BY <1>1, TypeFacts DEF ActionRows
<1> QED BY <1>1, <1>2, <1>3 DEF AllocationTypeOK, FundTypes, SessionOK, FunderRows, Statuses, Transfers

\* What was moved for a run is part of what still may be.
LEMMA FundSays ==
  ASSUME AllocationAssumption, FundInv
  PROVE  MovesStayWithinForecast
<1>1. Books /\ Funds /\ RunsOK /\ ChosenOK /\ strained = {} /\ FundTypes
  BY FundInvIs DEF Books
<1>2. ASSUME NEW r \in DOMAIN runs, r \notin shared
      PROVE  Moved({i \in DOMAIN actions : actions[i].run = r
             /\ actions[i].transfer \notin Gone}) <= runs[r].surplus
  <2> DEFINE S == {i \in DOMAIN actions : actions[i].run = r /\ actions[i].transfer \notin Gone}
  <2>1. S \in SUBSET Live(r) /\ Live(r) \in SUBSET DOMAIN actions
    BY DEF Live
  <2>2. Amount(actions, Live(r)) \in Nat /\ Amount(actions, Live(r)) <= runs[r].surplus
    <3>1. Budgeted(r)
      BY <1>1 DEF Funds
    <3> QED BY <1>1, <1>2, <3>1, WithinSurplus
  <2>3. IsFiniteSet(Live(r)) /\ \A i \in Live(r) : actions[i].amount \in Nat
    BY <1>1, <2>1, AmountOf
  <2> HIDE DEF S
  <2>4. Amount(actions, S) \in Nat /\ Amount(actions, S) <= Amount(actions, Live(r))
    <3>1. \A i \in S : actions[i].amount = actions[i].amount
      OBVIOUS
    <3> QED BY <2>1, <2>3, <3>1, AmountLess
  <2>5. runs[r].surplus \in Nat
    <3>1. runs[r] \in RunRows
      BY <1>1, TypeFacts
    <3> QED BY <3>1 DEF RunRows
  <2>6. Amount(actions, S) <= runs[r].surplus
    BY <2>2, <2>4, <2>5
  <2> QED BY <2>6, MovedIs DEF S
<1>3. \A r \in DOMAIN runs : runs[r].low <= runs[r].base
  BY <1>1 DEF RunsOK
<1>4. \A a \in Sources : chosen[a] # "none" => policy[a].role = chosen[a]
  BY <1>1 DEF ChosenOK
<1> QED BY <1>1, <1>2, <1>3, <1>4 DEF MovesStayWithinForecast

LEMMA FundAlways == ASSUME AllocationAssumption PROVE AllocationSpec => []FundInv
<1>1. AllocationInit => FundInv
  BY FundInitially
<1>2. FundInv /\ [AllocationNext]_allocationVars => FundInv'
  BY FundNext
<1> QED BY <1>1, <1>2, PTL DEF AllocationSpec

\* The tables of the plans and the memory of the cycles hold what they may: for any
\* accounts, sessions, amounts, month and horizon.
THEOREM AllocationTypes ==
  ASSUME AllocationAssumption
  PROVE  AllocationSpec => []AllocationTypeOK
BY FundAlways, FundTypeOK, PTL

\* What an allocation run moves stays within the surplus of its forecast unless another
\* session took on its actions, a plan that ran alone kept the scope at its floor and
\* overfilled no wallet, and an owner's choice of role holds: for any accounts, sessions,
\* amounts, month and horizon.
THEOREM MovesAreFunded ==
  ASSUME AllocationAssumption
  PROVE  AllocationSpec => []MovesStayWithinForecast
BY FundAlways, FundSays, PTL

=============================================================================
