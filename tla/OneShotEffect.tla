---------------------------- MODULE OneShotEffect ----------------------------
(***************************************************************************)
(* What the services promise about an action in the world that nobody can  *)
(* take back (a provider call, an e-mail, a phone call, a transfer): it is *)
(* claimed before it is attempted, it is attempted once however often it   *)
(* fails, is answered late or is found in doubt, and it is reported as     *)
(* done only when it did happen. A claimed intent may remain unattempted,  *)
(* and an attempted one unreported, forever.                               *)
(***************************************************************************)
EXTENDS Naturals

CONSTANT Intents

VARIABLES
  claimed,   \* intents somebody was allowed to carry out
  attempts,  \* times each intent was handed to the world
  performed, \* intents whose effect has happened
  reported   \* intents recorded as done

effectVars == <<claimed, attempts, performed, reported>>

EffectInit ==
  /\ claimed = {}
  /\ attempts = [i \in Intents |-> 0]
  /\ performed = {}
  /\ reported = {}

Claim(i) ==
  /\ i \notin claimed
  /\ claimed' = claimed \cup {i}
  /\ UNCHANGED <<attempts, performed, reported>>

\* The attempt may take effect at once, later, or never.
Attempt(i) ==
  /\ i \in claimed
  /\ attempts[i] = 0
  /\ attempts' = [attempts EXCEPT ![i] = 1]
  /\ performed' \in {performed, performed \cup {i}}
  /\ UNCHANGED <<claimed, reported>>

Perform(i) ==
  /\ attempts[i] = 1
  /\ performed' = performed \cup {i}
  /\ UNCHANGED <<claimed, attempts, reported>>

Report(i) ==
  /\ i \in performed \ reported
  /\ reported' = reported \cup {i}
  /\ UNCHANGED <<claimed, attempts, performed>>

EffectNext == \E i \in Intents : Claim(i) \/ Attempt(i) \/ Perform(i) \/ Report(i)

EffectStep == EffectNext \/ UNCHANGED effectVars

EffectSpec == EffectInit /\ [][EffectNext]_effectVars
=============================================================================
