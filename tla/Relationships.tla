----------------------------- MODULE Relationships -----------------------------
(***************************************************************************)
(* Who is who (relationship_memory.py, contact_directory.py): every e-mail *)
(* address and phone number belongs to one profile. A contact that lists   *)
(* both, or a message from one of them, is looked up, and a profile is     *)
(* created, or several are merged into the oldest. The owner's preferences *)
(* (relationship_preferences.py) hang on a profile, and decide whether a   *)
(* reply may go out without him.                                           *)
(*                                                                         *)
(* Passes of the engine's job, of the routes and of the phone's address    *)
(* book run at once. A pass reads what is committed, writes at its end,    *)
(* and has the unique keys of identities and profiles against it.          *)
(*                                                                         *)
(* Simplifications                                                         *)
(*  - A pass commits after one party instead of after all.                 *)
(*  - A preference saved while its profile is being merged is saved before *)
(*    it: either way it is the merged profile's.                           *)
(***************************************************************************)
EXTENDS Naturals, FiniteSets

CONSTANTS
  Identities,    \* addresses and numbers
  Contacts,      \* entries of an address book: sets of identities
  ProfileIds,    \* ids of profiles, in the order of their creation
  NoProfileYet,
  Scribes        \* sessions

RelationAssumption ==
  /\ ProfileIds \subseteq Nat \ {0} /\ NoProfileYet \notin ProfileIds
  /\ \A c \in Contacts : c \subseteq Identities /\ c # {}

VARIABLES
  people,    \* relationship_profiles, with the identities of their canonical_key
  owner,     \* relationship_identities: the profile of each
  facts,     \* communication_preferences: the profile, the one in source_ref, the value
  scribe,    \* each session's party, and the owners that it has read
  wishes,    \* history: what the owner asked for each identity that has not moved since
  together   \* history: contacts joined by a pass with no other at work, none of whose
             \* identities a pass that crossed another has written since

relationVars == <<people, owner, facts, scribe, wishes, together>>

Wishes == {"review", "auto"}
AtRest == [party |-> {}, read |-> [i \in Identities |-> NoProfileYet], alone |-> TRUE]
Busy == {s \in Scribes : scribe[s].party # {}}
Living == {p[1] : p \in people}
Fresh == {p \in ProfileIds : \A q \in Living \cup {f.home : f \in facts} : q < p}
Least(ids) == CHOOSE p \in ids : \A q \in ids : p <= q

RelationInit ==
  /\ people = {} /\ owner = [i \in Identities |-> NoProfileYet] /\ facts = {}
  /\ scribe = [s \in Scribes |-> AtRest]
  /\ wishes = [i \in Identities |-> "none"] /\ together = {}

-----------------------------------------------------------------------------
\* The first half of _profile_for_identities: the profiles of the party's identities
Match(s, party) ==
  /\ s \notin Busy
  /\ scribe' = [o \in Scribes |->
       IF o = s THEN [party |-> party, alone |-> Busy = {},
                      read |-> [i \in Identities |-> IF i \in party THEN owner[i]
                                                     ELSE NoProfileYet]]
       ELSE [scribe[o] EXCEPT !.alone = @ /\ o \notin Busy]]
  /\ UNCHANGED <<people, owner, facts, wishes, together>>

\* _scan_contacts, of the engine's job and the owner's route
ScanContact(s) == \E c \in Contacts : Match(s, c)

\* A snapshot of the phone's address book, or the contacts of Google
SyncContact(s) == \E c \in Contacts : Match(s, c)

\* _scan_gmail, _scan_device_communications, _scan_calendar, _scan_followups
ScanParty(s) == \E i \in Identities : Match(s, {i})

Found(s) == {scribe[s].read[i] : i \in scribe[s].party} \ {NoProfileYet}

\* Mutant: the loser's preferences become the target's, beside its own.
Rehomed(fact, losers, target) ==
  IF fact.holder \in losers THEN [fact EXCEPT !.holder = target, !.home = target]
  ELSE fact

\* _merge_profiles: a loser's preferences keep its id in their source_ref.
Inherited(fact, losers, target) ==
  IF fact.holder \in losers THEN [fact EXCEPT !.holder = target] ELSE fact

Rest(s) == scribe' = [scribe EXCEPT ![s] = AtRest]
Fail(s) == Rest(s) /\ UNCHANGED <<people, owner, facts, wishes, together>>

\* The party's identities as the pass looks at them again before it writes them: as they
\* are, or, if it came too early for that, as they were.
Save(s, target, got, seen) ==
  LET party == scribe[s].party
      losers == (got \ {target}) \cap Living
      belongs == [i \in Identities |->
        IF owner[i] \in losers \/ (i \in party /\ seen[i] # target) THEN target
        ELSE owner[i]] IN
  /\ owner' = belongs
  /\ people' = {p \in people : p[1] \notin losers}
               \cup (IF target \in Living THEN {} ELSE {<<target, party>>})
  /\ facts' = {Inherited(f, losers, target) : f \in facts}
  /\ wishes' = [i \in Identities |-> IF belongs[i] = owner[i] THEN wishes[i]
                                      ELSE "none"]
  /\ together' = IF scribe[s].alone THEN together \cup {party}
                 ELSE {c \in together : c \cap party = {}}
  /\ Rest(s)

\* The second half: the profiles are loaded, those that another session has merged away
\* before are skipped. An identity or a profile that another has inserted, and a target
\* that is merged away after it was loaded, break the pass off.
Apply(s) ==
  /\ s \in Busy
  /\ \E seen \in {scribe[s].read, owner}, got \in {Found(s), Found(s) \cap Living} :
       LET party == scribe[s].party IN
       IF \/ \E i \in party : seen[i] = NoProfileYet /\ owner[i] # NoProfileYet
          \/ Found(s) = {} /\ \E p \in people : p[2] = party
          \/ Found(s) # {} /\ (got = {} \/ Least(got) \notin Living)
         THEN Fail(s)
         ELSE IF Found(s) # {} THEN Save(s, Least(got), got, seen)
         ELSE \E new \in Fresh : (\A p \in Fresh : new <= p) /\ Save(s, new, {}, seen)

\* Anything else fails, or the process dies.
PassDies(s) == s \in Busy /\ Fail(s)

\* set_relationship_communication_preferences
SetPreference ==
  \E p \in Living, wish \in Wishes :
    /\ facts' = {f \in facts : ~(f.holder = p /\ f.home = p)}
                \cup {[holder |-> p, home |-> p, wish |-> wish]}
    /\ wishes' = [i \in Identities |-> IF owner[i] = p THEN wish ELSE wishes[i]]
    /\ UNCHANGED <<people, owner, scribe, together>>

RelationNext ==
  \/ \E s \in Scribes : \/ ScanContact(s) \/ SyncContact(s) \/ ScanParty(s)
                       \/ Apply(s) \/ PassDies(s)
  \/ SetPreference

RelationSpec == RelationInit /\ [][RelationNext]_relationVars

-----------------------------------------------------------------------------
ProfileRows == ProfileIds \X SUBSET Identities
Owners == Living \cup {NoProfileYet}
FactRows == [holder : Living, home : ProfileIds, wish : Wishes]

RelationTypeOK ==
  /\ people \subseteq ProfileRows /\ owner \in [Identities -> Owners]
  /\ facts \subseteq FactRows
  /\ \A p, q \in people : p[1] = q[1] \/ p[2] = q[2] => p = q
  /\ wishes \in [Identities -> Wishes \cup {"none"}]
  /\ together \subseteq SUBSET Identities

\* resolve_relationship_for_party
Effective(i) ==
  LET found == {f \in facts : f.holder = owner[i] /\ f.home = owner[i]} IN
  IF found = {} THEN "none" ELSE (CHOOSE f \in found : TRUE).wish

\* What the owner asked for a person holds for each address of his that has not moved to
\* another profile since, whatever was merged into the profile; and a contact that was
\* joined by a pass that ran alone is one person, through whatever merges, until a pass
\* that crosses another writes one of its identities: that one may take it away from the
\* others, which the next pass over the contact mends.
PeopleStayThemselves ==
  /\ \A i \in Identities : wishes[i] # "none" => Effective(i) = wishes[i]
  /\ \A c \in together : \A i, j \in c : owner[i] = owner[j]
===============================================================================
