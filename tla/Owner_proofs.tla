------------------------------ MODULE Owner_proofs ------------------------------
(***************************************************************************)
(* Proofs about what is decided and done in the owner's name: the forms    *)
(* that are filed (FormObligations), the money that is invested            *)
(* (Investment), the conversations that are chased (Objectives), the       *)
(* replies that wait for a decision (Authorization) and what he is asked   *)
(* (OwnerPrompts); and about what he relies on when nobody looks: work     *)
(* that was recovered (SystemRecovery) and documents that portals hold for *)
(* him (PortalDocuments).                                                  *)
(***************************************************************************)
EXTENDS FormObligations, Investment, Objectives, Authorization, SystemRecovery,
        PortalDocuments, OwnerPrompts, FiniteSetTheorems, SequenceTheorems, TLAPS

(***************************************************************************)
(* Forms                                                                   *)
(***************************************************************************)

ClerkRows == [pc : ClerkPlaces, form : Profiles \cup {NoProfile},
              fields : Profiles \cup {NoProfile}]

\* A clerk replaces a form only because it could not be submitted.
ClerkFine(s) ==
  LET at == clerk[s] IN
  /\ at.pc = "reading" => at.form = NoProfile \/ retaken
  /\ at.pc = "replacing" => at.form \in Profiles \ Sufficient
  /\ at.pc = "filing" => /\ at.fields \in Profiles
                         /\ at.form \notin Sufficient \/ retaken

\* The obligation names a form that was filed. Only a form with all required fields
\* is submitted, and unless two sessions were at it the obligation names that one.
OneFormSent == retaken \/ \A f \in filings \cap Sufficient : f = duty.form

FilingsFine ==
  /\ duty.form = NoProfile => filings = {}
  /\ duty.form # NoProfile => duty.form \in filings
  /\ duty.status = "completed" => delivered # {}
  /\ delivered \subseteq Sufficient
  /\ \A f \in Profiles : /\ formOp[f] = "verified" => f \in delivered
                         /\ formOp[f] = "needs_input" => f \notin Sufficient
  /\ OneFormSent

FormInv ==
  /\ FormTypeOK
  /\ \A s \in Clerks : ClerkFine(s)
  /\ FilingsFine

LEMMA AwayIsRow == Away \in ClerkRows /\ Away.pc = "idle"
BY DEF Away, ClerkRows, ClerkPlaces

LEMMA FormInitInv == ASSUME FormAssumption, FormInit PROVE FormInv
<1>1. profile \in ProfileRows
  BY DEF FormInit, FormAssumption, ProfileRows
<1>2. FormTypeOK
  BY <1>1, AwayIsRow DEF FormInit, FormTypeOK, Duties, DutyStates, Readings, FormOpStates, ClerkRows
<1>3. \A s \in Clerks : ClerkFine(s)
  BY AwayIsRow DEF FormInit, ClerkFine
<1>4. FilingsFine
  BY DEF FormInit, FilingsFine, OneFormSent
<1> QED BY <1>2, <1>3, <1>4 DEF FormInv

\* A step of clerk s.
LEMMA ClerkMoves ==
  ASSUME FormInv, NEW s \in Clerks, NEW new \in ClerkRows, Clerk(s, new),
         profile' = profile, hosted' = hosted, delivered' = delivered,
         reading' \in Readings, duty' \in Duties, filings' \subseteq Profiles,
         filings \subseteq filings', formOp' \in [Profiles -> FormOpStates],
         retaken' \in BOOLEAN, retaken => retaken',
         ClerkFine(s)', FilingsFine'
  PROVE  FormInv'
<1>1. clerk \in [Clerks -> ClerkRows]
  BY DEF FormInv, FormTypeOK, ClerkRows
<1>2. /\ clerk' \in [Clerks -> ClerkRows]
      /\ \A o \in Clerks \ {s} : clerk'[o] = clerk[o]
  BY <1>1 DEF Clerk
<1>3. FormTypeOK'
  BY <1>2 DEF FormInv, FormTypeOK, ClerkRows
<1>4. \A o \in Clerks : ClerkFine(o)'
  BY <1>2 DEF FormInv, ClerkFine
<1> QED BY <1>3, <1>4 DEF FormInv

LEMMA ClerkTurned ==
  ASSUME FormInv, NEW s \in Clerks, NEW new \in ClerkRows, Clerk(s, new)
  PROVE  clerk'[s] = new
BY DEF FormInv, FormTypeOK, Clerk

\* A clerk that stops, whatever became of the reading and the obligation's status.
LEMMA ClerkStops ==
  ASSUME FormInv, NEW s \in Clerks, Clerk(s, Away),
         UNCHANGED <<profile, hosted, filings, formOp, delivered>>,
         reading' \in Readings, duty' \in Duties, duty'.form = duty.form,
         duty'.status = "completed" => delivered # {},
         retaken' \in BOOLEAN, retaken => retaken'
  PROVE  FormInv'
<1>1. ClerkFine(s)'
  BY AwayIsRow, ClerkTurned DEF ClerkFine
<1>2. FilingsFine'
  BY DEF FormInv, FilingsFine, OneFormSent
<1> QED BY <1>1, <1>2, AwayIsRow, ClerkMoves DEF FormInv, FormTypeOK

LEMMA Stamped ==
  ASSUME FormInv, NEW status \in DutyStates, Stamp(status)
  PROVE  duty' \in Duties /\ duty'.form = duty.form /\ duty'.status = status
BY DEF FormInv, FormTypeOK, Stamp, Duties

LEMMA ReadDocumentKeeps ==
  ASSUME FormAssumption, FormInv, NEW s \in Clerks, ReadDocument(s)
  PROVE  FormInv'
<1> DEFINE status == IF duty.status = "absent" THEN "open" ELSE duty.status
           new == [Away EXCEPT !.pc = "reading", !.form = duty.form]
<1>1. /\ UNCHANGED <<profile, hosted, filings, formOp, delivered>>
      /\ duty \in Duties /\ status \in DutyStates /\ reading \in Readings
      /\ retaken \in BOOLEAN /\ duty.form \in Profiles \cup {NoProfile}
      /\ duty.status = "completed" => delivered # {}
  BY DEF ReadDocument, FormInv, FormTypeOK, Duties, DutyStates, FilingsFine, OneFormSent
<1>2. CASE UNCHANGED <<reading, duty, retaken>> /\ Clerk(s, Away)
  BY <1>1, <1>2, ClerkStops
<1>3. CASE reading' = "failed" /\ Clerk(s, Away) /\ UNCHANGED <<duty, retaken>>
  BY <1>1, <1>3, ClerkStops DEF Readings
<1>4. CASE /\ reading' = "analyzed"
           /\ IF status = "completed" \/ hosted THEN Stamp(status)
              ELSE Stamp(IF duty.form = NoProfile THEN "open" ELSE "blocked")
           /\ Clerk(s, IF status = "completed" \/ ~hosted THEN Away ELSE new)
           /\ retaken' = (retaken \/ duty.form # NoProfile)
  <2>1. reading' \in Readings /\ retaken' \in BOOLEAN /\ (retaken => retaken')
    BY <1>1, <1>4 DEF Readings
  <2>2. PICK to \in DutyStates : Stamp(to) /\ (to = "completed" => duty.status = "completed")
    BY <1>1, <1>4 DEF DutyStates
  <2>3. duty' \in Duties /\ duty'.form = duty.form
        /\ (duty'.status = "completed" => delivered # {})
    BY <1>1, <2>2, Stamped
  <2>4. CASE Clerk(s, Away)
    BY <1>1, <2>1, <2>3, <2>4, ClerkStops
  <2>5. CASE Clerk(s, new)
    <3>1. new \in ClerkRows /\ new.pc = "reading" /\ new.form = duty.form
      BY <1>1, AwayIsRow DEF ClerkRows, ClerkPlaces
    <3> HIDE DEF new
    <3>2. ClerkFine(s)'
      BY <1>4, <2>5, <3>1, ClerkTurned DEF ClerkFine
    <3>3. FilingsFine'
      BY <1>1, <2>1, <2>3 DEF FormInv, FilingsFine, OneFormSent
    <3> QED BY <1>1, <2>1, <2>3, <2>5, <3>1, <3>2, <3>3, ClerkMoves DEF FormInv, FormTypeOK
  <2> QED BY <1>4, <2>4, <2>5
<1> QED BY <1>2, <1>3, <1>4 DEF ReadDocument

LEMMA FillFormKeeps ==
  ASSUME FormAssumption, FormInv, NEW s \in Clerks, FillForm(s)
  PROVE  FormInv'
<1> DEFINE at == clerk[s]
           facts == profile.facts
           new == [at EXCEPT !.pc = "filing", !.fields = facts]
<1>1. /\ at \in ClerkRows /\ facts \in Profiles /\ duty \in Duties /\ retaken \in BOOLEAN
      /\ ClerkFine(s) /\ FilingsFine /\ (at.form \notin Sufficient \/ retaken)
      /\ UNCHANGED <<profile, hosted, reading, filings, delivered>>
      /\ formOp \in [Profiles -> FormOpStates]
  BY DEF FillForm, FormInv, FormTypeOK, ClerkRows, ProfileRows, ClerkFine, FormAssumption
<1>2. CASE facts \in filings
  <2>1. /\ duty' = [form |-> facts,
                    status |-> IF at.pc # "replacing" THEN duty.status
                               ELSE IF facts = at.form THEN "needs_user" ELSE "in_progress"]
        /\ retaken' = (retaken \/ duty.form \notin {at.form, facts})
        /\ Clerk(s, Away) /\ formOp' = formOp
    BY <1>2 DEF FillForm
  <2>2. /\ duty' \in Duties /\ duty'.form = facts
        /\ duty'.status \in {duty.status, "needs_user", "in_progress"}
    BY <1>1, <2>1 DEF Duties, DutyStates
  <2>3. ClerkFine(s)'
    BY <2>1, AwayIsRow, ClerkTurned DEF ClerkFine
  <2>4. FilingsFine'
    <3>1. retaken' \/ \A f \in filings \cap Sufficient : f = facts
      BY <1>1, <2>1 DEF FilingsFine, OneFormSent
    <3>2. facts # NoProfile
      BY <1>1 DEF FormAssumption
    <3> HIDE DEF facts, at
    <3>3. duty'.form # NoProfile /\ duty'.form \in filings'
      BY <1>1, <1>2, <2>2, <3>2
    <3>4. duty'.status = "completed" => delivered' # {}
      BY <1>1, <2>2 DEF FilingsFine, OneFormSent
    <3>5. delivered' \subseteq Sufficient
      BY <1>1 DEF FilingsFine, OneFormSent
    <3>6. \A f \in Profiles : /\ formOp'[f] = "verified" => f \in delivered'
                              /\ formOp'[f] = "needs_input" => f \notin Sufficient
      BY <1>1, <2>1 DEF FilingsFine, OneFormSent
    <3>7. OneFormSent'
      BY <1>1, <2>2, <3>1 DEF OneFormSent
    <3> QED BY <3>3, <3>4, <3>5, <3>6, <3>7 DEF FilingsFine, OneFormSent
  <2> QED BY <1>1, <2>1, <2>2, <2>3, <2>4, AwayIsRow, ClerkMoves DEF FormInv, FormTypeOK
<1>3. CASE facts \notin filings
  <2>1. /\ formOp' = [formOp EXCEPT ![facts] = IF @ = "none" THEN "pending" ELSE @]
        /\ Clerk(s, new) /\ UNCHANGED <<duty, retaken>>
    BY <1>3 DEF FillForm
  <2>2. new \in ClerkRows /\ new.pc = "filing" /\ new.fields = facts /\ new.form = at.form
    BY <1>1 DEF ClerkRows, ClerkPlaces
  <2> HIDE DEF new
  <2>3. /\ formOp' \in [Profiles -> FormOpStates]
        /\ \A f \in Profiles : formOp'[f] \in {formOp[f], "pending"}
    BY <1>1, <2>1 DEF FormOpStates
  <2>4. ClerkFine(s)'
    BY <1>1, <2>1, <2>2, ClerkTurned DEF ClerkFine
  <2>5. FilingsFine'
    <3> HIDE DEF facts, at
    <3>1. \A f \in Profiles : /\ formOp'[f] = "verified" => f \in delivered'
                              /\ formOp'[f] = "needs_input" => f \notin Sufficient
      BY <1>1, <2>3 DEF FilingsFine, OneFormSent
    <3> QED BY <1>1, <2>1, <3>1 DEF FilingsFine, OneFormSent
  <2> QED BY <1>1, <2>1, <2>2, <2>3, <2>4, <2>5, ClerkMoves DEF FormInv, FormTypeOK
<1> QED BY <1>2, <1>3

LEMMA FileFormKeeps ==
  ASSUME FormAssumption, FormInv, NEW s \in Clerks, FileForm(s)
  PROVE  FormInv'
<1> DEFINE at == clerk[s]
<1>1. /\ at \in ClerkRows /\ at.fields \in Profiles /\ duty \in Duties /\ retaken \in BOOLEAN
      /\ FilingsFine /\ (at.form \notin Sufficient \/ retaken)
      /\ Clerk(s, Away) /\ filings \subseteq Profiles /\ reading \in Readings
      /\ UNCHANGED <<profile, hosted, reading, formOp, delivered>>
  BY DEF FileForm, FormInv, FormTypeOK, ClerkRows, ClerkFine
<1>2. CASE at.fields \in filings
  <2>1. UNCHANGED <<filings, duty, retaken>>
    BY <1>2 DEF FileForm
  <2>2. duty.status = "completed" => delivered # {}
    BY <1>1 DEF FilingsFine, OneFormSent
  <2> HIDE DEF at
  <2> QED BY <1>1, <2>1, <2>2, ClerkStops
<1>3. CASE at.fields \notin filings
  <2>1. /\ filings' = filings \cup {at.fields}
        /\ duty' = [status |-> "in_progress", form |-> at.fields]
        /\ retaken' = (retaken \/ duty.form # at.form)
    BY <1>3 DEF FileForm
  <2>2. duty' \in Duties /\ duty'.form = at.fields /\ duty'.status = "in_progress"
    BY <1>1, <2>1 DEF Duties, DutyStates
  <2>3. ClerkFine(s)'
    BY <1>1, AwayIsRow, ClerkTurned DEF ClerkFine
  <2>4. FilingsFine'
    <3>1. retaken' \/ \A f \in filings' \cap Sufficient : f = at.fields
      BY <1>1, <2>1 DEF FilingsFine, OneFormSent
    <3>2. at.fields # NoProfile /\ at.fields \in filings'
      BY <1>1, <2>1 DEF FormAssumption
    <3> HIDE DEF at
    <3>3. \A f \in Profiles : /\ formOp'[f] = "verified" => f \in delivered'
                              /\ formOp'[f] = "needs_input" => f \notin Sufficient
      BY <1>1 DEF FilingsFine, OneFormSent
    <3>4. /\ delivered' \subseteq Sufficient
          /\ duty'.form # NoProfile /\ duty'.form \in filings'
      BY <1>1, <2>2, <3>2 DEF FilingsFine, OneFormSent
    <3>5. OneFormSent'
      BY <2>2, <3>1 DEF OneFormSent
    <3>6. duty'.status = "completed" => delivered' # {}
      BY <2>2
    <3> QED BY <3>3, <3>4, <3>5, <3>6 DEF FilingsFine, OneFormSent
  <2>5. filings' \subseteq Profiles /\ filings \subseteq filings'
    BY <1>1, <2>1
  <2> QED BY <1>1, <2>1, <2>2, <2>3, <2>4, <2>5, AwayIsRow, ClerkMoves DEF FormInv, FormTypeOK
<1> QED BY <1>2, <1>3

LEMMA SyncKeeps ==
  ASSUME FormAssumption, FormInv, NEW s \in Clerks, LoadDuty(s) \/ SyncFiled(s)
  PROVE  FormInv'
<1> DEFINE at == clerk[s]
<1>1. /\ at \in ClerkRows /\ duty \in Duties /\ duty.form \in Profiles \cup {NoProfile}
      /\ FilingsFine /\ reading \in Readings /\ retaken \in BOOLEAN
      /\ UNCHANGED <<profile, hosted, reading, filings, formOp, delivered, retaken>>
      /\ formOp \in [Profiles -> FormOpStates]
  BY DEF LoadDuty, SyncFiled, FormInv, FormTypeOK, ClerkRows, Duties
<1>2. CASE Clerk(s, [Away EXCEPT !.pc = "syncing", !.form = duty.form]) /\ duty' = duty
  <2> DEFINE new == [Away EXCEPT !.pc = "syncing", !.form = duty.form]
  <2>1. new \in ClerkRows /\ new.pc = "syncing"
    BY <1>1, AwayIsRow DEF ClerkRows, ClerkPlaces
  <2>2. Clerk(s, new)
    BY <1>2
  <2> HIDE DEF new
  <2>3. ClerkFine(s)'
    BY <2>1, <2>2, ClerkTurned DEF ClerkFine
  <2>4. FilingsFine'
    BY <1>1, <1>2 DEF FilingsFine, OneFormSent
  <2> QED BY <1>1, <1>2, <2>1, <2>2, <2>3, <2>4, ClerkMoves DEF FormInv, FormTypeOK
<1>3. CASE Stamp("overdue") /\ clerk' = clerk
  <2>1. duty' \in Duties /\ duty'.form = duty.form /\ duty'.status = "overdue"
    BY <1>3, Stamped DEF DutyStates
  <2>2. FilingsFine'
    BY <1>1, <2>1 DEF FilingsFine, OneFormSent
  <2> QED BY <1>1, <1>3, <2>1, <2>2 DEF FormInv, FormTypeOK, ClerkFine
<1>4. CASE /\ at.form # NoProfile /\ LacksData(formOp[at.form])
           /\ Clerk(s, [at EXCEPT !.pc = "replacing"]) /\ duty' = duty
  <2> DEFINE new == [at EXCEPT !.pc = "replacing"]
  <2>1. new \in ClerkRows /\ new.pc = "replacing" /\ new.form = at.form
    BY <1>1 DEF ClerkRows, ClerkPlaces
  <2>2. Clerk(s, new)
    BY <1>4
  <2> HIDE DEF new
  <2>3. at.form \in Profiles \ Sufficient
    BY <1>1, <1>4 DEF ClerkRows, LacksData, FilingsFine, OneFormSent
  <2>4. ClerkFine(s)'
    BY <2>1, <2>2, <2>3, ClerkTurned DEF ClerkFine
  <2>5. FilingsFine'
    BY <1>1, <1>4 DEF FilingsFine, OneFormSent
  <2> QED BY <1>1, <1>4, <2>1, <2>2, <2>4, <2>5, ClerkMoves DEF FormInv, FormTypeOK
<1>5. CASE at.form # NoProfile /\ Stamp(Outcome(formOp[at.form])) /\ Clerk(s, Away)
  <2>1. at.form \in Profiles /\ formOp[at.form] \in FormOpStates
    BY <1>1, <1>5 DEF ClerkRows
  <2>2. /\ Outcome(formOp[at.form]) \in DutyStates
        /\ Outcome(formOp[at.form]) = "completed" => formOp[at.form] = "verified"
    BY <2>1 DEF Outcome, DutyStates, FormOpStates
  <2>3. duty' \in Duties /\ duty'.form = duty.form
        /\ (duty'.status = "completed" => delivered # {})
    BY <1>1, <1>5, <2>1, <2>2, Stamped DEF FilingsFine, OneFormSent
  <2> QED BY <1>1, <1>5, <2>3, ClerkStops
<1> QED BY <1>2, <1>3, <1>4, <1>5 DEF LoadDuty, SyncFiled

LEMMA PortalAnswersKeeps ==
  ASSUME FormAssumption, FormInv, RunFiling \/ ResumeFiling
  PROVE  FormInv'
<1>1. PICK f \in filings, to \in FormOpStates :
        /\ formOp' = [formOp EXCEPT ![f] = to]
        /\ delivered' \in {delivered, delivered \cup {f}}
        /\ delivered' # delivered => f \in Sufficient
        /\ to = "verified" => f \in delivered'
        /\ to = "needs_input" => f \notin Sufficient
        /\ UNCHANGED <<profile, hosted, reading, duty, filings, clerk, retaken>>
  BY DEF RunFiling, ResumeFiling, FormOpStates
<1>2. /\ f \in Profiles /\ formOp' \in [Profiles -> FormOpStates] /\ formOp'[f] = to
      /\ \A g \in Profiles \ {f} : formOp'[g] = formOp[g]
  BY <1>1 DEF FormInv, FormTypeOK
<1>3. FormTypeOK'
  BY <1>1, <1>2 DEF FormInv, FormTypeOK
<1>4. FilingsFine'
  BY <1>1, <1>2 DEF FormInv, FilingsFine, OneFormSent
<1> QED BY <1>1, <1>3, <1>4 DEF FormInv, ClerkFine

LEMMA FormStepKeeps ==
  ASSUME FormAssumption, FormInv, [FormNext]_formVars
  PROVE  FormInv'
<1>1. ASSUME NEW s \in Clerks, TakeDocument(s) PROVE FormInv'
  <2> DEFINE new == [Away EXCEPT !.pc = IF reading = "none" THEN "taken" ELSE "retaken"]
  <2>1. new \in ClerkRows /\ new.pc \in {"taken", "retaken"}
    BY AwayIsRow DEF ClerkRows, ClerkPlaces
  <2>2. /\ Clerk(s, new)
        /\ UNCHANGED <<profile, hosted, reading, duty, filings, formOp, delivered, retaken>>
    BY <1>1 DEF TakeDocument
  <2> HIDE DEF new
  <2>3. ClerkFine(s)'
    BY <2>1, <2>2, ClerkTurned DEF ClerkFine
  <2>4. FilingsFine'
    BY <2>2 DEF FormInv, FilingsFine, OneFormSent
  <2> QED BY <2>1, <2>2, <2>3, <2>4, ClerkMoves DEF FormInv, FormTypeOK
<1>2. ASSUME NEW s \in Clerks, GiveFormUp(s) PROVE FormInv'
  BY <1>2, ClerkStops DEF GiveFormUp, FormInv, FormTypeOK, FilingsFine, Readings
<1>3. CASE ChangeProfile \/ AddPortal \/ UNCHANGED formVars
  <2>1. FormTypeOK'
    <3>1. profile' \in ProfileRows
      <4>1. CASE ChangeProfile
        <5>1. profile.changes + 1 \in 0..ProfileLimit
          BY <4>1 DEF FormInv, FormTypeOK, ChangeProfile, FormAssumption, ProfileRows
        <5> QED BY <4>1, <5>1 DEF ChangeProfile, ProfileRows
      <4> QED BY <1>3, <4>1 DEF AddPortal, formVars, FormInv, FormTypeOK
    <3> QED BY <1>3, <3>1 DEF ChangeProfile, AddPortal, formVars, FormInv, FormTypeOK
  <2>2. UNCHANGED <<duty, filings, formOp, clerk, delivered, retaken>>
    BY <1>3 DEF ChangeProfile, AddPortal, formVars
  <2> QED BY <2>1, <2>2 DEF FormInv, ClerkFine, FilingsFine, OneFormSent
<1> QED BY <1>1, <1>2, <1>3, ReadDocumentKeeps, FillFormKeeps, FileFormKeeps, SyncKeeps,
           PortalAnswersKeeps DEF FormNext

LEMMA FormAlways == ASSUME FormAssumption PROVE FormSpec => []FormInv
<1>1. FormInit => FormInv
  BY FormInitInv
<1>2. FormInv /\ [FormNext]_formVars => FormInv'
  BY FormStepKeeps
<1> QED BY <1>1, <1>2, PTL DEF FormSpec

\* The obligation, its forms and operations and what the sessions hold have their types.
THEOREM FormTypes == ASSUME FormAssumption PROVE FormSpec => []FormTypeOK
<1>1. FormInv => FormTypeOK
  BY DEF FormInv
<1> QED BY <1>1, FormAlways, PTL

\* A portal receives a form once, whatever the owner's profile becomes and however many
\* sessions list the obligation, unless two of them prepared it or it was read again.
THEOREM FormIsFiledOnce == ASSUME FormAssumption PROVE FormSpec => []FormFiledOnce
<1>1. ASSUME FormInv PROVE FormFiledOnce
  <2>1. ASSUME ~retaken PROVE Cardinality(delivered) <= 1
    <3>1. delivered \subseteq {duty.form}
      BY <1>1, <2>1 DEF FormInv, FormTypeOK, FilingsFine, OneFormSent
    <3>2. IsFiniteSet({duty.form}) /\ Cardinality({duty.form}) = 1
      BY FS_Singleton
    <3> QED BY <3>1, <3>2, FS_Subset
  <2> QED BY <1>1, <2>1 DEF FormFiledOnce, FormInv, FilingsFine, OneFormSent
<1> QED BY <1>1, FormAlways, PTL

(***************************************************************************)
(* Money                                                                   *)
(***************************************************************************)

OrderCounts == 0 .. BuyLimit
ContributionRows == [status : ContributionStates, known : BOOLEAN, consent : BOOLEAN,
                     intent : TradeStates, bound : BOOLEAN]
InvestorRows ==
  [pc : InvestorPlaces, of : Contributions \cup {NoContribution},
   status : ContributionStates, intent : TradeStates,
   seen : ContributionStates \cup Contributions \cup {NoContribution},
   orders : OrderCounts]

\* What a session that is somewhere has in hand: an answer of the bank, a debit, an
\* order that the exchange holds. It decides and submits only what it knows arrived.
PollAnswers == {"awaiting_deposit", "failed", "listed", "unlisted"}
InHand(at) ==
  /\ at.pc = "idle" <=> at.of = NoContribution
  /\ at.pc \in {"polled", "answered"} => at.seen \in PollAnswers
  /\ at.pc = "binding" => at.seen \in Contributions
  /\ at.pc \in {"deciding", "submitting"} => at.status = "deposit_observed"
  /\ at.pc \in {"bought", "traced"} => at.orders <= buys[at.of]

Beyond(s, c) == investor[s].of = c /\ investor[s].pc # "inserting"

RowIsTrue(c) ==
  /\ contribution[c].status = "invested" \/ contribution[c].bound => buys[c] > 0
  /\ contribution[c].status = "none" => buys[c] = 0 /\ \A s \in Investors : ~Beyond(s, c)

\* One session has the contribution in hand, it is about to order only what it has
\* marked, and after an order nobody is where another one could follow.
Marked(c) == contribution[c].status \in {"trade_pending", "invested", "failed"}
OneHand(c) ==
  /\ \A s, t \in Investors : Beyond(s, c) /\ Beyond(t, c) => s = t
  /\ buys[c] <= 1
  /\ buys[c] > 0 => Marked(c)
  /\ \A s \in Investors : investor[s].of = c =>
       /\ investor[s].pc \in {"buying", "bought"} => Marked(c)
       /\ investor[s].pc = "bought" => investor[s].orders = buys[c]
       /\ buys[c] > 0 => investor[s].pc \in {"inserting", "bought", "tracing", "traced"}

InvestTypes ==
  /\ contribution \in [Contributions -> ContributionRows]
  /\ debitOf \in [Contributions -> Contributions \cup {NoContribution}]
  /\ transit \in [Contributions -> TransitStates]
  /\ buys \in [Contributions -> OrderCounts]
  /\ investor \in [Investors -> InvestorRows]
  /\ jostled \subseteq Contributions

InvestInv ==
  /\ InvestTypes
  /\ \A s \in Investors : InHand(investor[s])
  /\ \A c \in Contributions : RowIsTrue(c)
  /\ \A c \in Contributions \ jostled : OneHand(c)

LEMMA OrderCountsAre ==
  ASSUME InvestmentAssumption PROVE 0 \in OrderCounts /\ OrderCounts \subseteq Nat
BY DEF InvestmentAssumption, OrderCounts

LEMMA UninvestedIsRow ==
  ASSUME InvestmentAssumption
  PROVE  /\ Uninvested \in InvestorRows
         /\ Uninvested.pc = "idle" /\ Uninvested.of = NoContribution
BY OrderCountsAre DEF Uninvested, InvestorRows, InvestorPlaces, ContributionStates, TradeStates

LEMMA InvestInitInv == ASSUME InvestmentAssumption, InvestmentInit PROVE InvestInv
<1>1. NoRow \in ContributionRows /\ NoRow.status = "none" /\ NoRow.bound = FALSE
  BY DEF NoRow, ContributionRows, ContributionStates, TradeStates
<1>2. /\ \A c \in Contributions : contribution[c] = NoRow /\ buys[c] = 0
      /\ \A s \in Investors : investor[s] = Uninvested
  BY DEF InvestmentInit
<1>3. InvestTypes
  BY <1>1, UninvestedIsRow, OrderCountsAre DEF InvestmentInit, InvestTypes, TransitStates
<1>4. \A s \in Investors : InHand(investor[s])
  BY <1>2, UninvestedIsRow DEF InHand
<1>5. \A s \in Investors, c \in Contributions : investor[s].of # c
  BY <1>2, UninvestedIsRow DEF InvestmentAssumption
<1>6. \A c \in Contributions : RowIsTrue(c)
  BY <1>1, <1>2, <1>5 DEF RowIsTrue, Beyond
<1>7. \A c \in Contributions : OneHand(c)
  BY <1>2, <1>5 DEF OneHand, Beyond
<1> QED BY <1>3, <1>4, <1>6, <1>7 DEF InvestInv

LEMMA InvestorTurned ==
  ASSUME InvestInv, NEW s \in Investors, NEW new \in InvestorRows, SetInvestor(s, new)
  PROVE  /\ investor' \in [Investors -> InvestorRows] /\ investor'[s] = new
         /\ \A o \in Investors \ {s} : investor'[o] = investor[o]
BY DEF InvestInv, InvestTypes, SetInvestor

\* A step of a session that has contribution c in hand and orders nothing.
LEMMA InvestorMoves ==
  ASSUME InvestmentAssumption, InvestInv, NEW s \in Investors, NEW new \in InvestorRows,
         NEW c \in Contributions, investor[s].of = c, investor[s].pc # "inserting",
         SetInvestor(s, new), new.of \in {c, NoContribution},
         InHand(new), new.pc \notin {"inserting", "bought"},
         UNCHANGED <<buys, jostled>>,
         contribution' \in [Contributions -> ContributionRows],
         \A o \in Contributions \ {c} : contribution'[o] = contribution[o],
         contribution'[c].status # "none",
         contribution'[c].status = "invested" \/ contribution'[c].bound => buys[c] > 0,
         c \notin jostled /\ (buys[c] > 0 \/ new.pc = "buying") => Marked(c)',
         c \notin jostled /\ buys[c] > 0 => new.pc \in {"idle", "tracing", "traced"},
         debitOf' \in [Contributions -> Contributions \cup {NoContribution}],
         transit' \in [Contributions -> TransitStates]
  PROVE  InvestInv'
<1>1. /\ investor' \in [Investors -> InvestorRows] /\ investor'[s] = new
      /\ \A o \in Investors \ {s} : investor'[o] = investor[o]
  BY InvestorTurned
<1>2. InvestTypes'
  BY <1>1 DEF InvestInv, InvestTypes
<1>3. \A o \in Investors : InHand(investor[o])'
  BY <1>1 DEF InvestInv, InHand
<1>4. ASSUME NEW d \in Contributions, NEW o \in Investors, Beyond(o, d)'
      PROVE  Beyond(o, d)
  BY <1>1, <1>4 DEF Beyond, InvestmentAssumption
<1>5. \A d \in Contributions : RowIsTrue(d)'
  BY <1>4 DEF InvestInv, RowIsTrue
<1>6. ASSUME NEW d \in Contributions \ jostled PROVE OneHand(d)'
  <2>1. OneHand(d)
    BY <1>6 DEF InvestInv
  <2>2. \A o, t \in Investors : Beyond(o, d)' /\ Beyond(t, d)' => o = t
    BY <1>4, <2>1 DEF OneHand
  <2>3. /\ buys'[d] = buys[d] /\ buys'[d] <= 1
        /\ buys'[d] > 0 => Marked(d)'
    BY <2>1 DEF OneHand, Marked
  <2>4. ASSUME NEW o \in Investors, investor'[o].of = d
        PROVE  /\ investor'[o].pc \in {"buying", "bought"} => Marked(d)'
               /\ investor'[o].pc = "bought" => investor'[o].orders = buys[d]
               /\ buys[d] > 0 => investor'[o].pc \in {"inserting", "bought", "tracing", "traced"}
    <3>1. CASE o = s
      <4>1. d = c /\ investor'[o] = new
        BY <1>1, <2>4, <3>1 DEF InvestmentAssumption
      <4>2. new.pc # "idle"
        BY <2>4, <4>1 DEF InHand, InvestmentAssumption
      <4> QED BY <1>6, <4>1, <4>2
    <3>2. CASE o # s /\ d # c
      BY <1>1, <2>1, <2>4, <3>2 DEF OneHand, Marked
    <3>3. CASE o # s /\ d = c
      <4>1. investor'[o] = investor[o] /\ investor[o].pc = "inserting"
        BY <1>1, <2>1, <2>4, <3>3 DEF OneHand, Beyond
      <4> QED BY <4>1
    <3> QED BY <3>1, <3>2, <3>3
  <2> QED BY <2>2, <2>3, <2>4 DEF OneHand
<1> QED BY <1>2, <1>3, <1>5, <1>6 DEF InvestInv

\* What is known of a session that has a contribution in hand.
LEMMA HasInHand ==
  ASSUME InvestmentAssumption, InvestInv, NEW s \in Investors,
         investor[s].pc \notin {"idle", "inserting"}
  PROVE  /\ investor[s] \in InvestorRows /\ investor[s].of \in Contributions
         /\ InHand(investor[s])
         /\ contribution[investor[s].of] \in ContributionRows
         /\ contribution[investor[s].of].status # "none"
         /\ RowIsTrue(investor[s].of)
         /\ investor[s].of \notin jostled => OneHand(investor[s].of)
<1>1. investor[s] \in InvestorRows /\ InHand(investor[s])
  BY DEF InvestInv, InvestTypes
<1>2. investor[s].of \in Contributions
  BY <1>1 DEF InHand, InvestorRows
<1>3. RowIsTrue(investor[s].of) /\ contribution[investor[s].of] \in ContributionRows
  BY <1>2 DEF InvestInv, InvestTypes
<1>4. contribution[investor[s].of].status # "none"
  BY <1>3 DEF RowIsTrue, Beyond
<1> QED BY <1>1, <1>2, <1>3, <1>4 DEF InvestInv

\* What a commit of the status, and one of the order's status too, leaves behind.
LEMMA Recorded ==
  ASSUME InvestInv, NEW s \in Investors, investor[s].of \in Contributions,
         NEW to \in ContributionStates, SetStatus(s, to)
  PROVE  /\ contribution' \in [Contributions -> ContributionRows]
         /\ \A o \in Contributions \ {investor[s].of} : contribution'[o] = contribution[o]
         /\ contribution'[investor[s].of].status
              \in {to, contribution[investor[s].of].status}
         /\ contribution'[investor[s].of].bound <=> contribution[investor[s].of].bound
<1> DEFINE c == investor[s].of
           entry == [contribution[c] EXCEPT !.status = IF investor[s].status = to THEN @ ELSE to]
<1>1. contribution \in [Contributions -> ContributionRows]
  BY DEF InvestInv, InvestTypes
<1>2. /\ entry \in ContributionRows /\ entry.status \in {to, contribution[c].status}
      /\ entry.bound <=> contribution[c].bound
  BY <1>1 DEF ContributionRows
<1>3. contribution' = [contribution EXCEPT ![c] = entry]
  BY DEF SetStatus
<1> HIDE DEF entry, c
<1>4. c \in Contributions
  BY DEF c
<1>5. /\ contribution' \in [Contributions -> ContributionRows]
      /\ \A o \in Contributions \ {c} : contribution'[o] = contribution[o]
      /\ contribution'[c] = entry
  BY <1>1, <1>2, <1>3, <1>4
<1> QED BY <1>2, <1>5 DEF c

LEMMA Traded ==
  ASSUME InvestInv, NEW s \in Investors, investor[s].of \in Contributions,
         NEW to \in ContributionStates, NEW intent \in TradeStates, NEW bound \in BOOLEAN,
         SetTrade(s, to, intent, bound)
  PROVE  /\ contribution' \in [Contributions -> ContributionRows]
         /\ \A o \in Contributions \ {investor[s].of} : contribution'[o] = contribution[o]
         /\ contribution'[investor[s].of].status
              \in {to, contribution[investor[s].of].status}
         /\ investor[s].status # to => contribution'[investor[s].of].status = to
         /\ contribution'[investor[s].of].bound <=> contribution[investor[s].of].bound \/ bound
<1>1. contribution \in [Contributions -> ContributionRows]
  BY DEF InvestInv, InvestTypes
<1>2. PICK c \in Contributions : investor[s].of = c
  OBVIOUS
<1>3. contribution' = [contribution EXCEPT ![c] =
         [contribution[c] EXCEPT !.status = IF investor[s].status = to THEN @ ELSE to,
            !.intent = IF investor[s].intent = intent THEN @ ELSE intent,
            !.bound = @ \/ bound]]
  BY <1>2 DEF SetTrade
<1> DEFINE entry == [contribution[c] EXCEPT
                     !.status = IF investor[s].status = to THEN @ ELSE to,
                     !.intent = IF investor[s].intent = intent THEN @ ELSE intent,
                     !.bound = @ \/ bound]
<1>4. /\ entry \in ContributionRows /\ entry.status \in {to, contribution[c].status}
      /\ investor[s].status # to => entry.status = to
      /\ entry.bound <=> contribution[c].bound \/ bound
  BY <1>1 DEF ContributionRows
<1>5. contribution' = [contribution EXCEPT ![c] = entry]
  BY <1>3
<1> HIDE DEF entry
<1>6. /\ contribution' \in [Contributions -> ContributionRows]
      /\ \A o \in Contributions \ {c} : contribution'[o] = contribution[o]
      /\ contribution'[c] = entry
  BY <1>1, <1>4, <1>5
<1> QED BY <1>2, <1>4, <1>6

\* A session that stops, with or without a commit.
LEMMA InvestorStops ==
  ASSUME InvestmentAssumption, InvestInv, NEW s \in Investors,
         investor[s].pc \notin {"idle", "inserting"}, Rest(s),
         NEW c \in Contributions, investor[s].of = c,
         UNCHANGED <<debitOf, transit, buys, jostled>>,
         contribution' \in [Contributions -> ContributionRows],
         \A o \in Contributions \ {c} : contribution'[o] = contribution[o],
         contribution'[c].status # "none",
         contribution'[c].status = "invested" \/ contribution'[c].bound => buys[c] > 0,
         c \notin jostled /\ buys[c] > 0 => Marked(c)'
  PROVE  InvestInv'
<1>1. InHand(Uninvested) /\ SetInvestor(s, Uninvested)
  BY UninvestedIsRow DEF InHand, Rest
<1>2. /\ debitOf' \in [Contributions -> Contributions \cup {NoContribution}]
      /\ transit' \in [Contributions -> TransitStates]
  BY DEF InvestInv, InvestTypes
<1>3. /\ Uninvested \in InvestorRows /\ Uninvested.of \in {c, NoContribution}
      /\ Uninvested.pc = "idle"
  BY UninvestedIsRow
<1> QED BY <1>1, <1>2, <1>3, InvestorMoves

LEMMA AskBankKeeps ==
  ASSUME InvestmentAssumption, InvestInv, NEW s \in Investors,
         PostContribution(s) \/ PollPayment(s) \/ MatchDebit(s)
  PROVE  InvestInv'
<1> DEFINE at == investor[s]
<1>1. /\ at.pc \in {"posting", "polling", "returned", "matching"}
      /\ UNCHANGED <<contribution, debitOf, buys, jostled>>
  BY DEF PostContribution, PollPayment, MatchDebit, Stands
<1>0. PICK c \in Contributions : at.of = c
  BY <1>1, HasInHand
<1>2. /\ at \in InvestorRows /\ InHand(at)
      /\ contribution[c].status # "none" /\ RowIsTrue(c) /\ (c \notin jostled => OneHand(c))
  BY <1>0, <1>1, HasInHand
<1>3. /\ contribution' \in [Contributions -> ContributionRows]
      /\ debitOf' \in [Contributions -> Contributions \cup {NoContribution}]
      /\ transit \in [Contributions -> TransitStates]
      /\ contribution'[c].status = "invested" \/ contribution'[c].bound => buys[c] > 0
  BY <1>1, <1>2 DEF InvestInv, InvestTypes, RowIsTrue
<1>4. transit' \in [Contributions -> TransitStates]
  BY <1>0, <1>2, <1>3 DEF PostContribution, PollPayment, MatchDebit, TransitStates
<1>5. c \notin jostled => buys[c] = 0
  <2>1. buys[c] \in Nat
    BY <1>2, OrderCountsAre DEF InvestInv, InvestTypes
  <2> QED BY <1>0, <1>1, <1>2, <2>1 DEF OneHand
<1>6. CASE MatchDebit(s) /\ Rest(s)
  <2>1. UNCHANGED <<debitOf, transit, buys, jostled>>
    BY <1>6 DEF MatchDebit
  <2>2. c \notin jostled /\ buys[c] > 0 => Marked(c)'
    BY <1>5
  <2>3. /\ \A o \in Contributions \ {c} : contribution'[o] = contribution[o]
        /\ contribution'[c].status # "none"
    BY <1>1, <1>2
  <2> QED BY <1>0, <1>1, <1>3, <1>6, <2>1, <2>2, <2>3, InvestorStops
<1>7. CASE \E new \in InvestorRows :
             /\ SetInvestor(s, new) /\ new.of = c /\ InHand(new)
             /\ new.pc \in {"answering", "polled", "answered", "binding"}
  <2>1. PICK new \in InvestorRows : /\ SetInvestor(s, new) /\ new.of = c /\ InHand(new)
                                    /\ new.pc \in {"answering", "polled", "answered", "binding"}
    BY <1>7
  <2> QED BY <1>0, <1>1, <1>2, <1>3, <1>4, <1>5, <2>1, InvestorMoves
<1>8. ASSUME PostContribution(s) PROVE \E new \in InvestorRows :
             /\ SetInvestor(s, new) /\ new.of = c /\ InHand(new)
             /\ new.pc \in {"answering", "polled", "answered", "binding"}
  <2> DEFINE new == [at EXCEPT !.pc = "answering"]
  <2>1. new \in InvestorRows /\ new.pc = "answering" /\ new.of = c
    BY <1>0, <1>2 DEF InvestorRows, InvestorPlaces
  <2>2. SetInvestor(s, new)
    BY <1>8 DEF PostContribution
  <2> HIDE DEF new
  <2>3. InHand(new)
    BY <1>2, <2>1 DEF InHand, InvestmentAssumption
  <2> QED BY <2>1, <2>2, <2>3
<1>9. ASSUME PollPayment(s) PROVE \E new \in InvestorRows :
             /\ SetInvestor(s, new) /\ new.of = c /\ InHand(new)
             /\ new.pc \in {"answering", "polled", "answered", "binding"}
  <2>1. PICK as \in PollAnswers :
          SetInvestor(s, [at EXCEPT !.pc = IF @ = "polling" THEN "polled" ELSE "answered", !.seen = as])
    BY <1>9 DEF PollPayment, PollAnswers
  <2> DEFINE new == [at EXCEPT !.pc = IF @ = "polling" THEN "polled" ELSE "answered", !.seen = as]
  <2>2. /\ new \in InvestorRows /\ new.pc \in {"polled", "answered"} /\ new.of = c
        /\ new.seen = as
    <3>1. as \in ContributionStates
      BY DEF PollAnswers, ContributionStates, SettledContributions, ActiveContributions
    <3> QED BY <1>0, <1>2, <3>1 DEF InvestorRows, InvestorPlaces
  <2>3. SetInvestor(s, new)
    BY <2>1
  <2> HIDE DEF new
  <2>4. InHand(new)
    BY <1>2, <2>2 DEF InHand, InvestmentAssumption
  <2> QED BY <2>2, <2>3, <2>4
<1>10. ASSUME MatchDebit(s), ~Rest(s) PROVE \E new \in InvestorRows :
             /\ SetInvestor(s, new) /\ new.of = c /\ InHand(new)
             /\ new.pc \in {"answering", "polled", "answered", "binding"}
  <2>1. PICK b \in Contributions : SetInvestor(s, [at EXCEPT !.pc = "binding", !.seen = b])
    BY <1>10 DEF MatchDebit, FreeDebits
  <2> DEFINE new == [at EXCEPT !.pc = "binding", !.seen = b]
  <2>2. new \in InvestorRows /\ new.pc = "binding" /\ new.of = c /\ new.seen = b
    BY <1>0, <1>2 DEF InvestorRows, InvestorPlaces
  <2>3. SetInvestor(s, new)
    BY <2>1
  <2> HIDE DEF new
  <2>4. InHand(new)
    BY <1>2, <2>2 DEF InHand, InvestmentAssumption
  <2> QED BY <2>2, <2>3, <2>4
<1> QED BY <1>6, <1>7, <1>8, <1>9, <1>10

\* Where a session may still order, nothing was ordered, if it is the only one.
LEMMA NothingOrdered ==
  ASSUME InvestmentAssumption, InvestInv, NEW s \in Investors, NEW c \in Contributions,
         investor[s].of = c,
         investor[s].pc \notin {"idle", "inserting", "bought", "tracing", "traced"},
         c \notin jostled
  PROVE  buys[c] = 0
<1>1. buys[c] \in Nat
  BY OrderCountsAre DEF InvestInv, InvestTypes
<1>2. OneHand(c)
  BY DEF InvestInv
<1> QED BY <1>1, <1>2 DEF OneHand

LEMMA AnswerKeeps ==
  ASSUME InvestmentAssumption, InvestInv, NEW s \in Investors,
         AnswerContribution(s) \/ KeepCash(s) \/ DeferBuy(s)
  PROVE  InvestInv'
<1>1. /\ investor[s].pc \in {"answering", "deciding", "buying"}
      /\ UNCHANGED <<debitOf, transit, buys, jostled>> /\ Rest(s)
  BY DEF AnswerContribution, KeepCash, DeferBuy, Stands
<1>2. PICK c \in Contributions : investor[s].of = c
  BY <1>1, HasInHand
<1>3. /\ contribution[c] \in ContributionRows /\ contribution[c].status # "none"
      /\ RowIsTrue(c) /\ contribution \in [Contributions -> ContributionRows]
      /\ c \notin jostled => buys[c] = 0
  BY <1>1, <1>2, HasInHand, NothingOrdered DEF InvestInv, InvestTypes
<1>4. /\ contribution' \in [Contributions -> ContributionRows]
      /\ \A o \in Contributions \ {c} : contribution'[o] = contribution[o]
      /\ contribution'[c].status # "none"
      /\ contribution'[c].status = "invested" => contribution[c].status = "invested"
      /\ contribution'[c].bound <=> contribution[c].bound
  <2>1. CASE \E to \in {"failed", "creation_uncertain", "funded"} : SetStatus(s, to)
    <3>1. PICK to \in {"failed", "creation_uncertain", "funded"} : SetStatus(s, to)
      BY <2>1
    <3>2. to \in ContributionStates /\ to \notin {"none", "invested"}
      BY DEF ContributionStates, SettledContributions, ActiveContributions
    <3> QED BY <1>2, <1>3, <3>1, <3>2, Recorded
  <2>2. CASE SetTrade(s, "deposit_observed", "prepared", FALSE)
    <3>1. "deposit_observed" \in ContributionStates /\ "prepared" \in TradeStates
      BY DEF ContributionStates, SettledContributions, ActiveContributions, TradeStates
    <3> QED BY <1>2, <1>3, <2>2, <3>1, Traded
  <2>3. CASE \E as \in {"authorization_required", "listed", "unlisted"} :
               contribution' = [contribution EXCEPT ![c] =
                 [contribution[c] EXCEPT !.status = as, !.known = TRUE,
                                         !.consent = (as = "authorization_required")]]
    <3>1. PICK as \in {"authorization_required", "listed", "unlisted"} :
               contribution' = [contribution EXCEPT ![c] =
                 [contribution[c] EXCEPT !.status = as, !.known = TRUE,
                                         !.consent = (as = "authorization_required")]]
      BY <2>3
    <3> DEFINE entry == [contribution[c] EXCEPT !.status = as, !.known = TRUE,
                         !.consent = (as = "authorization_required")]
    <3>2. as \in ContributionStates
      BY DEF ContributionStates, SettledContributions, ActiveContributions
    <3>3. /\ entry \in ContributionRows /\ entry.status = as
          /\ entry.bound <=> contribution[c].bound
      BY <1>3, <3>2 DEF ContributionRows
    <3>4. contribution' = [contribution EXCEPT ![c] = entry]
      BY <3>1
    <3> HIDE DEF entry
    <3> QED BY <1>3, <3>3, <3>4
  <2> QED BY <1>2, <2>1, <2>2, <2>3 DEF AnswerContribution, KeepCash, DeferBuy
<1>5. /\ contribution'[c].status = "invested" \/ contribution'[c].bound => buys[c] > 0
      /\ c \notin jostled /\ buys[c] > 0 => Marked(c)'
  BY <1>3, <1>4 DEF RowIsTrue
<1> QED BY <1>1, <1>2, <1>4, <1>5, InvestorStops

LEMMA NoteOrderKeeps ==
  ASSUME InvestmentAssumption, InvestInv, NEW s \in Investors, NoteOrder(s) \/ WriteTrace(s)
  PROVE  InvestInv'
<1>1. /\ investor[s].pc \in {"bought", "traced"}
      /\ UNCHANGED <<debitOf, transit, buys, jostled>> /\ Rest(s)
  BY DEF NoteOrder, WriteTrace, Stands
<1>2. PICK c \in Contributions : investor[s].of = c
  BY <1>1, HasInHand
<1>3. /\ contribution[c].status # "none" /\ RowIsTrue(c) /\ InHand(investor[s])
      /\ c \notin jostled => OneHand(c)
  BY <1>1, <1>2, HasInHand
<1>4. buys[c] \in Nat /\ (investor[s].orders = 1 => buys[c] > 0)
  BY <1>1, <1>2, <1>3, OrderCountsAre DEF InvestInv, InvestTypes, InHand
<1>5. PICK to \in {"invested", "funded", "trade_pending"},
           intent \in TradeStates, bound \in BOOLEAN :
        /\ SetTrade(s, to, intent, bound)
        /\ to = "invested" \/ bound => buys[c] > 0
        /\ to = "funded" => investor[s].pc = "bought" /\ investor[s].orders = 0
  BY <1>4 DEF NoteOrder, WriteTrace, TradeStates, Stands
<1>6. to \in ContributionStates
  BY DEF ContributionStates, SettledContributions, ActiveContributions
<1>7. /\ contribution' \in [Contributions -> ContributionRows]
      /\ \A o \in Contributions \ {c} : contribution'[o] = contribution[o]
      /\ contribution'[c].status \in {to, contribution[c].status}
      /\ contribution'[c].bound <=> contribution[c].bound \/ bound
  BY <1>2, <1>5, <1>6, Traded
<1>8. /\ contribution'[c].status = "invested" \/ contribution'[c].bound => buys[c] > 0
      /\ contribution'[c].status # "none"
  BY <1>3, <1>5, <1>7 DEF RowIsTrue
<1>9. c \notin jostled /\ buys[c] > 0 => Marked(c)'
  BY <1>1, <1>2, <1>3, <1>5, <1>7 DEF OneHand, Marked
<1> QED BY <1>1, <1>2, <1>7, <1>8, <1>9, InvestorStops

LEMMA TraceOrderKeeps ==
  ASSUME InvestmentAssumption, InvestInv, NEW s \in Investors, TraceOrder(s)
  PROVE  InvestInv'
<1> DEFINE at == investor[s]
<1>1. /\ at.pc = "tracing" /\ UNCHANGED <<debitOf, transit, buys, jostled>>
  BY DEF TraceOrder, Stands
<1>2. PICK c \in Contributions : at.of = c
  BY <1>1, HasInHand
<1>3. /\ at \in InvestorRows /\ contribution[c].status # "none" /\ RowIsTrue(c) /\ InHand(at)
      /\ contribution[c] \in ContributionRows
      /\ c \notin jostled => OneHand(c)
  BY <1>1, <1>2, HasInHand
<1>4. CASE \/ contribution[c].bound /\ SetTrade(s, "invested", "verified", TRUE) /\ Rest(s)
           \/ ~contribution[c].bound /\ SetStatus(s, "trade_pending") /\ Rest(s)
  <2>1. PICK to \in {"invested", "trade_pending"} :
          /\ contribution' \in [Contributions -> ContributionRows]
          /\ \A o \in Contributions \ {c} : contribution'[o] = contribution[o]
          /\ contribution'[c].status \in {to, contribution[c].status}
          /\ to = "invested" \/ contribution'[c].bound => contribution[c].bound
    <3>1. /\ {"invested", "trade_pending"} \subseteq ContributionStates
          /\ "verified" \in TradeStates
      BY DEF ContributionStates, SettledContributions, ActiveContributions, TradeStates
    <3> HIDE DEF at
    <3>2. CASE contribution[c].bound /\ SetTrade(s, "invested", "verified", TRUE)
      BY <1>2, <3>1, <3>2, Traded DEF at
    <3>3. CASE ~contribution[c].bound /\ SetStatus(s, "trade_pending")
      BY <1>2, <3>1, <3>3, Recorded DEF at
    <3> QED BY <1>4, <3>2, <3>3
  <2>2. /\ contribution'[c].status = "invested" \/ contribution'[c].bound => buys[c] > 0
        /\ contribution'[c].status # "none"
    BY <1>3, <2>1 DEF RowIsTrue
  <2>3. c \notin jostled /\ buys[c] > 0 => Marked(c)'
    BY <1>3, <2>1 DEF OneHand, Marked
  <2> QED BY <1>1, <1>2, <1>4, <2>1, <2>2, <2>3, InvestorStops
<1>5. CASE /\ \E n \in 0 .. buys[c] :
                SetInvestor(s, [at EXCEPT !.pc = "traced", !.intent = contribution[c].intent,
                                          !.orders = n])
           /\ UNCHANGED contribution
  <2>1. PICK n \in 0 .. buys[c] :
                SetInvestor(s, [at EXCEPT !.pc = "traced", !.intent = contribution[c].intent,
                                          !.orders = n])
    BY <1>5
  <2>2. n \in OrderCounts /\ n <= buys[c]
    <3>1. PICK m \in OrderCounts : m = buys[c]
      BY DEF InvestInv, InvestTypes
    <3> QED BY <2>1, <3>1 DEF OrderCounts, InvestmentAssumption
  <2> DEFINE new == [at EXCEPT !.pc = "traced", !.intent = contribution[c].intent, !.orders = n]
  <2>3. new \in InvestorRows /\ new.pc = "traced" /\ new.of = c /\ new.orders = n
    BY <1>2, <1>3, <2>2 DEF InvestorRows, InvestorPlaces, ContributionRows
  <2>4. SetInvestor(s, new)
    BY <2>1
  <2> HIDE DEF new
  <2>5. InHand(new)
    BY <2>2, <2>3 DEF InHand, InvestmentAssumption
  <2>6. c \notin jostled /\ buys[c] > 0 => Marked(c)'
    BY <1>3, <1>5 DEF OneHand, Marked
  <2>7. /\ contribution' \in [Contributions -> ContributionRows]
        /\ debitOf' \in [Contributions -> Contributions \cup {NoContribution}]
        /\ transit' \in [Contributions -> TransitStates]
        /\ contribution'[c].status # "none"
        /\ contribution'[c].status = "invested" \/ contribution'[c].bound => buys[c] > 0
        /\ \A o \in Contributions \ {c} : contribution'[o] = contribution[o]
    BY <1>1, <1>3, <1>5 DEF InvestInv, InvestTypes, RowIsTrue
  <2> QED BY <1>1, <1>2, <2>3, <2>4, <2>5, <2>6, <2>7, InvestorMoves
<1> QED BY <1>2, <1>4, <1>5 DEF TraceOrder

\* A session that goes on with the contribution, and may have committed its status,
\* before anything was ordered.
LEMMA InvestorGoesOn ==
  ASSUME InvestmentAssumption, InvestInv, NEW s \in Investors, NEW c \in Contributions,
         investor[s].of = c,
         investor[s].pc \notin {"idle", "inserting", "bought", "tracing", "traced"},
         NEW new \in InvestorRows, SetInvestor(s, new), new.of \in {c, NoContribution},
         InHand(new), new.pc \notin {"inserting", "buying", "bought"},
         UNCHANGED <<transit, buys, jostled>>,
         debitOf' \in [Contributions -> Contributions \cup {NoContribution}],
         contribution' \in [Contributions -> ContributionRows],
         \A o \in Contributions \ {c} : contribution'[o] = contribution[o],
         contribution'[c].status # "none",
         contribution'[c].status = "invested" => contribution[c].status = "invested",
         contribution'[c].bound => contribution[c].bound
  PROVE  InvestInv'
<1>1. /\ contribution'[c].status = "invested" \/ contribution'[c].bound => buys[c] > 0
      /\ transit' \in [Contributions -> TransitStates]
  BY DEF InvestInv, InvestTypes, RowIsTrue
<1>2. /\ c \notin jostled /\ (buys[c] > 0 \/ new.pc = "buying") => Marked(c)'
      /\ c \notin jostled /\ buys[c] > 0 => new.pc \in {"idle", "tracing", "traced"}
  BY NothingOrdered
<1> QED BY <1>1, <1>2, InvestorMoves

LEMMA WritePaymentKeeps ==
  ASSUME InvestmentAssumption, InvestInv, NEW s \in Investors, WritePaymentStatus(s)
  PROVE  InvestInv'
<1> DEFINE at == investor[s]
<1>1. /\ at.pc \in {"polled", "answered"} /\ UNCHANGED <<debitOf, transit, buys, jostled>>
  BY DEF WritePaymentStatus
<1>2. PICK c \in Contributions : at.of = c
  BY <1>1, HasInHand
<1>3. /\ at \in InvestorRows /\ InHand(at) /\ contribution[c] \in ContributionRows
      /\ contribution[c].status # "none"
      /\ contribution \in [Contributions -> ContributionRows]
      /\ debitOf \in [Contributions -> Contributions \cup {NoContribution}]
  BY <1>1, <1>2, HasInHand DEF InvestInv, InvestTypes
<1>4. /\ at.seen \in PollAnswers /\ at.seen \in ContributionStates
      /\ at.seen \notin {"none", "invested"}
  BY <1>1, <1>3 DEF InHand, PollAnswers, ContributionStates, SettledContributions,
                    ActiveContributions
<1>5. /\ contribution' \in [Contributions -> ContributionRows]
      /\ \A o \in Contributions \ {c} : contribution'[o] = contribution[o]
      /\ contribution'[c].status # "none"
      /\ contribution'[c].status = "invested" => contribution[c].status = "invested"
      /\ contribution'[c].bound => contribution[c].bound
  <2> DEFINE entry == [contribution[c] EXCEPT !.status = IF at.status = at.seen THEN @ ELSE at.seen,
                       !.consent = @ /\ at.pc = "polled"]
  <2>1. /\ entry \in ContributionRows /\ entry.status \in {at.seen, contribution[c].status}
        /\ entry.bound <=> contribution[c].bound
    BY <1>3, <1>4 DEF ContributionRows
  <2>2. contribution' = [contribution EXCEPT ![c] = entry]
    BY <1>2 DEF WritePaymentStatus
  <2> HIDE DEF entry, at
  <2> QED BY <1>3, <1>4, <2>1, <2>2
<1>6. PICK new \in InvestorRows : /\ SetInvestor(s, new) /\ new.of \in {c, NoContribution}
                                  /\ new.pc \in {"idle", "checking"}
                                  /\ new.pc = "idle" <=> new.of = NoContribution
  <2> DEFINE new == [Uninvested EXCEPT !.pc = "checking", !.of = c, !.status = at.seen]
  <2>1. /\ new \in InvestorRows /\ new.pc = "checking" /\ new.of = c
        /\ c # NoContribution
    BY <1>4, UninvestedIsRow DEF InvestorRows, InvestorPlaces, InvestmentAssumption
  <2>2. SetInvestor(s, new) \/ SetInvestor(s, Uninvested)
    BY <1>2 DEF WritePaymentStatus, Rest
  <2> HIDE DEF new
  <2> QED BY <2>1, <2>2, UninvestedIsRow
<1>7. InHand(new)
  BY <1>6 DEF InHand
<1> QED BY <1>1, <1>2, <1>3, <1>5, <1>6, <1>7, InvestorGoesOn

LEMMA BindDebitKeeps ==
  ASSUME InvestmentAssumption, InvestInv, NEW s \in Investors, BindDebit(s) \/ CheckDeposit(s)
  PROVE  InvestInv'
<1> DEFINE at == investor[s]
<1>1. at.pc \in {"binding", "checking"} /\ UNCHANGED <<transit, buys, jostled>>
  BY DEF BindDebit, CheckDeposit, Stands
<1>2. PICK c \in Contributions : at.of = c
  BY <1>1, HasInHand
<1>3. /\ at \in InvestorRows /\ InHand(at) /\ contribution[c] \in ContributionRows
      /\ contribution[c].status # "none"
      /\ contribution \in [Contributions -> ContributionRows]
      /\ debitOf \in [Contributions -> Contributions \cup {NoContribution}]
      /\ c # NoContribution
  BY <1>1, <1>2, HasInHand DEF InvestInv, InvestTypes, InvestmentAssumption
<1>4. /\ {"awaiting_deposit", "deposit_observed"} \subseteq ContributionStates
  BY DEF ContributionStates, SettledContributions, ActiveContributions
<1>5. debitOf' \in [Contributions -> Contributions \cup {NoContribution}]
  BY <1>2, <1>3 DEF BindDebit, CheckDeposit, InHand, Stands
<1>6. /\ contribution' \in [Contributions -> ContributionRows]
      /\ \A o \in Contributions \ {c} : contribution'[o] = contribution[o]
      /\ contribution'[c].status # "none"
      /\ contribution'[c].status = "invested" => contribution[c].status = "invested"
      /\ contribution'[c].bound => contribution[c].bound
  <2>1. CASE contribution' = contribution
    BY <1>3, <2>1
  <2>2. CASE \E to \in {"awaiting_deposit", "deposit_observed"} : SetStatus(s, to)
    <3>1. PICK to \in {"awaiting_deposit", "deposit_observed"} : SetStatus(s, to)
      BY <2>2
    <3> QED BY <1>2, <1>3, <1>4, <3>1, Recorded
  <2> QED BY <2>1, <2>2 DEF BindDebit, CheckDeposit
<1>7. PICK new \in InvestorRows : /\ SetInvestor(s, new) /\ new.of \in {c, NoContribution}
                                  /\ new.pc \in {"idle", "checking", "deciding"}
                                  /\ new.pc = "idle" <=> new.of = NoContribution
                                  /\ new.pc = "deciding" => new.status = "deposit_observed"
  <2> DEFINE bound == [Uninvested EXCEPT !.pc = "checking", !.of = c, !.status = "awaiting_deposit"]
             here == [at EXCEPT !.pc = "deciding", !.status = "deposit_observed"]
  <2>1. bound \in InvestorRows /\ bound.pc = "checking" /\ bound.of = c
    BY <1>4, UninvestedIsRow DEF InvestorRows, InvestorPlaces
  <2>2. /\ here \in InvestorRows /\ here.pc = "deciding" /\ here.of = c
        /\ here.status = "deposit_observed"
    BY <1>2, <1>3, <1>4 DEF InvestorRows, InvestorPlaces
  <2>3. SetInvestor(s, bound) \/ SetInvestor(s, here) \/ SetInvestor(s, Uninvested)
    BY <1>2 DEF BindDebit, CheckDeposit, Rest
  <2> HIDE DEF bound, here
  <2> QED BY <1>3, <2>1, <2>2, <2>3, UninvestedIsRow
<1>8. InHand(new)
  BY <1>7 DEF InHand
<1> QED BY <1>1, <1>2, <1>5, <1>6, <1>7, <1>8, InvestorGoesOn

LEMMA PrepareTradeKeeps ==
  ASSUME InvestmentAssumption, InvestInv, NEW s \in Investors, PrepareTrade(s)
  PROVE  InvestInv'
<1> DEFINE at == investor[s]
<1>1. at.pc = "deciding" /\ UNCHANGED <<debitOf, transit, buys, jostled>>
  BY DEF PrepareTrade, Stands
<1>2. PICK c \in Contributions : at.of = c
  BY <1>1, HasInHand
<1>3. /\ at \in InvestorRows /\ InHand(at) /\ contribution[c] \in ContributionRows
      /\ contribution[c].status # "none"
      /\ contribution \in [Contributions -> ContributionRows]
      /\ debitOf \in [Contributions -> Contributions \cup {NoContribution}]
      /\ c # NoContribution
  BY <1>1, <1>2, HasInHand DEF InvestInv, InvestTypes, InvestmentAssumption
<1>4. PICK intent \in TradeStates :
        /\ contribution' = [contribution EXCEPT ![c].intent = intent]
        /\ SetInvestor(s, [at EXCEPT !.pc = "submitting", !.intent = intent])
  BY <1>2, <1>3 DEF PrepareTrade, TradeStates, ContributionRows
<1> DEFINE new == [at EXCEPT !.pc = "submitting", !.intent = intent]
           entry == [contribution[c] EXCEPT !.intent = intent]
<1>5. /\ new \in InvestorRows /\ new.of = c /\ new.pc = "submitting"
      /\ new.status = at.status
  BY <1>2, <1>3 DEF InvestorRows, InvestorPlaces
<1>6. /\ entry \in ContributionRows /\ entry.status = contribution[c].status
      /\ entry.bound <=> contribution[c].bound
  BY <1>3 DEF ContributionRows
<1>7. SetInvestor(s, new) /\ contribution' = [contribution EXCEPT ![c] = entry]
  BY <1>4
<1> HIDE DEF new, entry
<1>8. InHand(new)
  BY <1>1, <1>3, <1>5 DEF InHand
<1>9. /\ contribution' \in [Contributions -> ContributionRows]
      /\ \A o \in Contributions \ {c} : contribution'[o] = contribution[o]
      /\ contribution'[c] = entry
  BY <1>3, <1>6, <1>7
<1> QED BY <1>1, <1>2, <1>3, <1>5, <1>6, <1>7, <1>8, <1>9, InvestorGoesOn

LEMMA SubmitTradeKeeps ==
  ASSUME InvestmentAssumption, InvestInv, NEW s \in Investors, SubmitTrade(s)
  PROVE  InvestInv'
<1> DEFINE at == investor[s]
<1>1. at.pc = "submitting" /\ UNCHANGED <<debitOf, transit, buys, jostled>>
  BY DEF SubmitTrade, Stands
<1>2. PICK c \in Contributions : at.of = c
  BY <1>1, HasInHand
<1>3. /\ at \in InvestorRows /\ InHand(at) /\ contribution[c] \in ContributionRows
      /\ contribution[c].status # "none" /\ RowIsTrue(c)
      /\ contribution \in [Contributions -> ContributionRows]
      /\ debitOf \in [Contributions -> Contributions \cup {NoContribution}]
      /\ transit \in [Contributions -> TransitStates]
      /\ c # NoContribution /\ (c \notin jostled => buys[c] = 0)
  BY <1>1, <1>2, HasInHand, NothingOrdered DEF InvestInv, InvestTypes, InvestmentAssumption
<1>4. CASE SetInvestor(s, [at EXCEPT !.pc = "tracing"]) /\ contribution' = contribution
  <2> DEFINE new == [at EXCEPT !.pc = "tracing"]
  <2>1. new \in InvestorRows /\ new.of = c /\ new.pc = "tracing"
    BY <1>2, <1>3 DEF InvestorRows, InvestorPlaces
  <2>2. SetInvestor(s, new)
    BY <1>4
  <2> HIDE DEF new
  <2>3. InHand(new)
    BY <1>3, <2>1 DEF InHand
  <2> QED BY <1>1, <1>2, <1>3, <1>4, <2>1, <2>2, <2>3, InvestorGoesOn
<1>5. CASE /\ SetTrade(s, "trade_pending", "submitting", FALSE)
           /\ SetInvestor(s, [at EXCEPT !.pc = "buying", !.status = "trade_pending",
                                        !.intent = "submitting"])
  <2>1. "trade_pending" \in ContributionStates /\ "submitting" \in TradeStates
    BY DEF ContributionStates, ActiveContributions, TradeStates
  <2>2. at.status = "deposit_observed"
    BY <1>1, <1>3 DEF InHand
  <2>3. /\ contribution' \in [Contributions -> ContributionRows]
        /\ \A o \in Contributions \ {c} : contribution'[o] = contribution[o]
        /\ contribution'[c].status = "trade_pending"
        /\ contribution'[c].bound => contribution[c].bound
    BY <1>2, <1>5, <2>1, <2>2, Traded
  <2> DEFINE new == [at EXCEPT !.pc = "buying", !.status = "trade_pending",
                               !.intent = "submitting"]
  <2>4. new \in InvestorRows /\ new.of = c /\ new.pc = "buying"
    BY <1>2, <1>3, <2>1 DEF InvestorRows, InvestorPlaces
  <2>5. SetInvestor(s, new)
    BY <1>5
  <2> HIDE DEF new
  <2>6. InHand(new) /\ Marked(c)'
    BY <1>3, <2>3, <2>4 DEF InHand, Marked
  <2>7. contribution'[c].status = "invested" \/ contribution'[c].bound => buys[c] > 0
    BY <1>3, <2>3 DEF RowIsTrue
  <2> QED BY <1>1, <1>2, <1>3, <2>3, <2>4, <2>5, <2>6, <2>7, InvestorMoves
<1> QED BY <1>4, <1>5 DEF SubmitTrade

\* A session plans: it is not beyond any contribution.
LEMMA PlanKeeps ==
  ASSUME InvestmentAssumption, InvestInv, NEW s \in Investors, PlanContribution(s)
  PROVE  InvestInv'
<1>1. PICK c \in Contributions : SetInvestor(s, [Uninvested EXCEPT !.pc = "inserting", !.of = c])
  BY DEF PlanContribution
<1> DEFINE new == [Uninvested EXCEPT !.pc = "inserting", !.of = c]
<1>2. new \in InvestorRows /\ new.pc = "inserting" /\ new.of = c /\ c # NoContribution
  BY UninvestedIsRow DEF InvestorRows, InvestorPlaces, InvestmentAssumption
<1>3. SetInvestor(s, new) /\ UNCHANGED <<contribution, debitOf, transit, buys, jostled>>
  BY <1>1 DEF PlanContribution
<1> HIDE DEF new
<1>4. /\ investor' \in [Investors -> InvestorRows] /\ investor'[s] = new
      /\ \A o \in Investors \ {s} : investor'[o] = investor[o]
  BY <1>2, <1>3, InvestorTurned
<1>5. InvestTypes'
  BY <1>3, <1>4 DEF InvestInv, InvestTypes
<1>6. \A o \in Investors : InHand(investor[o])'
  BY <1>2, <1>3, <1>4 DEF InvestInv, InHand
<1>7. ASSUME NEW d \in Contributions, NEW o \in Investors, Beyond(o, d)'
      PROVE  Beyond(o, d)
  BY <1>2, <1>4, <1>7 DEF Beyond
<1>8. \A d \in Contributions : RowIsTrue(d)'
  BY <1>3, <1>7 DEF InvestInv, RowIsTrue
<1>9. \A d \in Contributions \ jostled : OneHand(d)'
  BY <1>2, <1>3, <1>4, <1>7 DEF InvestInv, OneHand, Marked
<1> QED BY <1>3, <1>5, <1>6, <1>8, <1>9 DEF InvestInv

\* The contribution is new: nobody has it in hand yet.
LEMMA InsertKeeps ==
  ASSUME InvestmentAssumption, InvestInv, NEW s \in Investors, InsertContribution(s)
  PROVE  InvestInv'
<1>1. /\ investor[s].pc = "inserting" /\ investor[s] \in InvestorRows /\ InHand(investor[s])
      /\ UNCHANGED <<debitOf, transit, buys, jostled>>
  BY DEF InsertContribution, Stands, InvestInv, InvestTypes
<1>2. PICK c \in Contributions : investor[s].of = c
  BY <1>1 DEF InHand, InvestorRows
<1> DEFINE new == [investor[s] EXCEPT !.pc = "posting", !.status = "creating"]
           entry == [NoRow EXCEPT !.status = "creating"]
<1>3. /\ entry \in ContributionRows /\ entry.status = "creating" /\ entry.bound = FALSE
      /\ new \in InvestorRows /\ new.pc = "posting" /\ new.of = c /\ c # NoContribution
  BY <1>1, <1>2 DEF NoRow, ContributionRows, ContributionStates, ActiveContributions,
                    TradeStates, InvestorRows, InvestorPlaces, InvestmentAssumption
<1>4. /\ contribution[c].status = "none" /\ contribution' = [contribution EXCEPT ![c] = entry]
      /\ SetInvestor(s, new)
  BY <1>2 DEF InsertContribution
<1> HIDE DEF new, entry
<1>5. /\ investor' \in [Investors -> InvestorRows] /\ investor'[s] = new
      /\ \A o \in Investors \ {s} : investor'[o] = investor[o]
  BY <1>3, <1>4, InvestorTurned
<1>6. /\ contribution' \in [Contributions -> ContributionRows] /\ contribution'[c] = entry
      /\ \A o \in Contributions \ {c} : contribution'[o] = contribution[o]
  BY <1>3, <1>4 DEF InvestInv, InvestTypes
<1>7. InvestTypes'
  BY <1>1, <1>5, <1>6 DEF InvestInv, InvestTypes
<1>8. \A o \in Investors : InHand(investor[o])'
  BY <1>1, <1>3, <1>5 DEF InvestInv, InHand
<1>9. buys[c] = 0 /\ \A o \in Investors : ~Beyond(o, c)
  BY <1>4 DEF InvestInv, RowIsTrue
<1>10. ASSUME NEW d \in Contributions, NEW o \in Investors, Beyond(o, d)'
       PROVE  (Beyond(o, d) /\ d # c) \/ (o = s /\ d = c)
  BY <1>3, <1>5, <1>9, <1>10 DEF Beyond
<1>11. \A d \in Contributions : RowIsTrue(d)'
  <2>1. RowIsTrue(c)'
    BY <1>3, <1>6 DEF RowIsTrue
  <2>2. \A d \in Contributions \ {c} : RowIsTrue(d)'
    BY <1>1, <1>6, <1>10 DEF InvestInv, RowIsTrue
  <2> QED BY <2>1, <2>2
<1>12. ASSUME NEW d \in Contributions \ jostled PROVE OneHand(d)'
  <2>1. OneHand(d)
    BY <1>12 DEF InvestInv
  <2>2. \A o, t \in Investors : Beyond(o, d)' /\ Beyond(t, d)' => o = t
    BY <1>10, <2>1 DEF OneHand
  <2>3. CASE d = c
    <3>1. \A o \in Investors : investor'[o].of = c => investor'[o].pc \in {"posting", "inserting"}
      BY <1>3, <1>5, <1>9 DEF Beyond
    <3> QED BY <1>1, <1>9, <2>2, <2>3, <3>1 DEF OneHand
  <2>4. CASE d # c
    BY <1>1, <1>3, <1>5, <1>6, <2>1, <2>2, <2>4 DEF OneHand, Marked
  <2> QED BY <2>3, <2>4
<1> QED BY <1>1, <1>7, <1>8, <1>11, <1>12 DEF InvestInv

\* A pass loads the contribution; if another session has it too, they are at it at once.
LEMMA TakeUpKeeps ==
  ASSUME InvestmentAssumption, InvestInv, NEW s \in Investors,
         ReviewContribution(s) \/ AuthorizationDone(s)
  PROVE  InvestInv'
<1>1. PICK c \in Contributions, place \in {"tracing", "deciding", "checking", "matching",
                                            "polling", "returned"} :
        /\ TakeUp(s, c, place)
        /\ contribution[c].status = "trade_pending" <=> place = "tracing"
        /\ place = "deciding" => contribution[c].status = "deposit_observed"
  <2>1. ASSUME NEW c \in Contributions
        PROVE  /\ FirstStep(contribution[c]) \in {"tracing", "deciding", "checking", "matching",
                                                  "polling", "idle"}
               /\ contribution[c].status = "trade_pending" <=> FirstStep(contribution[c]) = "tracing"
               /\ FirstStep(contribution[c]) = "deciding"
                    => contribution[c].status = "deposit_observed"
    BY DEF FirstStep
  <2>2. CASE ReviewContribution(s)
    BY <2>1, <2>2 DEF ReviewContribution, TakeUp
  <2>3. CASE AuthorizationDone(s)
    BY <2>1, <2>3 DEF AuthorizationDone
  <2> QED BY <2>2, <2>3
<1> DEFINE new == [Uninvested EXCEPT !.pc = place, !.of = c, !.status = contribution[c].status]
<1>2. /\ contribution[c] \in ContributionRows /\ c # NoContribution
      /\ contribution[c].status \notin {"none", "invested", "failed"}
      /\ UNCHANGED <<contribution, debitOf, transit, buys>>
      /\ jostled' = IF \E o \in Investors \ {s} : investor[o].of = c THEN jostled \cup {c}
                    ELSE jostled
  BY <1>1 DEF TakeUp, InvestInv, InvestTypes, InvestmentAssumption, SettledContributions
<1>3. /\ new \in InvestorRows /\ new.pc = place /\ new.of = c
      /\ new.status = contribution[c].status
  BY <1>2, UninvestedIsRow DEF InvestorRows, InvestorPlaces, ContributionRows
<1>4. SetInvestor(s, new) /\ investor[s].pc = "idle"
  BY <1>1 DEF TakeUp, Stands
<1> HIDE DEF new
<1>5. /\ investor' \in [Investors -> InvestorRows] /\ investor'[s] = new
      /\ \A o \in Investors \ {s} : investor'[o] = investor[o]
  BY <1>3, <1>4, InvestorTurned
<1>6. InvestTypes'
  BY <1>2, <1>5 DEF InvestInv, InvestTypes
<1>7. \A o \in Investors : InHand(investor[o])'
  <2>1. InHand(investor[s])'
    BY <1>1, <1>2, <1>3, <1>5 DEF InHand
  <2> QED BY <1>2, <1>5, <2>1 DEF InvestInv, InHand
<1>8. ASSUME NEW d \in Contributions, NEW o \in Investors, Beyond(o, d)', d # c
      PROVE  Beyond(o, d)
  BY <1>3, <1>5, <1>8 DEF Beyond
<1>9. \A d \in Contributions : RowIsTrue(d)'
  BY <1>2, <1>8 DEF InvestInv, RowIsTrue
<1>10. ASSUME NEW d \in Contributions \ jostled' PROVE OneHand(d)'
  <2>1. d \notin jostled /\ OneHand(d)
    BY <1>2, <1>10 DEF InvestInv
  <2>2. CASE d = c
    <3>1. \A o \in Investors \ {s} : investor'[o].of # c
      BY <1>2, <1>5, <1>10, <2>2
    <3>2. buys[c] > 0 => place = "tracing"
      BY <1>1, <1>2, <2>1, <2>2 DEF OneHand, Marked
    <3> QED BY <1>1, <1>2, <1>3, <1>5, <2>1, <2>2, <3>1, <3>2 DEF OneHand, Beyond, Marked
  <2>3. CASE d # c
    <3>1. \A o, t \in Investors : Beyond(o, d)' /\ Beyond(t, d)' => o = t
      BY <1>8, <2>1, <2>3 DEF OneHand
    <3> QED BY <1>2, <1>3, <1>5, <2>1, <2>3, <3>1 DEF OneHand, Marked
  <2> QED BY <2>2, <2>3
<1> QED BY <1>6, <1>7, <1>9, <1>10 DEF InvestInv

\* An order reaches the exchange: for a contribution that one session has in hand it is
\* the first, and the contribution is marked.
LEMMA PlaceOrderKeeps ==
  ASSUME InvestmentAssumption, InvestInv, NEW s \in Investors, PlaceOrder(s)
  PROVE  InvestInv'
<1>1. investor[s].pc = "buying" /\ UNCHANGED <<contribution, debitOf, transit, jostled>>
  BY DEF PlaceOrder, Stands
<1>2. PICK c \in Contributions : investor[s].of = c
  BY <1>1, HasInHand
<1>3. /\ investor[s] \in InvestorRows /\ c # NoContribution
      /\ contribution[c].status # "none" /\ buys \in [Contributions -> OrderCounts]
      /\ c \notin jostled => buys[c] = 0 /\ OneHand(c)
  BY <1>1, <1>2, HasInHand, NothingOrdered DEF InvestInv, InvestTypes, InvestmentAssumption
<1>4. PICK n \in {0, 1} : /\ buys' = [buys EXCEPT ![c] = buys[c] + n]
                          /\ SetInvestor(s, [investor[s] EXCEPT !.pc = "bought", !.orders = n])
  BY <1>2 DEF PlaceOrder
<1>5. PICK m \in OrderCounts : m = buys[c]
  BY <1>3
<1>6. n \in OrderCounts /\ m + n \in OrderCounts /\ n <= m + n
  BY <1>2, <1>5 DEF OrderCounts, InvestmentAssumption, PlaceOrder
<1> DEFINE new == [investor[s] EXCEPT !.pc = "bought", !.orders = n]
<1>7. new \in InvestorRows /\ new.pc = "bought" /\ new.of = c /\ new.orders = n
  BY <1>2, <1>3, <1>6 DEF InvestorRows, InvestorPlaces
<1>8. SetInvestor(s, new)
  BY <1>4
<1> HIDE DEF new
<1>9. /\ investor' \in [Investors -> InvestorRows] /\ investor'[s] = new
      /\ \A o \in Investors \ {s} : investor'[o] = investor[o]
  BY <1>7, <1>8, InvestorTurned
<1>10. /\ buys' \in [Contributions -> OrderCounts] /\ buys'[c] = m + n
       /\ \A d \in Contributions \ {c} : buys'[d] = buys[d]
       /\ \A d \in Contributions : buys[d] \in Nat /\ buys'[d] \in Nat /\ buys[d] <= buys'[d]
  BY <1>3, <1>4, <1>5, <1>6, OrderCountsAre
<1>11. InvestTypes'
  BY <1>1, <1>9, <1>10 DEF InvestInv, InvestTypes
<1>12. \A o \in Investors : InHand(investor[o])'
  <2>1. InHand(investor[s])'
    BY <1>3, <1>6, <1>7, <1>9, <1>10 DEF InHand
  <2>2. ASSUME NEW o \in Investors \ {s} PROVE InHand(investor[o])'
    <3>1. InHand(investor[o]) /\ investor'[o] = investor[o] /\ investor[o] \in InvestorRows
      BY <1>9 DEF InvestInv, InvestTypes
    <3>2. ASSUME investor[o].pc \in {"bought", "traced"}
          PROVE  investor[o].orders <= buys'[investor[o].of]
      <4>1. PICK k \in OrderCounts : k = investor[o].orders
        BY <3>1 DEF InvestorRows
      <4>2. PICK d \in Contributions : d = investor[o].of
        BY <3>1, <3>2 DEF InHand, InvestorRows
      <4>3. k \in Nat /\ k <= buys[d]
        BY <3>1, <3>2, <4>1, <4>2, OrderCountsAre DEF InHand
      <4>4. buys[d] \in Nat /\ buys'[d] \in Nat /\ buys[d] <= buys'[d]
        BY <1>10
      <4>5. k <= buys'[d]
        BY <4>3, <4>4
      <4> QED BY <4>1, <4>2, <4>5
    <3> QED BY <3>1, <3>2 DEF InHand
  <2> QED BY <1>9, <2>1, <2>2
<1>13. ASSUME NEW d \in Contributions, NEW o \in Investors, Beyond(o, d)'
       PROVE  Beyond(o, d)
  BY <1>1, <1>2, <1>7, <1>9, <1>13 DEF Beyond
<1>14. ASSUME NEW d \in Contributions PROVE RowIsTrue(d)'
  <2>1. RowIsTrue(d) /\ buys[d] \in Nat /\ buys'[d] \in Nat /\ buys[d] <= buys'[d]
    BY <1>10 DEF InvestInv
  <2>2. contribution[d].status = "none" => d # c
    BY <1>3
  <2> QED BY <1>1, <1>10, <1>13, <2>1, <2>2 DEF RowIsTrue
<1>15. ASSUME NEW d \in Contributions \ jostled PROVE OneHand(d)'
  <2>1. OneHand(d)
    BY <1>15 DEF InvestInv
  <2>2. \A o, t \in Investors : Beyond(o, d)' /\ Beyond(t, d)' => o = t
    BY <1>13, <2>1 DEF OneHand
  <2>3. CASE d = c
    <3>1. buys[c] = 0 /\ m = 0 /\ buys'[c] = n /\ Marked(c) /\ Marked(c)'
      BY <1>1, <1>2, <1>3, <1>5, <1>10, <1>15, <2>3 DEF OneHand, Marked
    <3>2. \A o \in Investors \ {s} : investor'[o].of = c => investor'[o].pc = "inserting"
      BY <1>1, <1>2, <1>9, <2>1, <2>3 DEF OneHand, Beyond
    <3>3. ASSUME NEW o \in Investors, investor'[o].of = c
          PROVE  \/ investor'[o].pc = "inserting"
                 \/ investor'[o].pc = "bought" /\ investor'[o].orders = n
      BY <1>7, <1>9, <3>2, <3>3
    <3> QED BY <2>2, <2>3, <3>1, <3>3 DEF OneHand
  <2>4. CASE d # c
    BY <1>1, <1>7, <1>9, <1>10, <2>1, <2>2, <2>4 DEF OneHand, Marked
  <2> QED BY <2>3, <2>4
<1> QED BY <1>1, <1>11, <1>12, <1>14, <1>15 DEF InvestInv

LEMMA CrashInvestorKeeps ==
  ASSUME InvestmentAssumption, InvestInv, NEW s \in Investors, CrashInvestor(s)
  PROVE  InvestInv'
<1>1. /\ SetInvestor(s, Uninvested) /\ InHand(Uninvested)
      /\ UNCHANGED <<contribution, debitOf, transit, buys, jostled>>
      /\ Uninvested \in InvestorRows /\ Uninvested.of = NoContribution
  BY UninvestedIsRow DEF CrashInvestor, Rest, InHand
<1>2. /\ investor' \in [Investors -> InvestorRows] /\ investor'[s] = Uninvested
      /\ \A o \in Investors \ {s} : investor'[o] = investor[o]
  BY <1>1, InvestorTurned
<1>3. InvestTypes'
  BY <1>1, <1>2 DEF InvestInv, InvestTypes
<1>4. \A o \in Investors : InHand(investor[o])'
  BY <1>1, <1>2, UninvestedIsRow DEF InvestInv, InHand
<1>5. ASSUME NEW d \in Contributions, NEW o \in Investors, investor'[o].of = d
      PROVE  o # s /\ investor'[o] = investor[o]
  BY <1>1, <1>2, <1>5 DEF InvestmentAssumption
<1>6. \A d \in Contributions : RowIsTrue(d)'
  BY <1>1, <1>5 DEF InvestInv, RowIsTrue, Beyond
<1>7. \A d \in Contributions \ jostled : OneHand(d)'
  BY <1>1, <1>5 DEF InvestInv, OneHand, Beyond, Marked
<1> QED BY <1>1, <1>3, <1>4, <1>6, <1>7 DEF InvestInv

\* The bank's error page, and what the bank and the exchange do with the money.
LEMMA OutsideKeeps ==
  ASSUME InvestmentAssumption, InvestInv, AuthorizationDenied \/ MoneyMoves
  PROVE  InvestInv'
<1>1. UNCHANGED <<debitOf, buys, investor, jostled>>
  BY DEF AuthorizationDenied, MoneyMoves
<1>2. /\ contribution \in [Contributions -> ContributionRows]
      /\ transit \in [Contributions -> TransitStates]
      /\ \A d \in Contributions : RowIsTrue(d)
  BY DEF InvestInv, InvestTypes
<1>3. /\ contribution' \in [Contributions -> ContributionRows]
      /\ transit' \in [Contributions -> TransitStates]
      /\ \A d \in Contributions :
           /\ contribution'[d].status \in {contribution[d].status, "failed"}
           /\ contribution'[d].bound <=> contribution[d].bound
  <2>1. CASE AuthorizationDenied
    <3>1. PICK c \in Contributions :
            /\ contribution' = [contribution EXCEPT ![c].status = "failed", ![c].consent = FALSE]
            /\ transit' = transit
      BY <2>1 DEF AuthorizationDenied
    <3> DEFINE entry == [contribution[c] EXCEPT !.status = "failed", !.consent = FALSE]
    <3>2. entry \in ContributionRows /\ entry.status = "failed"
            /\ (entry.bound <=> contribution[c].bound)
      BY <1>2 DEF ContributionRows, ContributionStates, SettledContributions
    <3>3. contribution' = [contribution EXCEPT ![c] = entry]
      BY <1>2, <3>1
    <3> HIDE DEF entry
    <3> QED BY <1>2, <3>1, <3>2, <3>3
  <2>2. CASE MoneyMoves
    <3>1. contribution' = contribution /\ transit' \in [Contributions -> TransitStates]
      BY <1>2, <2>2 DEF MoneyMoves, TransitStates
    <3> QED BY <1>2, <3>1
  <2> QED BY <2>1, <2>2
<1>4. InvestTypes'
  BY <1>1, <1>3 DEF InvestInv, InvestTypes
<1>5. \A o \in Investors : InHand(investor[o])'
  BY <1>1 DEF InvestInv, InHand
<1>6. \A d \in Contributions : RowIsTrue(d)'
  BY <1>1, <1>2, <1>3 DEF RowIsTrue, Beyond
<1>7. \A d \in Contributions \ jostled : OneHand(d)'
  BY <1>1, <1>3 DEF InvestInv, OneHand, Beyond, Marked
<1> QED BY <1>1, <1>4, <1>5, <1>6, <1>7 DEF InvestInv

LEMMA InvestStepKeeps ==
  ASSUME InvestmentAssumption, InvestInv, [InvestmentNext]_investmentVars PROVE InvestInv'
<1>1. CASE UNCHANGED investmentVars
  BY <1>1 DEF investmentVars, InvestInv, InvestTypes, InHand, RowIsTrue, OneHand, Beyond, Marked
<1>2. ASSUME NEW s \in Investors, CheckDeposit(s) \/ BindDebit(s) PROVE InvestInv'
  BY <1>2, BindDebitKeeps
<1>3. ASSUME NEW s \in Investors,
             \/ PlanContribution(s) \/ InsertContribution(s) \/ PostContribution(s)
             \/ AnswerContribution(s) \/ ReviewContribution(s) \/ AuthorizationDone(s)
             \/ PollPayment(s) \/ WritePaymentStatus(s) \/ MatchDebit(s)
      PROVE  InvestInv'
  BY <1>3, PlanKeeps, InsertKeeps, AskBankKeeps, AnswerKeeps, TakeUpKeeps, WritePaymentKeeps
<1>4. ASSUME NEW s \in Investors,
             \/ KeepCash(s) \/ PrepareTrade(s) \/ SubmitTrade(s) \/ DeferBuy(s) \/ PlaceOrder(s)
             \/ NoteOrder(s) \/ TraceOrder(s) \/ WriteTrace(s) \/ CrashInvestor(s)
      PROVE  InvestInv'
  BY <1>4, AnswerKeeps, PrepareTradeKeeps, SubmitTradeKeeps, PlaceOrderKeeps, NoteOrderKeeps,
     TraceOrderKeeps, CrashInvestorKeeps
<1> QED BY <1>1, <1>2, <1>3, <1>4, OutsideKeeps DEF InvestmentNext

LEMMA InvestAlways == ASSUME InvestmentAssumption PROVE InvestmentSpec => []InvestInv
<1>1. InvestmentInit => InvestInv
  BY InvestInitInv
<1>2. InvestInv /\ [InvestmentNext]_investmentVars => InvestInv'
  BY InvestStepKeeps
<1> QED BY <1>1, <1>2, PTL DEF InvestmentSpec

\* Contributions, their evidence and what the passes hold of them have their types.
THEOREM InvestmentTypes == ASSUME InvestmentAssumption PROVE InvestmentSpec => []InvestmentTypeOK
<1>1. InvestInv => InvestmentTypeOK
  BY DEF InvestInv, InvestTypes, InvestmentTypeOK, ContributionRows, InvestorRows, OrderCounts
<1> QED BY <1>1, InvestAlways, PTL

\* A contribution is invested once, however its order is lost, shown late or retried,
\* unless two passes had it in hand at once; and it is shown invested only after an order.
THEOREM ContributionInvestedOnce ==
  ASSUME InvestmentAssumption PROVE InvestmentSpec => []InvestedOnce
<1>1. InvestInv => InvestedOnce
  BY DEF InvestInv, RowIsTrue, OneHand, InvestedOnce
<1> QED BY <1>1, InvestAlways, PTL

(***************************************************************************)
(* Decisions                                                               *)
(***************************************************************************)

Versions == 1 .. DraftLimit
Verdicts == {"queued", "failed", "refused", "declined"}
PickRows == [verdict : Verdicts, was : ProposalCases, draft : Versions, shown : Versions]
PickLists == UNION {[D -> PickRows] : D \in SUBSET Proposals}
DeciderPlaces == {"idle", "authorizing", "declining", "sweeping"}
DeciderRows == [pc : DeciderPlaces, todo : SUBSET Proposals, picks : PickLists]
PlanRows == [by : {"owner", "standing"}, draft : Versions]

AuthTypes ==
  /\ case \in [Proposals -> ProposalCases]
  /\ draft \in [Proposals -> Versions]
  /\ replyPlan \in [Proposals -> PlanRows \cup {NoPlan}]
  /\ \A p \in Proposals : replyPlan[p] # NoPlan => replyPlan[p].draft <= draft[p]
  /\ uses \in Nat /\ crowded \in BOOLEAN
  /\ decider \in [Deciders -> DeciderRows]
  /\ granted \subseteq Proposals \X Versions
  /\ declined \subseteq Proposals /\ crossed \subseteq Proposals

\* What a session has in hand waited for a decision when it was read. The owner decides
\* on the text that he was shown.
PickIsFine(at, p) ==
  /\ at.picks[p].was.approval
  /\ at.picks[p].draft <= draft[p]
  /\ at.pc = "authorizing" => /\ at.picks[p].verdict \in {"queued", "refused"}
                              /\ at.picks[p].draft = at.picks[p].shown
  /\ at.pc = "declining" => at.picks[p].verdict = "declined"
  /\ at.pc = "sweeping" => at.picks[p].verdict \in {"queued", "failed"}
DeciderIsFine(at) ==
  /\ at.pc = "idle" => DOMAIN at.picks = {}
  /\ \A p \in DOMAIN at.picks : PickIsFine(at, p)

\* What is decided does not wait, and is decided one way, unless sessions crossed.
Decided(p) == replyPlan[p] # NoPlan \/ p \in declined
DecisionIsFine(p) ==
  /\ p \notin crossed /\ Decided(p) => ~case[p].approval
  /\ p \in declined /\ replyPlan[p] # NoPlan => p \in crossed
  /\ replyPlan[p].by = "owner" => <<p, replyPlan[p].draft>> \in granted

\* One cycle at a time counts its own uses with those of the day.
QueuedBy(picks) == {p \in DOMAIN picks : picks[p].verdict = "queued"}
CapIsKept ==
  /\ uses <= DailyUses
  /\ \A s, t \in Deciders : decider[s].pc = "sweeping" /\ decider[t].pc = "sweeping" => s = t
  /\ \A s \in Deciders : decider[s].pc = "sweeping" => Usage(decider[s].picks) <= DailyUses

AuthInv ==
  /\ AuthTypes
  /\ \A s \in Deciders : DeciderIsFine(decider[s])
  /\ \A p \in Proposals : DecisionIsFine(p)
  /\ ~crowded => CapIsKept

LEMMA PickListsAre ==
  /\ \A f \in PickLists : DOMAIN f \subseteq Proposals /\ f \in [DOMAIN f -> PickRows]
  /\ \A D \in SUBSET Proposals : \A f \in [D -> PickRows] : f \in PickLists /\ DOMAIN f = D
BY DEF PickLists

LEMMA VersionsAre ==
  /\ \A v \in Versions : v \in Nat /\ 1 <= v /\ v <= DraftLimit
  /\ AuthorizationAssumption => 1 \in Versions
BY DEF Versions, AuthorizationAssumption

LEMMA OffIsRow == Off \in DeciderRows /\ Off.pc = "idle" /\ DOMAIN Off.picks = {}
<1>1. NoPicks \in [{} -> PickRows] /\ DOMAIN NoPicks = {}
  BY DEF NoPicks
<1>2. NoPicks \in PickLists
  BY <1>1, PickListsAre
<1> QED BY <1>1, <1>2 DEF Off, DeciderRows, DeciderPlaces

LEMMA UsageIsCounted ==
  ASSUME AuthorizationAssumption, NEW picks \in PickLists
  PROVE  /\ QueuedBy(picks) \subseteq Proposals /\ IsFiniteSet(QueuedBy(picks))
         /\ Cardinality(QueuedBy(picks)) \in Nat
         /\ Usage(picks) = uses + Cardinality(QueuedBy(picks))
<1>1. QueuedBy(picks) \subseteq Proposals
  BY PickListsAre DEF QueuedBy
<1>2. IsFiniteSet(QueuedBy(picks))
  BY <1>1, FS_Subset DEF AuthorizationAssumption
<1> QED BY <1>1, <1>2, FS_CardinalityType DEF Usage, QueuedBy

LEMMA NothingPicked ==
  ASSUME AuthorizationAssumption, NEW picks \in PickLists, DOMAIN picks = {}, uses \in Nat
  PROVE  Usage(picks) = uses
<1>1. QueuedBy(picks) = {}
  BY DEF QueuedBy
<1> QED BY <1>1, UsageIsCounted, FS_EmptySet

LEMMA AuthInitInv == ASSUME AuthorizationAssumption, AuthorizationInit PROVE AuthInv
<1>1. Undecided \in ProposalCases /\ 1 \in Versions
  BY VersionsAre DEF Undecided, ProposalCases, OpenTasks
<1>2. /\ \A p \in Proposals : replyPlan[p] = NoPlan
      /\ \A s \in Deciders : decider[s] = Off
      /\ uses = 0 /\ declined = {}
  BY DEF AuthorizationInit
<1>3. AuthTypes
  <2>1. decider \in [Deciders -> DeciderRows]
    BY OffIsRow DEF AuthorizationInit
  <2>2. case \in [Proposals -> ProposalCases] /\ draft \in [Proposals -> Versions]
    BY <1>1 DEF AuthorizationInit
  <2>3. replyPlan \in [Proposals -> PlanRows \cup {NoPlan}]
    BY DEF AuthorizationInit
  <2>4. uses \in Nat /\ crowded \in BOOLEAN /\ granted = {} /\ crossed = {} /\ declined = {}
    BY DEF AuthorizationInit
  <2> QED BY <1>2, <2>1, <2>2, <2>3, <2>4 DEF AuthTypes
<1>4. \A s \in Deciders : DeciderIsFine(decider[s])
  BY <1>2, OffIsRow DEF DeciderIsFine
<1>5. \A p \in Proposals : DecisionIsFine(p)
  BY <1>2 DEF DecisionIsFine, Decided, NoPlan
<1>6. CapIsKept
  BY <1>2, OffIsRow DEF CapIsKept, AuthorizationAssumption
<1> QED BY <1>3, <1>4, <1>5, <1>6 DEF AuthInv

LEMMA PickIsRow ==
  ASSUME AuthorizationAssumption, AuthInv, NEW p \in Proposals,
         NEW verdict \in Verdicts, NEW text \in Versions
  PROVE  /\ Pick(p, verdict, text) \in PickRows
         /\ Pick(p, verdict, text).verdict = verdict
         /\ Pick(p, verdict, text).was = case[p]
         /\ Pick(p, verdict, text).draft = draft[p]
         /\ Pick(p, verdict, text).shown = text
BY DEF Pick, PickRows, AuthInv, AuthTypes

\* A session that goes on; nothing is committed.
LEMMA DeciderGoesOn ==
  ASSUME AuthorizationAssumption, AuthInv, NEW s \in Deciders, NEW new \in DeciderRows,
         decider' = [decider EXCEPT ![s] = new], DeciderIsFine(new),
         UNCHANGED <<case, draft, replyPlan, uses, granted, declined, crossed>>,
         crowded' \in BOOLEAN, crowded => crowded',
         new.pc = "sweeping" /\ ~crowded'
           => /\ \A o \in Deciders \ {s} : decider[o].pc # "sweeping"
              /\ Usage(new.picks) <= DailyUses
  PROVE  AuthInv'
<1>1. /\ decider' \in [Deciders -> DeciderRows] /\ decider'[s] = new
      /\ \A o \in Deciders \ {s} : decider'[o] = decider[o]
  BY DEF AuthInv, AuthTypes
<1>2. AuthTypes'
  BY <1>1 DEF AuthInv, AuthTypes
<1>3. \A o \in Deciders : DeciderIsFine(decider[o])'
  BY <1>1 DEF AuthInv, DeciderIsFine, PickIsFine
<1>4. \A p \in Proposals : DecisionIsFine(p)'
  BY DEF AuthInv, DecisionIsFine, Decided
<1>5. ASSUME ~crowded' PROVE CapIsKept'
  <2>1. CapIsKept
    BY <1>5 DEF AuthInv
  <2>2. \A picks : Usage(picks)' = Usage(picks)
    BY DEF Usage
  <2>3. ASSUME NEW o \in Deciders, decider'[o].pc = "sweeping"
        PROVE  Usage(decider'[o].picks) <= DailyUses
    BY <1>1, <1>5, <2>1, <2>3 DEF CapIsKept
  <2>4. \A o, t \in Deciders : decider'[o].pc = "sweeping" /\ decider'[t].pc = "sweeping" => o = t
    BY <1>1, <1>5, <2>1 DEF CapIsKept
  <2>5. \A o \in Deciders : Usage(decider[o].picks)' = Usage(decider'[o].picks)
    BY DEF Usage
  <2> QED BY <2>1, <2>3, <2>4, <2>5 DEF CapIsKept
<1> QED BY <1>2, <1>3, <1>4, <1>5 DEF AuthInv

LEMMA AnswerViewKeeps ==
  ASSUME AuthorizationAssumption, AuthInv, NEW s \in Deciders, NEW p \in Proposals,
         NEW version \in 1 .. DraftLimit, Authorize(s, p, version) \/ Decline(s, p, version)
  PROVE  AuthInv'
<1>1. PICK pc \in {"authorizing", "declining"}, verdict \in {"queued", "refused", "declined"} :
        /\ decider' = [decider EXCEPT ![s] =
             [pc |-> pc, todo |-> {}, picks |-> [q \in {p} |-> Pick(p, verdict, version)]]]
        /\ verdict = "declined" <=> pc = "declining"
  BY DEF Authorize, Decline
<1>2. /\ UNCHANGED <<case, draft, replyPlan, uses, granted, declined, crossed, crowded>>
      /\ case[p].approval /\ version = draft[p] /\ version \in Versions
  BY DEF Authorize, Decline, CurrentView, Awaits, Versions
<1> DEFINE pick == Pick(p, verdict, version)
           picks == [q \in {p} |-> pick]
           new == [pc |-> pc, todo |-> {}, picks |-> picks]
<1>3. /\ pick \in PickRows /\ pick.verdict = verdict /\ pick.was = case[p]
      /\ pick.draft = version /\ pick.shown = version
  BY <1>2, PickIsRow DEF Verdicts
<1>4. decider' = [decider EXCEPT ![s] = new]
  BY <1>1
<1> HIDE DEF pick
<1>5. DOMAIN picks = {p} /\ picks[p] = pick /\ picks \in PickLists
  BY <1>3, PickListsAre
<1> HIDE DEF picks
<1>6. new \in DeciderRows /\ new.pc = pc /\ new.picks = picks
  BY <1>5 DEF DeciderRows, DeciderPlaces
<1> HIDE DEF new
<1>7. draft[p] \in Nat /\ crowded \in BOOLEAN
  BY VersionsAre DEF AuthInv, AuthTypes
<1>8. PickIsFine(new, p)
  BY <1>1, <1>2, <1>3, <1>5, <1>6, <1>7 DEF PickIsFine
<1>9. DeciderIsFine(new)
  BY <1>5, <1>6, <1>8 DEF DeciderIsFine
<1> QED BY <1>2, <1>4, <1>6, <1>7, <1>9, DeciderGoesOn

LEMMA StartSweepKeeps ==
  ASSUME AuthorizationAssumption, AuthInv, NEW s \in Deciders,
         StartSweep(s) \/ DeciderDies(s)
  PROVE  AuthInv'
<1>1. /\ UNCHANGED <<case, draft, replyPlan, uses, granted, declined, crossed>>
      /\ uses \in Nat /\ crowded \in BOOLEAN
  BY DEF StartSweep, DeciderDies, AuthInv, AuthTypes
<1>2. CASE DeciderDies(s)
  <2>1. decider' = [decider EXCEPT ![s] = Off] /\ crowded' = crowded
    BY <1>2 DEF DeciderDies
  <2>2. DeciderIsFine(Off)
    BY OffIsRow DEF DeciderIsFine
  <2> QED BY <1>1, <2>1, <2>2, OffIsRow, DeciderGoesOn
<1>3. CASE StartSweep(s)
  <2> DEFINE todo == {p \in Proposals : case[p].objective = "needs_user"}
             new == [pc |-> "sweeping", todo |-> todo, picks |-> NoPicks]
  <2>1. NoPicks \in PickLists /\ DOMAIN NoPicks = {}
    BY OffIsRow DEF Off, DeciderRows
  <2>2. new \in DeciderRows /\ new.pc = "sweeping" /\ new.picks = NoPicks
    BY <2>1 DEF DeciderRows, DeciderPlaces
  <2>3. /\ decider' = [decider EXCEPT ![s] = new]
        /\ crowded' = (crowded \/ \E o \in Deciders : decider[o].pc = "sweeping")
    BY <1>3 DEF StartSweep
  <2> HIDE DEF new
  <2>4. DeciderIsFine(new)
    BY <2>1, <2>2 DEF DeciderIsFine
  <2>5. Usage(new.picks) = uses
    BY <1>1, <2>1, <2>2, NothingPicked
  <2>6. crowded' \in BOOLEAN /\ (crowded => crowded')
    BY <1>1, <2>3
  <2>7. ~crowded' => /\ \A o \in Deciders \ {s} : decider[o].pc # "sweeping"
                     /\ Usage(new.picks) <= DailyUses
    BY <1>1, <2>3, <2>5 DEF AuthInv, CapIsKept
  <2> QED BY <1>1, <2>2, <2>3, <2>4, <2>6, <2>7, DeciderGoesOn
<1> QED BY <1>2, <1>3

LEMMA ConsiderKeeps ==
  ASSUME AuthorizationAssumption, AuthInv, NEW s \in Deciders, Consider(s)
  PROVE  AuthInv'
<1> DEFINE d == decider[s]
<1>1. /\ UNCHANGED <<case, draft, replyPlan, uses, granted, declined, crossed, crowded>>
      /\ d \in DeciderRows /\ d.pc = "sweeping" /\ DeciderIsFine(d)
      /\ uses \in Nat /\ crowded \in BOOLEAN
      /\ ~crowded => CapIsKept
  BY DEF Consider, AuthInv, AuthTypes
<1>2. PICK p \in d.todo :
        \/ decider' = [decider EXCEPT ![s].todo = @ \ {p}]
        \/ /\ Awaits(p) /\ BelowCap(d.picks)
           /\ decider' = [decider EXCEPT ![s].todo = @ \ {p}, ![s].picks =
                [q \in DOMAIN d.picks \cup {p} |->
                   IF q = p THEN Pick(p, "queued", draft[p]) ELSE d.picks[q]]]
  BY DEF Consider
<1>3. p \in Proposals /\ d.picks \in PickLists /\ d.todo \subseteq Proposals
  BY <1>1 DEF DeciderRows
<1>4. CASE decider' = [decider EXCEPT ![s].todo = @ \ {p}]
  <2> DEFINE new == [d EXCEPT !.todo = @ \ {p}]
  <2>1. new \in DeciderRows /\ new.pc = d.pc /\ new.picks = d.picks
    BY <1>1 DEF DeciderRows
  <2>2. decider' = [decider EXCEPT ![s] = new]
    BY <1>4
  <2> HIDE DEF new
  <2>3. DeciderIsFine(new)
    BY <1>1, <2>1 DEF DeciderIsFine, PickIsFine
  <2>4. ~crowded' => /\ \A o \in Deciders \ {s} : decider[o].pc # "sweeping"
                     /\ Usage(new.picks) <= DailyUses
    BY <1>1, <2>1 DEF CapIsKept
  <2> QED BY <1>1, <2>1, <2>2, <2>3, <2>4, DeciderGoesOn
<1>5. CASE /\ Awaits(p) /\ BelowCap(d.picks)
           /\ decider' = [decider EXCEPT ![s].todo = @ \ {p}, ![s].picks =
                [q \in DOMAIN d.picks \cup {p} |->
                   IF q = p THEN Pick(p, "queued", draft[p]) ELSE d.picks[q]]]
  <2> DEFINE pick == Pick(p, "queued", draft[p])
             Picked == [q \in DOMAIN d.picks \cup {p} |-> IF q = p THEN pick ELSE d.picks[q]]
             new == [d EXCEPT !.todo = @ \ {p}, !.picks = Picked]
  <2>1. draft[p] \in Versions /\ draft[p] \in Nat /\ case[p].approval
    BY <1>3, <1>5, VersionsAre DEF AuthInv, AuthTypes, Awaits
  <2>2. /\ pick \in PickRows /\ pick.verdict = "queued" /\ pick.was = case[p]
        /\ pick.draft = draft[p]
    BY <1>3, <2>1, PickIsRow DEF Verdicts
  <2>3. decider' = [decider EXCEPT ![s].todo = @ \ {p}, ![s].picks = Picked]
    BY <1>5
  <2> HIDE DEF pick
  <2>4. /\ DOMAIN Picked = DOMAIN d.picks \cup {p} /\ Picked[p] = pick
        /\ \A q \in DOMAIN d.picks \ {p} : Picked[q] = d.picks[q]
    OBVIOUS
  <2>5. Picked \in PickLists
    <3>1. /\ DOMAIN d.picks \cup {p} \in SUBSET Proposals
          /\ d.picks \in [DOMAIN d.picks -> PickRows]
      BY <1>3, PickListsAre
    <3>2. Picked \in [DOMAIN d.picks \cup {p} -> PickRows]
      BY <2>2, <3>1
    <3> QED BY <3>1, <3>2, PickListsAre
  <2> HIDE DEF Picked
  <2>6. new \in DeciderRows /\ new.pc = "sweeping" /\ new.picks = Picked
    BY <1>1, <2>5 DEF DeciderRows
  <2>7. decider' = [decider EXCEPT ![s] = new]
    BY <1>1, <2>3 DEF AuthInv, AuthTypes
  <2> HIDE DEF new
  <2>8. PickIsFine(new, p)
    BY <2>1, <2>2, <2>4, <2>6 DEF PickIsFine
  <2>9. DeciderIsFine(new)
    BY <1>1, <2>4, <2>6, <2>8 DEF DeciderIsFine, PickIsFine
  <2>10. ASSUME ~crowded
         PROVE  /\ \A o \in Deciders \ {s} : decider[o].pc # "sweeping"
                /\ Usage(new.picks) <= DailyUses
    <3>1. QueuedBy(Picked) \subseteq QueuedBy(d.picks) \cup {p}
      BY <2>4 DEF QueuedBy
    <3>2. /\ IsFiniteSet(QueuedBy(d.picks)) /\ Cardinality(QueuedBy(d.picks)) \in Nat
          /\ Usage(d.picks) = uses + Cardinality(QueuedBy(d.picks))
      BY <1>3, UsageIsCounted
    <3>3. /\ IsFiniteSet(QueuedBy(d.picks) \cup {p})
          /\ Cardinality(QueuedBy(d.picks) \cup {p}) <= Cardinality(QueuedBy(d.picks)) + 1
          /\ Cardinality(QueuedBy(d.picks) \cup {p}) \in Nat
      <4> DEFINE Q == QueuedBy(d.picks)
      <4>1. IsFiniteSet(Q) /\ Cardinality(Q) \in Nat
        BY <3>2
      <4> HIDE DEF Q
      <4>2. /\ IsFiniteSet(Q \cup {p})
            /\ Cardinality(Q \cup {p}) = Cardinality(Q) \/ Cardinality(Q \cup {p}) = Cardinality(Q) + 1
        BY <4>1, FS_AddElement
      <4>3. /\ Cardinality(Q \cup {p}) <= Cardinality(Q) + 1
            /\ Cardinality(Q \cup {p}) \in Nat
        BY <4>1, <4>2
      <4> QED BY <4>2, <4>3 DEF Q
    <3>4. Cardinality(QueuedBy(Picked)) <= Cardinality(QueuedBy(d.picks) \cup {p})
      BY <3>1, <3>3, FS_Subset
    <3>5. /\ Usage(Picked) = uses + Cardinality(QueuedBy(Picked))
          /\ Cardinality(QueuedBy(Picked)) \in Nat
      BY <2>5, UsageIsCounted
    <3>6. Usage(d.picks) < DailyUses
      BY <1>5 DEF BelowCap
    <3>7. Usage(Picked) <= DailyUses
      BY <1>1, <3>2, <3>3, <3>4, <3>5, <3>6 DEF AuthorizationAssumption
    <3> QED BY <1>1, <2>6, <2>10, <3>7 DEF CapIsKept
  <2> QED BY <1>1, <2>6, <2>7, <2>9, <2>10, DeciderGoesOn
<1> QED BY <1>2, <1>4, <1>5

LEMMA QueueFailsKeeps ==
  ASSUME AuthorizationAssumption, AuthInv, NEW s \in Deciders, QueueFails(s)
  PROVE  AuthInv'
<1> DEFINE d == decider[s]
<1>1. /\ UNCHANGED <<case, draft, replyPlan, uses, granted, declined, crossed, crowded>>
      /\ d \in DeciderRows /\ d.pc = "sweeping" /\ DeciderIsFine(d)
      /\ d.picks \in PickLists
      /\ uses \in Nat /\ crowded \in BOOLEAN
      /\ ~crowded => CapIsKept
  BY DEF QueueFails, AuthInv, AuthTypes, DeciderRows
<1>2. PICK p \in DOMAIN d.picks : decider' = [decider EXCEPT ![s].picks[p].verdict = "failed"]
  BY DEF QueueFails
<1> DEFINE pick == [d.picks[p] EXCEPT !.verdict = "failed"]
           picks == [d.picks EXCEPT ![p] = pick]
           new == [d EXCEPT !.picks = picks]
<1>3. /\ d.picks \in [DOMAIN d.picks -> PickRows] /\ DOMAIN d.picks \in SUBSET Proposals
  BY <1>1, PickListsAre
<1>4. /\ pick \in PickRows /\ pick.verdict = "failed" /\ pick.was = d.picks[p].was
      /\ pick.draft = d.picks[p].draft
  BY <1>2, <1>3 DEF PickRows, Verdicts
<1>5. decider' = [decider EXCEPT ![s] = new]
  BY <1>2
<1> HIDE DEF pick
<1>6. /\ picks \in [DOMAIN d.picks -> PickRows] /\ picks[p] = pick
      /\ \A q \in DOMAIN d.picks \ {p} : picks[q] = d.picks[q]
  BY <1>2, <1>3, <1>4
<1> HIDE DEF picks
<1>7. picks \in PickLists /\ DOMAIN picks = DOMAIN d.picks
  BY <1>3, <1>6, PickListsAre
<1>8. new \in DeciderRows /\ new.pc = "sweeping" /\ new.picks = picks
  BY <1>1, <1>7 DEF DeciderRows
<1> HIDE DEF new
<1>9. DeciderIsFine(new)
  BY <1>1, <1>4, <1>6, <1>7, <1>8 DEF DeciderIsFine, PickIsFine
<1>10. ASSUME ~crowded
       PROVE  /\ \A o \in Deciders \ {s} : decider[o].pc # "sweeping"
              /\ Usage(new.picks) <= DailyUses
  <2>1. QueuedBy(picks) \subseteq QueuedBy(d.picks)
    BY <1>4, <1>6, <1>7 DEF QueuedBy
  <2>2. /\ IsFiniteSet(QueuedBy(d.picks)) /\ Cardinality(QueuedBy(d.picks)) \in Nat
        /\ Usage(d.picks) = uses + Cardinality(QueuedBy(d.picks))
    BY <1>1, UsageIsCounted
  <2>3. Usage(picks) = uses + Cardinality(QueuedBy(picks)) /\ Cardinality(QueuedBy(picks)) \in Nat
    BY <1>7, UsageIsCounted
  <2>4. Cardinality(QueuedBy(picks)) <= Cardinality(QueuedBy(d.picks))
    BY <2>1, <2>2, FS_Subset
  <2>5. Usage(d.picks) <= DailyUses /\ \A o \in Deciders \ {s} : decider[o].pc # "sweeping"
    BY <1>1, <1>10 DEF CapIsKept
  <2>6. Usage(picks) <= DailyUses
    BY <1>1, <2>2, <2>3, <2>4, <2>5 DEF AuthorizationAssumption
  <2> QED BY <1>8, <2>5, <2>6
<1> QED BY <1>1, <1>5, <1>8, <1>9, <1>10, DeciderGoesOn

\* What a commit writes to the proposal of a pick: it never waits again once it did
\* not, and what was queued or declined waits no more.
LEMMA CommittedCase ==
  ASSUME NEW verdict \in Verdicts, NEW was \in ProposalCases, NEW now \in ProposalCases,
         was.approval
  PROVE  LET new == After(verdict, was)
             entry == [c \in DOMAIN new |-> IF new[c] # was[c] THEN new[c] ELSE now[c]]
         IN  /\ entry \in ProposalCases
             /\ entry.approval => now.approval
             /\ verdict \in {"queued", "declined"} => ~entry.approval
<1> DEFINE new == After(verdict, was)
           entry == [c \in DOMAIN new |-> IF new[c] # was[c] THEN new[c] ELSE now[c]]
<1>1. /\ new \in ProposalCases
      /\ verdict \in {"queued", "declined"} => ~new.approval
  BY DEF After, ProposalCases, Verdicts, OpenTasks
<1> HIDE DEF new
<1>2. /\ DOMAIN new = {"objective", "task", "approval"}
  BY <1>1 DEF ProposalCases
<1>3. /\ DOMAIN entry = {"objective", "task", "approval"} /\ entry = [c \in DOMAIN entry |-> entry[c]]
      /\ entry["objective"] = IF new.objective # was.objective THEN new.objective ELSE now.objective
      /\ entry["task"] = IF new.task # was.task THEN new.task ELSE now.task
      /\ entry["approval"] = IF new.approval # was.approval THEN new.approval ELSE now.approval
  BY <1>2
<1> HIDE DEF entry
<1>4. entry \in ProposalCases
  <2>1. /\ entry["objective"] \in {"needs_user", "cancelled", "blocked"}
        /\ entry["task"] \in OpenTasks \cup {"cancelled"} /\ entry["approval"] \in BOOLEAN
    BY <1>1, <1>3 DEF ProposalCases
  <2> QED BY <1>3, <2>1 DEF ProposalCases
<1>5. entry.approval <=> IF new.approval # was.approval THEN new.approval ELSE now.approval
  <2>1. entry.approval = entry["approval"]
    OBVIOUS
  <2> QED BY <1>3, <2>1
<1>6. new.approval \in BOOLEAN /\ was.approval \in BOOLEAN /\ now.approval \in BOOLEAN
  BY <1>1 DEF ProposalCases
<1>7. /\ entry.approval => now.approval
      /\ verdict \in {"queued", "declined"} => ~entry.approval
  BY <1>1, <1>5, <1>6
<1> QED BY <1>4, <1>7 DEF new, entry

\* What a commit leaves behind.
LEMMA PicksCommitted ==
  ASSUME AuthorizationAssumption, AuthInv, NEW s \in Deciders, NEW by \in {"owner", "standing"},
         CommitPicks(s, by)
  PROVE  LET picks == decider[s].picks IN
         /\ case' \in [Proposals -> ProposalCases]
         /\ \A p \in Proposals : case'[p].approval => case[p].approval
         /\ \A p \in DOMAIN picks :
              /\ picks[p].verdict \in {"queued", "declined"} => ~case'[p].approval
              /\ p \notin crossed' => case[p].approval
         /\ crossed \subseteq crossed' /\ crossed' \subseteq Proposals
         /\ replyPlan' \in [Proposals -> PlanRows \cup {NoPlan}]
         /\ \A p \in Proposals :
              \/ replyPlan'[p] = replyPlan[p]
              \/ /\ p \in DOMAIN picks /\ picks[p].verdict = "queued" /\ replyPlan[p] = NoPlan
                 /\ replyPlan'[p] = [by |-> by, draft |-> picks[p].draft]
         /\ uses' = IF by = "standing" THEN uses + Cardinality(QueuedBy(picks)) ELSE uses
<1> DEFINE picks == decider[s].picks
           IsQueued(p) == p \in DOMAIN picks /\ picks[p].verdict = "queued"
<1>1. /\ picks \in PickLists /\ DeciderIsFine(decider[s])
      /\ case \in [Proposals -> ProposalCases] /\ crossed \subseteq Proposals
      /\ replyPlan \in [Proposals -> PlanRows \cup {NoPlan}]
  BY DEF AuthInv, AuthTypes, DeciderRows
<1>2. /\ DOMAIN picks \subseteq Proposals
      /\ \A p \in DOMAIN picks : picks[p] \in PickRows /\ picks[p].was.approval
  BY <1>1, PickListsAre DEF DeciderIsFine, PickIsFine
<1>3. case' = [p \in Proposals |->
          IF p \notin DOMAIN picks THEN case[p]
          ELSE LET new == After(picks[p].verdict, picks[p].was) IN
               [c \in DOMAIN new |-> IF new[c] # picks[p].was[c] THEN new[c] ELSE case[p][c]]]
  BY DEF CommitPicks
<1>4. /\ replyPlan' = [p \in Proposals |->
          IF IsQueued(p) /\ replyPlan[p] = NoPlan THEN [by |-> by, draft |-> picks[p].draft]
          ELSE replyPlan[p]]
      /\ uses' = IF by = "standing" THEN uses + Cardinality({p \in Proposals : IsQueued(p)})
                 ELSE uses
      /\ crossed' = crossed \cup {p \in DOMAIN picks : case[p] # picks[p].was}
  BY DEF CommitPicks
<1> HIDE DEF picks
<1>5. ASSUME NEW p \in DOMAIN picks
      PROVE  /\ case'[p] \in ProposalCases
             /\ case'[p].approval => case[p].approval
             /\ picks[p].verdict \in {"queued", "declined"} => ~case'[p].approval
  <2>1. /\ p \in Proposals /\ picks[p].verdict \in Verdicts /\ picks[p].was \in ProposalCases
        /\ case[p] \in ProposalCases /\ picks[p].was.approval
    BY <1>1, <1>2 DEF PickRows
  <2> DEFINE verdict == picks[p].verdict
             was == picks[p].was
             now == case[p]
             entry == LET new == After(verdict, was) IN
                    [c \in DOMAIN new |-> IF new[c] # was[c] THEN new[c] ELSE now[c]]
  <2>2. case'[p] = entry
    BY <1>3, <2>1
  <2>3. /\ entry \in ProposalCases
        /\ entry.approval => now.approval
        /\ verdict \in {"queued", "declined"} => ~entry.approval
    BY <2>1, CommittedCase
  <2> HIDE DEF entry
  <2> QED BY <2>2, <2>3
<1>6. \A p \in Proposals \ DOMAIN picks : case'[p] = case[p]
  BY <1>3
<1>7. case' \in [Proposals -> ProposalCases]
  <2>1. \A p \in Proposals : case'[p] \in ProposalCases
    BY <1>1, <1>5, <1>6
  <2>2. case' = [p \in Proposals |-> case'[p]]
    BY <1>3
  <2> QED BY <2>1, <2>2
<1>8. \A p \in Proposals : case'[p].approval => case[p].approval
  BY <1>5, <1>6
<1>9. \A p \in DOMAIN picks : p \notin crossed' => case[p].approval
  BY <1>2, <1>4
<1>10. crossed \subseteq crossed' /\ crossed' \subseteq Proposals
  BY <1>1, <1>2, <1>4
<1>11. /\ replyPlan' \in [Proposals -> PlanRows \cup {NoPlan}]
       /\ \A p \in Proposals :
              \/ replyPlan'[p] = replyPlan[p]
              \/ /\ p \in DOMAIN picks /\ picks[p].verdict = "queued" /\ replyPlan[p] = NoPlan
                 /\ replyPlan'[p] = [by |-> by, draft |-> picks[p].draft]
  <2>1. \A p \in DOMAIN picks : [by |-> by, draft |-> picks[p].draft] \in PlanRows
    BY <1>2 DEF PickRows, PlanRows
  <2> QED BY <1>1, <1>4, <2>1
<1>12. {p \in Proposals : IsQueued(p)} = QueuedBy(picks)
  BY <1>2 DEF QueuedBy
<1>13. uses' = IF by = "standing" THEN uses + Cardinality(QueuedBy(picks)) ELSE uses
  BY <1>4, <1>12
<1> QED BY <1>5, <1>7, <1>8, <1>9, <1>10, <1>11, <1>13 DEF picks

\* A session commits its picks and has none any more.
LEMMA CommitKeeps ==
  ASSUME AuthorizationAssumption, AuthInv, NEW s \in Deciders, NEW by \in {"owner", "standing"},
         CommitPicks(s, by), NEW new \in DeciderRows, decider' = [decider EXCEPT ![s] = new],
         new.pc = "idle" \/ (new.pc = "sweeping" /\ decider[s].pc = "sweeping"),
         DOMAIN new.picks = {}, UNCHANGED <<draft, crowded>>,
         by = "standing" => decider[s].pc = "sweeping",
         granted \subseteq granted', granted' \subseteq Proposals \X Versions,
         by = "owner" => \A p \in DOMAIN decider[s].picks :
            decider[s].picks[p].verdict = "queued"
              => <<p, decider[s].picks[p].draft>> \in granted',
         declined' \subseteq Proposals,
         \A p \in declined' : \/ p \in declined
                              \/ /\ p \in DOMAIN decider[s].picks
                                 /\ decider[s].picks[p].verdict = "declined"
  PROVE  AuthInv'
<1> DEFINE picks == decider[s].picks
<1>1. /\ case' \in [Proposals -> ProposalCases]
      /\ \A p \in Proposals : case'[p].approval => case[p].approval
      /\ \A p \in DOMAIN picks :
           /\ picks[p].verdict \in {"queued", "declined"} => ~case'[p].approval
           /\ p \notin crossed' => case[p].approval
      /\ crossed \subseteq crossed' /\ crossed' \subseteq Proposals
      /\ replyPlan' \in [Proposals -> PlanRows \cup {NoPlan}]
      /\ \A p \in Proposals :
           \/ replyPlan'[p] = replyPlan[p]
           \/ /\ p \in DOMAIN picks /\ picks[p].verdict = "queued" /\ replyPlan[p] = NoPlan
              /\ replyPlan'[p] = [by |-> by, draft |-> picks[p].draft]
  BY PicksCommitted
<1>2. uses' = IF by = "standing" THEN uses + Cardinality(QueuedBy(picks)) ELSE uses
  BY PicksCommitted
<1>3. /\ decider' \in [Deciders -> DeciderRows] /\ decider'[s] = new
      /\ \A o \in Deciders \ {s} : decider'[o] = decider[o]
  BY DEF AuthInv, AuthTypes
<1>4. /\ picks \in PickLists /\ DeciderIsFine(decider[s]) /\ uses \in Nat
      /\ new.picks \in PickLists
      /\ \A p \in DOMAIN picks : PickIsFine(decider[s], p)
  BY DEF AuthInv, AuthTypes, DeciderRows, DeciderIsFine
<1>5. /\ Cardinality(QueuedBy(picks)) \in Nat
      /\ Usage(picks) = uses + Cardinality(QueuedBy(picks))
  BY <1>4, UsageIsCounted
<1>6. uses' \in Nat
  BY <1>2, <1>4, <1>5
<1>7. AuthTypes'
  <2>1. \A p \in Proposals : replyPlan'[p] # NoPlan => replyPlan'[p].draft <= draft'[p]
    BY <1>1, <1>4 DEF AuthInv, AuthTypes, PickIsFine
  <2> QED BY <1>1, <1>3, <1>6, <2>1 DEF AuthInv, AuthTypes
<1>8. \A o \in Deciders : DeciderIsFine(decider[o])'
  <2>1. DeciderIsFine(decider[s])'
    BY <1>3 DEF DeciderIsFine
  <2>2. \A o \in Deciders \ {s} : DeciderIsFine(decider[o])'
    BY <1>3 DEF AuthInv, DeciderIsFine, PickIsFine
  <2> QED BY <2>1, <2>2
<1>9. ASSUME NEW p \in Proposals PROVE DecisionIsFine(p)'
  <2>1. DecisionIsFine(p)
    BY DEF AuthInv
  <2>2. p \notin crossed' /\ Decided(p)' => ~case'[p].approval
    BY <1>1, <2>1 DEF DecisionIsFine, Decided
  <2>3. p \in declined' /\ replyPlan'[p] # NoPlan => p \in crossed'
    BY <1>1, <2>1 DEF DecisionIsFine, Decided
  <2>4. replyPlan'[p].by = "owner" => <<p, replyPlan'[p].draft>> \in granted'
    BY <1>1, <2>1 DEF DecisionIsFine
  <2> QED BY <2>2, <2>3, <2>4 DEF DecisionIsFine
<1>10. ASSUME ~crowded' PROVE CapIsKept'
  <2>1. CapIsKept
    BY <1>10 DEF AuthInv
  <2>2. uses' <= DailyUses
    BY <1>2, <1>5, <2>1 DEF CapIsKept
  <2>3. \A o, t \in Deciders : decider'[o].pc = "sweeping" /\ decider'[t].pc = "sweeping" => o = t
    BY <1>3, <2>1 DEF CapIsKept
  <2>4. ASSUME NEW o \in Deciders, decider'[o].pc = "sweeping"
        PROVE  Usage(decider[o].picks)' <= DailyUses
    <3>1. CASE o = s
      <4>1. QueuedBy(decider[o].picks)' = {}
        BY <1>3, <3>1 DEF QueuedBy
      <4>2. {p \in DOMAIN decider'[o].picks : decider'[o].picks[p].verdict = "queued"} = {}
        BY <1>3, <3>1
      <4>3. Usage(decider[o].picks)' = uses' + 0
        BY <4>2, FS_EmptySet DEF Usage
      <4> QED BY <1>6, <2>2, <4>3
    <3>2. CASE o # s
      <4>1. by = "owner" /\ decider'[o] = decider[o] /\ decider[o].pc = "sweeping"
        BY <1>3, <2>1, <2>4, <3>2 DEF CapIsKept
      <4>2. Usage(decider[o].picks) <= DailyUses /\ uses' = uses
        BY <1>2, <2>1, <4>1 DEF CapIsKept
      <4>3. Usage(decider[o].picks)' = Usage(decider[o].picks)
        BY <4>1, <4>2 DEF Usage
      <4> QED BY <4>2, <4>3
    <3> QED BY <3>1, <3>2
  <2> QED BY <2>2, <2>3, <2>4 DEF CapIsKept
<1> QED BY <1>7, <1>8, <1>9, <1>10 DEF AuthInv

LEMMA EndDecisionKeeps ==
  ASSUME AuthorizationAssumption, AuthInv, NEW s \in Deciders,
         EndAuthorize(s) \/ EndDecline(s)
  PROVE  AuthInv'
<1> DEFINE picks == decider[s].picks
<1>1. /\ CommitPicks(s, "owner") /\ decider' = [decider EXCEPT ![s] = Off]
      /\ UNCHANGED <<draft, crowded>>
      /\ decider[s].pc \in {"authorizing", "declining"}
  BY DEF EndAuthorize, EndDecline
<1>2. /\ picks \in PickLists /\ DeciderIsFine(decider[s])
      /\ granted \subseteq Proposals \X Versions /\ declined \subseteq Proposals
  BY DEF AuthInv, AuthTypes, DeciderRows
<1>3. /\ DOMAIN picks \subseteq Proposals
      /\ \A p \in DOMAIN picks : picks[p] \in PickRows /\ PickIsFine(decider[s], p)
  BY <1>2, PickListsAre DEF DeciderIsFine
<1>4. CASE EndAuthorize(s)
  <2>1. /\ granted' = granted \cup {<<p, picks[p].shown>> : p \in DOMAIN picks}
        /\ declined' = declined /\ decider[s].pc = "authorizing"
    BY <1>4 DEF EndAuthorize
  <2>2. \A p \in DOMAIN picks : /\ picks[p].draft = picks[p].shown
                                /\ picks[p].shown \in Versions
    BY <1>3, <2>1 DEF PickIsFine, PickRows
  <2>3. granted \subseteq granted' /\ granted' \subseteq Proposals \X Versions
    BY <1>2, <1>3, <2>1, <2>2
  <2>4. \A p \in DOMAIN picks : <<p, picks[p].draft>> \in granted'
    BY <2>1, <2>2
  <2> QED BY <1>1, <1>2, <2>1, <2>3, <2>4, OffIsRow, CommitKeeps
<1>5. CASE EndDecline(s)
  <2>1. /\ declined' = declined \cup DOMAIN picks
        /\ granted' = granted /\ decider[s].pc = "declining"
    BY <1>5 DEF EndDecline
  <2>2. \A p \in DOMAIN picks : picks[p].verdict = "declined"
    BY <1>3, <2>1 DEF PickIsFine
  <2>3. declined' \subseteq Proposals
    BY <1>2, <1>3, <2>1
  <2> QED BY <1>1, <1>2, <2>1, <2>2, <2>3, OffIsRow, CommitKeeps
<1> QED BY <1>4, <1>5

LEMMA CommitSweepKeeps ==
  ASSUME AuthorizationAssumption, AuthInv, NEW s \in Deciders, CommitSweep(s)
  PROVE  AuthInv'
<1> DEFINE d == decider[s]
           rest == [d EXCEPT !.picks = NoPicks]
<1>1. /\ CommitPicks(s, "standing") /\ d.pc = "sweeping"
      /\ decider' = [decider EXCEPT ![s] = IF d.todo = {} THEN Off ELSE rest]
      /\ UNCHANGED <<draft, granted, declined, crowded>>
  BY DEF CommitSweep
<1>2. d \in DeciderRows /\ NoPicks \in PickLists /\ DOMAIN NoPicks = {}
  BY OffIsRow DEF AuthInv, AuthTypes, Off, DeciderRows
<1>3. rest \in DeciderRows /\ rest.pc = "sweeping" /\ DOMAIN rest.picks = {}
  BY <1>1, <1>2 DEF DeciderRows
<1> HIDE DEF rest
<1>4. PICK new \in DeciderRows :
        /\ decider' = [decider EXCEPT ![s] = new] /\ DOMAIN new.picks = {}
        /\ new.pc \in {"idle", "sweeping"}
  BY <1>1, <1>3, OffIsRow
<1>5. granted \subseteq Proposals \X Versions /\ declined \subseteq Proposals
  BY DEF AuthInv, AuthTypes
<1> QED BY <1>1, <1>4, <1>5, CommitKeeps

LEMMA RedraftKeeps ==
  ASSUME AuthorizationAssumption, AuthInv, NEW p \in Proposals, Redraft(p)
  PROVE  AuthInv'
<1>1. /\ draft' = [draft EXCEPT ![p] = @ + 1] /\ draft[p] < DraftLimit
      /\ draft \in [Proposals -> Versions]
      /\ UNCHANGED <<case, replyPlan, uses, decider, granted, declined, crossed, crowded>>
  BY DEF Redraft, AuthInv, AuthTypes
<1>2. PICK n \in Nat : n = draft[p] /\ 1 <= n
  BY <1>1, VersionsAre
<1>3. draft' = [draft EXCEPT ![p] = n + 1] /\ n + 1 \in Versions
  BY <1>1, <1>2 DEF Versions, AuthorizationAssumption
<1>4. /\ draft' \in [Proposals -> Versions]
      /\ \A q \in Proposals : draft[q] \in Nat /\ draft'[q] \in Nat /\ draft[q] <= draft'[q]
  <2>1. draft' \in [Proposals -> Versions] /\ draft'[p] = n + 1
    BY <1>1, <1>3
  <2>2. ASSUME NEW q \in Proposals
        PROVE  draft[q] \in Nat /\ draft'[q] \in Nat /\ draft[q] <= draft'[q]
    <3>1. draft[q] \in Nat /\ draft'[q] \in Nat
      BY <1>1, <2>1, VersionsAre
    <3>2. CASE q = p
      BY <1>2, <2>1, <3>2
    <3>3. CASE q # p
      BY <1>1, <3>1, <3>3
    <3> QED BY <3>1, <3>2, <3>3
  <2> QED BY <2>1, <2>2
<1>5. AuthTypes'
  <2>1. ASSUME NEW q \in Proposals, replyPlan[q] # NoPlan PROVE replyPlan[q].draft <= draft'[q]
    <3>1. PICK m \in Nat : m = replyPlan[q].draft /\ m <= draft[q]
      BY <2>1, VersionsAre DEF AuthInv, AuthTypes, PlanRows
    <3> QED BY <1>4, <3>1
  <2> QED BY <1>1, <1>4, <2>1 DEF AuthInv, AuthTypes
<1>6. ASSUME NEW s \in Deciders PROVE DeciderIsFine(decider[s])'
  <2>1. /\ decider[s].picks \in PickLists /\ DeciderIsFine(decider[s])
    BY DEF AuthInv, AuthTypes, DeciderRows
  <2>2. ASSUME NEW q \in DOMAIN decider[s].picks PROVE decider[s].picks[q].draft <= draft'[q]
    <3>1. q \in Proposals /\ decider[s].picks[q] \in PickRows
      BY <2>1, PickListsAre
    <3>2. PICK m \in Nat : m = decider[s].picks[q].draft /\ m <= draft[q]
      BY <2>1, <3>1, VersionsAre DEF DeciderIsFine, PickIsFine, PickRows
    <3> QED BY <1>4, <3>1, <3>2
  <2> QED BY <1>1, <2>1, <2>2 DEF DeciderIsFine, PickIsFine
<1>7. \A q \in Proposals : DecisionIsFine(q)'
  BY <1>1 DEF AuthInv, DecisionIsFine, Decided
<1>8. ~crowded' => CapIsKept'
  BY <1>1 DEF AuthInv, CapIsKept, Usage
<1> QED BY <1>5, <1>6, <1>7, <1>8 DEF AuthInv

LEMMA AuthStepKeeps ==
  ASSUME AuthorizationAssumption, AuthInv, [AuthorizationNext]_authorizationVars PROVE AuthInv'
<1>1. CASE UNCHANGED authorizationVars
  BY <1>1 DEF authorizationVars, AuthInv, AuthTypes, DeciderIsFine, PickIsFine, DecisionIsFine,
              Decided, CapIsKept, Usage
<1>2. ASSUME NEW s \in Deciders, NEW p \in Proposals, NEW version \in 1 .. DraftLimit,
             Authorize(s, p, version) \/ Decline(s, p, version)
      PROVE  AuthInv'
  BY <1>2, AnswerViewKeeps
<1> QED BY <1>1, <1>2, EndDecisionKeeps, StartSweepKeeps, ConsiderKeeps, QueueFailsKeeps,
           CommitSweepKeeps, RedraftKeeps DEF AuthorizationNext

LEMMA AuthAlways == ASSUME AuthorizationAssumption PROVE AuthorizationSpec => []AuthInv
<1>1. AuthorizationInit => AuthInv
  BY AuthInitInv
<1>2. AuthInv /\ [AuthorizationNext]_authorizationVars => AuthInv'
  BY AuthStepKeeps
<1> QED BY <1>1, <1>2, PTL DEF AuthorizationSpec

\* Proposals, planned replies and what the sessions picked have their types.
THEOREM AuthorizationTypes ==
  ASSUME AuthorizationAssumption PROVE AuthorizationSpec => []AuthorizationTypeOK
<1>1. ASSUME AuthInv PROVE AuthorizationTypeOK
  <2>1. ASSUME NEW p \in Proposals, replyPlan[p] # NoPlan
        PROVE  replyPlan[p] \in [by : {"owner", "standing"}, draft : 1 .. draft[p]]
    <3>1. replyPlan[p] \in PlanRows /\ draft[p] \in Nat
      BY <1>1, <2>1, VersionsAre DEF AuthInv, AuthTypes
    <3>2. PICK m \in Nat : m = replyPlan[p].draft /\ 1 <= m /\ m <= draft[p]
      BY <1>1, <2>1, <3>1, VersionsAre DEF AuthInv, AuthTypes, PlanRows
    <3>3. replyPlan[p].draft \in 1 .. draft[p]
      BY <3>1, <3>2
    <3> QED BY <3>1, <3>3 DEF PlanRows
  <2>2. \A s \in Deciders :
          /\ decider[s].pc \in DeciderPlaces
          /\ decider[s].todo \subseteq Proposals /\ DOMAIN decider[s].picks \subseteq Proposals
    BY <1>1, PickListsAre DEF AuthInv, AuthTypes, DeciderRows
  <2> QED BY <1>1, <2>1, <2>2 DEF AuthInv, AuthTypes, AuthorizationTypeOK, Versions, DeciderPlaces
<1> QED BY <1>1, AuthAlways, PTL

\* A declined reply is not planned unless sessions crossed, the owner's word covers the
\* text that he was shown, and an authority is used no more often than he allowed
\* unless two cycles run at once: for any number of proposals, sessions and versions.
THEOREM DecisionsAreKept ==
  ASSUME AuthorizationAssumption PROVE AuthorizationSpec => []RepliesAreAsDecided
<1>1. ASSUME AuthInv PROVE RepliesAreAsDecided
  BY <1>1 DEF AuthInv, AuthTypes, DecisionIsFine, CapIsKept, RepliesAreAsDecided
<1> QED BY <1>1, AuthAlways, PTL

(***************************************************************************)
(* Conversations                                                           *)
(***************************************************************************)

Positions == DOMAIN plan
EarlierDone(p) == \A q \in Positions : q < p => plan[q].status = "completed"
AllSent == \A p \in Sends : plan[p].status = "completed"

\* A step runs after the earlier ones, a wait is not retried, and the attempts count the
\* messages: only the one of the last attempt may not be verified.
StepsAreFine ==
  /\ \A p \in Positions :
       /\ plan[p].status = "running" => EarlierDone(p)
       /\ plan[p].kind = "wait" => plan[p].status # "retry"
  /\ \A p \in Sends : /\ plan[p].chase <= chaser.tries
                      /\ plan[p].status # "completed" => plan[p].chase = chaser.tries
  /\ \A p, q \in Sends : plan[p].chase = plan[q].chase => p = q
  /\ chaser.tries <= ChaseLimit

\* A chase is due only when all messages went out and the limit is not reached.
ChaserIsFine ==
  chaser.status = "pending" \/ stage = "due" => AllSent /\ chaser.tries < ChaseLimit

\* A chase that the core is told of is the last attempt and has no message yet. The
\* stages that handle events have all of them in hand.
Dues == {e \in events : e[1] = "due"}
DuesAreFine ==
  /\ \A e \in Dues : e[2] = chaser.tries
  /\ Dues # {} => AllSent /\ \A p \in Sends : plan[p].chase < chaser.tries
  /\ stage \in {"events", "chases"} => Dues \subseteq batch
  /\ stage \in {"followups", "due", "execute", "executing", "verify"} => Dues = {}
  /\ batch # {} => stage \in {"events", "chases"}

\* Where the core waits or is about to, a chase or an answer will come.
Attended == chaser.status \in {"pending", "exhausted"} \/ events # {}
WaitsAreAttended ==
  /\ \A p \in Positions : plan[p].kind = "wait" =>
       /\ plan[p].status = "pending" /\ EarlierDone(p) => Attended
       /\ stage = "executing" /\ plan[p].status = "running" => Attended
  /\ objective = "waiting_external" => Attended

ObjTypes ==
  /\ objective \in ObjectiveStates /\ plan \in Seq(PlanSteps) /\ chaser \in Chasers
  /\ thread \in BOOLEAN
  /\ batch \subseteq events /\ events \subseteq CoreEvents
  /\ answers \in Nat /\ answers <= ReplyLimit
  /\ stage \in Stages

ObjInv ==
  /\ ObjTypes
  /\ StepsAreFine
  /\ ChaserIsFine
  /\ DuesAreFine
  /\ WaitsAreAttended
  /\ objective = "completed" => AllSent

LEMMA PlanIs ==
  ASSUME NEW steps \in Seq(PlanSteps)
  PROVE  /\ Len(steps) \in Nat /\ DOMAIN steps = 1 .. Len(steps)
         /\ \A p \in DOMAIN steps : steps[p] \in PlanSteps
BY LenProperties, ElementOfSeq

LEMMA NewStepIs ==
  ASSUME NEW kind \in {"send", "wait"}, NEW chase \in Nat
  PROVE  /\ NewStep(kind, chase) \in PlanSteps
         /\ NewStep(kind, chase).kind = kind /\ NewStep(kind, chase).status = "pending"
         /\ NewStep(kind, chase).chase = chase
BY DEF NewStep, PlanSteps, StepStates

LEMMA ObjInitInv == ASSUME ObjectiveAssumption, ObjectiveInit PROVE ObjInv
<1> DEFINE first == NewStep("send", 0)
           second == NewStep("wait", 0)
<1>1. /\ first \in PlanSteps /\ first.kind = "send" /\ first.status = "pending" /\ first.chase = 0
      /\ second \in PlanSteps /\ second.kind = "wait" /\ second.status = "pending"
  BY NewStepIs
<1>2. /\ plan = <<first, second>> /\ chaser = [status |-> "none", tries |-> 0]
      /\ objective = "planned" /\ events = {} /\ batch = {} /\ stage = "idle" /\ answers = 0
      /\ thread = FALSE
  BY DEF ObjectiveInit
<1> HIDE DEF first, second
<1>3. plan \in Seq(PlanSteps) /\ Positions = {1, 2} /\ plan[1] = first /\ plan[2] = second
  BY <1>1, <1>2 DEF Positions
<1>4. Sends = {1}
  BY <1>1, <1>3 DEF Sends, Positions
<1>5. ObjTypes
  <2>1. chaser \in Chasers
    BY <1>2 DEF Chasers
  <2>2. 0 <= ReplyLimit /\ objective \in ObjectiveStates /\ stage \in Stages
    BY <1>2 DEF ObjectiveAssumption, ObjectiveStates, Ongoing, Stages
  <2> QED BY <1>2, <1>3, <2>1, <2>2 DEF ObjTypes
<1>6. StepsAreFine
  BY <1>1, <1>2, <1>3, <1>4 DEF StepsAreFine, ObjectiveAssumption
<1>7. ~EarlierDone(2)
  BY <1>1, <1>3 DEF EarlierDone
<1>8. WaitsAreAttended
  BY <1>1, <1>2, <1>3, <1>7 DEF WaitsAreAttended
<1> QED BY <1>2, <1>5, <1>6, <1>8 DEF ObjInv, ChaserIsFine, DuesAreFine, Dues

\* A step that leaves the plan as it is.
LEMMA PlanStays ==
  ASSUME ObjInv, plan' = plan, chaser' \in Chasers, chaser'.tries = chaser.tries,
         chaser'.status = "pending" => chaser.status = "pending",
         stage' \in Stages, stage' = "due" => stage = "due" \/ chaser.status = "pending",
         stage' = "executing" => stage = "executing",
         thread' \in BOOLEAN, batch' \subseteq events', events' \subseteq CoreEvents,
         answers' \in Nat, answers' <= ReplyLimit, objective' = objective,
         Dues' \subseteq Dues, Attended => Attended',
         stage' \in {"events", "chases"} => Dues' \subseteq batch',
         stage' \in {"followups", "due", "execute", "executing", "verify"} => Dues' = {},
         batch' # {} => stage' \in {"events", "chases"}
  PROVE  ObjInv'
<1>1. ObjTypes'
  BY DEF ObjInv, ObjTypes
<1>2. /\ Positions' = Positions /\ Sends' = Sends /\ (AllSent' <=> AllSent)
      /\ \A p \in Positions : EarlierDone(p)' <=> EarlierDone(p)
  BY DEF Positions, Sends, AllSent, EarlierDone
<1>3. StepsAreFine' /\ ChaserIsFine'
  BY <1>2 DEF ObjInv, StepsAreFine, ChaserIsFine
<1>4. DuesAreFine'
  BY <1>2 DEF ObjInv, DuesAreFine
<1>5. WaitsAreAttended'
  BY <1>2 DEF ObjInv, WaitsAreAttended
<1> QED BY <1>1, <1>2, <1>3, <1>4, <1>5 DEF ObjInv

LEMMA EnterStageKeeps == ASSUME ObjInv, EnterStage \/ CoreDies PROVE ObjInv'
<1>1. /\ UNCHANGED <<objective, plan, chaser, thread, events, answers>>
      /\ ObjTypes /\ DuesAreFine
  BY DEF EnterStage, CoreDies, ObjInv
<1>2. Dues' = Dues /\ (Attended' <=> Attended)
  BY <1>1 DEF Dues, Attended
<1>3. /\ stage' \in Stages \ {"due", "executing"} /\ batch' \subseteq events
      /\ stage' \in {"events", "chases"} => Dues \subseteq batch'
      /\ stage' \in {"followups", "execute", "verify"} => Dues = {}
      /\ batch' # {} => stage' \in {"events", "chases"}
  <2>1. CASE CoreDies
    BY <2>1 DEF CoreDies, Stages
  <2>2. CASE EnterStage
    BY <1>1, <2>2 DEF EnterStage, DuesAreFine, Dues, Stages
  <2> QED BY <2>1, <2>2 DEF EnterStage, CoreDies
<1> QED BY <1>1, <1>2, <1>3, PlanStays DEF ObjTypes

LEMMA AnswerArrivesKeeps ==
  ASSUME ObjectiveAssumption, ObjInv, AnswerArrives PROVE ObjInv'
<1> DEFINE e == <<"answer", answers + 1>>
<1>1. /\ answers < ReplyLimit /\ answers' = answers + 1 /\ events' = events \cup {e}
      /\ chaser' = Cancelled /\ thread' = FALSE /\ UNCHANGED <<objective, plan, stage, batch>>
      /\ ObjTypes /\ DuesAreFine
  BY DEF AnswerArrives, ObjInv
<1>2. answers' \in Nat /\ answers' <= ReplyLimit /\ e \in CoreEvents /\ e[1] = "answer"
  BY <1>1 DEF ObjTypes, ObjectiveAssumption, CoreEvents
<1>3. /\ chaser' \in Chasers /\ chaser'.tries = chaser.tries
      /\ chaser'.status = "pending" => chaser.status = "pending"
  BY <1>1 DEF ObjTypes, Chasers, Cancelled
<1>4. Dues' = Dues
  BY <1>1, <1>2 DEF Dues
<1>5. Attended'
  BY <1>1 DEF Attended
<1> HIDE DEF e
<1> QED BY <1>1, <1>2, <1>3, <1>4, <1>5, PlanStays DEF ObjTypes, DuesAreFine

LEMMA ReadDueKeeps == ASSUME ObjInv, ReadDue PROVE ObjInv'
<1>1. /\ UNCHANGED <<objective, plan, chaser, thread, events, answers, batch>>
      /\ stage = "followups" /\ stage' = "due" /\ chaser.status = "pending"
      /\ ObjTypes /\ DuesAreFine
  BY DEF ReadDue, ObjInv
<1>2. Dues' = Dues /\ (Attended' <=> Attended)
  BY <1>1 DEF Dues, Attended
<1> QED BY <1>1, <1>2, PlanStays DEF ObjTypes, DuesAreFine, Stages

\* The next attempt is counted and the core is told of it.
LEMMA RecordDueKeeps == ASSUME ObjectiveAssumption, ObjInv, RecordDue PROVE ObjInv'
<1>1. PICK n \in Nat : n = chaser.tries
  BY DEF ObjInv, ObjTypes, Chasers
<1> DEFINE e == <<"due", n + 1>>
<1>2. /\ stage = "due" /\ chaser' = [status |-> "due", tries |-> n + 1]
      /\ events' = events \cup {e} /\ stage' = "chases" /\ batch' = events'
      /\ UNCHANGED <<objective, plan, thread, answers>>
      /\ ObjTypes /\ StepsAreFine /\ AllSent /\ n < ChaseLimit /\ Dues = {}
      /\ objective = "completed" => AllSent
      /\ WaitsAreAttended
  BY <1>1 DEF RecordDue, ObjInv, ChaserIsFine, DuesAreFine
<1>3. e \in CoreEvents /\ e[1] = "due" /\ e[2] = n + 1
  BY <1>2 DEF CoreEvents, ObjectiveAssumption
<1>4. chaser' \in Chasers /\ chaser'.status = "due" /\ chaser'.tries = n + 1
  BY <1>2 DEF Chasers
<1> HIDE DEF e
<1>5. Dues' = {e}
  BY <1>2, <1>3 DEF Dues
<1>6. ObjTypes'
  BY <1>2, <1>3, <1>4 DEF ObjTypes, Stages
<1>7. /\ Positions' = Positions /\ Sends' = Sends /\ AllSent'
      /\ \A p \in Positions : EarlierDone(p)' <=> EarlierDone(p)
  BY <1>2 DEF Positions, Sends, AllSent, EarlierDone
<1>8. \A p \in Sends : plan[p].chase \in Nat /\ plan[p].chase <= n /\ plan[p].chase < n + 1
  <2>1. \A p \in Sends : plan[p] \in PlanSteps /\ plan[p].chase <= n
    BY <1>1, <1>2, PlanIs DEF ObjTypes, StepsAreFine, Sends
  <2> QED BY <2>1 DEF PlanSteps
<1>9. StepsAreFine'
  <2>1. \A p \in Sends : plan[p].chase <= n + 1 /\ plan[p].status = "completed"
    BY <1>2, <1>8 DEF AllSent
  <2>2. n + 1 <= ChaseLimit
    BY <1>2 DEF ObjectiveAssumption
  <2> QED BY <1>2, <1>4, <1>7, <2>1, <2>2 DEF StepsAreFine
<1>10. ChaserIsFine'
  BY <1>2, <1>4 DEF ChaserIsFine
<1>11. DuesAreFine'
  BY <1>2, <1>3, <1>4, <1>5, <1>7, <1>8 DEF DuesAreFine
<1>12. WaitsAreAttended'
  BY <1>2, <1>7 DEF WaitsAreAttended, Attended
<1> QED BY <1>2, <1>6, <1>7, <1>9, <1>10, <1>11, <1>12 DEF ObjInv

\* One position of the plan changes.
LEMMA PlanTurned ==
  ASSUME ObjInv, NEW p \in Positions, NEW new \in PlanSteps, plan' = [plan EXCEPT ![p] = new],
         new.kind = plan[p].kind, new.chase = plan[p].chase
  PROVE  /\ plan' \in Seq(PlanSteps) /\ Positions' = Positions /\ plan'[p] = new
         /\ \A q \in Positions \ {p} : plan'[q] = plan[q]
         /\ Sends' = Sends
<1>1. plan \in Seq(PlanSteps) /\ Positions = 1 .. Len(plan)
  BY PlanIs DEF ObjInv, ObjTypes, Positions
<1>2. plan' \in Seq(PlanSteps)
  BY <1>1, ExceptSeq
<1>3. Positions' = Positions /\ plan'[p] = new /\ \A q \in Positions \ {p} : plan'[q] = plan[q]
  BY <1>1 DEF Positions
<1> QED BY <1>2, <1>3 DEF Sends, Positions

\* A step moves, in a stage that handles no events; it does not become pending.
LEMMA StepMoves ==
  ASSUME ObjInv, NEW p \in Positions, NEW new \in PlanSteps, plan' = [plan EXCEPT ![p] = new],
         new.kind = plan[p].kind, new.chase = plan[p].chase,
         plan[p].status # "completed", new.status # "pending",
         new.status = "running" => EarlierDone(p),
         new.kind = "wait" => new.status \notin {"retry", "completed"},
         stage \in {"execute", "executing", "verify"},
         stage' \in {"execute", "executing", "verify"},
         UNCHANGED <<events, answers, batch>>, thread' \in BOOLEAN,
         chaser' \in Chasers, chaser'.tries = chaser.tries,
         Attended => Attended', new.status = "completed" => Attended',
         chaser'.status = "pending" =>
           \/ chaser.status = "pending"
           \/ new.kind = "send" /\ new.status = "completed" /\ chaser.tries < ChaseLimit,
         objective' \in ObjectiveStates \ {"completed"},
         objective' = "waiting_external" => Attended',
         stage' = "executing" => /\ new.status = "running"
                                 /\ new.kind = "wait" => Attended'
  PROVE  ObjInv'
<1>1. /\ plan' \in Seq(PlanSteps) /\ Positions' = Positions /\ plan'[p] = new
      /\ \A q \in Positions \ {p} : plan'[q] = plan[q]
      /\ Sends' = Sends
  BY PlanTurned
<1>2. /\ ObjTypes /\ StepsAreFine /\ ChaserIsFine /\ DuesAreFine /\ WaitsAreAttended
      /\ Positions = 1 .. Len(plan) /\ Len(plan) \in Nat
  BY PlanIs DEF ObjInv, ObjTypes, Positions
<1>3. ObjTypes'
  BY <1>1, <1>2 DEF ObjTypes, Stages
<1>4. \A q \in Positions : plan[q].status = "completed" => plan'[q].status = "completed"
  BY <1>1
<1>5. \A q \in Positions : EarlierDone(q) => EarlierDone(q)'
  BY <1>1, <1>4 DEF EarlierDone
<1>6. StepsAreFine'
  <2>1. ASSUME NEW q \in Positions
        PROVE  /\ plan'[q].status = "running" => EarlierDone(q)'
               /\ plan'[q].kind = "wait" => plan'[q].status # "retry"
    BY <1>1, <1>2, <1>5 DEF StepsAreFine
  <2>2. ASSUME NEW q \in Sends
        PROVE  /\ plan'[q].chase = plan[q].chase /\ plan'[q].chase <= chaser'.tries
               /\ plan'[q].status # "completed" => plan'[q].chase = chaser'.tries
    BY <1>1, <1>2 DEF StepsAreFine, Sends, Positions
  <2>3. \A q, r \in Sends : plan'[q].chase = plan'[r].chase => q = r
    BY <1>2, <2>2 DEF StepsAreFine
  <2> QED BY <1>1, <1>2, <2>1, <2>2, <2>3 DEF StepsAreFine
<1>7. ChaserIsFine'
  <2>1. CASE chaser.status = "pending"
    <3>1. AllSent /\ chaser.tries < ChaseLimit
      BY <1>2, <2>1 DEF ChaserIsFine
    <3>2. AllSent'
      BY <1>1, <1>4, <3>1 DEF AllSent, Sends, Positions
    <3> QED BY <3>1, <3>2 DEF ChaserIsFine
  <2>2. CASE new.kind = "send" /\ new.status = "completed" /\ chaser.tries < ChaseLimit
    <3>1. p \in Sends
      BY <2>2 DEF Sends, Positions
    <3>2. ASSUME NEW q \in Sends PROVE plan'[q].status = "completed"
      <4>1. plan[q].status # "completed" => q = p
        BY <1>2, <3>1 DEF StepsAreFine
      <4> QED BY <1>1, <1>4, <2>2, <4>1 DEF Sends, Positions
    <3> QED BY <1>1, <2>2, <3>2 DEF ChaserIsFine, AllSent
  <2> QED BY <2>1, <2>2 DEF ChaserIsFine
<1>8. DuesAreFine'
  BY <1>2 DEF DuesAreFine, Dues
<1>9. WaitsAreAttended'
  <2>1. ASSUME NEW q \in Positions, plan'[q].kind = "wait", plan'[q].status = "pending",
               EarlierDone(q)'
        PROVE  Attended'
    <3>1. q # p /\ plan'[q] = plan[q]
      BY <1>1, <2>1
    <3>2. CASE new.status = "completed"
      BY <3>2
    <3>3. CASE new.status # "completed"
      <4>1. ~(p < q)
        BY <1>1, <2>1, <3>3 DEF EarlierDone
      <4>2. EarlierDone(q)
        BY <1>1, <2>1, <4>1 DEF EarlierDone
      <4>3. Attended
        BY <1>2, <2>1, <3>1, <4>2 DEF WaitsAreAttended
      <4> QED BY <4>3
    <3> QED BY <3>2, <3>3
  <2>2. ASSUME NEW q \in Positions, plan'[q].kind = "wait", stage' = "executing",
               plan'[q].status = "running"
        PROVE  Attended'
    <3>1. CASE q = p
      BY <1>1, <2>2, <3>1
    <3>2. CASE q # p
      <4>1. plan[q].status = "running" /\ EarlierDone(q) /\ EarlierDone(p)
        BY <1>1, <1>2, <2>2, <3>2 DEF StepsAreFine
      <4>2. p < q \/ q < p
        BY <1>2, <3>2
      <4> QED BY <4>1, <4>2 DEF EarlierDone
    <3> QED BY <3>1, <3>2
  <2> QED BY <1>1, <2>1, <2>2 DEF WaitsAreAttended
<1> QED BY <1>3, <1>6, <1>7, <1>8, <1>9 DEF ObjInv

LEMMA StartStepKeeps ==
  ASSUME ObjInv, NEW p \in DOMAIN plan, StartStep(p) PROVE ObjInv'
<1>1. /\ p \in Positions /\ plan[p] \in PlanSteps /\ Positions = 1 .. Len(plan) /\ Len(plan) \in Nat
      /\ ObjTypes /\ StepsAreFine /\ WaitsAreAttended
  BY PlanIs DEF ObjInv, ObjTypes, Positions
<1>2. /\ stage = "execute" /\ plan[p].status \in {"pending", "retry"}
      /\ UNCHANGED <<chaser, thread, events, answers, batch>>
  BY DEF StartStep, Ready
<1>3. EarlierDone(p)
  <2>1. \A q \in 1 .. (p - 1) : plan[q].status = "completed"
    BY DEF StartStep, Ready
  <2> QED BY <1>1, <2>1 DEF EarlierDone
<1>4. /\ Attended' <=> Attended
      /\ plan[p].kind = "wait" => Attended
  BY <1>1, <1>2, <1>3 DEF StepsAreFine, WaitsAreAttended, Attended
<1>5. CASE /\ plan' = [plan EXCEPT ![p].status = "running", ![p].tries = @ + 1]
           /\ objective' = "executing" /\ stage' = "executing"
  <2>1. PICK n \in Nat : n = plan[p].tries
    BY <1>1 DEF PlanSteps
  <2>5. PICK m \in Nat : m = n + 1
    OBVIOUS
  <2> DEFINE new == [plan[p] EXCEPT !.status = "running", !.tries = m]
  <2>2. /\ new \in PlanSteps /\ new.kind = plan[p].kind /\ new.chase = plan[p].chase
        /\ new.status = "running"
    BY <1>1 DEF PlanSteps, StepStates
  <2>3. plan' = [plan EXCEPT ![p] = new]
    BY <1>5, <2>1, <2>5
  <2> HIDE DEF new
  <2>4. objective' \in ObjectiveStates \ {"completed"}
    BY <1>5 DEF ObjectiveStates, Ongoing
  <2> QED BY <1>1, <1>2, <1>3, <1>4, <1>5, <2>2, <2>3, <2>4, StepMoves DEF ObjTypes
<1>6. CASE /\ plan' = [plan EXCEPT ![p].status = "blocked"]
           /\ objective' \in {"blocked", "needs_user"} /\ stage' = stage
  <2> DEFINE new == [plan[p] EXCEPT !.status = "blocked"]
  <2>2. /\ new \in PlanSteps /\ new.kind = plan[p].kind /\ new.chase = plan[p].chase
        /\ new.status = "blocked"
    BY <1>1 DEF PlanSteps, StepStates
  <2>3. plan' = [plan EXCEPT ![p] = new]
    BY <1>6
  <2> HIDE DEF new
  <2>4. objective' \in ObjectiveStates \ {"completed", "waiting_external"}
    BY <1>6 DEF ObjectiveStates, Ongoing
  <2> QED BY <1>1, <1>2, <1>3, <1>4, <1>6, <2>2, <2>3, <2>4, StepMoves DEF ObjTypes
<1> QED BY <1>5, <1>6 DEF StartStep

LEMMA EndStepKeeps ==
  ASSUME ObjInv, NEW p \in DOMAIN plan, EndStep(p) PROVE ObjInv'
<1>1. /\ p \in Positions /\ plan[p] \in PlanSteps
      /\ ObjTypes /\ StepsAreFine /\ WaitsAreAttended
  BY PlanIs DEF ObjInv, ObjTypes, Positions
<1>2. PICK status \in {"waiting", "verifying", "failed", "blocked", "retry"} :
        /\ plan' = [plan EXCEPT ![p].status = status]
        /\ plan[p].kind = "wait" => status = "waiting"
        /\ status = "waiting" => plan[p].kind = "wait"
        /\ objective' \in {"waiting_external", "verifying", "blocked", "needs_user", "waiting"}
        /\ objective' = "waiting_external" => plan[p].kind = "wait"
  BY DEF EndStep
<1>3. /\ stage = "executing" /\ stage' = "execute" /\ plan[p].status = "running"
      /\ UNCHANGED <<chaser, thread, events, answers, batch>>
  BY DEF EndStep
<1>4. /\ Attended' <=> Attended
      /\ plan[p].kind = "wait" => Attended
  BY <1>1, <1>3 DEF WaitsAreAttended, Attended
<1> DEFINE new == [plan[p] EXCEPT !.status = status]
<1>5. /\ new \in PlanSteps /\ new.kind = plan[p].kind /\ new.chase = plan[p].chase
      /\ new.status = status
  BY <1>1 DEF PlanSteps, StepStates
<1>6. plan' = [plan EXCEPT ![p] = new]
  BY <1>2
<1> HIDE DEF new
<1>7. objective' \in ObjectiveStates \ {"completed"}
  BY <1>2 DEF ObjectiveStates, Ongoing
<1> QED BY <1>1, <1>2, <1>3, <1>4, <1>5, <1>6, <1>7, StepMoves DEF ObjTypes

LEMMA VerifyMessageKeeps ==
  ASSUME ObjectiveAssumption, ObjInv, NEW p \in DOMAIN plan, VerifyMessage(p) PROVE ObjInv'
<1>1. /\ p \in Positions /\ plan[p] \in PlanSteps
      /\ ObjTypes /\ StepsAreFine /\ WaitsAreAttended
  BY PlanIs DEF ObjInv, ObjTypes, Positions
<1>2. /\ stage = "verify" /\ stage' = stage /\ plan[p].kind = "send"
      /\ plan[p].status = "verifying" /\ UNCHANGED <<events, answers, batch>>
  BY DEF VerifyMessage
<1>3. chaser \in Chasers /\ chaser.tries \in Nat /\ plan[p].chase = chaser.tries
  BY <1>1, <1>2 DEF ObjTypes, Chasers, StepsAreFine, Sends, Positions
<1>4. CASE /\ plan' = [plan EXCEPT ![p].status = "completed"]
           /\ chaser' = IF ChaseNext(plan[p].chase) THEN Rescheduled
                        ELSE [chaser EXCEPT !.status = "exhausted"]
           /\ thread' = TRUE /\ objective' = "waiting_external"
  <2> DEFINE new == [plan[p] EXCEPT !.status = "completed"]
  <2>1. /\ new \in PlanSteps /\ new.kind = plan[p].kind /\ new.chase = plan[p].chase
        /\ new.status = "completed"
    BY <1>1 DEF PlanSteps, StepStates
  <2>2. plan' = [plan EXCEPT ![p] = new]
    BY <1>4
  <2> HIDE DEF new
  <2>3. /\ chaser' \in Chasers /\ chaser'.tries = chaser.tries
        /\ chaser'.status \in {"pending", "exhausted"}
        /\ chaser'.status = "pending" => ChaseNext(plan[p].chase)
    BY <1>3, <1>4 DEF Chasers, Rescheduled
  <2>4. Attended' /\ (chaser'.status = "pending" => chaser.tries < ChaseLimit)
    BY <1>3, <2>3 DEF Attended, ChaseNext, ObjectiveAssumption
  <2>5. objective' \in ObjectiveStates \ {"completed"} /\ thread' \in BOOLEAN
    BY <1>4 DEF ObjectiveStates, Ongoing
  <2> QED BY <1>1, <1>2, <2>1, <2>2, <2>3, <2>4, <2>5, StepMoves
<1>5. CASE objective' = "verifying" /\ UNCHANGED <<plan, chaser, thread>>
  <2>1. ObjTypes'
    BY <1>1, <1>2, <1>5 DEF ObjTypes, ObjectiveStates, Ongoing
  <2> QED BY <1>2, <1>5, <2>1 DEF ObjInv, StepsAreFine, ChaserIsFine, DuesAreFine, Dues,
        WaitsAreAttended, Attended, AllSent, Sends, Positions, EarlierDone
<1>6. CASE /\ \/ plan' = [plan EXCEPT ![p].status = "failed"] /\ objective' = "blocked"
              \/ plan' = [plan EXCEPT ![p].status = "blocked"] /\ objective' = "needs_user"
           /\ UNCHANGED <<chaser, thread>>
  <2>1. PICK status \in {"failed", "blocked"} : plan' = [plan EXCEPT ![p].status = status]
    BY <1>6
  <2> DEFINE new == [plan[p] EXCEPT !.status = status]
  <2>2. /\ new \in PlanSteps /\ new.kind = plan[p].kind /\ new.chase = plan[p].chase
        /\ new.status = status
    BY <1>1 DEF PlanSteps, StepStates
  <2>3. plan' = [plan EXCEPT ![p] = new]
    BY <2>1
  <2> HIDE DEF new
  <2>4. objective' \in ObjectiveStates \ {"completed", "waiting_external"}
    BY <1>6 DEF ObjectiveStates, Ongoing
  <2>5. Attended' <=> Attended
    BY <1>2, <1>6 DEF Attended
  <2> QED BY <1>1, <1>2, <1>3, <1>6, <2>2, <2>3, <2>4, <2>5, StepMoves DEF ObjTypes
<1> QED BY <1>4, <1>5, <1>6 DEF VerifyMessage

\* A wait that is over is done, and nothing else changes.
LEMMA WaitsEnd ==
  ASSUME ObjInv, NEW statuses, "pending" \in statuses
  PROVE  /\ WaitsOver(statuses) \in Seq(PlanSteps) /\ DOMAIN WaitsOver(statuses) = Positions
         /\ Len(WaitsOver(statuses)) = Len(plan)
         /\ \A p \in Positions :
              /\ WaitsOver(statuses)[p].kind = plan[p].kind
              /\ WaitsOver(statuses)[p].chase = plan[p].chase
              /\ \/ WaitsOver(statuses)[p].status = plan[p].status
                 \/ plan[p].kind = "wait" /\ WaitsOver(statuses)[p].status = "completed"
              /\ plan[p].kind = "wait" => WaitsOver(statuses)[p].status # "pending"
<1> DEFINE over == WaitsOver(statuses)
<1>1. PICK n \in Nat : n = Len(plan)
  BY PlanIs DEF ObjInv, ObjTypes
<1>2. Positions = 1 .. n /\ \A p \in Positions : plan[p] \in PlanSteps
  BY <1>1, PlanIs DEF ObjInv, ObjTypes, Positions
<1>3. DOMAIN over = Positions
  BY DEF WaitsOver, Positions
<1>4. ASSUME NEW p \in Positions
      PROVE  /\ over[p] \in PlanSteps /\ over[p].kind = plan[p].kind
             /\ over[p].chase = plan[p].chase
             /\ \/ over[p].status = plan[p].status
                \/ plan[p].kind = "wait" /\ over[p].status = "completed"
             /\ plan[p].kind = "wait" => over[p].status # "pending"
  <2>1. over[p] = IF plan[p].kind = "wait" /\ plan[p].status \in statuses
                  THEN [plan[p] EXCEPT !.status = "completed"] ELSE plan[p]
    BY DEF WaitsOver, Positions
  <2>2. plan[p] \in PlanSteps
    BY <1>2
  <2> HIDE DEF over
  <2> QED BY <2>1, <2>2 DEF PlanSteps, StepStates
<1>5. over \in [1 .. n -> PlanSteps]
  <2>1. over = [p \in DOMAIN plan |-> over[p]]
    BY DEF WaitsOver
  <2> HIDE DEF over
  <2> QED BY <1>2, <1>3, <1>4, <2>1 DEF Positions
<1> HIDE DEF over
<1>6. over \in Seq(PlanSteps)
  BY <1>5, SeqDef
<1>7. Len(over) = Len(plan)
  BY <1>1, <1>2, <1>3, <1>6, LenProperties
<1> QED BY <1>3, <1>4, <1>6, <1>7 DEF over

LEMMA HandleAnswerKeeps == ASSUME ObjectiveAssumption, ObjInv, HandleAnswer PROVE ObjInv'
<1>1. PICK e \in batch : e[1] = "answer" /\ batch' = batch \ {e} /\ events' = events \ {e}
  BY DEF HandleAnswer, Handled
<1>2. /\ chaser' = Cancelled /\ plan' = WaitsOver({"pending", "waiting", "retry"})
      /\ objective' = AfterAnswer(plan') /\ thread' = FALSE /\ UNCHANGED <<answers, stage>>
      /\ ObjTypes /\ StepsAreFine /\ ChaserIsFine /\ DuesAreFine
      /\ stage \in {"events", "chases"}
  BY DEF HandleAnswer, ObjInv, DuesAreFine
<1>3. /\ plan' \in Seq(PlanSteps) /\ Positions' = Positions
      /\ \A p \in Positions :
           /\ plan'[p].kind = plan[p].kind /\ plan'[p].chase = plan[p].chase
           /\ \/ plan'[p].status = plan[p].status
              \/ plan[p].kind = "wait" /\ plan'[p].status = "completed"
           /\ plan[p].kind = "wait" => plan'[p].status # "pending"
  BY <1>2, WaitsEnd DEF Positions
<1>4. /\ Sends' = Sends
      /\ \A p \in Positions : EarlierDone(p) => EarlierDone(p)'
  BY <1>3 DEF Sends, Positions, EarlierDone
<1>5. /\ chaser' \in Chasers /\ chaser'.tries = chaser.tries /\ chaser'.status # "pending"
  BY <1>2 DEF ObjTypes, Chasers, Cancelled
<1>6. Dues' = Dues
  BY <1>1 DEF Dues
<1>7. /\ objective' \in {"completed", "verifying"}
      /\ objective' = "completed" => AllSent'
  BY <1>2, <1>3 DEF AfterAnswer, AllSent, Sends
<1>8. ObjTypes'
  BY <1>1, <1>2, <1>3, <1>5, <1>7 DEF ObjTypes, ObjectiveStates, Ongoing
<1>9. \A p \in Sends : plan'[p].chase = plan[p].chase /\ plan'[p].status = plan[p].status
  BY <1>3 DEF Sends, Positions
<1>10. StepsAreFine'
  BY <1>2, <1>3, <1>4, <1>5, <1>9 DEF StepsAreFine
<1>11. AllSent' <=> AllSent
  BY <1>4, <1>9 DEF AllSent
<1>12. DuesAreFine'
  <2>1. /\ \A d \in Dues' : d[2] = chaser'.tries
        /\ Dues' # {} => AllSent' /\ \A p \in Sends' : plan'[p].chase < chaser'.tries
    BY <1>2, <1>4, <1>5, <1>6, <1>9, <1>11 DEF DuesAreFine
  <2>2. Dues \subseteq batch'
    BY <1>1, <1>2 DEF DuesAreFine, Dues
  <2> QED BY <1>2, <1>6, <2>1, <2>2 DEF DuesAreFine
<1>13. WaitsAreAttended'
  BY <1>2, <1>3, <1>7 DEF WaitsAreAttended
<1> QED BY <1>2, <1>5, <1>7, <1>8, <1>10, <1>12, <1>13 DEF ObjInv, ChaserIsFine

\* The plan gets a message and a wait of their own for the attempt that was due.
LEMMA HandleChaseKeeps == ASSUME ObjectiveAssumption, ObjInv, HandleChase PROVE ObjInv'
<1>1. PICK e \in batch : e[1] = "due" /\ batch' = batch \ {e} /\ events' = events \ {e}
  BY DEF HandleChase, Handled
<1>2. PICK t \in Nat : t = chaser.tries
  BY DEF ObjInv, ObjTypes, Chasers
<1>3. /\ plan' = WaitsOver({"pending", "waiting"}) \o <<NewStep("send", t), NewStep("wait", t)>>
      /\ chaser' = [chaser EXCEPT !.status = "dispatching"]
      /\ objective' = "planned" /\ UNCHANGED <<thread, answers, stage>>
      /\ ObjTypes /\ StepsAreFine /\ DuesAreFine /\ stage \in {"events", "chases"}
  BY <1>2 DEF HandleChase, ObjInv, DuesAreFine
<1>4. chaser' \in Chasers /\ chaser'.tries = t /\ chaser'.status = "dispatching"
  BY <1>2, <1>3 DEF ObjTypes, Chasers
<1>5. /\ e \in Dues /\ Dues' = {} /\ AllSent
      /\ \A p \in Sends : plan[p].chase < t
  <2>1. e \in Dues
    BY <1>1, <1>3 DEF ObjTypes, Dues
  <2>2. \A d \in Dues : d = <<"due", t>>
    BY <1>2, <1>3 DEF DuesAreFine, Dues, ObjTypes, CoreEvents
  <2> QED BY <1>1, <1>2, <1>3, <2>1, <2>2 DEF DuesAreFine, Dues
<1> DEFINE over == WaitsOver({"pending", "waiting"})
           chase == NewStep("send", t)
           await == NewStep("wait", t)
<1>6. PICK n \in Nat : n = Len(plan)
  BY <1>3, PlanIs DEF ObjTypes
<1>7. Positions = 1 .. n
  BY <1>3, <1>6, PlanIs DEF ObjTypes, Positions
<1>8. /\ over \in Seq(PlanSteps) /\ Len(over) = n
      /\ \A p \in Positions :
           /\ over[p].kind = plan[p].kind /\ over[p].chase = plan[p].chase
           /\ \/ over[p].status = plan[p].status
              \/ plan[p].kind = "wait" /\ over[p].status = "completed"
           /\ plan[p].kind = "wait" => over[p].status # "pending"
  BY <1>6, WaitsEnd
<1>9. /\ chase \in PlanSteps /\ chase.kind = "send" /\ chase.status = "pending" /\ chase.chase = t
      /\ await \in PlanSteps /\ await.kind = "wait" /\ await.status = "pending"
  BY NewStepIs
<1>10. plan' = over \o <<chase, await>>
  BY <1>3
<1> HIDE DEF over, chase, await
<1>11. /\ plan' \in Seq(PlanSteps) /\ Len(plan') = n + 2
       /\ \A p \in Positions : plan'[p] = over[p]
       /\ plan'[n + 1] = chase /\ plan'[n + 2] = await
  <2> DEFINE more == <<chase, await>>
  <2>1. more \in Seq(PlanSteps) /\ Len(more) = 2 /\ more[1] = chase /\ more[2] = await
    BY <1>9
  <2>2. plan' = over \o more
    BY <1>10
  <2> HIDE DEF more
  <2>3. /\ plan' \in Seq(PlanSteps) /\ Len(plan') = n + 2
        /\ \A i \in 1 .. n + 2 : plan'[i] = IF i <= n THEN over[i] ELSE more[i - n]
    <3>1. Len(over \o more) = n + 2 /\ over \o more \in Seq(PlanSteps)
      <4>1. Len(over \o more) = Len(over) + Len(more) /\ over \o more \in Seq(PlanSteps)
        BY <1>8, <2>1, ConcatProperties
      <4> QED BY <1>8, <2>1, <4>1
    <3>2. \A i \in 1 .. n + 2 : (over \o more)[i] = IF i <= n THEN over[i] ELSE more[i - n]
      BY <1>8, <2>1, ConcatProperties
    <3> QED BY <2>2, <3>1, <3>2
  <2> QED BY <1>7, <2>1, <2>3
<1>12. Positions' = Positions \cup {n + 1, n + 2}
  <2>1. Positions' = 1 .. n + 2
    BY <1>11, PlanIs DEF Positions
  <2> QED BY <1>7, <2>1
<1>13. Sends' = Sends \cup {n + 1}
  BY <1>8, <1>9, <1>11, <1>12 DEF Sends, Positions
<1>14. \A p \in Sends : /\ p \in Positions /\ plan'[p].chase = plan[p].chase
                        /\ plan'[p].status = plan[p].status
  BY <1>8, <1>11 DEF Sends, Positions
<1>15. ObjTypes'
  BY <1>1, <1>3, <1>4, <1>11 DEF ObjTypes, ObjectiveStates, Ongoing
<1>16. StepsAreFine'
  <2>1. ASSUME NEW p \in Positions, plan'[p].status = "running" PROVE EarlierDone(p)'
    <3>1. EarlierDone(p)
      BY <1>3, <1>8, <1>11, <2>1 DEF StepsAreFine
    <3>2. ASSUME NEW q \in Positions', q < p PROVE plan'[q].status = "completed"
      <4>1. q \in Positions
        BY <1>7, <1>12, <3>2
      <4>2. plan[q].status = "completed"
        BY <3>1, <3>2, <4>1 DEF EarlierDone
      <4> QED BY <1>8, <1>11, <4>1, <4>2
    <3> QED BY <3>2 DEF EarlierDone
  <2>2. ASSUME NEW p \in Positions, plan'[p].kind = "wait" PROVE plan'[p].status # "retry"
    <3>1. plan[p].kind = "wait" /\ plan'[p].status \in {plan[p].status, "completed"}
      BY <1>8, <1>11, <2>2
    <3> QED BY <1>3, <3>1 DEF StepsAreFine
  <2>3. \A p \in Sends : plan[p].chase \in Nat /\ plan'[p].status = "completed"
    BY <1>3, <1>5, <1>14, PlanIs DEF AllSent, ObjTypes, PlanSteps, Sends
  <2>4. \A p \in Sends' : /\ plan'[p].chase <= t
                          /\ plan'[p].status # "completed" => plan'[p].chase = t
    BY <1>5, <1>9, <1>11, <1>13, <1>14, <2>3
  <2>5. ASSUME NEW p \in Sends', NEW q \in Sends', plan'[p].chase = plan'[q].chase PROVE p = q
    <3>1. CASE p \in Sends /\ q \in Sends
      BY <1>3, <1>14, <2>5, <3>1 DEF StepsAreFine
    <3>2. plan'[n + 1].chase = t /\ \A r \in Sends : plan'[r].chase \in Nat /\ plan'[r].chase < t
      BY <1>5, <1>9, <1>11, <1>14, <2>3
    <3>3. \A r \in Sends : plan'[r].chase # plan'[n + 1].chase
      BY <3>2
    <3> QED BY <1>13, <2>5, <3>1, <3>3
  <2>6. t <= ChaseLimit
    BY <1>2, <1>3 DEF StepsAreFine
  <2> QED BY <1>4, <1>9, <1>11, <1>12, <2>1, <2>2, <2>4, <2>5, <2>6 DEF StepsAreFine
<1>17. DuesAreFine'
  BY <1>3, <1>5 DEF DuesAreFine
<1>18. WaitsAreAttended'
  <2>1. ~EarlierDone(n + 2)'
    <3>1. n + 1 \in Positions' /\ n + 1 < n + 2 /\ plan'[n + 1].status # "completed"
      BY <1>9, <1>11, <1>12
    <3> QED BY <3>1 DEF EarlierDone
  <2>2. \A p \in Positions : plan'[p].kind = "wait" => plan'[p].status # "pending"
    BY <1>8, <1>11
  <2>3. plan'[n + 1].kind # "wait"
    BY <1>9, <1>11
  <2> QED BY <1>3, <1>12, <2>1, <2>2, <2>3 DEF WaitsAreAttended
<1> QED BY <1>3, <1>4, <1>15, <1>16, <1>17, <1>18 DEF ObjInv, ChaserIsFine

LEMMA ObjStepKeeps ==
  ASSUME ObjectiveAssumption, ObjInv, [ObjectiveNext]_objectiveVars PROVE ObjInv'
<1>1. CASE UNCHANGED objectiveVars
  BY <1>1 DEF objectiveVars, ObjInv, ObjTypes, StepsAreFine, ChaserIsFine, DuesAreFine, Dues,
     WaitsAreAttended, Attended, AllSent, Sends, Positions, EarlierDone
<1>2. CASE EnterStage \/ CoreDies
  BY <1>2, EnterStageKeeps
<1>3. ASSUME NEW p \in DOMAIN plan, StartStep(p) \/ EndStep(p) \/ VerifyMessage(p)
      PROVE  ObjInv'
  BY <1>3, StartStepKeeps, EndStepKeeps, VerifyMessageKeeps
<1> QED BY <1>1, <1>2, <1>3, HandleAnswerKeeps, HandleChaseKeeps, ReadDueKeeps, RecordDueKeeps,
           AnswerArrivesKeeps DEF ObjectiveNext

LEMMA ObjAlways == ASSUME ObjectiveAssumption PROVE ObjectiveSpec => []ObjInv
<1>1. ObjectiveInit => ObjInv
  BY ObjInitInv
<1>2. ObjInv /\ [ObjectiveNext]_objectiveVars => ObjInv'
  BY ObjStepKeeps
<1> QED BY <1>1, <1>2, PTL DEF ObjectiveSpec

\* The plan, the follow-up and the events of a conversation have their types.
THEOREM ObjectiveTypes == ASSUME ObjectiveAssumption PROVE ObjectiveSpec => []ObjectiveTypeOK
<1>1. ASSUME ObjInv PROVE ObjectiveTypeOK
  <2>1. answers \in 0 .. ReplyLimit
    BY <1>1 DEF ObjInv, ObjTypes, ObjectiveAssumption
  <2> QED BY <1>1, <2>1 DEF ObjInv, ObjTypes, ObjectiveTypeOK
<1> QED BY <1>1, ObjAlways, PTL

\* An objective is completed only with every message verified, one that waits will be
\* chased or told of an answer, and an attempt is chased once and within the limit:
\* for any limits and any number of answers, wherever the cycle dies.
THEOREM ConversationsAreChased ==
  ASSUME ObjectiveAssumption PROVE ObjectiveSpec => []ChasedUntilAnswered
<1>1. ASSUME ObjInv PROVE ChasedUntilAnswered
  <2>1. chaser.tries \in Nat /\ \A p \in Sends : plan[p] \in PlanSteps
    BY <1>1, PlanIs DEF ObjInv, ObjTypes, Chasers, Sends
  <2>2. \A p \in Sends : plan[p].chase <= ChaseLimit
    BY <1>1, <2>1 DEF ObjInv, StepsAreFine, PlanSteps, ObjectiveAssumption
  <2> QED BY <1>1, <2>2 DEF ObjInv, StepsAreFine, WaitsAreAttended, Attended, AllSent,
        ChasedUntilAnswered
<1> QED BY <1>1, ObjAlways, PTL

(***************************************************************************)
(* Recovery                                                                *)
(***************************************************************************)

JobRows == [status : {"absent", "pending", "completed", "dead_letter", "superseded"},
            error : Classes \cup {"none"}, by : SUBSET Work, recovered : 0..RecoveryLimit]

\* A job that another replaced is superseded for good; an error is that of a job that failed.
JobFine(r) ==
  /\ r.by # {} => r.status = "superseded"
  /\ r.status \in {"absent", "pending", "completed"} => r.error = "none"

IsDone(j) == \E k \in {j} \cup work[j].by : work[k].status = "completed"

RecoveryInv ==
  /\ work \in [Work -> JobRows] /\ \A j \in Work : JobFine(work[j])
  /\ run \in {"none", "running", "completed", "superseded", "failed"}
  /\ run = "completed" /\ ~early => \A j \in RunJobs(work) : work[j].status = "completed"
  /\ manual = "completed" => step = "completed"
  /\ manual = "completed" /\ ~early => \A j \in RunJobs(work) : IsDone(j)

\* A job may go on in many ways, but what is completed or replaced stays so, and a job that
\* was not enqueued is not touched.
Moves(r, s) ==
  /\ s \in JobRows /\ JobFine(s)
  /\ r.status = "completed" => s.status = "completed"
  /\ r.by # {} => s.by = r.by
  /\ s.status = "absent" <=> r.status = "absent"

LEMMA RecoveryInitInv == ASSUME RecoveryAssumption, RecoveryInit PROVE RecoveryInv
<1>1. \A j \in Work : work[j] = Queued \/ work[j] = [Queued EXCEPT !.status = "absent"]
  BY DEF RecoveryInit
<1>2. Queued \in JobRows /\ [Queued EXCEPT !.status = "absent"] \in JobRows
  BY DEF RecoveryAssumption, Queued, JobRows
<1>3. work \in [Work -> JobRows]
  BY <1>1, <1>2 DEF RecoveryInit
<1> QED BY <1>1, <1>3 DEF RecoveryInit, RecoveryInv, JobFine, Queued

LEMMA DoneStays ==
  ASSUME RecoveryInv, work' \in [Work -> JobRows], \A j \in Work : Moves(work[j], work'[j]),
         NEW j \in Work, IsDone(j)
  PROVE  IsDone(j)'
<1>1. PICK k \in {j} \cup work[j].by : work[k].status = "completed"
  BY DEF IsDone
<1>2. k \in Work
  BY DEF RecoveryInv, JobRows
<1>3. work'[k].status = "completed"
  BY <1>1, <1>2 DEF Moves
<1>4. k \in {j} \cup work'[j].by
  BY <1>1 DEF Moves
<1> QED BY <1>3, <1>4 DEF IsDone

\* A step that changes jobs so, and leaves the objective alone
LEMMA JobsStep ==
  ASSUME RecoveryInv, UNCHANGED <<step, manual, early>>, DOMAIN work' = Work,
         work' = [j \in Work |-> work'[j]],
         \A j \in Work : Moves(work[j], work'[j]),
         \/ run' = run
         \/ run' \in {"running", "superseded", "failed"}
         \/ run' = "completed" /\ \A j \in RunJobs(work') : work'[j].status = "completed"
  PROVE  RecoveryInv'
<1>1. work' \in [Work -> JobRows]
  BY DEF Moves
<1>2. RunJobs(work') = RunJobs(work) /\ RunJobs(work) \subseteq Work
  BY DEF RunJobs, Moves, Work
<1>3. run' = "completed" /\ ~early' => \A j \in RunJobs(work') : work'[j].status = "completed"
  BY <1>2 DEF RecoveryInv, Moves
<1>4. manual' = "completed" /\ ~early' => \A j \in RunJobs(work') : IsDone(j)'
  BY <1>1, <1>2, DoneStays DEF RecoveryInv
<1> QED BY <1>1, <1>3, <1>4 DEF RecoveryInv, Moves

\* What the status of a run says of its jobs
LEMMA RefreshedSays ==
  ASSUME NEW changed, RefreshFor(changed)
  PROVE  \/ run' = run
         \/ run' \in {"running", "superseded", "failed"}
         \/ run' = "completed" /\ \A j \in RunJobs(work') : work'[j].status = "completed"
<1> DEFINE statuses == {work'[j].status : j \in RunJobs(work')}
<1>1. run' = run \/ run' = Refreshed(work')
  BY DEF RefreshFor
<1>2. statuses = {"completed"} => \A j \in RunJobs(work') : work'[j].status = "completed"
  OBVIOUS
<1>3. \/ Refreshed(work') \in {run, "running", "superseded", "failed"}
      \/ Refreshed(work') = "completed" /\ statuses = {"completed"}
  <2> HIDE DEF statuses
  <2>1. Refreshed(work') = CASE statuses = {} -> run
          [] "dead_letter" \in statuses -> "failed"
          [] statuses = {"completed"} -> "completed"
          [] statuses \in {{"superseded"}, {"completed", "superseded"}} -> "superseded"
          [] OTHER -> "running"
    BY DEF Refreshed, statuses
  <2>2. CASE statuses = {}
    BY <2>1, <2>2
  <2>3. CASE "dead_letter" \in statuses
    BY <2>1, <2>3
  <2>4. CASE statuses = {"completed"}
    BY <2>1, <2>4
  <2>5. CASE statuses \in {{"superseded"}, {"completed", "superseded"}}
    BY <2>1, <2>5
  <2>6. CASE /\ statuses # {} /\ "dead_letter" \notin statuses /\ statuses # {"completed"}
             /\ statuses \notin {{"superseded"}, {"completed", "superseded"}}
    BY <2>1, <2>6
  <2> QED BY <2>2, <2>3, <2>4, <2>5, <2>6
<1> QED BY <1>1, <1>2, <1>3

LEMMA StaysPut == ASSUME RecoveryInv, NEW j \in Work PROVE Moves(work[j], work[j])
BY DEF RecoveryInv, Moves

LEMMA DeadLettersAre ==
  ASSUME RecoveryInv, NEW j \in DeadLetters
  PROVE  j \in Work /\ work[j] \in JobRows /\ work[j].status = "dead_letter" /\ work[j].by = {}
BY DEF RecoveryInv, DeadLetters, JobFine

LEMMA AgainMoves ==
  ASSUME RecoveryInv, NEW j \in DeadLetters
  PROVE  Again(work[j]) \in JobRows /\ Moves(work[j], Again(work[j]))
BY DeadLettersAre DEF Again, JobRows, Moves, JobFine

LEMMA RequeueMoves ==
  ASSUME RecoveryInv, NEW jobs, jobs \subseteq DeadLetters, Requeue(jobs)
  PROVE  /\ DOMAIN work' = Work /\ work' = [j \in Work |-> work'[j]]
         /\ \A j \in Work : Moves(work[j], work'[j])
         /\ run' = run \/ run' = "running"
<1>1. work' = [j \in Work |-> IF j \in jobs THEN Again(work[j]) ELSE work[j]]
  BY DEF Requeue
<1>2. \A j \in Work : Moves(work[j], work'[j])
  <2> SUFFICES ASSUME NEW j \in Work PROVE Moves(work[j], work'[j])
    OBVIOUS
  <2>1. CASE j \in jobs
    BY <1>1, <2>1, AgainMoves
  <2>2. CASE j \notin jobs
    BY <1>1, <2>2, StaysPut
  <2> QED BY <2>1, <2>2
<1> QED BY <1>1, <1>2 DEF Requeue

LEMMA JobEndsStep == ASSUME RecoveryInv, NEW j \in Work, JobEnds(j) PROVE RecoveryInv'
<1>1. /\ work[j].status = "pending" /\ RefreshFor({j}) /\ UNCHANGED <<step, manual, early>>
      /\ \/ work' = [work EXCEPT ![j] = [work[j] EXCEPT !.status = "completed"]]
         \/ \E class \in Classes :
              work' = [work EXCEPT ![j] = [work[j] EXCEPT !.status = "dead_letter", !.error = class]]
  BY DEF JobEnds, RecoveryInv
<1>2. work[j] \in JobRows /\ work[j].by = {} /\ work[j].error = "none" /\ work \in [Work -> JobRows]
  BY <1>1 DEF RecoveryInv, JobFine
<1>3. work' = [work EXCEPT ![j] = work'[j]] /\ Moves(work[j], work'[j])
  <2>1. ASSUME work' = [work EXCEPT ![j] = [work[j] EXCEPT !.status = "completed"]]
        PROVE  work' = [work EXCEPT ![j] = work'[j]] /\ Moves(work[j], work'[j])
    BY <1>1, <1>2, <2>1 DEF JobRows, Moves, JobFine
  <2>2. ASSUME NEW class \in Classes,
               work' = [work EXCEPT ![j] = [work[j] EXCEPT !.status = "dead_letter", !.error = class]]
        PROVE  work' = [work EXCEPT ![j] = work'[j]] /\ Moves(work[j], work'[j])
    BY <1>1, <1>2, <2>2 DEF JobRows, Moves, JobFine
  <2> QED BY <1>1, <2>1, <2>2
<1>4. \A k \in Work : Moves(work[k], work'[k])
  BY <1>2, <1>3, StaysPut
<1>5. DOMAIN work' = Work /\ work' = [k \in Work |-> work'[k]]
  BY <1>2, <1>3
<1> QED BY <1>1, <1>4, <1>5, RefreshedSays, JobsStep

LEMMA ObjectiveStep ==
  ASSUME RecoveryInv, RequestRun \/ StartRun \/ Dispatched \/ DispatchFails PROVE RecoveryInv'
<1>1. UNCHANGED <<work, run>> /\ (early => early') /\ manual' # "completed"
  <2>1. CASE RequestRun \/ StartRun \/ DispatchFails
    BY <2>1 DEF RequestRun, StartRun, DispatchFails
  <2>2. CASE Dispatched
    <3>1. UNCHANGED <<work, run>> /\ manual' # "completed"
      BY <2>2 DEF Dispatched
    <3>2. early => early'
      BY <2>2, Zenon DEF Dispatched
    <3> QED BY <3>1, <3>2
  <2> QED BY <2>1, <2>2
<1> QED BY <1>1 DEF RecoveryInv, IsDone, RunJobs

LEMMA EnqueueStep ==
  ASSUME RecoveryAssumption, RecoveryInv, NEW j \in Work, Enqueue(j) PROVE RecoveryInv'
<1>1. /\ step = "running" /\ j \in Parts /\ UNCHANGED <<step, manual>>
      /\ work' = [work EXCEPT ![j] = Queued]
      /\ run' = IF run = "none" THEN "running" ELSE run
      /\ early' = (early \/ run \in {"completed", "superseded"})
  BY DEF Enqueue, Parts
<1>2. Queued \in JobRows /\ JobFine(Queued)
  BY DEF RecoveryAssumption, Queued, JobRows, JobFine
<1>3. work' \in [Work -> JobRows] /\ \A k \in Work : JobFine(work'[k])
  BY <1>1, <1>2 DEF RecoveryInv
<1>4. run' = "completed" => early'
  BY <1>1
<1>5. manual' # "completed"
  BY <1>1 DEF RecoveryInv
<1> QED BY <1>1, <1>3, <1>4, <1>5 DEF RecoveryInv

LEMMA VerifyStep == ASSUME RecoveryInv, VerifyRun PROVE RecoveryInv'
<1>1. UNCHANGED <<work, run, early>>
  BY DEF VerifyRun
<1>2. \/ manual' \notin {"completed"}
      \/ step' = "completed" /\ run = "completed"
      \/ step' = "completed" /\ \A j \in RunJobs(work) : DoneElsewhere(j)
  <2>1. CASE run = "completed"
    BY <2>1 DEF VerifyRun
  <2>2. CASE run = "superseded"
    BY <2>2 DEF VerifyRun
  <2>3. CASE run = "failed"
    BY <2>3 DEF VerifyRun
  <2>4. CASE run \notin {"completed", "superseded", "failed"}
    BY <2>4 DEF VerifyRun
  <2> QED BY <2>1, <2>2, <2>3, <2>4
<1>3. \A j : DoneElsewhere(j) \/ work[j].status = "completed" => IsDone(j)
  BY DEF DoneElsewhere, IsDone
<1>4. manual' = "completed" /\ ~early' => \A j \in RunJobs(work') : IsDone(j)'
  BY <1>1, <1>2, <1>3 DEF RecoveryInv, IsDone, RunJobs
<1> QED BY <1>1, <1>2, <1>4 DEF RecoveryInv, RunJobs

LEMMA RequeueStep ==
  ASSUME RecoveryInv, RecoverAll \/ \E j \in Work : RequeueLetter(j) PROVE RecoveryInv'
<1>1. PICK jobs : jobs \subseteq DeadLetters /\ Requeue(jobs) /\ UNCHANGED <<step, manual, early>>
  BY DEF RecoverAll, RequeueLetter
<1> QED BY <1>1, RequeueMoves, JobsStep

LEMMA ResumeStep == ASSUME RecoveryInv, ResumeRun PROVE RecoveryInv'
<1> DEFINE letters == UserLetters \cap Parts
<1>1. letters \subseteq DeadLetters /\ Requeue(letters) /\ UNCHANGED early
      /\ manual' = "waiting_external" /\ letters # {}
  BY DEF ResumeRun, UserLetters
<1>2. run' = "running"
  BY <1>1 DEF Requeue
<1>3. /\ work' = [j \in Work |-> work'[j]] /\ \A j \in Work : Moves(work[j], work'[j])
  BY <1>1, RequeueMoves
<1>4. work' \in [Work -> JobRows] /\ \A j \in Work : JobFine(work'[j])
  BY <1>3 DEF Moves
<1> QED BY <1>1, <1>2, <1>4 DEF RecoveryInv

LEMMA CompactStep == ASSUME RecoveryInv, Compact PROVE RecoveryInv'
<1>1. PICK keep \in SUBSET DeadLetters :
        /\ work' = [j \in Work |-> IF j \in DeadLetters \ keep
              THEN [work[j] EXCEPT !.status = "superseded", !.by = Alike(j, keep)] ELSE work[j]]
        /\ RefreshFor(DeadLetters \ keep)
  BY DEF Compact
<1>2. \A j : Alike(j, keep) \in SUBSET Work
  BY DEF Alike, DeadLetters
<1>3. \A j \in Work : Moves(work[j], work'[j])
  <2> SUFFICES ASSUME NEW j \in Work PROVE Moves(work[j], work'[j])
    OBVIOUS
  <2>1. CASE j \in DeadLetters \ keep
    <3> DEFINE new == Alike(j, keep)
    <3>1. work'[j] = [work[j] EXCEPT !.status = "superseded", !.by = new] /\ new \in SUBSET Work
      BY <1>1, <1>2, <2>1
    <3>2. work[j] \in JobRows /\ work[j].status = "dead_letter" /\ work[j].by = {}
      BY <2>1, DeadLettersAre
    <3> HIDE DEF new
    <3> QED BY <3>1, <3>2 DEF JobRows, Moves, JobFine
  <2>2. CASE j \notin DeadLetters \ keep
    BY <1>1, <2>2, StaysPut
  <2> QED BY <2>1, <2>2
<1>4. DOMAIN work' = Work /\ work' = [j \in Work |-> work'[j]]
  BY <1>1
<1>5. UNCHANGED <<step, manual, early>>
  BY DEF Compact
<1> QED BY <1>1, <1>3, <1>4, <1>5, RefreshedSays, JobsStep

LEMMA AutoRecoverStep ==
  ASSUME RecoveryAssumption, RecoveryInv, NEW j \in Work, AutoRecover(j) PROVE RecoveryInv'
<1>1. /\ j \in DeadLetters /\ work[j].recovered < RecoveryLimit
      /\ work' = [work EXCEPT ![j] = [Again(work[j]) EXCEPT !.recovered = work[j].recovered + 1]]
      /\ run' = run \/ run' = "running" 
      /\ UNCHANGED <<step, manual, early>>
  BY DEF AutoRecover
<1>2. work \in [Work -> JobRows] /\ work[j] \in JobRows
  BY DEF RecoveryInv
<1>3. work[j].recovered + 1 \in 0..RecoveryLimit
  BY <1>1, <1>2 DEF JobRows, RecoveryAssumption
<1>4. Moves(work[j], work'[j])
  <2>1. work'[j] = [Again(work[j]) EXCEPT !.recovered = work[j].recovered + 1]
    BY <1>1, <1>2
  <2>2. Again(work[j]) \in JobRows /\ Moves(work[j], Again(work[j]))
    BY <1>1, AgainMoves
  <2> DEFINE r == Again(work[j])
             n == work[j].recovered + 1
  <2> HIDE DEF r, n
  <2>3. work'[j] = [r EXCEPT !.recovered = n] /\ n \in 0..RecoveryLimit
    BY <1>3, <2>1 DEF r, n
  <2> QED BY <2>2, <2>3 DEF r, JobRows, Moves, JobFine
<1>5. \A k \in Work : Moves(work[k], work'[k])
  BY <1>1, <1>2, <1>4, StaysPut
<1>6. DOMAIN work' = Work /\ work' = [k \in Work |-> work'[k]]
  BY <1>1, <1>2
<1> QED BY <1>1, <1>5, <1>6, JobsStep

LEMMA MigrateStep == ASSUME RecoveryInv, Migrate PROVE RecoveryInv'
<1>1. PICK jobs \in (SUBSET ConflictBacklog) \cup {ConnectorBacklog} :
        LET backlog == {j \in jobs : Type(j) = Sync} IN
        /\ work' = [j \in Work |-> IF j \in backlog
                                  THEN [work[j] EXCEPT !.status = "superseded"] ELSE work[j]]
        /\ RefreshFor(backlog)
  BY DEF Migrate
<1> DEFINE backlog == {j \in jobs : Type(j) = Sync}
<1>2. \A j \in backlog : j \in Work /\ work[j].status \notin {"completed", "absent"}
  BY DEF ConflictBacklog, ConnectorBacklog, RecoveryInv, JobFine
<1>3. /\ work' = [j \in Work |-> IF j \in backlog
                                THEN [work[j] EXCEPT !.status = "superseded"] ELSE work[j]]
      /\ RefreshFor(backlog)
  BY <1>1
<1> HIDE DEF backlog
<1>4. \A j \in Work : Moves(work[j], work'[j])
  <2> SUFFICES ASSUME NEW j \in Work PROVE Moves(work[j], work'[j])
    OBVIOUS
  <2>1. CASE j \in backlog
    <3>1. work'[j] = [work[j] EXCEPT !.status = "superseded"] /\ work[j] \in JobRows
      BY <1>3, <2>1 DEF RecoveryInv
    <3> QED BY <1>2, <2>1, <3>1 DEF JobRows, Moves, JobFine
  <2>2. CASE j \notin backlog
    BY <1>3, <2>2, StaysPut
  <2> QED BY <2>1, <2>2
<1>5. DOMAIN work' = Work /\ work' = [j \in Work |-> work'[j]]
  BY <1>3
<1>6. UNCHANGED <<step, manual, early>>
  BY DEF Migrate
<1> QED BY <1>3, <1>4, <1>5, <1>6, RefreshedSays, JobsStep

LEMMA RecoveryNextInv ==
  ASSUME RecoveryAssumption, RecoveryInv, [RecoveryNext]_recoveryVars PROVE RecoveryInv'
<1>1. CASE UNCHANGED recoveryVars
  BY <1>1 DEF recoveryVars, RecoveryInv, IsDone, RunJobs
<1>2. CASE RequestRun \/ StartRun \/ Dispatched \/ DispatchFails
  BY <1>2, ObjectiveStep
<1>3. CASE VerifyRun
  BY <1>3, VerifyStep
<1>4. CASE ResumeRun
  BY <1>4, ResumeStep
<1>5. CASE Compact
  BY <1>5, CompactStep
<1>6. CASE RecoverAll \/ \E j \in Work : RequeueLetter(j)
  BY <1>6, RequeueStep
<1>7. CASE Migrate
  BY <1>7, MigrateStep
<1>8. CASE \E j \in Work : JobEnds(j) \/ Enqueue(j) \/ AutoRecover(j)
  BY <1>8, JobEndsStep, EnqueueStep, AutoRecoverStep
<1> QED BY <1>1, <1>2, <1>3, <1>4, <1>5, <1>6, <1>7, <1>8 DEF RecoveryNext

LEMMA RecoveryAlways == ASSUME RecoveryAssumption PROVE RecoverySpec => []RecoveryInv
BY RecoveryInitInv, RecoveryNextInv, PTL DEF RecoverySpec

LEMMA RecoveryInvKeeps == ASSUME RecoveryInv PROVE RecoveryTypeOK /\ DoneMeansDone
BY DEF RecoveryInv, JobRows, RecoveryTypeOK, DoneMeansDone, IsDone

\* A job's row keeps its type, and how often it was recovered stays within the limit.
THEOREM RecoveryTypes == ASSUME RecoveryAssumption PROVE RecoverySpec => []RecoveryTypeOK
BY RecoveryAlways, RecoveryInvKeeps, PTL

\* A run or a step that recovery calls completed has all its jobs done, by themselves
\* or by one that replaced them, unless it was called so before they were enqueued:
\* for any work, and any order of compaction, resumption and migration.
THEOREM DoneIsDone == ASSUME RecoveryAssumption PROVE RecoverySpec => []DoneMeansDone
BY RecoveryAlways, RecoveryInvKeeps, PTL

(***************************************************************************)
(* Documents from portals                                                  *)
(***************************************************************************)

SeenRows == [status : SourceStates, challenge : Challenges \cup {"none"}, code : BOOLEAN]
SourceRows == [status : SourceStates, challenge : Challenges \cup {"none"},
               code : BOOLEAN, proven : BOOLEAN]
FetcherRows ==
  [pc : {"idle", "syncing", "listed", "downloading", "downloaded", "taken"},
   seen : SeenRows, found : SUBSET Papers, todo : SUBSET Papers,
   paper : Papers \cup {NoPaper}, failed : BOOLEAN, whole : BOOLEAN]

\* What a session has in its hands is a document, and ingested when it says so.
Holding(r, taken) ==
  /\ r.pc \in {"downloading", "downloaded", "taken"} => r.paper \in Papers
  /\ r.pc = "taken" => r.paper \in taken
  /\ r.pc \in {"idle", "syncing", "listed"} => r.paper = NoPaper

\* What a session has found is ingested, in its hands or still to be fetched, unless its
\* list was cut or an item of it failed.
Accounted(r, taken) ==
  r.pc \in {"listed", "downloading", "downloaded", "taken"} /\ r.whole /\ ~r.failed
    => r.found \subseteq taken \cup r.todo \cup {r.paper}

PaperInv ==
  /\ source \in SourceRows
  /\ papers \in [Papers -> PaperStates]
  /\ fetcher \in [Fetchers -> FetcherRows]
  /\ archive \subseteq Papers /\ arrived \subseteq archive
  /\ \A d \in Papers : papers[d] = "ingested" => d \in archive
  /\ \A s \in Fetchers : Holding(fetcher[s], archive) /\ Accounted(fetcher[s], archive)

LEMMA GoneIsFetcher ==
  /\ Gone \in FetcherRows
  /\ Gone.pc = "idle" /\ Gone.paper = NoPaper
BY DEF Gone, FetcherRows, SeenRows, Configured, SourceStates, Challenges

LEMMA ConfiguredIsSeen == Configured \in SeenRows /\ Columns = {"status", "challenge", "code"}
BY DEF Configured, SeenRows, Columns, SourceStates, Challenges

LEMMA PaperInitInv == ASSUME PaperInit PROVE PaperInv
BY GoneIsFetcher DEF PaperInit, PaperInv, SourceRows, SourceStates, Challenges, PaperStates,
   Holding, Accounted

\* Writing back the columns that a session has changed leaves a row of the source.
LEMMA ChangedIsSource ==
  ASSUME PaperInv, NEW s \in Fetchers, NEW to \in SeenRows
  PROVE  Changed(s, to) \in SourceRows /\ Changed(s, to).proven = source.proven
<1>1. source \in SourceRows
  BY DEF PaperInv
<1>2. DOMAIN source = {"status", "challenge", "code", "proven"}
  BY <1>1 DEF SourceRows
<1> QED BY <1>1, <1>2, ConfiguredIsSeen DEF Changed, SourceRows, SeenRows

LEMMA PaperMoves ==
  ASSUME PaperInv, NEW s \in Fetchers, NEW r \in FetcherRows,
         fetcher' = [fetcher EXCEPT ![s] = r],
         source' \in SourceRows, papers' \in [Papers -> PaperStates],
         archive \subseteq archive', archive' \subseteq Papers, arrived' \subseteq archive',
         \A d \in Papers : papers'[d] = "ingested" => d \in archive',
         Holding(r, archive'), Accounted(r, archive')
  PROVE  PaperInv'
<1>1. fetcher' \in [Fetchers -> FetcherRows]
  BY DEF PaperInv
<1>2. ASSUME NEW o \in Fetchers
      PROVE  Holding(fetcher'[o], archive') /\ Accounted(fetcher'[o], archive')
  <2>1. CASE o = s
    BY <2>1 DEF PaperInv
  <2>2. CASE o # s
    <3>1. fetcher'[o] = fetcher[o]
      BY <2>2 DEF PaperInv
    <3>2. Holding(fetcher[o], archive) /\ Accounted(fetcher[o], archive)
      BY DEF PaperInv
    <3> QED BY <3>1, <3>2 DEF Holding, Accounted
  <2> QED BY <2>1, <2>2
<1> QED BY <1>1, <1>2 DEF PaperInv

\* A session that leaves
LEMMA PaperLeaves ==
  ASSUME PaperInv, NEW s \in Fetchers, Leave(s), source' \in SourceRows,
         papers' \in [Papers -> PaperStates], archive' = archive, arrived' \subseteq archive,
         \A d \in Papers : papers'[d] = "ingested" => d \in archive
  PROVE  PaperInv'
<1>1. Holding(Gone, archive') /\ Accounted(Gone, archive')
  BY GoneIsFetcher DEF Holding, Accounted
<1>2. archive' \subseteq Papers
  BY DEF PaperInv
<1>3. fetcher' = [fetcher EXCEPT ![s] = Gone]
  BY DEF Leave, Fetcher
<1> HIDE DEF Gone
<1> QED BY <1>1, <1>2, <1>3, GoneIsFetcher, PaperMoves

\* The owner and the portal's configuration
LEMMA SourceStep ==
  ASSUME PaperInv, UpsertSource \/ DeleteSource \/ SetAuthCode \/ TestSource PROVE PaperInv'
<1>1. source \in SourceRows /\ DOMAIN source = {"status", "challenge", "code", "proven"}
  BY DEF PaperInv, SourceRows
<1>2. ASSUME source' \in SourceRows, UNCHANGED <<papers, fetcher, archive, arrived>>
      PROVE  PaperInv'
  BY <1>2 DEF PaperInv
<1>3. CASE UpsertSource
  <2>1. source' \in SourceRows
    <3>1. PICK proven \in {source.proven, FALSE} :
            source' = [c \in DOMAIN source |-> IF c = "proven" THEN proven ELSE Configured[c]]
      BY <1>3 DEF UpsertSource
    <3>2. proven \in BOOLEAN
      BY <1>1 DEF SourceRows
    <3> QED BY <1>1, <3>1, <3>2 DEF SourceRows, Configured, SourceStates, Challenges
  <2> QED BY <1>2, <1>3, <2>1 DEF UpsertSource
<1>4. CASE DeleteSource
  <2>1. source' \in SourceRows
    BY <1>1, <1>4 DEF DeleteSource, SourceRows, SourceStates, Challenges
  <2>2. papers' \in [Papers -> PaperStates] /\ \A d \in Papers : papers'[d] # "ingested"
    BY <1>4 DEF DeleteSource, PaperStates
  <2>3. fetcher' \in [Fetchers -> FetcherRows] /\ \A s \in Fetchers : fetcher'[s] = Gone
    BY <1>4, GoneIsFetcher DEF DeleteSource
  <2> HIDE DEF Gone
  <2> QED BY <1>4, <2>1, <2>2, <2>3, GoneIsFetcher DEF DeleteSource, PaperInv, Holding, Accounted
<1>5. CASE SetAuthCode
  <2>1. source' \in SourceRows
    BY <1>1, <1>5 DEF SetAuthCode, SourceRows, SourceStates
  <2> QED BY <1>2, <1>5, <2>1 DEF SetAuthCode
<1>6. CASE TestSource
  <2>1. source' \in SourceRows
    BY <1>1, <1>6 DEF TestSource, SourceRows, SourceStates, Challenges
  <2> QED BY <1>2, <1>6, <2>1 DEF TestSource
<1> QED BY <1>3, <1>4, <1>5, <1>6

LEMMA StartSyncStep == ASSUME PaperInv, NEW s \in Fetchers, StartSync(s) PROVE PaperInv'
<1> DEFINE r == [Gone EXCEPT !.pc = "syncing", !.seen = [Row EXCEPT !.status = "syncing"]]
<1>1. source \in SourceRows
  BY DEF PaperInv
<1>2. [Row EXCEPT !.status = "syncing"] \in SeenRows
  <2>1. Row = [status |-> source.status, challenge |-> source.challenge, code |-> source.code]
    BY ConfiguredIsSeen DEF Row
  <2> QED BY <1>1, <2>1 DEF SourceRows, SeenRows, SourceStates
<1>3. r \in FetcherRows /\ r.pc = "syncing" /\ r.paper = NoPaper
  BY <1>2, GoneIsFetcher DEF FetcherRows
<1>4. source' \in SourceRows
  BY <1>1 DEF StartSync, SourceRows, SourceStates
<1>5. Holding(r, archive') /\ Accounted(r, archive')
  BY <1>3 DEF Holding, Accounted
<1>6. fetcher' = [fetcher EXCEPT ![s] = r]
  BY DEF StartSync, Fetcher
<1> HIDE DEF r
<1> QED BY <1>3, <1>4, <1>5, <1>6, PaperMoves DEF StartSync, PaperInv

\* The portal asks, or the discovery breaks off.
LEMMA BreakOffStep ==
  ASSUME PaperInv, NEW s \in Fetchers, Challenged(s) \/ DiscoveryFails(s) \/ SessionDies(s)
  PROVE  PaperInv'
<1>1. fetcher[s].seen \in SeenRows
  BY DEF PaperInv, FetcherRows
<1>2. CASE Challenged(s)
  <2>1. PICK kind \in Challenges :
          source' = Changed(s, [status |-> "needs_user_auth", challenge |-> kind,
                      code |-> fetcher[s].seen.code /\ fetcher[s].seen.challenge # "otp"])
    BY <1>2 DEF Challenged
  <2>2. [status |-> "needs_user_auth", challenge |-> kind,
         code |-> fetcher[s].seen.code /\ fetcher[s].seen.challenge # "otp"] \in SeenRows
    BY <1>1 DEF SeenRows, SourceStates
  <2>3. source' \in SourceRows
    BY <2>1, <2>2, ChangedIsSource
  <2> QED BY <1>2, <2>3, PaperLeaves DEF Challenged, PaperInv
<1>3. CASE DiscoveryFails(s)
  <2>1. [fetcher[s].seen EXCEPT !.status = "failed"] \in SeenRows
    BY <1>1 DEF SeenRows, SourceStates
  <2>2. source' \in SourceRows
    BY <1>3, <2>1, ChangedIsSource DEF DiscoveryFails
  <2> QED BY <1>3, <2>2, PaperLeaves DEF DiscoveryFails, PaperInv
<1>4. CASE SessionDies(s)
  BY <1>4, PaperLeaves DEF SessionDies, PaperInv
<1> QED BY <1>2, <1>3, <1>4

\* What is found is ingested or waits to be fetched.
LEMMA ListStep == ASSUME PaperInv, NEW s \in Fetchers, ListDocuments(s) PROVE PaperInv'
<1>1. PICK found \in Listings :
        LET listed == [d \in Papers |->
              IF d \notin found THEN papers[d]
              ELSE CASE papers[d] = "none" -> "discovered"
                     [] papers[d] = "needs_user_auth" -> "retry"
                     [] OTHER -> papers[d]]
            waiting == {d \in Papers : listed[d] \in Resumable}
            known == [Configured EXCEPT !.status =
                        IF found = {} /\ source.proven THEN "degraded" ELSE "ready"] IN
        /\ papers' = listed
        /\ source' = Changed(s, known)
        /\ \E todo \in SUBSET waiting :
             /\ todo = waiting \/ Cardinality(todo) = PaperLimit
             /\ Cardinality(todo) <= PaperLimit
             /\ Fetcher(s, [fetcher[s] EXCEPT !.pc = "listed", !.seen = known,
                  !.found = found, !.todo = todo, !.whole = todo = waiting])
  BY DEF ListDocuments
<1> DEFINE listed == [d \in Papers |->
              IF d \notin found THEN papers[d]
              ELSE CASE papers[d] = "none" -> "discovered"
                     [] papers[d] = "needs_user_auth" -> "retry"
                     [] OTHER -> papers[d]]
           waiting == {d \in Papers : listed[d] \in Resumable}
           known == [Configured EXCEPT !.status =
                        IF found = {} /\ source.proven THEN "degraded" ELSE "ready"]
<1>2. PICK todo \in SUBSET waiting :
        fetcher' = [fetcher EXCEPT ![s] = [fetcher[s] EXCEPT !.pc = "listed", !.seen = known,
                  !.found = found, !.todo = todo, !.whole = todo = waiting]]
  BY <1>1 DEF Fetcher
<1> DEFINE r == [fetcher[s] EXCEPT !.pc = "listed", !.seen = known,
                  !.found = found, !.todo = todo, !.whole = todo = waiting]
<1>3. papers \in [Papers -> PaperStates]
  BY DEF PaperInv
<1>4. listed \in [Papers -> PaperStates]
  BY <1>3 DEF PaperStates
<1>5. \A d \in Papers : listed[d] = "ingested" => d \in archive
  BY <1>3 DEF PaperStates, PaperInv
<1>6. \A d \in found : d \in waiting \/ d \in archive
  <2>1. ASSUME NEW d \in found PROVE d \in waiting \/ listed[d] = "ingested"
    <3>1. d \in Papers
      BY DEF Listings
    <3>2. listed[d] \in {"discovered", "retry", "downloaded", "downloading", "ingested"}
      BY <3>1, <1>3 DEF PaperStates
    <3> QED BY <3>1, <3>2 DEF Resumable
  <2> QED BY <2>1, <1>5 DEF Listings
<1>7. known \in SeenRows
  BY ConfiguredIsSeen DEF SeenRows, SourceStates
<1>8. papers' = listed /\ source' \in SourceRows
  BY <1>1, <1>7, ChangedIsSource
<1>9. /\ fetcher[s] \in FetcherRows /\ found \subseteq Papers /\ waiting \subseteq Papers
      /\ Holding(fetcher[s], archive) /\ archive \subseteq Papers /\ arrived \subseteq archive
      /\ fetcher' = [fetcher EXCEPT ![s] = r]
  BY <1>2 DEF PaperInv, Listings
<1> HIDE DEF known, waiting, listed
<1>10. r \in FetcherRows /\ r.pc = "listed" /\ r.paper = fetcher[s].paper
       /\ r.found = found /\ r.todo = todo /\ (r.whole => todo = waiting)
  BY <1>7, <1>9 DEF FetcherRows
<1>11. archive' = archive /\ arrived' = arrived /\ fetcher[s].pc = "syncing"
  BY DEF ListDocuments
<1>12. Holding(r, archive') /\ Accounted(r, archive')
  BY <1>6, <1>9, <1>10, <1>11 DEF Holding, Accounted
<1> HIDE DEF r
<1> QED BY <1>4, <1>5, <1>8, <1>9, <1>10, <1>11, <1>12, PaperMoves

\* Steps with one document in hand, which leave the source alone
LEMMA DownloadStep ==
  ASSUME PaperAssumption, PaperInv, NEW s \in Fetchers,
         \/ BeginDownload(s) \/ Downloaded(s) \/ Ingest(s) \/ Ingested(s) \/ ItemFails(s)
  PROVE  PaperInv'
<1> DEFINE at == fetcher[s]
<1>1. /\ at \in FetcherRows /\ Holding(at, archive) /\ Accounted(at, archive)
      /\ source \in SourceRows /\ papers \in [Papers -> PaperStates]
      /\ archive \subseteq Papers /\ arrived \subseteq archive
      /\ \A d \in Papers : papers[d] = "ingested" => d \in archive
  BY DEF PaperInv
<1> HIDE DEF at
<1>2. CASE BeginDownload(s)
  <2>1. PICK d \in at.todo :
          /\ papers' = [papers EXCEPT ![d] = "downloading"]
          /\ fetcher' = [fetcher EXCEPT ![s] = [at EXCEPT !.pc = "downloading", !.paper = d,
                                                 !.todo = at.todo \ {d}]]
    BY <1>2 DEF BeginDownload, Fetcher, at
  <2> DEFINE r == [at EXCEPT !.pc = "downloading", !.paper = d, !.todo = at.todo \ {d}]
  <2>2. at.pc = "listed" /\ UNCHANGED <<source, archive, arrived>>
    BY <1>2 DEF BeginDownload, at
  <2>3. d \in Papers
    BY <1>1 DEF FetcherRows
  <2>4. r \in FetcherRows
    BY <1>1, <2>3 DEF FetcherRows
  <2>5. Holding(r, archive) /\ Accounted(r, archive)
    BY <1>1, <2>2, <2>3 DEF FetcherRows, Holding, Accounted, PaperAssumption
  <2>6. papers' \in [Papers -> PaperStates] /\ \A e \in Papers : papers'[e] = "ingested" => e \in archive
    BY <1>1, <2>1 DEF PaperStates
  <2> HIDE DEF r
  <2> QED BY <1>1, <2>1, <2>2, <2>4, <2>5, <2>6, PaperMoves DEF r
<1>3. CASE Downloaded(s)
  <2> DEFINE r == [at EXCEPT !.pc = "downloaded"]
  <2>1. /\ fetcher' = [fetcher EXCEPT ![s] = r] /\ papers' = [papers EXCEPT ![at.paper] = "downloaded"]
        /\ at.pc = "downloading" /\ UNCHANGED <<source, archive, arrived>>
    BY <1>3 DEF Downloaded, Fetcher, at
  <2>2. r \in FetcherRows /\ Holding(r, archive) /\ Accounted(r, archive)
    BY <1>1, <2>1 DEF FetcherRows, Holding, Accounted
  <2>3. papers' \in [Papers -> PaperStates] /\ \A e \in Papers : papers'[e] = "ingested" => e \in archive
    BY <1>1, <2>1 DEF PaperStates
  <2> HIDE DEF r
  <2> QED BY <1>1, <2>1, <2>2, <2>3, PaperMoves
<1>4. CASE Ingest(s)
  <2> DEFINE r == [at EXCEPT !.pc = "taken"]
  <2>1. /\ fetcher' = [fetcher EXCEPT ![s] = r] /\ archive' = archive \cup {at.paper}
        /\ at.pc = "downloaded" /\ UNCHANGED <<source, papers, arrived>>
    BY <1>4 DEF Ingest, Fetcher, at
  <2>2. r \in FetcherRows /\ Holding(r, archive') /\ Accounted(r, archive')
    BY <1>1, <2>1 DEF FetcherRows, Holding, Accounted
  <2>3. archive' \subseteq Papers
    BY <1>1, <2>1 DEF Holding
  <2> HIDE DEF r
  <2> QED BY <1>1, <2>1, <2>2, <2>3, PaperMoves
<1>5. CASE Ingested(s)
  <2> DEFINE r == [at EXCEPT !.pc = "listed", !.paper = NoPaper]
  <2>1. /\ fetcher' = [fetcher EXCEPT ![s] = r] /\ papers' = [papers EXCEPT ![at.paper] = "ingested"]
        /\ at.pc = "taken" /\ UNCHANGED <<source, archive, arrived>>
    BY <1>5 DEF Ingested, Fetcher, at
  <2>2. r \in FetcherRows /\ Holding(r, archive) /\ Accounted(r, archive)
    BY <1>1, <2>1 DEF FetcherRows, Holding, Accounted
  <2>3. papers' \in [Papers -> PaperStates] /\ \A e \in Papers : papers'[e] = "ingested" => e \in archive
    BY <1>1, <2>1 DEF PaperStates, Holding
  <2> HIDE DEF r
  <2> QED BY <1>1, <2>1, <2>2, <2>3, PaperMoves
<1>6. CASE ItemFails(s)
  <2> DEFINE r == [at EXCEPT !.pc = "listed", !.paper = NoPaper, !.failed = TRUE]
  <2>1. /\ fetcher' = [fetcher EXCEPT ![s] = r] /\ papers' = [papers EXCEPT ![at.paper] = "retry"]
        /\ UNCHANGED <<source, archive, arrived>>
    BY <1>6 DEF ItemFails, Fetcher, at
  <2>2. r \in FetcherRows /\ Holding(r, archive) /\ Accounted(r, archive)
    BY <1>1 DEF FetcherRows, Holding, Accounted
  <2>3. papers' \in [Papers -> PaperStates] /\ \A e \in Papers : papers'[e] = "ingested" => e \in archive
    BY <1>1, <2>1 DEF PaperStates
  <2> HIDE DEF r
  <2> QED BY <1>1, <2>1, <2>2, <2>3, PaperMoves
<1> QED BY <1>2, <1>3, <1>4, <1>5, <1>6

LEMMA ItemChallengedStep == ASSUME PaperInv, NEW s \in Fetchers, ItemChallenged(s) PROVE PaperInv'
<1>1. source' \in SourceRows
  <2>1. PICK kind \in Challenges :
          source' = Changed(s, [status |-> "needs_user_auth", challenge |-> kind, code |-> FALSE])
    BY DEF ItemChallenged
  <2>2. [status |-> "needs_user_auth", challenge |-> kind, code |-> FALSE] \in SeenRows
    BY DEF SeenRows, SourceStates
  <2> QED BY <2>1, <2>2, ChangedIsSource
<1>2. papers' \in [Papers -> PaperStates] /\ \A e \in Papers : papers'[e] = "ingested" => e \in archive
  BY DEF ItemChallenged, PaperInv, PaperStates
<1> QED BY <1>1, <1>2, PaperLeaves DEF ItemChallenged, PaperInv

\* A clean sync has nothing left: all that it found is ingested.
LEMMA FinishSyncStep ==
  ASSUME PaperAssumption, PaperInv, NEW s \in Fetchers, FinishSync(s) PROVE PaperInv'
<1> DEFINE at == fetcher[s]
           clean == at.seen.status # "degraded" /\ ~at.failed
           status == CASE at.seen.status = "degraded" -> "degraded"
                       [] at.failed -> "partial"
                       [] OTHER -> "ready"
           to == [at.seen EXCEPT !.status = status]
<1>1. /\ at \in FetcherRows /\ Holding(at, archive) /\ Accounted(at, archive)
      /\ archive \subseteq Papers /\ arrived \subseteq archive
  BY DEF PaperInv
<1>2. /\ at.pc = "listed" /\ at.todo = {} /\ Leave(s) /\ UNCHANGED <<papers, archive>>
      /\ source' = [Changed(s, to) EXCEPT !.proven = Changed(s, to).proven \/ (clean /\ at.found # {})]
      /\ arrived' = IF clean /\ at.whole THEN arrived \cup at.found ELSE arrived
  BY DEF FinishSync
<1>3. to \in SeenRows
  BY <1>1 DEF FetcherRows, SeenRows, SourceStates
<1>4. source' \in SourceRows
  <2>1. Changed(s, to) \in SourceRows
    BY <1>3, ChangedIsSource
  <2>2. Changed(s, to).proven \in BOOLEAN
    BY <2>1 DEF SourceRows
  <2> HIDE DEF to
  <2> QED BY <1>2, <2>1, <2>2 DEF SourceRows
<1>5. arrived' \subseteq archive
  <2>1. ASSUME clean, at.whole, NEW d \in at.found PROVE d \in archive
    <3>1. d \in Papers /\ d # NoPaper
      BY <1>1 DEF FetcherRows, PaperAssumption
    <3> QED BY <1>1, <1>2, <2>1, <3>1 DEF Accounted, Holding
  <2> QED BY <1>1, <1>2, <2>1
<1> QED BY <1>2, <1>4, <1>5, PaperLeaves DEF PaperInv

LEMMA PaperAlways == ASSUME PaperAssumption PROVE PaperSpec => []PaperInv
<1>1. PaperInit => PaperInv
  BY PaperInitInv
<1>2. PaperInv /\ [PaperNext]_paperVars => PaperInv'
  <2>1. ASSUME PaperInv, UNCHANGED paperVars PROVE PaperInv'
    BY <2>1 DEF PaperInv, paperVars
  <2> QED BY <2>1, SourceStep, StartSyncStep, BreakOffStep, ListStep, DownloadStep, ItemChallengedStep,
        FinishSyncStep DEF PaperNext
<1> QED BY <1>1, <1>2, PTL DEF PaperSpec

\* Rows, sessions and documents keep their types whatever syncs cross.
THEOREM PaperTypes == ASSUME PaperAssumption PROVE PaperSpec => []PaperTypeOK
<1>1. PaperInv => PaperTypeOK
  BY DEF PaperInv, PaperTypeOK, SourceRows, FetcherRows
<1> QED BY <1>1, PaperAlways, PTL

\* What a portal listed to a sync that took all of it and was clean has been ingested,
\* whatever other syncs do meanwhile and wherever earlier ones broke off, and a row is
\* called ingested only when its document is: for any documents and sessions. What the
\* sync has found is at every step ingested, in its hands or still to be fetched.
THEOREM ListedPapersArrive == ASSUME PaperAssumption PROVE PaperSpec => []PortalDocumentsArrive
<1>1. PaperInv => PortalDocumentsArrive
  BY DEF PaperInv, PortalDocumentsArrive
<1> QED BY <1>1, PaperAlways, PTL

(***************************************************************************)
(* What the owner is asked                                                 *)
(***************************************************************************)

PromptStates == Closed \cup {"none", "needs_user", "blocked", "waiting_external"}
PromptRows == [kind : Sourced \cup Guarded,
               status : Closed \cup {"open", "waiting", "failed", "pending", "dead_letter",
                 "superseded"},
               asks : SUBSET Periods, latest : Periods]
CycleRows == [stage : CycleStages, want : Closed \cup {"none", "waiting_external"},
              last : BOOLEAN, whole : BOOLEAN, alone : BOOLEAN]

RowFine(r) ==
  /\ r \in PromptRows
  /\ r.kind \in Sourced => r.asks \subseteq {1}
  /\ r.kind = "payment" => r.status \in {"open", "completed", "failed"}
                           /\ (r.status # "open" => r.asks = {})
  /\ r.kind = "task" => r.status \in Closed \cup {"open", "waiting"}
  /\ r.kind = "letter" => r.status \in {"pending", "dead_letter", "completed", "superseded"}
                          /\ (r.status # "dead_letter" => r.asks = {})
  /\ r.kind \in Guarded => r.status = "open"
  /\ r.kind = "oauth" => r.asks \subseteq {r.latest}

\* The objectives of an authorization: a period that does not ask has none or a completed
\* one, and no period has a completed one that may ask still.
GuardedFine ==
  /\ row.kind = "bank" => \A p \in Periods :
       prompt[p] \in (IF p \in row.asks THEN {"none", "needs_user"} ELSE {"none"})
  /\ row.kind = "oauth" => \A p \in Periods : p >= row.latest =>
       prompt[p] \in (IF p \in row.asks THEN {"none", "needs_user"} ELSE {"none"})

\* The objective of a row is made of its event, and nothing else.
SourcedFine ==
  row.kind \in Sourced =>
    /\ \A p \in Periods : p # 1 => prompt[p] = "none"
    /\ prompt[1] # "none" <=> event.status = "processed"

\* A row in its first need, and what the event and the objective say of it
FirstNeed ==
  row.kind \in Sourced /\ shown # "past" =>
    /\ event.status # "none" \/ row.kind = "task" => Actionable
    /\ event.status # "none" /\ Needs => event.as = "needs_user"
    /\ event.status = "processed" => prompt[1] = event.as
    /\ shown = "yes" => event.status = "processed"

\* A session that saw the whole need has seeded its event, and soon made its objective; it
\* is to write only to a row whose first need is over, and what fits the row when alone.
CycleFine(c) ==
  /\ c.stage # "idle" => row.kind \in Sourced
  /\ c.whole => Needs
  /\ c.whole /\ shown # "past" => event.status # "none"
  /\ c.whole /\ shown # "past" /\ c.stage \in {"read", "write", "recover"}
       => event.status = "processed"
  /\ c.stage = "write" /\ c.want # "none" => shown = "past" /\ event.status = "processed"
  /\ c.stage = "write" /\ c.alone => c.want = Reconciled
  /\ c.stage = "resume" => shown = "past" /\ row.kind = "letter" /\ event.status = "processed"

Fits ==
  /\ row.status = "completed" => prompt[1] \in Closed \cup {"none"}
  /\ \A p \in Periods : prompt[p] = "needs_user" => MayAsk(p)

PromptTypes ==
  /\ RowFine(row)
  /\ event \in [status : {"none", "new", "processed"}, as : {"none", "needs_user", "blocked"}]
  /\ event.status # "none" => event.as # "none"
  /\ prompt \in [Periods -> PromptStates]
  /\ cycle \in [Cycles -> CycleRows]
  /\ shown \in {"no", "yes", "past"} /\ current \in BOOLEAN

PromptInv ==
  /\ PromptTypes
  /\ GuardedFine /\ SourcedFine /\ FirstNeed
  /\ row.kind \in Guarded => event.status = "none" /\ shown # "past"
  /\ row.kind \in Guarded /\ shown = "yes" => \A p \in row.asks : prompt[p] = "needs_user"
  /\ \A s \in Cycles : CycleFine(cycle[s])
  /\ current => Fits

LEMMA PeriodsAre == ASSUME PromptAssumption PROVE 1 \in Periods /\ Periods \subseteq Nat
BY DEF PromptAssumption, Periods

LEMMA IdleIs == Idle \in CycleRows /\ Idle.stage = "idle" /\ Idle.whole = FALSE
BY DEF Idle, CycleRows, CycleStages, Closed

LEMMA PromptInitInv == ASSUME PromptAssumption, PromptInit PROVE PromptInv
<1>1. /\ RowFine(row) /\ row.latest = 1
      /\ row.kind \in {"payment", "task", "bank", "oauth"} => row.status = "open"
      /\ row.kind = "letter" => row.status = "pending"
      /\ row.kind \in Guarded => row.asks = {}
  BY PeriodsAre DEF PromptInit, RowFine, PromptRows, Sourced, Guarded, Closed
<1>2. /\ event = [status |-> "none", as |-> "none"]
      /\ prompt = [p \in Periods |-> "none"] /\ cycle = [s \in Cycles |-> Idle]
      /\ shown = "no" /\ current = FALSE
  BY DEF PromptInit
<1>3. PromptTypes
  <2>1. event \in [status : {"none", "new", "processed"}, as : {"none", "needs_user", "blocked"}]
        /\ event.status = "none"
    BY <1>2
  <2>2. prompt \in [Periods -> PromptStates] /\ cycle \in [Cycles -> CycleRows]
    BY <1>2, IdleIs DEF PromptStates
  <2>3. current \in BOOLEAN
    BY <1>2, Zenon
  <2> QED BY <1>1, <1>2, <2>1, <2>2, <2>3 DEF PromptTypes
<1>4. event.status = "none" /\ \A p \in Periods : prompt[p] = "none"
  BY <1>2
<1>5. GuardedFine /\ SourcedFine
  BY <1>1, <1>4, PeriodsAre DEF GuardedFine, SourcedFine, Sourced, Guarded
<1>6. FirstNeed
  BY <1>1, <1>2, <1>4 DEF FirstNeed, Actionable, Sourced
<1>7. \A s \in Cycles : CycleFine(cycle[s])
  BY <1>2, IdleIs DEF CycleFine
<1>8. row.kind \in Guarded => event.status = "none" /\ shown # "past" /\ shown # "yes"
  BY <1>2, <1>4
<1> QED BY <1>2, <1>3, <1>5, <1>6, <1>7, <1>8 DEF PromptInv

-----------------------------------------------------------------------------
\* What a change of the row respects: it does not ask anew once it has an event, unless
\* its first need is over, and a period goes on asking until the next one comes.
Onward(new) ==
  /\ RowFine(new) /\ new.kind = row.kind
  /\ row.kind \in Sourced /\ event.status # "none" /\ shown # "past" /\ new.asks # {} => Needs
  /\ row.kind = "bank" => row.asks \subseteq new.asks
  /\ row.kind = "oauth" =>
       new.latest >= row.latest /\ (new.latest = row.latest => row.asks \subseteq new.asks)

LEMMA KindsApart == /\ Sourced \cap Guarded = {}
                    /\ row.kind \in Guarded => ~Actionable
BY DEF Sourced, Guarded, Actionable

LEMMA ChangesStep ==
  ASSUME PromptAssumption, PromptInv, NEW new, Changes(new), Onward(new) PROVE PromptInv'
<1>1. /\ row' = new /\ new.kind = row.kind /\ RowFine(new) /\ current' = FALSE
      /\ event' = event /\ prompt' = prompt
      /\ cycle' = [t \in Cycles |-> [cycle[t] EXCEPT !.alone = FALSE, !.whole = FALSE]]
  BY DEF Changes, Onward
<1>2. /\ row.kind \in Sourced /\ Actionable /\ ~Actionable' => shown' = "past"
      /\ row.kind \in Sourced /\ (~Actionable \/ Actionable') => shown' = shown
      /\ row.kind \in Guarded => shown' = "no"
  BY KindsApart DEF Changes
<1>3. row.kind \in Sourced \/ row.kind \in Guarded
  BY DEF PromptInv, PromptTypes, RowFine, PromptRows
<1>4. /\ shown \in {"no", "yes", "past"} /\ shown' \in {"no", "yes", "past"}
      /\ shown = "past" /\ row.kind \in Sourced => shown' = "past"
      /\ shown' # shown /\ row.kind \in Sourced => shown' = "past"
  BY <1>2, <1>3 DEF PromptInv, PromptTypes
<1>5. PromptTypes'
  <2>1. cycle' \in [Cycles -> CycleRows]
    BY <1>1 DEF PromptInv, PromptTypes, CycleRows
  <2>2. current' \in BOOLEAN
    BY <1>1, Zenon
  <2> QED BY <1>1, <1>4, <2>1, <2>2 DEF PromptInv, PromptTypes
<1>6. GuardedFine'
  <2>1. ASSUME row.kind = "bank", NEW p \in Periods
        PROVE  prompt[p] \in IF p \in new.asks THEN {"none", "needs_user"} ELSE {"none"}
    BY <2>1 DEF Onward, PromptInv, GuardedFine
  <2>2. ASSUME row.kind = "oauth", NEW p \in Periods, p >= new.latest
        PROVE  prompt[p] \in IF p \in new.asks THEN {"none", "needs_user"} ELSE {"none"}
    <3>1. new.latest \in Nat /\ row.latest \in Nat /\ p \in Nat
      BY PeriodsAre DEF Onward, RowFine, PromptRows, PromptInv, PromptTypes
    <3>2. /\ new.latest >= row.latest /\ row.asks \subseteq {row.latest}
          /\ new.latest = row.latest => row.asks \subseteq new.asks
      BY <2>2 DEF Onward, PromptInv, PromptTypes, RowFine
    <3>3. p >= row.latest /\ (p \in row.asks => p \in new.asks)
      BY <2>2, <3>1, <3>2
    <3> QED BY <2>2, <3>3 DEF PromptInv, GuardedFine
  <2> QED BY <1>1, <2>1, <2>2 DEF GuardedFine
<1>7. SourcedFine'
  BY <1>1 DEF PromptInv, SourcedFine
<1>8. FirstNeed'
  <2> SUFFICES ASSUME row.kind \in Sourced, shown' # "past" PROVE FirstNeed'
    BY <1>1 DEF FirstNeed
  <2>1. shown' = shown /\ shown # "past" /\ (Actionable => Actionable')
    BY <1>2, <1>4
  <2>2. event.status # "none" /\ new.asks # {} => Needs
    BY <2>1 DEF Onward
  <2> QED BY <1>1, <2>1, <2>2 DEF PromptInv, FirstNeed, Needs
<1>9. row'.kind \in Guarded => event'.status = "none" /\ shown' = "no"
  BY <1>1, <1>2 DEF PromptInv
<1>10. ASSUME NEW s \in Cycles PROVE CycleFine(cycle[s])'
  <2>1. /\ cycle'[s].stage = cycle[s].stage /\ cycle'[s].want = cycle[s].want
        /\ ~cycle'[s].whole /\ ~cycle'[s].alone
    BY <1>1 DEF PromptInv, PromptTypes, CycleRows
  <2>2. CycleFine(cycle[s])
    BY DEF PromptInv
  <2>3. cycle'[s].stage # "idle" => row.kind \in Sourced
    BY <2>1, <2>2 DEF CycleFine
  <2>4. cycle'[s].stage = "write" /\ cycle'[s].want # "none"
          => shown' = "past" /\ event'.status = "processed"
    BY <1>1, <1>4, <2>1, <2>2, <2>3 DEF CycleFine
  <2>5. cycle'[s].stage = "resume"
          => shown' = "past" /\ row'.kind = "letter" /\ event'.status = "processed"
    BY <1>1, <1>4, <2>1, <2>2, <2>3 DEF CycleFine
  <2> QED BY <1>1, <2>1, <2>3, <2>4, <2>5 DEF CycleFine
<1> QED BY <1>1, <1>5, <1>6, <1>7, <1>8, <1>9, <1>10 DEF PromptInv

\* As ChangesStep wants it of the columns that Becomes sets
LEMMA BecomesStep ==
  ASSUME PromptAssumption, PromptInv, NEW status, NEW asks, Becomes(status, asks),
         Onward([row EXCEPT !.status = status, !.asks = asks])
  PROVE  PromptInv'
BY ChangesStep DEF Becomes

LEMMA RowIs == ASSUME PromptInv PROVE row \in PromptRows /\ RowFine(row)
BY DEF PromptInv, PromptTypes, RowFine

LEMMA PaymentStep == ASSUME PromptAssumption, PromptInv, PaymentMoves \/ AuthorizePayment
PROVE PromptInv'
<1>1. row.kind = "payment" /\ RowFine(row) /\ row \in PromptRows
  BY RowIs DEF PaymentMoves, AuthorizePayment
<1>2. CASE row.status = "open" /\ event.status = "none" /\ Becomes("open", {1})
  <2>1. Onward([row EXCEPT !.status = "open", !.asks = {1}])
    BY <1>1, <1>2, PeriodsAre DEF Onward, RowFine, PromptRows, Sourced, Guarded, Closed
  <2> QED BY <1>2, <2>1, BecomesStep
<1>3. ASSUME NEW status \in {row.status, "completed", "failed"}, Becomes(status, {}) PROVE PromptInv'
  <2>1. Onward([row EXCEPT !.status = status, !.asks = {}])
    BY <1>1, <1>3 DEF Onward, RowFine, PromptRows, Sourced, Guarded, Closed
  <2> QED BY <1>3, <2>1, BecomesStep
<1> QED BY <1>2, <1>3 DEF PaymentMoves, AuthorizePayment

LEMMA TaskStep == ASSUME PromptAssumption, PromptInv, TaskMoves PROVE PromptInv'
<1>1. row.kind = "task" /\ RowFine(row) /\ row \in PromptRows
  BY RowIs DEF TaskMoves
<1>2. PICK status \in {"open", "waiting", "completed", "cancelled"}, asks \in {row.asks, {}} :
        Becomes(status, asks)
  BY DEF TaskMoves
<1>3. Onward([row EXCEPT !.status = status, !.asks = asks])
  BY <1>1 DEF Onward, RowFine, PromptRows, Sourced, Guarded, Closed, Needs
<1> QED BY <1>2, <1>3, BecomesStep

LEMMA LetterStep == ASSUME PromptAssumption, PromptInv, LetterMoves PROVE PromptInv'
<1>1. row.kind = "letter" /\ RowFine(row) /\ row \in PromptRows
  BY RowIs DEF LetterMoves
<1>2. ASSUME row.status = "pending", NEW asks \in {{}, {1}}, Becomes("dead_letter", asks)
      PROVE  PromptInv'
  <2>1. event.status # "none" => shown = "past"
    BY <1>1, <1>2 DEF PromptInv, FirstNeed, Actionable, Sourced
  <2>2. Onward([row EXCEPT !.status = "dead_letter", !.asks = asks])
    BY <1>1, <2>1, PeriodsAre DEF Onward, RowFine, PromptRows, Sourced, Guarded, Closed
  <2> QED BY <1>2, <2>2, BecomesStep
<1>3. ASSUME NEW status \in {"completed", "pending", "superseded"}, Becomes(status, {})
      PROVE  PromptInv'
  <2>1. Onward([row EXCEPT !.status = status, !.asks = {}])
    BY <1>1 DEF Onward, RowFine, PromptRows, Sourced, Guarded, Closed
  <2> QED BY <1>3, <2>1, BecomesStep
<1> QED BY <1>2, <1>3 DEF LetterMoves

LEMMA PeriodStep ==
  ASSUME PromptAssumption, PromptInv, RunsOut \/ ReconnectBank \/ ReconnectGoogle PROVE PromptInv'
<1>1. row.kind \in {"bank", "oauth"} /\ RowFine(row) /\ row \in PromptRows /\ row.status = "open"
  BY RowIs DEF RunsOut, ReconnectBank, ReconnectGoogle, Guarded, RowFine
<1>2. CASE RunsOut
  <2>1. PICK p \in 1..row.latest : /\ row.kind = "oauth" => p = row.latest
                                   /\ Becomes(row.status, row.asks \cup {p})
    BY <1>2 DEF RunsOut
  <2>2. p \in Periods /\ row.latest \in Nat
    BY <1>1, <2>1 DEF PromptRows, Periods, PromptAssumption
  <2> DEFINE new == [row EXCEPT !.status = row.status, !.asks = row.asks \cup {p}]
  <2>3. /\ new \in PromptRows /\ new.kind = row.kind /\ new.status = "open"
        /\ new.asks = row.asks \cup {p} /\ new.latest = row.latest
    BY <1>1, <2>2 DEF PromptRows
  <2> HIDE DEF new
  <2>4. Onward(new)
    BY <1>1, <2>1, <2>2, <2>3 DEF Onward, RowFine, Sourced, Guarded
  <2> QED BY <2>1, <2>4, BecomesStep DEF new
<1>3. ASSUME NEW asks, asks \subseteq Periods, NextPeriod(asks),
             row.kind = "bank" => asks = row.asks,
             row.kind = "oauth" => asks \subseteq {row.latest + 1}
      PROVE  PromptInv'
  <2>1. row.latest \in Nat /\ row.latest + 1 \in Periods
    BY <1>1, <1>3 DEF NextPeriod, PromptRows, Periods, PromptAssumption
  <2> DEFINE new == [row EXCEPT !.latest = row.latest + 1, !.asks = asks]
  <2>2. /\ new \in PromptRows /\ new.kind = row.kind /\ new.status = "open"
        /\ new.asks = asks /\ new.latest = row.latest + 1
    BY <1>1, <1>3, <2>1 DEF PromptRows
  <2> HIDE DEF new
  <2>3. Onward(new)
    BY <1>1, <1>3, <2>1, <2>2 DEF Onward, RowFine, Sourced, Guarded
  <2> QED BY <1>3, <2>3, ChangesStep DEF NextPeriod, new
<1>4. CASE ReconnectBank
  BY <1>1, <1>3, <1>4 DEF ReconnectBank, PromptRows
<1>5. CASE ReconnectGoogle
  <2>1. PICK refreshable \in BOOLEAN : NextPeriod(IF refreshable THEN {} ELSE {row.latest + 1})
    BY <1>5 DEF ReconnectGoogle
  <2>2. row.latest + 1 \in Periods
    BY <1>1, <2>1 DEF NextPeriod, PromptRows, Periods, PromptAssumption
  <2> QED BY <1>3, <1>5, <2>1, <2>2 DEF ReconnectGoogle
<1> QED BY <1>2, <1>4, <1>5

LEMMA GuardianStep == ASSUME PromptAssumption, PromptInv, RunGuardian PROVE PromptInv'
<1> DEFINE new == [p \in Periods |->
       IF p \in row.asks THEN Ensured(p) ELSE IF Settled(p) THEN Verified(p) ELSE prompt[p]]
<1>1. /\ row.kind \in {"bank", "oauth"} /\ prompt' = new /\ current' = TRUE
      /\ shown' = (IF Needs THEN "yes" ELSE "no")
      /\ UNCHANGED <<row, event, cycle>>
  BY DEF RunGuardian, Guarded
<1>2. RowFine(row) /\ row \in PromptRows /\ row.latest \in Nat
  BY RowIs, PeriodsAre DEF PromptRows
<1>3. prompt \in [Periods -> PromptStates]
  BY DEF PromptInv, PromptTypes
<1>4. ASSUME NEW p \in row.asks PROVE p \in Periods /\ new[p] = "needs_user"
  <2>1. p \in Periods /\ prompt[p] \in {"none", "needs_user"}
    BY <1>1, <1>2, <1>4 DEF PromptInv, GuardedFine, PromptRows, RowFine
  <2> QED BY <1>4, <2>1 DEF Ensured, Closed
<1>5. ASSUME NEW p \in Periods \ row.asks
      PROVE  /\ row.kind = "bank" => new[p] = "none"
             /\ prompt[p] = "none" => new[p] = "none"
             /\ row.kind = "oauth" /\ ~Needs => new[p] \in {"none", "completed"}
             /\ new[p] \in PromptStates
  BY <1>1, <1>3, <1>5 DEF PromptInv, GuardedFine, Settled, Verified, PromptStates, Closed
<1>6. new \in [Periods -> PromptStates]
  BY <1>4, <1>5 DEF PromptStates
<1>7. PromptTypes'
  <2>1. current' \in BOOLEAN
    BY <1>1, Zenon
  <2>2. shown' \in {"no", "yes", "past"}
    BY <1>1
  <2> QED BY <1>1, <1>6, <2>1, <2>2 DEF PromptInv, PromptTypes
<1>8. GuardedFine'
  <2>1. ASSUME row.kind = "bank", NEW p \in Periods
        PROVE  new[p] \in IF p \in row.asks THEN {"none", "needs_user"} ELSE {"none"}
    BY <1>4, <1>5, <2>1
  <2>2. ASSUME row.kind = "oauth", NEW p \in Periods, p >= row.latest
        PROVE  new[p] \in IF p \in row.asks THEN {"none", "needs_user"} ELSE {"none"}
    <3>1. p \notin row.asks => prompt[p] = "none"
      BY <2>2 DEF PromptInv, GuardedFine
    <3> QED BY <1>4, <1>5, <2>2, <3>1
  <2> HIDE DEF new
  <2> QED BY <1>1, <2>1, <2>2 DEF GuardedFine
<1>9. Fits'
  <2>1. row.status = "open"
    BY <1>1, <1>2 DEF RowFine, Guarded
  <2>2. ASSUME NEW p \in Periods, new[p] = "needs_user" PROVE MayAsk(p)
    <3>1. CASE p \in row.asks
      BY <1>1, <3>1 DEF MayAsk, Needs
    <3>2. CASE p \notin row.asks
      <4>1. row.kind = "oauth" /\ Needs
        BY <1>1, <1>5, <2>2, <3>2
      <4> QED BY <4>1 DEF MayAsk
    <3> QED BY <3>1, <3>2
  <2> HIDE DEF new
  <2> QED BY <1>1, <2>1, <2>2 DEF Fits, MayAsk, Needs
<1>10. row.kind \notin Sourced /\ row.kind \in Guarded
  BY <1>1 DEF Sourced, Guarded
<1>11. SourcedFine' /\ FirstNeed'
  BY <1>1, <1>10 DEF SourcedFine, FirstNeed
<1>12. ASSUME NEW s \in Cycles PROVE CycleFine(cycle[s])'
  <2>1. CycleFine(cycle[s]) /\ cycle' = cycle
    BY <1>1 DEF PromptInv
  <2>2. cycle[s].stage = "idle"
    BY <1>10, <2>1 DEF CycleFine
  <2>3. shown # "past"
    BY <1>10 DEF PromptInv
  <2> QED BY <1>1, <1>10, <2>1, <2>2, <2>3 DEF CycleFine, Needs
<1>13. event'.status = "none" /\ shown' # "past"
  BY <1>1, <1>10 DEF PromptInv
<1>14. \A p \in row.asks : prompt'[p] = "needs_user"
  BY <1>1, <1>4
<1> HIDE DEF new
<1> QED BY <1>1, <1>7, <1>8, <1>9, <1>11, <1>12, <1>13, <1>14 DEF PromptInv

-----------------------------------------------------------------------------
\* What a step of the core leaves of the invariant when the row stays
LEMMA CycleIs ==
  ASSUME PromptInv, NEW s \in Cycles
  PROVE  /\ cycle[s] \in CycleRows /\ CycleFine(cycle[s])
         /\ cycle[s].stage # "idle" => row.kind \in Sourced /\ row.kind \notin Guarded
<1>1. cycle[s] \in CycleRows /\ CycleFine(cycle[s])
  BY DEF PromptInv, PromptTypes
<1> QED BY <1>1, KindsApart DEF CycleFine

LEMMA SeedStep == ASSUME PromptAssumption, PromptInv, NEW s \in Cycles, Seed(s) PROVE PromptInv'
<1>1. /\ row.kind \in Sourced /\ row.kind \notin Guarded
      /\ UNCHANGED <<row, prompt, shown, current>>
      /\ event' = IF Actionable /\ event.status = "none" THEN [status |-> "new", as |-> LeadsTo]
                  ELSE event
  BY KindsApart DEF Seed
<1> DEFINE c == [Idle EXCEPT !.stage = "process", !.whole = Needs]
<1>2. /\ cycle' = [cycle EXCEPT ![s] = c] /\ c \in CycleRows /\ c.stage = "process"
      /\ c.whole <=> Needs
  <2>1. cycle' = [cycle EXCEPT ![s] = c]
    BY DEF Seed
  <2>2. Needs \in BOOLEAN
    BY DEF Needs
  <2>3. c \in CycleRows /\ c.stage = "process" /\ c.whole = Needs
    BY <2>2 DEF Idle, CycleRows, CycleStages, Closed
  <2> QED BY <2>1, <2>3
<1> HIDE DEF c
<1>3. cycle \in [Cycles -> CycleRows]
  BY DEF PromptInv, PromptTypes
<1>4. /\ event'.status # "none" <=> event.status # "none" \/ Actionable
      /\ event'.status = "processed" <=> event.status = "processed"
      /\ event' # event => event'.as = LeadsTo /\ Actionable /\ event.status = "none"
      /\ event' \in [status : {"none", "new", "processed"}, as : {"none", "needs_user", "blocked"}]
      /\ event'.status # "none" => event'.as # "none"
  BY <1>1 DEF PromptInv, PromptTypes, LeadsTo
<1>5. PromptTypes'
  <2>1. cycle' \in [Cycles -> CycleRows]
    BY <1>2, <1>3
  <2>2. current' \in BOOLEAN
    BY <1>1 DEF PromptInv, PromptTypes
  <2> QED BY <1>1, <1>4, <2>1, <2>2 DEF PromptInv, PromptTypes
<1>6. GuardedFine' /\ SourcedFine'
  BY <1>1, <1>4 DEF PromptInv, GuardedFine, SourcedFine
<1>7. FirstNeed'
  BY <1>1, <1>4 DEF PromptInv, FirstNeed, Actionable, Needs, LeadsTo
<1>8. shown # "past" /\ Needs => Actionable
  BY <1>1, RowIs DEF PromptInv, FirstNeed, Actionable, Needs, RowFine, Sourced
<1>9. ASSUME NEW t \in Cycles PROVE CycleFine(cycle[t])'
  <2>1. CASE t = s
    BY <1>1, <1>2, <1>3, <1>4, <1>8, <2>1 DEF CycleFine, Needs
  <2>2. CASE t # s
    <3>1. cycle'[t] = cycle[t] /\ CycleFine(cycle[t])
      BY <1>2, <1>3, <2>2 DEF PromptInv
    <3> QED BY <1>1, <1>4, <3>1 DEF CycleFine, Needs, Reconciled, Waits
  <2> QED BY <2>1, <2>2
<1> QED BY <1>1, <1>5, <1>6, <1>7, <1>9 DEF PromptInv, Fits, MayAsk, Needs

\* What the other sessions hold is good whatever one of them writes: none that it read
\* is relied on any more.
LEMMA OthersFine ==
  ASSUME PromptInv, NEW t \in Cycles, UNCHANGED row, shown = "past" => shown' = "past",
         event.status # "none" => event'.status # "none",
         event.status = "processed" => event'.status = "processed",
         (cycle'[t] = cycle[t] /\ prompt' = prompt) \/ cycle'[t] = [cycle[t] EXCEPT !.alone = FALSE]
  PROVE  CycleFine(cycle[t])'
<1>1. cycle[t] \in CycleRows /\ CycleFine(cycle[t])
  BY CycleIs
<1>2. /\ cycle'[t].stage = cycle[t].stage /\ cycle'[t].want = cycle[t].want
      /\ cycle'[t].whole = cycle[t].whole
      /\ cycle'[t].alone => cycle[t].alone /\ prompt' = prompt
  BY <1>1 DEF CycleRows
<1>3. prompt' = prompt => Reconciled' = Reconciled
  BY DEF Reconciled, Waits, Needs
<1> QED BY <1>1, <1>2, <1>3 DEF CycleFine, Needs

LEMMA ProcessStep == ASSUME PromptAssumption, PromptInv, NEW s \in Cycles, Process(s) PROVE PromptInv'
<1>1. /\ cycle[s].stage = "process" /\ UNCHANGED <<row, shown>>
      /\ cycle[s] \in CycleRows /\ CycleFine(cycle[s])
      /\ row.kind \in Sourced /\ row.kind \notin Guarded
      /\ cycle \in [Cycles -> CycleRows] /\ prompt \in [Periods -> PromptStates]
  BY CycleIs DEF Process, At, PromptInv, PromptTypes
<1>2. CASE event.status = "new"
  <2>1. prompt[1] = "none" /\ event.as \in {"needs_user", "blocked"}
    BY <1>1, <1>2, PeriodsAre DEF PromptInv, SourcedFine, PromptTypes
  <2>2. /\ prompt' = [prompt EXCEPT ![1] = event.as]
        /\ event' = [event EXCEPT !.status = "processed"] /\ current' = FALSE
        /\ cycle' = [Disturbed EXCEPT ![s].stage = "read"]
    BY <1>2, <2>1 DEF Process
  <2>3. /\ cycle'[s] = [cycle[s] EXCEPT !.alone = FALSE, !.stage = "read"]
        /\ \A t \in Cycles : t # s => cycle'[t] = [cycle[t] EXCEPT !.alone = FALSE]
    BY <1>1, <2>2 DEF Disturbed
  <2>4. PromptTypes'
    <3>1. cycle' \in [Cycles -> CycleRows]
      BY <1>1, <2>2 DEF Disturbed, CycleRows, CycleStages
    <3>2. current' \in BOOLEAN
      BY <2>2, Zenon
    <3>3. event' \in [status : {"none", "new", "processed"}, as : {"none", "needs_user", "blocked"}]
          /\ event'.as = event.as /\ event'.status = "processed"
      BY <2>2 DEF PromptInv, PromptTypes
    <3>4. prompt' \in [Periods -> PromptStates]
      BY <1>1, <2>1, <2>2 DEF PromptStates
    <3> QED BY <1>1, <2>1, <3>1, <3>2, <3>3, <3>4 DEF PromptInv, PromptTypes
  <2>5. /\ prompt'[1] = event.as /\ \A p \in Periods : p # 1 => prompt'[p] = prompt[p]
        /\ event'.status = "processed" /\ event'.as = event.as
    BY <1>1, <2>2, PeriodsAre DEF PromptInv, PromptTypes
  <2>6. GuardedFine' /\ SourcedFine'
    BY <1>1, <2>1, <2>5 DEF PromptInv, GuardedFine, SourcedFine, Guarded
  <2>7. FirstNeed'
    BY <1>1, <1>2, <2>5 DEF PromptInv, FirstNeed, Actionable, Needs
  <2>8. CycleFine(cycle[s])'
    <3>1. cycle'[s].stage = "read" /\ cycle'[s].whole = cycle[s].whole
      BY <1>1, <2>3 DEF CycleRows
    <3> QED BY <1>1, <2>5, <3>1 DEF CycleFine, Needs
  <2>9. ASSUME NEW t \in Cycles PROVE CycleFine(cycle[t])'
    BY <1>1, <2>3, <2>5, <2>8, OthersFine
  <2> QED BY <1>1, <2>2, <2>4, <2>6, <2>7, <2>9 DEF PromptInv
<1>3. CASE event.status # "new"
  <2>1. UNCHANGED <<row, event, prompt, shown, current>>
        /\ cycle' = [cycle EXCEPT ![s].stage = "read"]
    BY <1>1, <1>3 DEF Process
  <2>2. /\ cycle'[s].stage = "read" /\ cycle'[s].whole = cycle[s].whole
        /\ cycle' \in [Cycles -> CycleRows]
        /\ \A t \in Cycles : t # s => cycle'[t] = cycle[t]
    BY <1>1, <2>1 DEF CycleRows, CycleStages
  <2>3. CycleFine(cycle[s])'
    <3>1. event.status \in {"none", "processed"}
      BY <1>3 DEF PromptInv, PromptTypes
    <3> QED BY <1>1, <2>1, <2>2, <3>1 DEF CycleFine, Needs
  <2>4. ASSUME NEW t \in Cycles PROVE CycleFine(cycle[t])'
    BY <2>1, <2>2, <2>3, OthersFine
  <2>5. /\ GuardedFine' /\ SourcedFine' /\ FirstNeed' /\ (Fits <=> Fits')
        /\ PromptTypes'
    BY <2>1, <2>2 DEF PromptInv, PromptTypes, GuardedFine, SourcedFine, FirstNeed, Actionable,
       Needs, Fits, MayAsk
  <2> QED BY <1>1, <2>1, <2>4, <2>5 DEF PromptInv
<1> QED BY <1>2, <1>3

LEMMA OnlyCycles ==
  ASSUME PromptInv, UNCHANGED <<row, event, prompt, shown, current>>,
         cycle' \in [Cycles -> CycleRows], \A t \in Cycles : CycleFine(cycle[t])'
  PROVE  PromptInv'
<1>1. /\ GuardedFine' /\ SourcedFine' /\ FirstNeed' /\ (Fits <=> Fits')
      /\ PromptTypes'
  BY DEF PromptInv, PromptTypes, GuardedFine, SourcedFine, FirstNeed, Actionable,
     Needs, Fits, MayAsk
<1> QED BY <1>1 DEF PromptInv

LEMMA ReadStep ==
  ASSUME PromptAssumption, PromptInv, NEW s \in Cycles, ReconcileReads(s) \/ SecondPass(s)
         \/ CycleDies(s)
  PROVE  PromptInv'
<1>1. /\ UNCHANGED <<row, event, prompt, shown, current>> /\ cycle[s].stage # "idle"
      /\ cycle[s] \in CycleRows /\ CycleFine(cycle[s])
      /\ row.kind \in Sourced /\ row.kind \notin Guarded /\ cycle \in [Cycles -> CycleRows]
  BY CycleIs DEF ReconcileReads, SecondPass, CycleDies, At, PromptInv, PromptTypes
<1>2. /\ Reconciled \in Closed \cup {"none", "waiting_external"}
      /\ Reconciled # "none" => shown = "past" /\ event.status = "processed"
  <2>1. Reconciled \in Closed \cup {"none", "waiting_external"}
    BY DEF Reconciled
  <2>2. ASSUME Reconciled # "none" PROVE shown = "past" /\ event.status = "processed"
    <3>1. prompt[1] # "none" /\ (row.status \in Closed \/ Waits)
      BY <2>2 DEF Reconciled
    <3>2. event.status = "processed"
      BY <1>1, <3>1 DEF PromptInv, SourcedFine
    <3>3. ~Actionable
      BY <3>1 DEF Actionable, Waits, Closed
    <3> QED BY <1>1, <3>2, <3>3 DEF PromptInv, FirstNeed
  <2> QED BY <2>1, <2>2
<1>3. \E c \in CycleRows : /\ cycle' = [cycle EXCEPT ![s] = c]
                           /\ CycleFine(c)'
  <2>1. CASE ReconcileReads(s)
    <3> DEFINE c == [cycle[s] EXCEPT !.stage = "write", !.want = Reconciled, !.alone = TRUE]
    <3>1. cycle' = [cycle EXCEPT ![s] = c] /\ cycle[s].stage = "read"
      BY <2>1 DEF ReconcileReads, At
    <3>2. /\ c \in CycleRows /\ c.stage = "write" /\ c.want = Reconciled
          /\ c.whole = cycle[s].whole
      BY <1>1, <1>2 DEF CycleRows, CycleStages
    <3> HIDE DEF c
    <3>3. Reconciled' = Reconciled /\ Needs' = Needs
      BY <1>1 DEF Reconciled, Waits, Needs
    <3> QED BY <1>1, <1>2, <3>1, <3>2, <3>3 DEF CycleFine
  <2>2. CASE SecondPass(s)
    <3> DEFINE c == [cycle[s] EXCEPT !.stage = "read", !.last = TRUE]
    <3>1. cycle' = [cycle EXCEPT ![s] = c] /\ cycle[s].stage = "recover"
      BY <2>2 DEF SecondPass, At
    <3>2. c \in CycleRows /\ c.stage = "read" /\ c.whole = cycle[s].whole
      BY <1>1 DEF CycleRows, CycleStages
    <3> HIDE DEF c
    <3> QED BY <1>1, <3>1, <3>2 DEF CycleFine, Needs
  <2>3. CASE CycleDies(s)
    BY <2>3, IdleIs DEF CycleDies, CycleFine
  <2> QED BY <2>1, <2>2, <2>3
<1>4. PICK c \in CycleRows : cycle' = [cycle EXCEPT ![s] = c] /\ CycleFine(c)'
  BY <1>3
<1>5. cycle' \in [Cycles -> CycleRows]
  BY <1>1, <1>4
<1>6. ASSUME NEW t \in Cycles PROVE CycleFine(cycle[t])'
  <2>1. CASE t = s
    <3>1. cycle'[t] = c
      BY <1>1, <1>4, <2>1
    <3> QED BY <1>4, <3>1 DEF CycleFine
  <2>2. CASE t # s
    BY <1>1, <1>4, <2>2, OthersFine
  <2> QED BY <2>1, <2>2
<1> QED BY <1>1, <1>5, <1>6, OnlyCycles

\* What a session that read the row as it still is writes fits the row.
LEMMA DecidedFits ==
  ASSUME PromptAssumption, PromptInv, row.kind \in Sourced, UNCHANGED row,
         NEW written, written = Reconciled \/ (Reconciled = "cancelled" /\ written = "none"),
         prompt' = IF written # "none" THEN [prompt EXCEPT ![1] = written] ELSE prompt
  PROVE  Fits'
<1>1. /\ prompt \in [Periods -> PromptStates] /\ RowFine(row) /\ 1 \in Periods
      /\ \A p \in Periods : p # 1 => prompt[p] = "none"
      /\ row.asks \subseteq {1}
  BY PeriodsAre DEF PromptInv, PromptTypes, SourcedFine, RowFine
<1>2. /\ prompt'[1] = IF written # "none" THEN written ELSE prompt[1]
      /\ \A p \in Periods : p # 1 => prompt'[p] = "none"
  BY <1>1
<1>3. row.status = "completed" => prompt'[1] \in Closed \cup {"none"}
  BY <1>2 DEF Reconciled, Closed
<1>4. prompt'[1] = "needs_user" => MayAsk(1)
  <2> SUFFICES ASSUME prompt'[1] = "needs_user" PROVE MayAsk(1)
    OBVIOUS
  <2>1. Reconciled # "needs_user"
    BY <1>1 DEF Reconciled, Closed
  <2>2. prompt[1] = "needs_user" /\ Reconciled \in {"none", "cancelled"}
    BY <1>2, <2>1
  <2>3. row.status # "completed" /\ ~Waits
    <3>1. Waits => row.status # "cancelled"
      BY <1>1 DEF Waits, RowFine
    <3> QED BY <2>2, <3>1 DEF Reconciled, Closed
  <2>4. CASE row.kind = "payment"
    <3>1. Needs
      BY <2>2, <2>3, <2>4 DEF Waits
    <3> QED BY <1>1, <2>4, <3>1 DEF MayAsk, Needs
  <2>5. CASE row.kind = "task"
    BY <2>3, <2>5 DEF MayAsk
  <2>6. CASE row.kind = "letter"
    BY <1>1, <2>2, <2>3, <2>6 DEF MayAsk, Waits, RowFine
  <2> QED BY <2>4, <2>5, <2>6 DEF Sourced
<1> QED BY <1>2, <1>3, <1>4 DEF Fits, MayAsk, Needs

LEMMA WriteStep == ASSUME PromptAssumption, PromptInv, NEW s \in Cycles, ReconcileWrites(s)
PROVE PromptInv'
<1> DEFINE c == cycle[s]
<1>1. /\ c.stage = "write" /\ UNCHANGED <<row, event>> /\ c \in CycleRows /\ CycleFine(c)
      /\ row.kind \in Sourced /\ row.kind \notin Guarded
      /\ cycle \in [Cycles -> CycleRows] /\ prompt \in [Periods -> PromptStates]
      /\ shown' = IF shown = "no" /\ c.whole /\ Needs THEN "yes" ELSE shown
  BY CycleIs DEF ReconcileWrites, At, PromptInv, PromptTypes
<1>2. PICK written \in {c.want} \cup (IF c.want = "cancelled" THEN {"none"} ELSE {}) :
        /\ prompt' = IF written # "none" THEN [prompt EXCEPT ![1] = written] ELSE prompt
        /\ current' = (c.alone \/ (current /\ ~(written # "none")))
        /\ cycle' = [(IF written # "none" THEN Crossed(s) ELSE cycle) EXCEPT ![s] =
             IF c.last THEN Idle ELSE [c EXCEPT !.stage = "recover", !.want = "none"]]
  BY DEF ReconcileWrites
<1>3. /\ written \in PromptStates
      /\ written # "none" => shown = "past" /\ event.status = "processed"
      /\ c.alone => c.want = Reconciled
  BY <1>1, <1>2 DEF CycleFine, CycleRows, PromptStates
<1>4. shown = "past" <=> shown' = "past"
  BY <1>1
<1> DEFINE d == IF c.last THEN Idle ELSE [c EXCEPT !.stage = "recover", !.want = "none"]
<1>5. /\ d \in CycleRows /\ d.stage \in {"idle", "recover"}
      /\ d.whole => c.whole
  BY <1>1, IdleIs DEF CycleRows, CycleStages, Closed
<1>6. /\ cycle' \in [Cycles -> CycleRows] /\ cycle'[s] = d
      /\ \A t \in Cycles : t # s =>
           \/ cycle'[t] = cycle[t] /\ prompt' = prompt
           \/ cycle'[t] = [cycle[t] EXCEPT !.alone = FALSE]
  <2>1. CASE written # "none"
    <3>1. Crossed(s) \in [Cycles -> CycleRows]
          /\ \A t \in Cycles : t # s => Crossed(s)[t] = [cycle[t] EXCEPT !.alone = FALSE]
      BY <1>1 DEF Crossed, CycleRows
    <3> QED BY <1>2, <1>5, <2>1, <3>1
  <2>2. CASE written = "none"
    BY <1>1, <1>2, <1>5, <2>2
  <2> QED BY <2>1, <2>2
<1> HIDE DEF d
<1>7. /\ prompt' \in [Periods -> PromptStates]
      /\ prompt'[1] = IF written # "none" THEN written ELSE prompt[1]
      /\ \A p \in Periods : p # 1 => prompt'[p] = prompt[p]
  BY <1>1, <1>2, <1>3, PeriodsAre
<1>8. PromptTypes'
  <2>1. current' \in BOOLEAN
    BY <1>1, <1>2 DEF CycleRows, PromptInv, PromptTypes
  <2> QED BY <1>1, <1>6, <1>7, <2>1 DEF PromptInv, PromptTypes
<1>9. GuardedFine' /\ SourcedFine'
  BY <1>1, <1>3, <1>7 DEF PromptInv, GuardedFine, SourcedFine, Guarded
<1>10. FirstNeed'
  <2>1. shown' # "past" => prompt'[1] = prompt[1] /\ shown # "past"
    BY <1>3, <1>4, <1>7
  <2>2. shown' = "yes" => event.status = "processed"
    BY <1>1 DEF PromptInv, FirstNeed, CycleFine
  <2> QED BY <1>1, <2>1, <2>2 DEF PromptInv, FirstNeed, Actionable, Needs
<1>11. CycleFine(cycle[s])'
  BY <1>1, <1>4, <1>5, <1>6 DEF CycleFine, Needs
<1>12. ASSUME NEW t \in Cycles PROVE CycleFine(cycle[t])'
  BY <1>1, <1>4, <1>6, <1>11, OthersFine
<1>13. current' => Fits'
  <2>1. CASE c.alone
    <3>1. written = Reconciled \/ (Reconciled = "cancelled" /\ written = "none")
      BY <1>2, <1>3, <2>1
    <3> QED BY <1>1, <1>2, <3>1, DecidedFits
  <2>2. CASE ~c.alone
    <3> SUFFICES ASSUME current' PROVE Fits'
      OBVIOUS
    <3>1. current /\ prompt' = prompt
      BY <1>2, <2>2
    <3> QED BY <1>1, <3>1 DEF PromptInv, Fits, MayAsk, Needs
  <2> QED BY <2>1, <2>2
<1> QED BY <1>1, <1>8, <1>9, <1>10, <1>12, <1>13 DEF PromptInv

LEMMA RecoverStep == ASSUME PromptAssumption, PromptInv, NEW s \in Cycles, RecoverLetter(s)
PROVE PromptInv'
<1> DEFINE new == [row EXCEPT !.status = "pending", !.asks = {}]
<1>1. /\ cycle[s].stage = "recover" /\ row.kind = "letter" /\ prompt[1] = "needs_user"
      /\ row' = new /\ shown' = "past" /\ current' = FALSE /\ UNCHANGED <<event, prompt>>
      /\ cycle' = [t \in Cycles |-> [cycle[t] EXCEPT
            !.alone = FALSE, !.whole = FALSE, !.stage = IF t = s THEN "resume" ELSE cycle[t].stage]]
  BY DEF RecoverLetter, At
<1>2. /\ new \in PromptRows /\ new.kind = "letter" /\ new.status = "pending" /\ new.asks = {}
      /\ RowFine(new)
  <2>1. row \in PromptRows /\ RowFine(row)
    BY RowIs
  <2>2. /\ new \in PromptRows /\ new.kind = "letter" /\ new.status = "pending" /\ new.asks = {}
    BY <1>1, <2>1 DEF PromptRows
  <2> HIDE DEF new
  <2> QED BY <2>2 DEF RowFine, Guarded
<1> HIDE DEF new
<1>3. row.kind \in Sourced /\ row.kind \notin Guarded /\ event.status = "processed"
  BY <1>1 DEF PromptInv, SourcedFine, Sourced, Guarded
<1>4. cycle \in [Cycles -> CycleRows]
  BY DEF PromptInv, PromptTypes
<1>5. cycle' \in [Cycles -> CycleRows]
  BY <1>1, <1>4 DEF CycleRows, CycleStages
<1>6. PromptTypes'
  <2>1. current' \in BOOLEAN
    BY <1>1, Zenon
  <2> QED BY <1>1, <1>2, <1>5, <2>1 DEF PromptInv, PromptTypes
<1>7. GuardedFine' /\ SourcedFine' /\ FirstNeed'
  BY <1>1, <1>2, <1>3 DEF PromptInv, GuardedFine, SourcedFine, FirstNeed
<1>8. ASSUME NEW t \in Cycles PROVE CycleFine(cycle[t])'
  <2>1. /\ cycle'[t].stage = IF t = s THEN "resume" ELSE cycle[t].stage
        /\ cycle'[t].want = cycle[t].want /\ ~cycle'[t].whole /\ ~cycle'[t].alone
    BY <1>1, <1>4 DEF CycleRows
  <2> QED BY <1>1, <1>2, <1>3, <2>1 DEF CycleFine, Sourced
<1>9. row'.kind \notin Guarded
  BY <1>1, <1>2 DEF Guarded
<1> QED BY <1>1, <1>6, <1>7, <1>8, <1>9 DEF PromptInv

LEMMA ResumesStep == ASSUME PromptAssumption, PromptInv, NEW s \in Cycles, LetterResumes(s)
PROVE PromptInv'
<1>1. /\ cycle[s].stage = "resume" /\ UNCHANGED <<row, event, shown>> /\ current' = FALSE
      /\ prompt' = [prompt EXCEPT ![1] = "waiting_external"]
      /\ cycle' = [Disturbed EXCEPT ![s].stage = "recover"]
      /\ cycle[s] \in CycleRows /\ CycleFine(cycle[s])
      /\ row.kind \in Sourced /\ row.kind \notin Guarded
      /\ cycle \in [Cycles -> CycleRows] /\ prompt \in [Periods -> PromptStates]
  BY CycleIs DEF LetterResumes, At, PromptInv, PromptTypes
<1>2. shown = "past" /\ event.status = "processed"
  BY <1>1 DEF CycleFine
<1>3. /\ cycle'[s] = [cycle[s] EXCEPT !.alone = FALSE, !.stage = "recover"]
      /\ \A t \in Cycles : t # s => cycle'[t] = [cycle[t] EXCEPT !.alone = FALSE]
      /\ cycle' \in [Cycles -> CycleRows]
  BY <1>1 DEF Disturbed, CycleRows, CycleStages
<1>4. /\ prompt' \in [Periods -> PromptStates] /\ prompt'[1] = "waiting_external"
      /\ \A p \in Periods : p # 1 => prompt'[p] = prompt[p]
  BY <1>1, PeriodsAre DEF PromptStates
<1>5. PromptTypes'
  <2>1. current' \in BOOLEAN
    BY <1>1, Zenon
  <2> QED BY <1>1, <1>3, <1>4, <2>1 DEF PromptInv, PromptTypes
<1>6. GuardedFine' /\ SourcedFine' /\ FirstNeed'
  BY <1>1, <1>2, <1>4 DEF PromptInv, GuardedFine, SourcedFine, FirstNeed, Guarded
<1>7. CycleFine(cycle[s])'
  <2>1. cycle'[s].stage = "recover" /\ cycle'[s].whole = cycle[s].whole
    BY <1>1, <1>3 DEF CycleRows
  <2> QED BY <1>1, <1>2, <2>1 DEF CycleFine, Needs
<1>8. ASSUME NEW t \in Cycles PROVE CycleFine(cycle[t])'
  BY <1>1, <1>3, <1>7, OthersFine
<1> QED BY <1>1, <1>5, <1>6, <1>8 DEF PromptInv

LEMMA PromptNextInv == ASSUME PromptAssumption, PromptInv, [PromptNext]_promptVars PROVE PromptInv'
<1>1. CASE UNCHANGED promptVars
  <2>1. UNCHANGED <<row, event, prompt, shown, current, cycle>>
    BY <1>1 DEF promptVars
  <2>2. cycle' \in [Cycles -> CycleRows]
    BY <2>1 DEF PromptInv, PromptTypes
  <2>3. ASSUME NEW t \in Cycles PROVE CycleFine(cycle[t])'
    BY <2>1, OthersFine
  <2> QED BY <2>1, <2>2, <2>3, OnlyCycles
<1> QED BY <1>1, PaymentStep, TaskStep, LetterStep, PeriodStep, GuardianStep, SeedStep, ProcessStep,
           ReadStep, WriteStep, RecoverStep, ResumesStep DEF PromptNext

LEMMA PromptAlways == ASSUME PromptAssumption PROVE PromptSpec => []PromptInv
BY PromptInitInv, PromptNextInv, PTL DEF PromptSpec

LEMMA PromptInvKeeps == ASSUME PromptInv PROVE PromptTypeOK /\ PromptsAreCurrent
<1>1. PromptTypeOK
  <2>1. /\ row.kind \in Sourced \cup Guarded /\ row.asks \subseteq Periods /\ row.latest \in Periods
        /\ prompt \in [Periods -> PromptStates] /\ cycle \in [Cycles -> CycleRows]
        /\ event.status \in {"none", "new", "processed"}
    BY RowIs DEF PromptInv, PromptTypes, PromptRows
  <2> QED BY <2>1 DEF PromptTypeOK, PromptStates, CycleRows
<1>2. ASSUME shown = "yes", Actionable \/ row.kind \in Guarded, NEW p \in row.asks
      PROVE  prompt[p] = "needs_user"
  <2>1. CASE row.kind \in Guarded
    BY <1>2, <2>1 DEF PromptInv
  <2>2. CASE row.kind \in Sourced
    <3>1. p = 1 /\ Needs
      BY <2>2, RowIs DEF RowFine, Needs
    <3> QED BY <1>2, <2>2, <3>1 DEF PromptInv, FirstNeed
  <2> QED BY <2>1, <2>2, RowIs DEF PromptRows
<1> QED BY <1>1, <1>2 DEF PromptInv, Fits, PromptsAreCurrent

\* Rows, events, objectives and the sessions' stages keep their types, for any number
\* of periods of an authorization.
THEOREM PromptTypesHold == ASSUME PromptAssumption PROVE PromptSpec => []PromptTypeOK
BY PromptAlways, PromptInvKeeps, PTL

\* When a row has asked through a whole cycle of the core its objective asks the
\* owner, and when a reconciliation ran alone and nothing changed since no objective
\* asks that need not: for any sessions, crossings and breakdowns of cycles.
THEOREM OwnerIsAskedInTime == ASSUME PromptAssumption PROVE PromptSpec => []PromptsAreCurrent
BY PromptAlways, PromptInvKeeps, PTL

=============================================================================
