---------------------------- MODULE Operations_proofs ----------------------------
(***************************************************************************)
(* Proofs about what is done for the owner outside, and must not be done   *)
(* twice: side effects on a portal (PortalOperation), copies and bills of  *)
(* a document (DriveArchive), and orders in a shop (Purchase); and about   *)
(* what the accounts' transactions and statements tell, which must not be  *)
(* counted twice (LedgerEvidence).                                         *)
(***************************************************************************)
EXTENDS PortalOperation, DriveArchive, Purchase, LedgerEvidence, FiniteSetTheorems,
        SequenceTheorems, TLAPS

(***************************************************************************)
(* Operations on a portal                                                  *)
(***************************************************************************)

BrowserRows == [pc : BrowserPlaces, job : Nat, row : OperationRows]
AtPortal(s) == browser[s].pc # "idle"

\* Of one session by itself, whoever else is at work.
BrowserFine(s) ==
  /\ browser[s].job <= sequence
  /\ browser[s].pc \in {"dispatched", "acted", "doubtful"} => browser[s].row.at < PlanLength
  /\ browser[s].pc = "dispatched" =>
       browser[s].row.at \in EffectSteps /\ browser[s].row.marker = browser[s].row.at

\* Of the session that is at work when no two are: it holds the row as it is stored, and
\* it walks only past the marker, where nothing was clicked yet.
WalksAhead(s) ==
  LET row == browser[s].row IN
  /\ row.status = operation.status /\ row.at = operation.at /\ row.marker = operation.marker
  /\ operation.status \in {"running", "dispatching"}
  /\ browser[s].pc = "walking" \/ (browser[s].pc = "acted" /\ row.at \notin EffectSteps) =>
       row.marker = NoMarker \/ row.marker < row.at
  /\ browser[s].pc = "dispatched" => clicked[row.at] = 0

\* Without an overlap every click is at the marker or before it, until the portal has
\* shown that all is done.
ClickedOnce ==
  /\ \A s, o \in BrowserRuns : AtPortal(s) /\ AtPortal(o) => s = o
  /\ \A s \in BrowserRuns : AtPortal(s) => WalksAhead(s)
  /\ operation.marker # NoMarker => operation.marker <= operation.at
  /\ \A i \in EffectSteps : /\ clicked[i] <= 1
                            /\ clicked[i] > 0 =>
                                 \/ operation.status = "verified"
                                 \/ operation.marker # NoMarker /\ i <= operation.marker

OperationInv ==
  /\ OperationTypeOK
  /\ \A s \in BrowserRuns : BrowserFine(s)
  /\ ~overlapped => ClickedOnce

LEMMA NewOperationIsRow ==
  ASSUME OperationAssumption
  PROVE  /\ NewOperation \in OperationRows
         /\ Closed.pc = "idle" /\ Closed.job = 0 /\ Closed.row \in OperationRows
BY DEF OperationAssumption, NewOperation, OperationRows, OperationStates, NoMarker, Closed

LEMMA OperationInitInv == ASSUME OperationAssumption, OperationInit PROVE OperationInv
<1>1. Closed \in [pc : BrowserPlaces, job : 0..ResumeLimit, row : OperationRows]
  BY NewOperationIsRow DEF Closed, BrowserPlaces, OperationAssumption
<1>2. \A s \in BrowserRuns : browser[s] = Closed
  BY DEF OperationInit
<1>3. OperationTypeOK
  <2>1. 0 \in 0..ResumeLimit /\ {0} \subseteq 0..0
    BY DEF OperationAssumption
  <2> QED BY <1>1, <2>1, NewOperationIsRow DEF OperationInit, OperationTypeOK
<1>4. \A s \in BrowserRuns : BrowserFine(s) /\ ~AtPortal(s)
  BY <1>2, NewOperationIsRow DEF BrowserFine, AtPortal, OperationInit
<1>5. ClickedOnce
  BY <1>4 DEF ClickedOnce, OperationInit, NewOperation, NoMarker
<1> QED BY <1>3, <1>4, <1>5 DEF OperationInv

\* What a commit leaves: the session's changes over whatever the row holds; without an
\* overlap, the session's row.
LEMMA CommitFacts ==
  ASSUME OperationAssumption, OperationInv, NEW s \in BrowserRuns, AtPortal(s),
         NEW row \in OperationRows,
         NEW pc \in BrowserPlaces, Commit(s, row, pc)
  PROVE  /\ operation' \in OperationRows
         /\ ~overlapped => /\ operation'.status = row.status /\ operation'.at = row.at
                           /\ operation'.marker = row.marker
         /\ browser' \in [BrowserRuns -> [pc : BrowserPlaces, job : 0..ResumeLimit,
                                          row : OperationRows]]
         /\ \A o \in BrowserRuns \ {s} : browser'[o] = browser[o]
         /\ browser'[s].pc = pc
         /\ pc = "idle" => browser'[s].job = 0
         /\ pc # "idle" => browser'[s].row = row /\ browser'[s].job = browser[s].job
<1>0. /\ operation \in OperationRows /\ browser[s].row \in OperationRows
      /\ browser \in [BrowserRuns -> [pc : BrowserPlaces, job : 0..ResumeLimit,
                                      row : OperationRows]]
      /\ sequence \in 0..ResumeLimit
  BY DEF OperationInv, OperationTypeOK
<1>1. operation' = [c \in DOMAIN row |-> IF row[c] # browser[s].row[c] THEN row[c]
                                         ELSE operation[c]]
  BY DEF Commit
<1>2. DOMAIN row = {"status", "at", "marker", "tries"}
  BY DEF OperationRows
<1>3. /\ operation'.status \in {row.status, operation.status}
      /\ operation'.at \in {row.at, operation.at}
      /\ operation'.marker \in {row.marker, operation.marker}
      /\ operation'.tries \in {row.tries, operation.tries}
  BY <1>1, <1>2
<1>4. operation' = [status |-> operation'.status, at |-> operation'.at,
                    marker |-> operation'.marker, tries |-> operation'.tries]
  BY <1>1, <1>2
<1>5. operation' \in OperationRows
  BY <1>0, <1>3, <1>4 DEF OperationRows
<1>6. ~overlapped => /\ operation'.status = row.status /\ operation'.at = row.at
                     /\ operation'.marker = row.marker
  <2>1. ~overlapped => WalksAhead(s)
    BY DEF OperationInv, ClickedOnce
  <2> QED BY <1>1, <1>2, <2>1 DEF WalksAhead
<1>7. CASE pc = "idle"
  <2>1. browser' = [browser EXCEPT ![s] = Closed]
    BY <1>7 DEF Commit
  <2>2. Closed \in [pc : BrowserPlaces, job : 0..ResumeLimit, row : OperationRows]
        /\ Closed.pc = "idle" /\ Closed.job = 0
    <3> QED BY NewOperationIsRow DEF Closed, BrowserPlaces, OperationAssumption
  <2> QED BY <1>0, <1>5, <1>6, <1>7, <2>1, <2>2
<1>8. CASE pc # "idle"
  <2>1. browser' = [browser EXCEPT ![s] = [browser[s] EXCEPT !.pc = pc, !.row = row]]
    BY <1>8 DEF Commit
  <2> DEFINE new == [browser[s] EXCEPT !.pc = pc, !.row = row]
  <2>2. new \in [pc : BrowserPlaces, job : 0..ResumeLimit, row : OperationRows]
        /\ new.pc = pc /\ new.row = row /\ new.job = browser[s].job
    BY <1>0
  <2> HIDE DEF new
  <2>3. browser' = [browser EXCEPT ![s] = new]
    BY <2>1 DEF new
  <2> QED BY <1>0, <1>5, <1>6, <1>8, <2>2, <2>3
<1> QED BY <1>7, <1>8

\* A step of session s, whatever it does to the row and to the portal.
LEMMA SessionMoves ==
  ASSUME OperationAssumption, OperationInv, NEW s \in BrowserRuns, AtPortal(s),
         operation' \in OperationRows,
         browser' \in [BrowserRuns -> [pc : BrowserPlaces, job : 0..ResumeLimit,
                                       row : OperationRows]],
         \A o \in BrowserRuns \ {s} : browser'[o] = browser[o],
         clicked' \in [EffectSteps -> Nat], runnable' \subseteq 0..sequence,
         sequence' = sequence, overlapped' = overlapped,
         BrowserFine(s)',
         ~overlapped =>
           /\ AtPortal(s)' => WalksAhead(s)'
           /\ operation'.marker # NoMarker => operation'.marker <= operation'.at
           /\ \A i \in EffectSteps : /\ clicked'[i] <= 1
                                     /\ clicked'[i] > 0 =>
                                          \/ operation'.status = "verified"
                                          \/ operation'.marker # NoMarker
                                             /\ i <= operation'.marker
  PROVE  OperationInv'
<1>1. OperationTypeOK'
  BY DEF OperationInv, OperationTypeOK
<1>2. \A o \in BrowserRuns : BrowserFine(o)'
  BY DEF OperationInv, BrowserFine
<1>3. ASSUME ~overlapped PROVE ClickedOnce'
  <2>1. \A o \in BrowserRuns \ {s} : ~AtPortal(o)'
    BY <1>3 DEF OperationInv, ClickedOnce, AtPortal
  <2> QED BY <1>3, <2>1 DEF ClickedOnce, AtPortal
<1> QED BY <1>1, <1>2, <1>3 DEF OperationInv

LEMMA SettleKeeps ==
  ASSUME OperationAssumption, OperationInv, NEW s \in BrowserRuns, AtPortal(s),
         NEW status \in OperationStates, Settle(s, status),
         runnable' \subseteq 0..sequence,
         sequence' = sequence, clicked' = clicked, overlapped' = overlapped
  PROVE  OperationInv'
<1> DEFINE old == browser[s].row
           row == [old EXCEPT !.status = status,
                              !.marker = IF status = "verified" THEN NoMarker ELSE @]
<1>1. old \in OperationRows /\ NoMarker \in 0..PlanLength
      /\ clicked \in [EffectSteps -> Nat]
  BY DEF OperationInv, OperationTypeOK, NoMarker, OperationAssumption
<1>2. /\ row \in OperationRows /\ row.status = status /\ row.at = old.at
      /\ row.marker = IF status = "verified" THEN NoMarker ELSE old.marker
  BY <1>1 DEF OperationRows
<1>3. Commit(s, row, "idle")
  BY DEF Settle
<1> HIDE DEF row, old
<1>4. "idle" \in BrowserPlaces
  BY DEF BrowserPlaces
<1>5. /\ operation' \in OperationRows
      /\ ~overlapped => /\ operation'.status = row.status /\ operation'.at = row.at
                        /\ operation'.marker = row.marker
      /\ browser' \in [BrowserRuns -> [pc : BrowserPlaces, job : 0..ResumeLimit,
                                       row : OperationRows]]
      /\ \A o \in BrowserRuns \ {s} : browser'[o] = browser[o]
      /\ browser'[s].pc = "idle" /\ browser'[s].job = 0
  BY <1>2, <1>3, <1>4, CommitFacts
<1>6. BrowserFine(s)' /\ ~AtPortal(s)'
  <2>1. 0 <= sequence
    BY DEF OperationInv, OperationTypeOK, OperationAssumption
  <2> QED BY <1>5, <2>1 DEF BrowserFine, AtPortal
<1>7. ASSUME ~overlapped
      PROVE  /\ operation'.marker # NoMarker => operation'.marker <= operation'.at
             /\ \A i \in EffectSteps : /\ clicked'[i] <= 1
                                       /\ clicked'[i] > 0 =>
                                            \/ operation'.status = "verified"
                                            \/ operation'.marker # NoMarker
                                               /\ i <= operation'.marker
  <2>1. ClickedOnce /\ WalksAhead(s)
    BY <1>7 DEF OperationInv, ClickedOnce
  <2>2. operation.at = old.at /\ operation.marker = old.marker /\ operation.status # "verified"
    BY <2>1 DEF WalksAhead, old
  <2> QED BY <1>2, <1>5, <1>7, <2>1, <2>2 DEF ClickedOnce
<1> QED BY <1>1, <1>5, <1>6, <1>7, SessionMoves

LEMMA StartRunKeeps ==
  ASSUME OperationAssumption, OperationInv, NEW s \in BrowserRuns, StartRun(s)
  PROVE  OperationInv'
<1> DEFINE row == [operation EXCEPT !.status = "running", !.tries = @ + 1]
           new(n) == [pc |-> IF Doubtful(row) THEN "reconciling" ELSE "walking",
                      job |-> n, row |-> row]
<1>0. /\ OperationTypeOK /\ ~AtPortal(s)
      /\ operation \in OperationRows /\ runnable \subseteq 0..sequence
      /\ sequence \in 0..ResumeLimit /\ ResumeLimit \in Nat
  BY DEF OperationInv, OperationTypeOK, StartRun, AtPortal, OperationAssumption
<1>1. row \in OperationRows /\ row.status = "running" /\ row.at = operation.at
      /\ row.marker = operation.marker
  <2>1. PICK tries \in Nat : tries = operation.tries + 1
    BY <1>0 DEF OperationRows
  <2> QED BY <1>0, <2>1 DEF OperationRows, OperationStates
<1>2. PICK n \in runnable :
        /\ runnable' = runnable \ {n}
        /\ IF operation.status = "verified" THEN UNCHANGED <<operation, browser, overlapped>>
           ELSE /\ operation' = row
                /\ browser' = [browser EXCEPT ![s] = new(n)]
                /\ overlapped' = (overlapped \/ \E o \in BrowserRuns : browser[o].pc # "idle")
  BY DEF StartRun
<1>3. n \in 0..ResumeLimit /\ n <= sequence /\ sequence' = sequence /\ clicked' = clicked
  BY <1>0 DEF StartRun
<1>4. /\ new(n) \in [pc : BrowserPlaces, job : 0..ResumeLimit, row : OperationRows]
      /\ new(n).pc = (IF Doubtful(row) THEN "reconciling" ELSE "walking")
      /\ new(n).job = n /\ new(n).row = row
  BY <1>1, <1>3 DEF BrowserPlaces
<1> HIDE DEF row, new
<1>5. CASE operation.status = "verified"
  <2>1. UNCHANGED <<operation, browser, overlapped>>
    BY <1>2, <1>5
  <2> QED BY <1>0, <1>2, <1>3, <2>1 DEF OperationInv, OperationTypeOK, BrowserFine, ClickedOnce,
        AtPortal,
                             WalksAhead
<1>6. CASE operation.status # "verified"
  <2>1. /\ operation' = row /\ browser' = [browser EXCEPT ![s] = new(n)]
        /\ overlapped' = (overlapped \/ \E o \in BrowserRuns : browser[o].pc # "idle")
    BY <1>2, <1>6
  <2>2. OperationTypeOK'
    BY <1>0, <1>1, <1>2, <1>3, <1>4, <2>1 DEF OperationTypeOK
  <2>3. browser'[s] = new(n) /\ \A o \in BrowserRuns \ {s} : browser'[o] = browser[o]
    BY <1>0, <2>1 DEF OperationTypeOK
  <2>4. \A o \in BrowserRuns : BrowserFine(o)'
    BY <1>3, <1>4, <2>3 DEF OperationInv, BrowserFine
  <2>5. ASSUME ~overlapped' PROVE ClickedOnce'
    <3>1. ~overlapped /\ ClickedOnce /\ \A o \in BrowserRuns : browser[o].pc = "idle"
      BY <2>1, <2>5 DEF OperationInv
    <3>2. \A o \in BrowserRuns \ {s} : ~AtPortal(o)'
      BY <2>3, <3>1 DEF AtPortal
    <3>3. WalksAhead(s)'
      <4>1. operation \in [status : OperationStates, at : 0..PlanLength,
                           marker : 0..PlanLength, tries : Nat] /\ PlanLength \in Nat
        BY <1>0 DEF OperationRows, OperationAssumption
      <4>2. operation.marker = NoMarker \/ operation.marker <= operation.at
        BY <3>1 DEF ClickedOnce
      <4>3. browser'[s].pc = "walking" => operation.marker = NoMarker
        BY <1>1, <1>4, <2>3, <4>1, <4>2 DEF Doubtful
      <4>4. browser'[s].row = row /\ browser'[s].pc \in {"walking", "reconciling"}
        BY <1>4, <2>3
      <4> QED BY <1>1, <2>1, <4>3, <4>4 DEF WalksAhead
    <3>4. operation'.marker # NoMarker => operation'.marker <= operation'.at
      BY <1>1, <2>1, <3>1 DEF ClickedOnce
    <3>5. \A i \in EffectSteps : /\ clicked'[i] <= 1
                                 /\ clicked'[i] > 0 => operation'.marker # NoMarker
                                                       /\ i <= operation'.marker
      BY <1>1, <1>3, <1>6, <2>1, <3>1 DEF ClickedOnce
    <3> QED BY <3>2, <3>3, <3>4, <3>5 DEF ClickedOnce, AtPortal
  <2> QED BY <2>2, <2>4, <2>5 DEF OperationInv
<1> QED BY <1>5, <1>6

\* A step in which only the session moves on, with its row as it is.
LEMMA SessionPlace ==
  ASSUME OperationAssumption, OperationInv, NEW s \in BrowserRuns, NEW pc \in BrowserPlaces,
         browser' = [browser EXCEPT ![s].pc = pc]
  PROVE  /\ browser' \in [BrowserRuns -> [pc : BrowserPlaces, job : 0..ResumeLimit,
                                          row : OperationRows]]
         /\ \A o \in BrowserRuns \ {s} : browser'[o] = browser[o]
         /\ browser'[s].pc = pc /\ browser'[s].job = browser[s].job
         /\ browser'[s].row = browser[s].row
BY DEF OperationInv, OperationTypeOK

LEMMA NextPlanStepKeeps ==
  ASSUME OperationAssumption, OperationInv, NEW s \in BrowserRuns, NextPlanStep(s)
  PROVE  OperationInv'
<1> DEFINE old == browser[s].row
           row == [old EXCEPT !.status = "dispatching", !.marker = old.at]
<1>0. /\ AtPortal(s) /\ old \in OperationRows /\ old.at < PlanLength
      /\ clicked \in [EffectSteps -> Nat] /\ runnable \subseteq 0..sequence
      /\ sequence' = sequence /\ runnable' = runnable /\ clicked' = clicked
      /\ overlapped' = overlapped /\ operation \in OperationRows
      /\ browser[s].pc = "walking" /\ BrowserFine(s)
      /\ old.at \in 0..PlanLength /\ PlanLength \in Nat /\ EffectSteps \subseteq 0..(PlanLength - 1)
  BY DEF OperationInv, OperationTypeOK, NextPlanStep, AtPortal, OperationRows, OperationAssumption
<1>1. ~overlapped => ClickedOnce /\ WalksAhead(s)
  BY <1>0 DEF OperationInv, ClickedOnce
<1>2. CASE old.at \in EffectSteps
  <2>1. Commit(s, row, "dispatched")
    BY <1>2 DEF NextPlanStep
  <2>2. row \in OperationRows /\ row.status = "dispatching" /\ row.at = old.at
        /\ row.marker = old.at
    BY <1>0 DEF OperationRows, OperationStates
  <2> HIDE DEF row
  <2>3. "dispatched" \in BrowserPlaces
    BY DEF BrowserPlaces
  <2>4. /\ operation' \in OperationRows
        /\ ~overlapped => /\ operation'.status = row.status /\ operation'.at = row.at
                          /\ operation'.marker = row.marker
        /\ browser' \in [BrowserRuns -> [pc : BrowserPlaces, job : 0..ResumeLimit,
                                         row : OperationRows]]
        /\ \A o \in BrowserRuns \ {s} : browser'[o] = browser[o]
        /\ browser'[s].pc = "dispatched"
        /\ browser'[s].row = row /\ browser'[s].job = browser[s].job
    BY <1>0, <2>1, <2>2, <2>3, CommitFacts
  <2>5. BrowserFine(s)'
    BY <1>0, <1>2, <2>2, <2>4 DEF BrowserFine
  <2>6. ASSUME ~overlapped
        PROVE  /\ WalksAhead(s)'
               /\ operation'.marker <= operation'.at
               /\ \A i \in EffectSteps : clicked'[i] <= 1
                    /\ (clicked'[i] > 0 => operation'.marker # NoMarker
                                           /\ i <= operation'.marker)
    <3>1. /\ ClickedOnce /\ old.status = operation.status /\ old.at = operation.at
          /\ old.marker = operation.marker /\ operation.status \in {"running", "dispatching"}
          /\ (old.marker = NoMarker \/ old.marker < old.at)
      BY <1>0, <1>1, <2>6 DEF WalksAhead
    <3>2. clicked[old.at] = 0 /\ \A i \in EffectSteps : clicked[i] <= 1
             /\ (clicked[i] > 0 => operation.marker # NoMarker /\ i <= operation.marker)
      BY <1>0, <1>2, <3>1 DEF ClickedOnce, OperationRows
    <3>3. operation.marker \in 0..PlanLength
      BY <1>0 DEF OperationRows
    <3>4. clicked'[row.at] = 0
      BY <1>0, <2>2, <3>2
    <3>5. WalksAhead(s)'
      BY <2>2, <2>4, <2>6, <3>4 DEF WalksAhead
    <3>6. operation'.at = old.at /\ operation'.marker = old.at /\ old.at # NoMarker
      BY <1>0, <2>2, <2>4, <2>6 DEF NoMarker
    <3>7. \A i \in EffectSteps : i \in Nat
      BY <1>0
    <3> HIDE DEF old
    <3> QED BY <1>0, <3>1, <3>2, <3>3, <3>5, <3>6, <3>7
  <2> HIDE DEF old
  <2> QED BY <1>0, <2>4, <2>5, <2>6, SessionMoves
<1>3. CASE old.at \notin EffectSteps
  <2>1. browser' = [browser EXCEPT ![s].pc = "acted"] /\ operation' = operation
    BY <1>3 DEF NextPlanStep
  <2>2. "acted" \in BrowserPlaces
    BY DEF BrowserPlaces
  <2>3. /\ browser' \in [BrowserRuns -> [pc : BrowserPlaces, job : 0..ResumeLimit,
                                         row : OperationRows]]
        /\ \A o \in BrowserRuns \ {s} : browser'[o] = browser[o]
        /\ browser'[s].pc = "acted" /\ browser'[s].job = browser[s].job
        /\ browser'[s].row = old
    BY <2>1, <2>2, SessionPlace
  <2>4. BrowserFine(s)'
    BY <1>0, <2>3 DEF BrowserFine
  <2>5. ~overlapped => WalksAhead(s)'
    BY <1>0, <1>1, <2>1, <2>3 DEF WalksAhead
  <2> HIDE DEF old
  <2>6. ~overlapped =>
           /\ operation'.marker # NoMarker => operation'.marker <= operation'.at
           /\ \A i \in EffectSteps : /\ clicked'[i] <= 1
                                     /\ clicked'[i] > 0 =>
                                          \/ operation'.status = "verified"
                                          \/ operation'.marker # NoMarker
                                             /\ i <= operation'.marker
    BY <1>0, <1>1, <2>1 DEF ClickedOnce
  <2> QED BY <1>0, <2>1, <2>3, <2>4, <2>5, <2>6, SessionMoves
<1> QED BY <1>2, <1>3

LEMMA PerformEffectKeeps ==
  ASSUME OperationAssumption, OperationInv, NEW s \in BrowserRuns, PerformEffect(s)
  PROVE  OperationInv'
<1> DEFINE at == browser[s].row.at
<1>0. /\ AtPortal(s) /\ at \in EffectSteps /\ browser[s].row.marker = at /\ at < PlanLength
      /\ clicked \in [EffectSteps -> Nat] /\ runnable \subseteq 0..sequence
      /\ sequence' = sequence /\ runnable' = runnable /\ operation' = operation
      /\ overlapped' = overlapped /\ operation \in OperationRows
      /\ browser[s].pc = "dispatched" /\ BrowserFine(s) /\ browser[s].row \in OperationRows
  BY DEF OperationInv, OperationTypeOK, PerformEffect, AtPortal, BrowserFine
<1>1. ~overlapped => ClickedOnce /\ WalksAhead(s)
  BY <1>0 DEF OperationInv, ClickedOnce
<1>2. PICK pc \in {"acted", "doubtful"} : browser' = [browser EXCEPT ![s].pc = pc]
  BY DEF PerformEffect
<1>3. clicked' = [clicked EXCEPT ![at] = @ + 1] \/ clicked' = clicked
  BY DEF PerformEffect
<1>4. pc \in BrowserPlaces
  BY DEF BrowserPlaces
<1>5. /\ browser' \in [BrowserRuns -> [pc : BrowserPlaces, job : 0..ResumeLimit,
                                       row : OperationRows]]
      /\ \A o \in BrowserRuns \ {s} : browser'[o] = browser[o]
      /\ browser'[s].pc = pc /\ browser'[s].job = browser[s].job
      /\ browser'[s].row = browser[s].row
  BY <1>2, <1>4, SessionPlace
<1>6. BrowserFine(s)'
  BY <1>0, <1>2, <1>5 DEF BrowserFine
<1>7. clicked' \in [EffectSteps -> Nat]
  BY <1>0, <1>3
<1>8. ASSUME ~overlapped
      PROVE  /\ WalksAhead(s)'
             /\ operation'.marker # NoMarker => operation'.marker <= operation'.at
             /\ \A i \in EffectSteps : /\ clicked'[i] <= 1
                                       /\ clicked'[i] > 0 =>
                                            \/ operation'.status = "verified"
                                            \/ operation'.marker # NoMarker
                                               /\ i <= operation'.marker
  <2>1. /\ ClickedOnce /\ operation.at = at /\ operation.marker = at /\ clicked[at] = 0
        /\ operation.status \in {"running", "dispatching"}
        /\ browser[s].row.status = operation.status
    BY <1>0, <1>1, <1>8 DEF WalksAhead
  <2>2. WalksAhead(s)'
    BY <1>0, <1>2, <1>5, <2>1 DEF WalksAhead
  <2>3. at # NoMarker /\ at \in Nat
    BY <1>0 DEF NoMarker, OperationRows, OperationAssumption
  <2> HIDE DEF at
  <2>4. \A i \in EffectSteps : clicked'[i] = clicked[i] \/ (i = at /\ clicked'[i] = 1)
    BY <1>0, <1>3, <2>1
  <2> QED BY <1>0, <2>1, <2>2, <2>3, <2>4 DEF ClickedOnce
<1> QED BY <1>0, <1>5, <1>6, <1>7, <1>8, SessionMoves

LEMMA RecordPlanStepKeeps ==
  ASSUME OperationAssumption, OperationInv, NEW s \in BrowserRuns, RecordPlanStep(s)
  PROVE  OperationInv'
<1> DEFINE old == browser[s].row
           row == [old EXCEPT !.at = @ + 1, !.status = "running"]
<1>0. /\ AtPortal(s) /\ old \in OperationRows /\ old.at < PlanLength
      /\ clicked \in [EffectSteps -> Nat] /\ runnable \subseteq 0..sequence
      /\ sequence' = sequence /\ runnable' = runnable /\ clicked' = clicked
      /\ overlapped' = overlapped
      /\ browser[s].pc = "acted" /\ BrowserFine(s)
      /\ old.at \in Nat /\ old.at + 1 \in 0..PlanLength /\ old.marker \in 0..PlanLength
  BY DEF OperationInv, OperationTypeOK, RecordPlanStep, AtPortal, OperationRows,
         OperationAssumption, BrowserFine
<1>1. ~overlapped => ClickedOnce /\ WalksAhead(s)
  BY <1>0 DEF OperationInv, ClickedOnce
<1>2. Commit(s, row, "walking")
  BY DEF RecordPlanStep
<1>3. row \in OperationRows /\ row.status = "running" /\ row.at = old.at + 1
      /\ row.marker = old.marker
  BY <1>0 DEF OperationRows, OperationStates
<1> HIDE DEF row
<1>4. "walking" \in BrowserPlaces
  BY DEF BrowserPlaces
<1>5. /\ operation' \in OperationRows
      /\ ~overlapped => /\ operation'.status = row.status /\ operation'.at = row.at
                        /\ operation'.marker = row.marker
      /\ browser' \in [BrowserRuns -> [pc : BrowserPlaces, job : 0..ResumeLimit,
                                       row : OperationRows]]
      /\ \A o \in BrowserRuns \ {s} : browser'[o] = browser[o]
      /\ browser'[s].pc = "walking"
      /\ browser'[s].row = row /\ browser'[s].job = browser[s].job
  BY <1>0, <1>2, <1>3, <1>4, CommitFacts
<1>6. BrowserFine(s)'
  BY <1>0, <1>5 DEF BrowserFine
<1>7. ASSUME ~overlapped
      PROVE  /\ WalksAhead(s)'
             /\ operation'.marker # NoMarker => operation'.marker <= operation'.at
             /\ \A i \in EffectSteps : clicked'[i] <= 1
                  /\ (clicked'[i] > 0 => operation'.marker # NoMarker
                                         /\ i <= operation'.marker)
  <2>1. /\ ClickedOnce /\ operation.at = old.at /\ operation.marker = old.marker
        /\ operation.status \in {"running", "dispatching"}
    BY <1>1, <1>7 DEF WalksAhead
  <2>2. old.marker = NoMarker \/ old.marker <= old.at
    BY <2>1 DEF ClickedOnce
  <2>3. \A i \in EffectSteps : clicked[i] <= 1
             /\ (clicked[i] > 0 => old.marker # NoMarker /\ i <= old.marker)
    BY <2>1 DEF ClickedOnce
  <2> HIDE DEF old
  <2> QED BY <1>0, <1>3, <1>5, <1>7, <2>1, <2>2, <2>3 DEF WalksAhead
<1> HIDE DEF old
<1> QED BY <1>0, <1>5, <1>6, <1>7, SessionMoves

LEMMA RunDiesKeeps ==
  ASSUME OperationAssumption, OperationInv, NEW s \in BrowserRuns, RunDies(s)
  PROVE  OperationInv'
<1>1. /\ AtPortal(s) /\ browser[s].job <= sequence /\ runnable \subseteq 0..sequence
      /\ browser[s].job \in 0..sequence /\ operation \in OperationRows
      /\ clicked \in [EffectSteps -> Nat]
      /\ browser \in [BrowserRuns -> [pc : BrowserPlaces, job : 0..ResumeLimit,
                                      row : OperationRows]]
  BY DEF OperationInv, OperationTypeOK, RunDies, AtPortal, BrowserFine, OperationAssumption
<1>2. /\ browser' = [browser EXCEPT ![s] = Closed] /\ operation' = operation
      /\ sequence' = sequence /\ clicked' = clicked /\ overlapped' = overlapped
      /\ runnable' \subseteq 0..sequence
  BY <1>1 DEF RunDies
<1>3. Closed \in [pc : BrowserPlaces, job : 0..ResumeLimit, row : OperationRows]
  BY NewOperationIsRow DEF Closed, BrowserPlaces, OperationAssumption
<1>4. /\ browser' \in [BrowserRuns -> [pc : BrowserPlaces, job : 0..ResumeLimit,
                                       row : OperationRows]]
      /\ browser'[s] = Closed /\ \A o \in BrowserRuns \ {s} : browser'[o] = browser[o]
  BY <1>1, <1>2, <1>3
<1>5. BrowserFine(s)' /\ ~AtPortal(s)'
  <2>1. 0 <= sequence
    BY DEF OperationInv, OperationTypeOK, OperationAssumption
  <2> QED BY <1>2, <1>4, <2>1, NewOperationIsRow DEF BrowserFine, AtPortal
<1>6. ~overlapped =>
         /\ operation'.marker # NoMarker => operation'.marker <= operation'.at
         /\ \A i \in EffectSteps : /\ clicked'[i] <= 1
                                   /\ clicked'[i] > 0 =>
                                        \/ operation'.status = "verified"
                                        \/ operation'.marker # NoMarker
                                           /\ i <= operation'.marker
  BY <1>2 DEF OperationInv, ClickedOnce
<1> QED BY <1>1, <1>2, <1>4, <1>5, <1>6, SessionMoves

\* Resuming changes the status alone, which no session at work has left in a state
\* that can be resumed.
LEMMA ResumeOperationKeeps ==
  ASSUME OperationAssumption, OperationInv, ResumeOperation
  PROVE  OperationInv'
<1> DEFINE row == [operation EXCEPT !.status = "pending"]
<1>1. /\ operation \in OperationRows /\ sequence \in 0..ResumeLimit /\ ResumeLimit \in Nat
      /\ runnable \subseteq 0..sequence /\ OperationTypeOK /\ sequence < ResumeLimit
      /\ operation.status \in {"needs_user_auth", "retry", "failed", "creation_uncertain"}
  BY DEF OperationInv, OperationTypeOK, OperationAssumption, ResumeOperation
<1>2. row \in OperationRows /\ row.at = operation.at /\ row.marker = operation.marker
  BY <1>1 DEF OperationRows, OperationStates
<1>3. /\ operation' = row /\ sequence' = sequence + 1 /\ browser' = browser
      /\ clicked' = clicked /\ overlapped' = overlapped
      /\ runnable' \in {runnable, runnable \cup {sequence + 1}}
  BY DEF ResumeOperation
<1> HIDE DEF row
<1>4. OperationTypeOK'
  <2>1. sequence + 1 \in 0..ResumeLimit /\ runnable' \subseteq 0..(sequence + 1)
    BY <1>1, <1>3
  <2> QED BY <1>1, <1>2, <1>3, <2>1 DEF OperationTypeOK
<1>5. \A s \in BrowserRuns : BrowserFine(s)'
  <2>1. \A s \in BrowserRuns : browser[s].job \in Nat
    BY <1>1 DEF OperationTypeOK
  <2> QED BY <1>1, <1>3, <2>1 DEF OperationInv, BrowserFine
<1>6. ASSUME ~overlapped PROVE ClickedOnce'
  <2>1. ClickedOnce
    BY <1>6 DEF OperationInv
  <2>2. \A s \in BrowserRuns : ~AtPortal(s)'
    BY <1>1, <1>3, <2>1 DEF ClickedOnce, WalksAhead, AtPortal
  <2>3. operation.status # "verified"
    BY <1>1
  <2> QED BY <1>2, <1>3, <2>1, <2>2, <2>3 DEF ClickedOnce
<1> QED BY <1>3, <1>4, <1>5, <1>6 DEF OperationInv

LEMMA OperationStepKeeps ==
  ASSUME OperationAssumption, OperationInv, [OperationNext]_operationVars
  PROVE  OperationInv'
<1>1. ASSUME NEW s \in BrowserRuns, RecordUncertainty(s) PROVE OperationInv'
  BY <1>1, SettleKeeps DEF RecordUncertainty, AtPortal, OperationStates, OperationInv,
                           OperationTypeOK
<1>2. ASSUME NEW s \in BrowserRuns, Challenged(s) PROVE OperationInv'
  BY <1>2, SettleKeeps DEF Challenged, AtPortal, OperationStates, OperationInv, OperationTypeOK
<1>3. ASSUME NEW s \in BrowserRuns, CheckPostcondition(s) PROVE OperationInv'
  <2>1. /\ AtPortal(s) /\ runnable' \subseteq 0..sequence /\ sequence' = sequence
        /\ clicked' = clicked /\ overlapped' = overlapped
    BY <1>3 DEF CheckPostcondition, AtPortal, OperationInv, OperationTypeOK
  <2>2. PICK status \in {"verified", "creation_uncertain", "failed"} : Settle(s, status)
    BY <1>3 DEF CheckPostcondition
  <2> QED BY <2>1, <2>2, SettleKeeps DEF OperationStates
<1>4. ASSUME NEW s \in BrowserRuns, RunFails(s) PROVE OperationInv'
  <2>1. /\ AtPortal(s) /\ sequence' = sequence /\ clicked' = clicked
        /\ overlapped' = overlapped
        /\ runnable' \in {runnable, runnable \cup {browser[s].job}}
    BY <1>4 DEF RunFails, AtPortal
  <2>2. runnable' \subseteq 0..sequence
    BY <2>1 DEF OperationInv, OperationTypeOK, BrowserFine, OperationAssumption
  <2>3. PICK status \in {"creation_uncertain", "failed", "retry"} : Settle(s, status)
    BY <1>4 DEF RunFails
  <2> QED BY <2>1, <2>2, <2>3, SettleKeeps DEF OperationStates
<1>5. CASE UNCHANGED operationVars
  BY <1>5 DEF operationVars, OperationInv, OperationTypeOK, BrowserFine, ClickedOnce, AtPortal,
              WalksAhead
<1> QED BY <1>1, <1>2, <1>3, <1>4, <1>5, StartRunKeeps, NextPlanStepKeeps, PerformEffectKeeps,
           RecordPlanStepKeeps, RunDiesKeeps, ResumeOperationKeeps DEF OperationNext

LEMMA OperationAlways ==
  ASSUME OperationAssumption PROVE OperationSpec => []OperationInv
<1>1. OperationInit => OperationInv
  BY OperationInitInv
<1>2. OperationInv /\ [OperationNext]_operationVars => OperationInv'
  BY OperationStepKeeps
<1> QED BY <1>1, <1>2, PTL DEF OperationSpec

\* The rows, the jobs and the sessions of an operation have their types: the marker
\* and the current step stay within the plan, and no job is numbered beyond
\* resume_sequence.
THEOREM OperationTypes ==
  ASSUME OperationAssumption PROVE OperationSpec => []OperationTypeOK
<1>1. OperationInv => OperationTypeOK
  BY DEF OperationInv
<1> QED BY <1>1, OperationAlways, PTL

\* A side effect on a portal happens once, for any plan, any number of sessions and
\* any number of retries and resumptions, unless two jobs worked at once.
THEOREM EffectsHappenOnce ==
  ASSUME OperationAssumption PROVE OperationSpec => []EffectsAreNotReplayed
<1>1. OperationInv => EffectsAreNotReplayed
  <2>1. ASSUME OperationInv, ~overlapped PROVE \A i \in EffectSteps : ~(clicked[i] > 1)
    BY <2>1 DEF OperationInv, OperationTypeOK, ClickedOnce
  <2> QED BY <2>1 DEF EffectsAreNotReplayed
<1> QED BY <1>1, OperationAlways, PTL

-----------------------------------------------------------------------------
(***************************************************************************)
(* Documents on Drive                                                      *)
(***************************************************************************)

IngestionRows == [pc : IngestPlaces, item : Items, file : Items, seen : IntentStates]
CreateStages == {"creating", "created", "refused", "doubtful"}

\* The session that has claimed item i and not yet told the outcome.
Creates(s, i) == ingestion[s].pc \in CreateStages /\ ingestion[s].item = i
Owns(s, f) == ingestion[s].pc = "owning" /\ ingestion[s].file = f

IngestionFine(s) ==
  LET at == ingestion[s] IN
  /\ at.pc # "idle" => at.file \in ArchivedFiles /\ at.item \in {at.file, ArchiveFolder}
  /\ at.pc \in {"searching", "following"} /\ at.seen = "verified" => at.item \in bound
  /\ at.pc \in {"recording", "owning"} => at.item = at.file /\ at.file \in bound
  /\ at.pc \in {"claiming"} \cup CreateStages /\ at.item # ArchiveFolder =>
       ArchiveFolder \in bound
  /\ at.pc \in {"creating", "refused"} => onDrive[at.item] = 0
  /\ at.pc = "creating" => creates[at.item] < MaxCreates
  /\ at.pc = "created" => onDrive[at.item] = 1
  /\ at.pc = "owning" => at.file \in record /\ owned[at.file] = 0

\* An item that may still be claimed does not exist and nobody creates it; one
\* session at most creates an item, and one at most owns a document.
OneCreator ==
  /\ \A i \in Items : intent[i] \in {"none", "prepared"} =>
       onDrive[i] = 0 /\ \A s \in Ingestions : ~Creates(s, i)
  /\ \A i \in Items : \A s, o \in Ingestions : Creates(s, i) /\ Creates(o, i) => s = o
  /\ \A f \in ArchivedFiles : \A s, o \in Ingestions : Owns(s, f) /\ Owns(o, f) => s = o

StoredFine ==
  /\ \A i \in Items : onDrive[i] <= 1 /\ (intent[i] = "verified" => i \in bound)
  /\ \A i \in bound \cup searchable : onDrive[i] > 0
  /\ record \subseteq bound
  /\ \A f \in ArchivedFiles : /\ owned[f] <= 1 /\ (owned[f] > 0 => f \in record)
                              /\ onDrive[f] > 0 => ArchiveFolder \in bound

DriveInv ==
  /\ DriveTypeOK
  /\ \A s \in Ingestions : IngestionFine(s)
  /\ OneCreator
  /\ StoredFine

LEMMA DriveInitInv == ASSUME DriveAssumption, DriveInit PROVE DriveInv
<1>1. NoIngestion \in IngestionRows /\ NoIngestion.pc = "idle"
  BY DEF NoIngestion, IngestionRows, IngestPlaces, Items, IntentStates
<1>2. DriveTypeOK
  <2>1. 0 \in 0..MaxCreates /\ "none" \in IntentStates
    BY DEF DriveAssumption, IntentStates
  <2> QED BY <1>1, <2>1 DEF DriveInit, DriveTypeOK, IngestionRows
<1>3. \A s \in Ingestions : ingestion[s].pc = "idle"
  BY <1>1 DEF DriveInit
<1>4. \A s \in Ingestions : IngestionFine(s)
  BY <1>3 DEF IngestionFine, CreateStages
<1>5. OneCreator
  BY <1>3 DEF OneCreator, Creates, Owns, CreateStages, DriveInit
<1>6. StoredFine
  BY DEF StoredFine, DriveInit, Items
<1> QED BY <1>2, <1>4, <1>5, <1>6 DEF DriveInv

\* What the stored rows and Drive must still be after a step of session s; the other
\* sessions see none of it but what has come to exist.
LEMMA IngestionMoves ==
  ASSUME DriveInv, NEW s \in Ingestions, NEW new \in IngestionRows, Turn(s, new),
         intent' \in [Items -> IntentStates], bound' \subseteq Items,
         searchable' = searchable, record' \subseteq ArchivedFiles,
         onDrive' \in [Items -> Nat], creates' \in [Items -> 0..MaxCreates],
         owned' \in [ArchivedFiles -> Nat],
         bound \subseteq bound', record \subseteq record',
         \A i \in Items : ~Creates(s, i) => onDrive'[i] = onDrive[i]
                                            /\ creates'[i] = creates[i],
         \A f \in ArchivedFiles : ~Owns(s, f) => owned'[f] = owned[f],
         IngestionFine(s)', StoredFine',
         \A i \in Items : intent'[i] \in {"none", "prepared"} =>
           /\ onDrive'[i] = 0 /\ ~Creates(s, i)'
           /\ Creates(s, i) \/ intent[i] \in {"none", "prepared"},
         \A i \in Items : Creates(s, i)' => Creates(s, i) \/ intent[i] = "prepared",
         \A f \in ArchivedFiles : Owns(s, f)' => f \notin record
  PROVE  DriveInv'
<1>1. ingestion \in [Ingestions -> IngestionRows]
  BY DEF DriveInv, DriveTypeOK, IngestionRows
<1>2. /\ ingestion' \in [Ingestions -> IngestionRows] /\ ingestion'[s] = new
      /\ \A o \in Ingestions \ {s} : ingestion'[o] = ingestion[o]
  BY <1>1 DEF Turn
<1>3. DriveTypeOK'
  BY <1>2 DEF DriveInv, DriveTypeOK, IngestionRows
<1>4. \A o \in Ingestions \ {s}, i \in Items : Creates(o, i)' <=> Creates(o, i)
  BY <1>2 DEF Creates
<1>5. \A o \in Ingestions \ {s}, f \in ArchivedFiles : Owns(o, f)' <=> Owns(o, f)
  BY <1>2 DEF Owns
<1>6. ASSUME NEW o \in Ingestions \ {s} PROVE IngestionFine(o)'
  <2>1. IngestionFine(o) /\ ingestion'[o] = ingestion[o] /\ ingestion[o].item \in Items
    BY <1>1, <1>2 DEF DriveInv, IngestionRows
  <2>2. ingestion[o].pc \in CreateStages =>
          /\ onDrive'[ingestion[o].item] = onDrive[ingestion[o].item]
          /\ creates'[ingestion[o].item] = creates[ingestion[o].item]
    <3>1. ingestion[o].pc \in CreateStages => ~Creates(s, ingestion[o].item)
      BY <2>1 DEF DriveInv, OneCreator, Creates
    <3> QED BY <2>1, <3>1
  <2>3. ingestion[o].pc = "owning" => owned'[ingestion[o].file] = owned[ingestion[o].file]
    <3>1. ingestion[o].pc = "owning" => /\ ingestion[o].file \in ArchivedFiles
                                        /\ ~Owns(s, ingestion[o].file)
      BY <2>1 DEF DriveInv, OneCreator, Owns, IngestionFine
    <3> QED BY <3>1
  <2> QED BY <2>1, <2>2, <2>3 DEF IngestionFine, CreateStages
<1>7. OneCreator'
  <2>1. ASSUME NEW i \in Items, intent'[i] \in {"none", "prepared"}, NEW o \in Ingestions
        PROVE  ~Creates(o, i)'
    BY <1>4, <2>1 DEF DriveInv, OneCreator
  <2>2. ASSUME NEW i \in Items, NEW o \in Ingestions \ {s}, Creates(o, i)'
        PROVE  ~Creates(s, i)'
    BY <1>4, <2>2 DEF DriveInv, OneCreator
  <2>3. ASSUME NEW f \in ArchivedFiles, NEW o \in Ingestions \ {s}, Owns(o, f)'
        PROVE  ~Owns(s, f)'
    <3>1. f \in record
      BY <1>5, <2>3 DEF DriveInv, IngestionFine, Owns
    <3> QED BY <3>1
  <2>4. \A i \in Items : \A o, p \in Ingestions : Creates(o, i)' /\ Creates(p, i)' => o = p
    BY <1>4, <2>2 DEF DriveInv, OneCreator
  <2>5. \A f \in ArchivedFiles : \A o, p \in Ingestions : Owns(o, f)' /\ Owns(p, f)' => o = p
    BY <1>5, <2>3 DEF DriveInv, OneCreator
  <2> QED BY <2>1, <2>4, <2>5 DEF OneCreator
<1> QED BY <1>3, <1>6, <1>7 DEF DriveInv

\* A step in which session s only goes elsewhere.
LEMMA IngestionTurns ==
  ASSUME DriveInv, NEW s \in Ingestions, NEW new \in IngestionRows, Turn(s, new),
         UNCHANGED <<intent, bound, providerVars, documentVars>>,
         new.pc \notin CreateStages \cup {"owning"}, IngestionFine(s)'
  PROVE  DriveInv'
<1>1. ingestion'[s] = new /\ UNCHANGED <<intent, bound, onDrive, searchable, creates, record, owned>>
  BY DEF DriveInv, DriveTypeOK, Turn, providerVars, documentVars
<1>2. \A i \in Items : ~Creates(s, i)'
  BY <1>1 DEF Creates
<1>3. \A f \in ArchivedFiles : ~Owns(s, f)'
  BY <1>1 DEF Owns
<1>4. StoredFine'
  BY <1>1 DEF DriveInv, StoredFine
<1> QED BY <1>1, <1>2, <1>3, <1>4, IngestionMoves DEF DriveInv, DriveTypeOK, OneCreator

LEMMA TurnedTo ==
  ASSUME DriveInv, NEW s \in Ingestions, NEW new \in IngestionRows, Turn(s, new)
  PROVE  ingestion'[s] = new
BY DEF DriveInv, DriveTypeOK, Turn

LEMMA IngestionRow ==
  ASSUME DriveInv, NEW s \in Ingestions
  PROVE  ingestion[s] \in IngestionRows /\ IngestionFine(s) /\ ArchiveFolder \in Items
BY DEF DriveInv, DriveTypeOK, IngestionRows, Items

\* The end of a session, and an error.
LEMMA IngestionEnds ==
  ASSUME DriveInv, NEW s \in Ingestions, Turn(s, NoIngestion),
         UNCHANGED <<intent, bound, providerVars, documentVars>>
  PROVE  DriveInv'
<1>1. NoIngestion \in IngestionRows /\ NoIngestion.pc = "idle"
  BY DEF NoIngestion, IngestionRows, IngestPlaces, Items, IntentStates
<1>2. IngestionFine(s)'
  BY <1>1, TurnedTo DEF IngestionFine, CreateStages
<1> QED BY <1>1, <1>2, IngestionTurns DEF CreateStages

LEMMA IngestKeeps ==
  ASSUME DriveInv, NEW s \in Ingestions, Ingest(s)
  PROVE  DriveInv'
<1>1. PICK f \in ArchivedFiles :
        Turn(s, [NoIngestion EXCEPT !.pc = "preparing", !.item = f, !.file = f])
  BY DEF Ingest
<1> DEFINE new == [NoIngestion EXCEPT !.pc = "preparing", !.item = f, !.file = f]
<1>2. new \in IngestionRows /\ new.pc = "preparing" /\ new.item = f /\ new.file = f
  BY DEF NoIngestion, IngestionRows, IngestPlaces, Items, IntentStates
<1> HIDE DEF new
<1>3. Turn(s, new)
  BY <1>1 DEF new
<1>4. IngestionFine(s)'
  BY <1>2, <1>3, TurnedTo DEF IngestionFine, CreateStages
<1> QED BY <1>2, <1>3, <1>4, IngestionTurns DEF CreateStages, Ingest

\* Where Resolved leads, when the item's intent is bound.
LEMMA ResolvedFacts ==
  ASSUME DriveInv, NEW s \in Ingestions, Resolved(s), ingestion[s].pc # "idle",
         bound \subseteq bound', ingestion[s].item \in bound'
  PROVE  \E new \in IngestionRows : /\ Turn(s, new) /\ new.pc \in {"claiming", "recording"}
                                    /\ IngestionFine(s)'
<1> DEFINE at == ingestion[s]
<1>1. at \in IngestionRows /\ at.file \in ArchivedFiles /\ at.item \in {at.file, ArchiveFolder}
      /\ at.file \in Items
  BY IngestionRow DEF IngestionFine, Items
<1>2. CASE at.item = ArchiveFolder
  <2> DEFINE new == [at EXCEPT !.pc = "claiming", !.item = at.file]
  <2>1. new \in IngestionRows /\ new.pc = "claiming" /\ new.item = at.file /\ new.file = at.file
    BY <1>1 DEF IngestionRows, IngestPlaces
  <2>2. Turn(s, new)
    BY <1>2 DEF Resolved
  <2> HIDE DEF new
  <2>3. IngestionFine(s)'
    BY <1>1, <1>2, <2>1, <2>2, TurnedTo DEF IngestionFine, CreateStages
  <2> QED BY <2>1, <2>2, <2>3
<1>3. CASE at.item # ArchiveFolder
  <2> DEFINE new == [at EXCEPT !.pc = "recording"]
  <2>1. new \in IngestionRows /\ new.pc = "recording" /\ new.item = at.item /\ new.file = at.file
    BY <1>1 DEF IngestionRows, IngestPlaces
  <2>2. Turn(s, new)
    BY <1>3 DEF Resolved
  <2> HIDE DEF new
  <2>3. IngestionFine(s)'
    BY <1>1, <1>3, <2>1, <2>2, TurnedTo DEF IngestionFine, CreateStages
  <2> QED BY <2>1, <2>2, <2>3
<1> QED BY <1>2, <1>3

\* An item that exists is bound to its intent, by the search or by the create's answer.
LEMMA BindKeeps ==
  ASSUME DriveInv, NEW s \in Ingestions, Bind(s), ingestion[s].pc # "idle",
         onDrive[ingestion[s].item] > 0,
         UNCHANGED <<providerVars, documentVars>>
  PROVE  DriveInv'
<1> DEFINE i == ingestion[s].item
<1>1. i \in Items /\ intent \in [Items -> IntentStates] /\ bound \subseteq Items
  BY IngestionRow DEF IngestionRows, DriveInv, DriveTypeOK
<1>2. /\ intent' = [intent EXCEPT ![i] = "verified"] /\ bound' = bound \cup {i}
      /\ UNCHANGED <<onDrive, searchable, creates, record, owned>>
  BY DEF Bind, providerVars, documentVars
<1>3. PICK new \in IngestionRows : /\ Turn(s, new) /\ new.pc \in {"claiming", "recording"}
                                   /\ IngestionFine(s)'
  BY <1>2, ResolvedFacts DEF Bind
<1>4. /\ \A j \in Items : ~Creates(s, j)'
      /\ \A f \in ArchivedFiles : ~Owns(s, f)'
  BY <1>3, TurnedTo DEF Creates, Owns, CreateStages
<1> HIDE DEF i
<1>5. StoredFine'
  BY <1>1, <1>2 DEF DriveInv, StoredFine, i
<1>6. intent' \in [Items -> IntentStates] /\ \A j \in Items : intent'[j] \in {"none", "prepared"} =>
         intent[j] = intent'[j]
  BY <1>1, <1>2 DEF IntentStates
<1>7. \A j \in Items : intent'[j] \in {"none", "prepared"} => onDrive'[j] = 0
  BY <1>2, <1>6 DEF DriveInv, OneCreator
<1> QED BY <1>1, <1>2, <1>3, <1>4, <1>5, <1>6, <1>7, IngestionMoves DEF DriveInv, DriveTypeOK

LEMMA ReconcileKeeps ==
  ASSUME DriveInv, NEW s \in Ingestions, Reconcile(s)
  PROVE  DriveInv'
<1> DEFINE at == ingestion[s]
<1>1. /\ at \in IngestionRows /\ IngestionFine(s) /\ at.pc \in {"searching", "following"}
      /\ UNCHANGED <<providerVars, documentVars>>
  BY IngestionRow DEF Reconcile
<1>2. CASE at.seen = "verified" /\ Resolved(s) /\ UNCHANGED <<intent, bound>>
  <2>1. PICK new \in IngestionRows : /\ Turn(s, new) /\ new.pc \in {"claiming", "recording"}
                                     /\ IngestionFine(s)'
    BY <1>1, <1>2, ResolvedFacts DEF IngestionFine
  <2> QED BY <1>1, <1>2, <2>1, IngestionTurns DEF CreateStages
<1>3. CASE at.item \in searchable /\ Bind(s)
  BY <1>1, <1>3, BindKeeps DEF DriveInv, StoredFine
<1>4. CASE Turn(s, NoIngestion) /\ UNCHANGED <<intent, bound>>
  BY <1>1, <1>4, IngestionEnds
<1>5. CASE /\ at.item = ArchiveFolder /\ Turn(s, [at EXCEPT !.pc = "claiming"])
           /\ UNCHANGED <<intent, bound>>
  <2> DEFINE new == [at EXCEPT !.pc = "claiming"]
  <2>1. new \in IngestionRows /\ new.pc = "claiming" /\ new.item = at.item /\ new.file = at.file
    BY <1>1 DEF IngestionRows, IngestPlaces
  <2>2. Turn(s, new)
    BY <1>5
  <2> HIDE DEF new
  <2>3. IngestionFine(s)'
    BY <1>1, <1>5, <2>1, <2>2, TurnedTo DEF IngestionFine, CreateStages
  <2> QED BY <1>1, <1>5, <2>1, <2>2, <2>3, IngestionTurns DEF CreateStages
<1>6. CASE /\ Turn(s, [at EXCEPT !.pc = "preparing", !.item = ArchiveFolder])
           /\ UNCHANGED <<intent, bound>>
  <2> DEFINE new == [at EXCEPT !.pc = "preparing", !.item = ArchiveFolder]
  <2>1. new \in IngestionRows /\ new.pc = "preparing" /\ new.item = ArchiveFolder
        /\ new.file = at.file
    BY <1>1, IngestionRow DEF IngestionRows, IngestPlaces
  <2>2. Turn(s, new)
    BY <1>6
  <2> HIDE DEF new
  <2>3. IngestionFine(s)'
    BY <1>1, <2>1, <2>2, TurnedTo DEF IngestionFine, CreateStages
  <2> QED BY <1>1, <1>6, <2>1, <2>2, <2>3, IngestionTurns DEF CreateStages
<1> QED BY <1>1, <1>2, <1>3, <1>4, <1>5, <1>6 DEF Reconcile

LEMMA PrepareIntentKeeps ==
  ASSUME DriveInv, NEW s \in Ingestions, PrepareIntent(s)
  PROVE  DriveInv'
<1> DEFINE at == ingestion[s]
           i == at.item
           new == [at EXCEPT !.pc = "searching", !.seen = intent'[i]]
<1>1. /\ at \in IngestionRows /\ IngestionFine(s) /\ at.pc = "preparing" /\ i \in Items
      /\ intent \in [Items -> IntentStates]
      /\ UNCHANGED <<bound, onDrive, searchable, creates, record, owned>>
  BY IngestionRow DEF PrepareIntent, DriveInv, DriveTypeOK, IngestionRows, providerVars,
                      documentVars
<1>2. intent' = [intent EXCEPT ![i] = IF @ = "none" THEN "prepared" ELSE @]
  BY DEF PrepareIntent
<1>3. /\ intent' \in [Items -> IntentStates]
      /\ \A j \in Items : intent'[j] = intent[j]
                          \/ (j = i /\ intent[j] = "none" /\ intent'[j] = "prepared")
  BY <1>1, <1>2 DEF IntentStates
<1>4. new \in IngestionRows /\ new.pc = "searching" /\ new.item = i /\ new.file = at.file
      /\ new.seen = intent'[i]
  BY <1>1, <1>3 DEF IngestionRows, IngestPlaces
<1>5. Turn(s, new)
  BY DEF PrepareIntent
<1> HIDE DEF new
<1>6. IngestionFine(s)'
  BY <1>1, <1>3, <1>4, <1>5, TurnedTo DEF IngestionFine, CreateStages, DriveInv, StoredFine
<1>7. StoredFine'
  BY <1>1, <1>3 DEF DriveInv, StoredFine
<1>8. /\ \A j \in Items : ~Creates(s, j)'
      /\ \A f \in ArchivedFiles : ~Owns(s, f)'
  BY <1>4, <1>5, TurnedTo DEF Creates, Owns, CreateStages
<1> HIDE DEF i, at
<1> QED BY <1>1, <1>3, <1>4, <1>5, <1>6, <1>7, <1>8, IngestionMoves DEF DriveInv, DriveTypeOK,
           OneCreator

LEMMA ClaimIntentKeeps ==
  ASSUME DriveInv, NEW s \in Ingestions, ClaimIntent(s)
  PROVE  DriveInv'
<1> DEFINE at == ingestion[s]
           i == at.item
<1>1. /\ at \in IngestionRows /\ IngestionFine(s) /\ at.pc = "claiming" /\ i \in Items
      /\ intent \in [Items -> IntentStates]
      /\ UNCHANGED <<bound, onDrive, searchable, creates, record, owned>>
  BY IngestionRow DEF ClaimIntent, DriveInv, DriveTypeOK, IngestionRows, providerVars,
                      documentVars
<1>2. CASE intent[i] = "prepared"
  <2> DEFINE new == [at EXCEPT !.pc = "creating", !.seen = "submitting"]
  <2>1. /\ intent' = [intent EXCEPT ![i] = "submitting"] /\ Turn(s, new)
        /\ creates[i] < MaxCreates
    BY <1>2 DEF ClaimIntent
  <2>2. new \in IngestionRows /\ new.pc = "creating" /\ new.item = i /\ new.file = at.file
    BY <1>1 DEF IngestionRows, IngestPlaces, IntentStates
  <2> HIDE DEF new
  <2>3. /\ intent' \in [Items -> IntentStates]
        /\ \A j \in Items : intent'[j] = intent[j] \/ (j = i /\ intent'[j] = "submitting")
    BY <1>1, <2>1 DEF IntentStates
  <2>4. onDrive[i] = 0
    BY <1>1, <1>2 DEF DriveInv, OneCreator
  <2>5. IngestionFine(s)'
    BY <1>1, <2>1, <2>2, <2>4, TurnedTo DEF IngestionFine, CreateStages
  <2>6. StoredFine'
    BY <1>1, <2>3 DEF DriveInv, StoredFine
  <2>7. /\ \A j \in Items : Creates(s, j)' => j = i
        /\ \A f \in ArchivedFiles : ~Owns(s, f)'
    BY <2>1, <2>2, TurnedTo DEF Creates, Owns
  <2>8. \A j \in Items : intent'[j] \in {"none", "prepared"} => j # i /\ intent[j] = intent'[j]
    BY <1>1, <2>1, <2>3
  <2> HIDE DEF i, at
  <2> QED BY <1>1, <1>2, <2>1, <2>2, <2>3, <2>5, <2>6, <2>7, <2>8, IngestionMoves
             DEF DriveInv, DriveTypeOK, OneCreator
<1>3. CASE intent[i] # "prepared"
  <2> DEFINE new == [at EXCEPT !.pc = "following", !.seen = intent[i]]
  <2>1. intent' = intent /\ Turn(s, new)
    BY <1>3 DEF ClaimIntent
  <2>2. new \in IngestionRows /\ new.pc = "following" /\ new.item = i /\ new.file = at.file
        /\ new.seen = intent[i]
    BY <1>1 DEF IngestionRows, IngestPlaces
  <2> HIDE DEF new
  <2>3. IngestionFine(s)'
    BY <1>1, <2>1, <2>2, TurnedTo DEF IngestionFine, CreateStages, DriveInv, StoredFine
  <2> QED BY <1>1, <2>1, <2>2, <2>3, IngestionTurns DEF CreateStages, providerVars, documentVars
<1> QED BY <1>2, <1>3

LEMMA CreateItemKeeps ==
  ASSUME DriveInv, DriveAssumption, NEW s \in Ingestions, CreateItem(s)
  PROVE  DriveInv'
<1> DEFINE at == ingestion[s]
           i == at.item
<1>1. /\ at \in IngestionRows /\ IngestionFine(s) /\ at.pc = "creating" /\ i \in Items
      /\ onDrive \in [Items -> Nat] /\ creates \in [Items -> 0..MaxCreates]
      /\ UNCHANGED <<intent, bound, searchable, record, owned>>
      /\ onDrive[i] = 0 /\ creates[i] < MaxCreates /\ creates[i] \in Nat /\ MaxCreates \in Nat
      /\ Creates(s, i)
  BY IngestionRow DEF CreateItem, DriveInv, DriveTypeOK, IngestionRows, documentVars,
     IngestionFine, Creates, CreateStages, DriveAssumption
<1>2. /\ creates' = [creates EXCEPT ![i] = @ + 1]
      /\ onDrive' = [onDrive EXCEPT ![i] = @ + 1] \/ onDrive' = onDrive
  BY DEF CreateItem
<1>3. PICK pc \in {"created", "doubtful", "refused"} :
        /\ Turn(s, [at EXCEPT !.pc = pc])
        /\ pc = "created" => onDrive' = [onDrive EXCEPT ![i] = @ + 1]
        /\ pc = "refused" => onDrive' = onDrive
  BY DEF CreateItem
<1> DEFINE new == [at EXCEPT !.pc = pc]
<1>4. new \in IngestionRows /\ new.pc = pc /\ new.item = i /\ new.file = at.file
  BY <1>1 DEF IngestionRows, IngestPlaces
<1>5. Turn(s, new)
  BY <1>3
<1> HIDE DEF new
<1>6. ingestion'[s] = new
  BY <1>4, <1>5, TurnedTo
<1>7. /\ creates' \in [Items -> 0..MaxCreates] /\ onDrive' \in [Items -> Nat]
      /\ \A j \in Items \ {i} : onDrive'[j] = onDrive[j] /\ creates'[j] = creates[j]
      /\ onDrive'[i] \in {0, 1}
      /\ pc = "created" => onDrive'[i] = 1
      /\ pc = "refused" => onDrive'[i] = 0
  BY <1>1, <1>2, <1>3
<1>8. IngestionFine(s)'
  BY <1>1, <1>4, <1>6, <1>7 DEF IngestionFine, CreateStages
<1>9. StoredFine'
  <2>1. \A f \in ArchivedFiles : onDrive'[f] > 0 => ArchiveFolder \in bound
    <3>1. \A f \in ArchivedFiles : f \in Items /\ f # ArchiveFolder
      BY DEF Items, DriveAssumption
    <3> QED BY <1>1, <1>7, <3>1 DEF DriveInv, StoredFine, IngestionFine, CreateStages
  <2>2. \A j \in bound \cup searchable : onDrive'[j] > 0
    BY <1>1, <1>7 DEF DriveInv, StoredFine, DriveTypeOK
  <2>3. \A j \in Items : onDrive'[j] <= 1
    BY <1>1, <1>7 DEF DriveInv, StoredFine
  <2> QED BY <1>1, <2>1, <2>2, <2>3 DEF DriveInv, StoredFine
<1>10. /\ \A j \in Items : Creates(s, j)' <=> Creates(s, j)
       /\ \A j \in Items : Creates(s, j) <=> j = i
       /\ \A f \in ArchivedFiles : ~Owns(s, f)'
  BY <1>1, <1>4, <1>6 DEF Creates, Owns, CreateStages
<1>11. intent[i] \notin {"none", "prepared"}
  BY <1>1 DEF DriveInv, OneCreator
<1> HIDE DEF i, at
<1> QED BY <1>1, <1>4, <1>5, <1>7, <1>8, <1>9, <1>10, <1>11, IngestionMoves
           DEF DriveInv, DriveTypeOK, OneCreator

\* The outcome of a create is written to the intent: refused, or in doubt.
LEMMA OutcomeKeeps ==
  ASSUME DriveInv, NEW s \in Ingestions, NEW status \in {"prepared", "creation_uncertain"},
         intent' = [intent EXCEPT ![ingestion[s].item] = status],
         ingestion[s].pc \in {"refused", "doubtful"},
         status = "prepared" => ingestion[s].pc = "refused",
         NEW new \in IngestionRows, Turn(s, new), new.pc \in {"idle", "following"},
         IngestionFine(s)', UNCHANGED <<bound, providerVars, documentVars>>
  PROVE  DriveInv'
<1> DEFINE i == ingestion[s].item
<1>1. /\ i \in Items /\ Creates(s, i) /\ intent \in [Items -> IntentStates]
      /\ UNCHANGED <<bound, onDrive, searchable, creates, record, owned>>
      /\ status = "prepared" => onDrive[i] = 0
  BY IngestionRow DEF IngestionRows, Creates, CreateStages, providerVars, documentVars,
     DriveInv, DriveTypeOK, IngestionFine
<1>2. /\ intent' \in [Items -> IntentStates] /\ intent'[i] = status
      /\ \A j \in Items \ {i} : intent'[j] = intent[j]
  BY <1>1 DEF IntentStates
<1>3. /\ \A j \in Items : ~Creates(s, j)'
      /\ \A f \in ArchivedFiles : ~Owns(s, f)'
  BY TurnedTo DEF Creates, Owns, CreateStages
<1> HIDE DEF i
<1>4. StoredFine'
  BY <1>1, <1>2 DEF DriveInv, StoredFine
<1> QED BY <1>1, <1>2, <1>3, <1>4, IngestionMoves DEF DriveInv, DriveTypeOK, OneCreator

LEMMA AllowAnotherCreateKeeps ==
  ASSUME DriveInv, NEW s \in Ingestions, AllowAnotherCreate(s)
  PROVE  DriveInv'
<1>1. NoIngestion \in IngestionRows /\ NoIngestion.pc = "idle"
  BY DEF NoIngestion, IngestionRows, IngestPlaces, Items, IntentStates
<1>2. /\ intent' = [intent EXCEPT ![ingestion[s].item] = "prepared"]
      /\ ingestion[s].pc = "refused" /\ Turn(s, NoIngestion)
      /\ UNCHANGED <<bound, providerVars, documentVars>>
  BY DEF AllowAnotherCreate
<1>3. IngestionFine(s)'
  BY <1>1, <1>2, TurnedTo DEF IngestionFine, CreateStages
<1> QED BY <1>1, <1>2, <1>3, OutcomeKeeps

LEMMA RecordDoubtKeeps ==
  ASSUME DriveInv, NEW s \in Ingestions, RecordDoubt(s)
  PROVE  DriveInv'
<1> DEFINE at == ingestion[s]
           new == [at EXCEPT !.pc = "following", !.seen = "creation_uncertain"]
<1>1. /\ at \in IngestionRows /\ IngestionFine(s) /\ at.pc = "doubtful"
      /\ intent' = [intent EXCEPT ![ingestion[s].item] = "creation_uncertain"]
      /\ Turn(s, new) /\ UNCHANGED <<bound, providerVars, documentVars>>
  BY IngestionRow DEF RecordDoubt
<1>2. new \in IngestionRows /\ new.pc = "following" /\ new.item = at.item /\ new.file = at.file
      /\ new.seen = "creation_uncertain"
  BY <1>1 DEF IngestionRows, IngestPlaces, IntentStates
<1> HIDE DEF new
<1>3. IngestionFine(s)'
  BY <1>1, <1>2, TurnedTo DEF IngestionFine, CreateStages
<1> QED BY <1>1, <1>2, <1>3, OutcomeKeeps

LEMMA RecordDocumentKeeps ==
  ASSUME DriveInv, NEW s \in Ingestions, RecordDocument(s)
  PROVE  DriveInv'
<1> DEFINE at == ingestion[s]
           new == [at EXCEPT !.pc = "owning"]
<1>1. /\ at \in IngestionRows /\ IngestionFine(s) /\ at.pc = "recording"
      /\ at.file \in ArchivedFiles /\ at.item = at.file /\ at.file \in bound
      /\ record' = record \cup {at.file} /\ record \subseteq ArchivedFiles
      /\ UNCHANGED <<intent, bound, onDrive, searchable, creates, owned>>
  BY IngestionRow DEF RecordDocument, IngestionFine, DriveInv, DriveTypeOK, providerVars
<1>2. StoredFine'
  BY <1>1 DEF DriveInv, StoredFine
<1>3. CASE at.file \in record
  <2>1. Turn(s, NoIngestion) /\ record' = record
    BY <1>1, <1>3 DEF RecordDocument
  <2> QED BY <1>1, <2>1, IngestionEnds DEF providerVars, documentVars
<1>4. CASE at.file \notin record
  <2>1. Turn(s, new)
    BY <1>4 DEF RecordDocument
  <2>2. new \in IngestionRows /\ new.pc = "owning" /\ new.item = at.item /\ new.file = at.file
    BY <1>1 DEF IngestionRows, IngestPlaces
  <2> HIDE DEF new
  <2>3. ingestion'[s] = new
    BY <2>1, <2>2, TurnedTo
  <2>4. owned[at.file] = 0
    BY <1>1, <1>4 DEF DriveInv, StoredFine, DriveTypeOK
  <2>5. IngestionFine(s)'
    BY <1>1, <2>2, <2>3, <2>4 DEF IngestionFine, CreateStages
  <2>6. /\ \A j \in Items : ~Creates(s, j)'
        /\ \A f \in ArchivedFiles : Owns(s, f)' => f \notin record
    BY <1>4, <2>2, <2>3 DEF Creates, Owns, CreateStages
  <2>7. record' \subseteq ArchivedFiles
    BY <1>1
  <2> HIDE DEF at
  <2> QED BY <1>1, <1>2, <2>1, <2>2, <2>5, <2>6, <2>7, IngestionMoves DEF DriveInv, DriveTypeOK,
             OneCreator
<1> QED BY <1>3, <1>4

LEMMA TakeFinancialOwnershipKeeps ==
  ASSUME DriveInv, NEW s \in Ingestions, TakeFinancialOwnership(s)
  PROVE  DriveInv'
<1> DEFINE f == ingestion[s].file
<1>1. /\ IngestionFine(s) /\ ingestion[s].pc = "owning" /\ f \in ArchivedFiles
      /\ f \in record /\ owned[f] = 0 /\ owned \in [ArchivedFiles -> Nat]
      /\ UNCHANGED <<intent, bound, onDrive, searchable, creates, record>>
      /\ Turn(s, NoIngestion) /\ owned' = [owned EXCEPT ![f] = @ + 1]
      /\ Owns(s, f)
  BY IngestionRow DEF TakeFinancialOwnership, IngestionFine, DriveInv, DriveTypeOK,
     providerVars, Owns
<1>2. NoIngestion \in IngestionRows /\ NoIngestion.pc = "idle"
  BY DEF NoIngestion, IngestionRows, IngestPlaces, Items, IntentStates
<1> HIDE DEF f
<1>3. /\ owned' \in [ArchivedFiles -> Nat] /\ owned'[f] = 1
      /\ \A g \in ArchivedFiles \ {f} : owned'[g] = owned[g]
  BY <1>1
<1>4. IngestionFine(s)'
  BY <1>1, <1>2, TurnedTo DEF IngestionFine, CreateStages
<1>5. StoredFine'
  BY <1>1, <1>3 DEF DriveInv, StoredFine
<1>6. /\ \A j \in Items : ~Creates(s, j)'
      /\ \A g \in ArchivedFiles : ~Owns(s, g)'
  BY <1>1, <1>2, TurnedTo DEF Creates, Owns, CreateStages
<1>7. \A g \in ArchivedFiles : ~Owns(s, g) => owned'[g] = owned[g]
  BY <1>1, <1>3 DEF Owns
<1> QED BY <1>1, <1>2, <1>3, <1>4, <1>5, <1>6, <1>7, IngestionMoves DEF DriveInv, DriveTypeOK,
           OneCreator

LEMMA DriveStepKeeps ==
  ASSUME DriveAssumption, DriveInv, [DriveNext]_driveVars
  PROVE  DriveInv'
<1>1. ASSUME NEW s \in Ingestions, BindCreated(s) PROVE DriveInv'
  <2>1. ingestion[s].pc # "idle" /\ onDrive[ingestion[s].item] > 0
    BY <1>1, IngestionRow DEF BindCreated, IngestionFine
  <2> QED BY <1>1, <2>1, BindKeeps DEF BindCreated
<1>2. ASSUME NEW s \in Ingestions, AbandonIngestion(s) PROVE DriveInv'
  BY <1>2, IngestionEnds DEF AbandonIngestion
<1>3. CASE IndexItem
  <2>1. PICK i \in Items \ searchable : onDrive[i] > 0 /\ searchable' = searchable \cup {i}
    BY <1>3 DEF IndexItem
  <2>2. UNCHANGED <<intent, bound, onDrive, creates, record, owned, ingestion>>
    BY <1>3 DEF IndexItem, documentVars
  <2> QED BY <2>1, <2>2 DEF DriveInv, DriveTypeOK, IngestionFine, OneCreator, StoredFine,
             Creates, Owns
<1>4. CASE UNCHANGED driveVars
  BY <1>4 DEF driveVars, DriveInv, DriveTypeOK, IngestionFine, OneCreator, StoredFine,
             Creates, Owns
<1> QED BY <1>1, <1>2, <1>3, <1>4, IngestKeeps, PrepareIntentKeeps, ReconcileKeeps,
           ClaimIntentKeeps, CreateItemKeeps, AllowAnotherCreateKeeps, RecordDoubtKeeps,
           RecordDocumentKeeps, TakeFinancialOwnershipKeeps DEF DriveNext

LEMMA DriveAlways == ASSUME DriveAssumption PROVE DriveSpec => []DriveInv
<1>1. DriveInit => DriveInv
  BY DriveInitInv
<1>2. DriveInv /\ [DriveNext]_driveVars => DriveInv'
  BY DriveStepKeeps
<1> QED BY <1>1, <1>2, PTL DEF DriveSpec

\* The intents, Drive, the documents and the sessions have their types, and no item is
\* created more often than the bound allows.
THEOREM DriveTypes == ASSUME DriveAssumption PROVE DriveSpec => []DriveTypeOK
<1>1. DriveInv => DriveTypeOK
  BY DEF DriveInv
<1> QED BY <1>1, DriveAlways, PTL

\* One copy of every item on Drive and one bill of every document, for any number of
\* documents and sessions, and the rows say only what exists there.
THEOREM DocumentsAreArchivedOnce ==
  ASSUME DriveAssumption PROVE DriveSpec => []ArchivedOnce
<1>1. DriveInv => ArchivedOnce
  BY DEF DriveInv, StoredFine, ArchivedOnce
<1> QED BY <1>1, DriveAlways, PTL

-----------------------------------------------------------------------------
(***************************************************************************)
(* Orders in a shop                                                        *)
(***************************************************************************)

FulfillerRows == [pc : {"idle", "loaded", "planned", "enqueueing"}, row : Requests,
                  at : 0..ActionLimit]
SentStates == {"queued", "needs_user_auth", "creation_uncertain", "failed", "verified"}
Plans(s) == fulfiller[s].pc \in {"planned", "enqueueing"}

FulfillerFine(s) ==
  LET f == fulfiller[s] IN
  /\ f.pc # "idle" => f.row.status \notin TerminalRequestStates
  /\ Plans(s) => f.at \in DOMAIN deeds
  /\ f.pc = "planned" => deeds[f.at].portal = "none"
  /\ f.pc = "enqueueing" => deeds[f.at].approved /\ deeds[f.at].portal # "none"

\* An operation that was sent, or that ordered, had been approved.
DeedFine(n) ==
  /\ n \in ordered \/ deeds[n].portal \in SentStates => deeds[n].approved
  /\ n \in ordered => deeds[n].portal # "none"

\* While nobody overtook a settled request, its only action is closed only with it.
OneDeed ==
  /\ Len(deeds) <= 1
  /\ (\E n \in DOMAIN deeds : deeds[n].status \in ClosedActions) =>
       purchase.status \in TerminalRequestStates

PurchaseInv ==
  /\ PurchaseTypeOK
  /\ \A s \in Fulfillers : FulfillerFine(s)
  /\ \A s, o \in Fulfillers : Plans(s) /\ Plans(o) /\ fulfiller[s].at = fulfiller[o].at => s = o
  /\ \A n \in DOMAIN deeds : DeedFine(n)
  /\ overtaken \/ OneDeed

LEMMA DeedsTyped ==
  ASSUME PurchaseAssumption, NEW d
  PROVE  d \in UNION {[1..n -> Deeds] : n \in 0..ActionLimit} <=>
           /\ Len(d) \in 0..ActionLimit /\ DOMAIN d = 1..Len(d)
           /\ d \in [1..Len(d) -> Deeds] /\ d \in Seq(Deeds)
<1>1. ASSUME d \in UNION {[1..n -> Deeds] : n \in 0..ActionLimit}
      PROVE  /\ Len(d) \in 0..ActionLimit /\ DOMAIN d = 1..Len(d)
             /\ d \in [1..Len(d) -> Deeds] /\ d \in Seq(Deeds)
  <2>1. PICK n \in 0..ActionLimit : d \in [1..n -> Deeds]
    BY <1>1
  <2>2. n \in Nat
    BY DEF PurchaseAssumption
  <2>3. d \in Seq(Deeds)
    BY <2>1, <2>2, SeqDef
  <2>4. Len(d) \in Nat /\ d \in [1..Len(d) -> Deeds] /\ DOMAIN d = 1..Len(d)
    BY <2>3, LenProperties
  <2>5. Len(d) = n
    BY <2>1, <2>2, <2>4
  <2> QED BY <2>3, <2>4, <2>5
<1>2. ASSUME Len(d) \in 0..ActionLimit, d \in [1..Len(d) -> Deeds]
      PROVE  d \in UNION {[1..n -> Deeds] : n \in 0..ActionLimit}
  BY <1>2
<1> QED BY <1>1, <1>2

LEMMA PurchaseInitInv == ASSUME PurchaseAssumption, PurchaseInit PROVE PurchaseInv
<1>1. NewRequest \in Requests /\ AtEase \in FulfillerRows /\ AtEase.pc = "idle"
  BY DEF NewRequest, Requests, RequestStates, AtEase, FulfillerRows, PurchaseAssumption
<1>2. deeds \in Seq(Deeds) /\ Len(deeds) = 0 /\ DOMAIN deeds = {}
  BY DEF PurchaseInit
<1>3. deeds \in UNION {[1..n -> Deeds] : n \in 0..ActionLimit}
  <2>1. deeds \in [1..0 -> Deeds] /\ 0 \in 0..ActionLimit
    BY <1>2 DEF PurchaseAssumption
  <2> QED BY <2>1
<1>4. PurchaseTypeOK
  BY <1>1, <1>2, <1>3 DEF PurchaseInit, PurchaseTypeOK, FulfillerRows
<1>5. \A s \in Fulfillers : fulfiller[s].pc = "idle"
  BY <1>1 DEF PurchaseInit
<1> QED BY <1>2, <1>4, <1>5 DEF PurchaseInv, FulfillerFine, Plans, OneDeed, PurchaseInit

\* A step of session s that leaves the actions alone.
LEMMA FulfillerTurns ==
  ASSUME PurchaseInv, NEW s \in Fulfillers, NEW new \in FulfillerRows,
         fulfiller' = [fulfiller EXCEPT ![s] = new],
         deeds' = deeds, ordered' = ordered, purchase' \in Requests, overtaken' \in BOOLEAN,
         new.pc \in {"idle", "loaded"},
         new.pc # "idle" => new.row.status \notin TerminalRequestStates,
         ~overtaken' => ~overtaken /\ (purchase.status \in TerminalRequestStates =>
                                         purchase'.status \in TerminalRequestStates)
  PROVE  PurchaseInv'
<1>1. fulfiller \in [Fulfillers -> FulfillerRows]
  BY DEF PurchaseInv, PurchaseTypeOK, FulfillerRows
<1>2. /\ fulfiller' \in [Fulfillers -> FulfillerRows] /\ fulfiller'[s] = new
      /\ \A o \in Fulfillers \ {s} : fulfiller'[o] = fulfiller[o]
  BY <1>1
<1>3. PurchaseTypeOK'
  BY <1>2 DEF PurchaseInv, PurchaseTypeOK, FulfillerRows
<1>4. \A o \in Fulfillers : FulfillerFine(o)'
  BY <1>2 DEF PurchaseInv, FulfillerFine, Plans
<1>5. \A o, p \in Fulfillers :
        Plans(o)' /\ Plans(p)' /\ fulfiller'[o].at = fulfiller'[p].at => o = p
  BY <1>2 DEF PurchaseInv, Plans
<1>6. \A n \in DOMAIN deeds' : DeedFine(n)'
  BY DEF PurchaseInv, DeedFine
<1>7. ASSUME ~overtaken' PROVE OneDeed'
  BY <1>7 DEF PurchaseInv, OneDeed
<1> QED BY <1>3, <1>4, <1>5, <1>6, <1>7 DEF PurchaseInv

LEMMA DeedChanges ==
  ASSUME PurchaseAssumption, PurchaseInv, NEW n \in DOMAIN deeds, NEW deed \in Deeds,
         deeds' = [deeds EXCEPT ![n] = deed]
  PROVE  /\ deeds' \in UNION {[1..k -> Deeds] : k \in 0..ActionLimit}
         /\ Len(deeds') = Len(deeds) /\ DOMAIN deeds' = DOMAIN deeds
         /\ deeds'[n] = deed /\ \A k \in DOMAIN deeds \ {n} : deeds'[k] = deeds[k]
         /\ deeds[n] \in Deeds
<1>1. /\ Len(deeds) \in 0..ActionLimit /\ DOMAIN deeds = 1..Len(deeds)
      /\ deeds \in [1..Len(deeds) -> Deeds] /\ deeds \in Seq(Deeds)
  BY DeedsTyped DEF PurchaseInv, PurchaseTypeOK
<1>2. /\ deeds' \in [1..Len(deeds) -> Deeds] /\ DOMAIN deeds' = DOMAIN deeds
      /\ deeds'[n] = deed /\ \A k \in DOMAIN deeds \ {n} : deeds'[k] = deeds[k]
  BY <1>1
<1>3. deeds' \in UNION {[1..k -> Deeds] : k \in 0..ActionLimit}
  BY <1>1, <1>2
<1>4. Len(deeds') = Len(deeds)
  <2>1. Len(deeds') \in 0..ActionLimit /\ DOMAIN deeds' = 1..Len(deeds')
    BY <1>3, DeedsTyped
  <2> QED BY <1>1, <1>2, <2>1
<1> QED BY <1>1, <1>2, <1>3, <1>4

\* A step of the portal or of the owner on the operation of action n.
LEMMA PortalMoves ==
  ASSUME PurchaseAssumption, PurchaseInv, NEW n \in DOMAIN deeds, NEW deed \in Deeds,
         deeds' = [deeds EXCEPT ![n] = deed],
         ordered' \in {ordered, ordered \cup {n}},
         UNCHANGED <<purchase, fulfiller, overtaken>>,
         deed.status = deeds[n].status, deed.portal # "none", deeds[n].portal # "none",
         deeds[n].approved => deed.approved,
         n \in ordered' \/ deed.portal \in SentStates => deed.approved
  PROVE  PurchaseInv'
<1>1. /\ deeds' \in UNION {[1..k -> Deeds] : k \in 0..ActionLimit}
      /\ Len(deeds') = Len(deeds) /\ DOMAIN deeds' = DOMAIN deeds
      /\ deeds'[n] = deed /\ \A k \in DOMAIN deeds \ {n} : deeds'[k] = deeds[k]
  BY DeedChanges
<1>2. PurchaseTypeOK'
  BY <1>1 DEF PurchaseInv, PurchaseTypeOK
<1>3. \A s \in Fulfillers : FulfillerFine(s)'
  BY <1>1 DEF PurchaseInv, FulfillerFine, Plans
<1>4. \A k \in DOMAIN deeds' : DeedFine(k)'
  BY <1>1 DEF PurchaseInv, DeedFine
<1>5. overtaken' \/ OneDeed'
  BY <1>1 DEF PurchaseInv, OneDeed
<1> QED BY <1>2, <1>3, <1>4, <1>5 DEF PurchaseInv, Plans

\* What a run's commit makes of the request.
LEMMA SaveFacts ==
  ASSUME PurchaseInv, NEW s \in Fulfillers, NEW row \in Requests, NEW n, NEW deed,
         SaveBoth(s, row, n, deed)
  PROVE  /\ purchase' \in Requests
         /\ row.status # fulfiller[s].row.status => purchase'.status = row.status
         /\ overtaken' \in BOOLEAN
         /\ ~overtaken' => ~overtaken /\ purchase.status \notin TerminalRequestStates
         /\ deeds' = [deeds EXCEPT ![n] = deed]
<1>1. purchase \in Requests /\ overtaken \in BOOLEAN
  BY DEF PurchaseInv, PurchaseTypeOK
<1>2. /\ purchase' = [c \in DOMAIN row |-> IF row[c] # fulfiller[s].row[c] THEN row[c]
                                           ELSE purchase[c]]
      /\ DOMAIN row = {"status", "authorized"}
  BY DEF SaveBoth, Requests
<1>3. /\ purchase' = [status |-> purchase'.status, authorized |-> purchase'.authorized]
      /\ purchase'.status \in {row.status, purchase.status}
      /\ purchase'.authorized \in {row.authorized, purchase.authorized}
      /\ row.status # fulfiller[s].row.status => purchase'.status = row.status
  BY <1>2
<1>4. purchase' \in Requests
  BY <1>1, <1>3 DEF Requests
<1> QED BY <1>1, <1>3, <1>4 DEF SaveBoth, Overtakes

\* A commit of session s to action n, which it opened, or which it found with an operation.
LEMMA DeedMoves ==
  ASSUME PurchaseAssumption, PurchaseInv, NEW s \in Fulfillers, NEW new \in FulfillerRows,
         fulfiller' = [fulfiller EXCEPT ![s] = new],
         NEW n \in DOMAIN deeds, NEW deed \in Deeds,
         deeds' = [deeds EXCEPT ![n] = deed], ordered' = ordered,
         purchase' \in Requests, overtaken' \in BOOLEAN,
         deed.portal = "none" => deeds[n].portal = "none",
         \/ Plans(s) /\ fulfiller[s].at = n
         \/ deeds[n].portal # "none" /\ (deeds[n].approved => deed.approved),
         n \in ordered \/ deed.portal \in SentStates => deed.approved,
         \/ new.pc = "idle"
         \/ /\ new.pc = "enqueueing" /\ new.at = n /\ Plans(s) /\ fulfiller[s].at = n
            /\ new.row.status \notin TerminalRequestStates
            /\ deed.approved /\ deed.portal # "none",
         ~overtaken' => /\ ~overtaken
                        /\ deed.status \in ClosedActions =>
                             purchase'.status \in TerminalRequestStates
                        /\ purchase.status \in TerminalRequestStates =>
                             purchase'.status \in TerminalRequestStates
  PROVE  PurchaseInv'
<1>1. /\ deeds' \in UNION {[1..k -> Deeds] : k \in 0..ActionLimit}
      /\ Len(deeds') = Len(deeds) /\ DOMAIN deeds' = DOMAIN deeds
      /\ deeds'[n] = deed /\ \A k \in DOMAIN deeds \ {n} : deeds'[k] = deeds[k]
  BY DeedChanges
<1>2. fulfiller \in [Fulfillers -> FulfillerRows]
  BY DEF PurchaseInv, PurchaseTypeOK, FulfillerRows
<1>3. /\ fulfiller' \in [Fulfillers -> FulfillerRows] /\ fulfiller'[s] = new
      /\ \A o \in Fulfillers \ {s} : fulfiller'[o] = fulfiller[o]
  BY <1>2
<1>4. PurchaseTypeOK'
  BY <1>1, <1>3 DEF PurchaseInv, PurchaseTypeOK, FulfillerRows
<1>5. ASSUME NEW o \in Fulfillers \ {s} PROVE FulfillerFine(o)'
  <2>1. Plans(o) /\ fulfiller[o].at = n =>
          deeds[n].portal # "none" /\ (deeds[n].approved => deed.approved)
    BY DEF PurchaseInv
  <2> QED BY <1>1, <1>3, <2>1 DEF PurchaseInv, FulfillerFine, Plans
<1>6. FulfillerFine(s)'
  BY <1>1, <1>3 DEF FulfillerFine, Plans
<1>7. \A o, p \in Fulfillers :
        Plans(o)' /\ Plans(p)' /\ fulfiller'[o].at = fulfiller'[p].at => o = p
  BY <1>3 DEF PurchaseInv, Plans
<1>8. \A k \in DOMAIN deeds' : DeedFine(k)'
  <2>1. n \in ordered => deed.portal # "none"
    BY DEF PurchaseInv, DeedFine
  <2> QED BY <1>1, <2>1 DEF PurchaseInv, DeedFine
<1>9. ASSUME ~overtaken' PROVE OneDeed'
  BY <1>1, <1>9 DEF PurchaseInv, OneDeed
<1> QED BY <1>4, <1>5, <1>6, <1>7, <1>8, <1>9 DEF PurchaseInv

LEMMA AtEaseIsRow ==
  ASSUME PurchaseAssumption PROVE AtEase \in FulfillerRows /\ AtEase.pc = "idle"
BY DEF PurchaseAssumption, AtEase, FulfillerRows, NewRequest, Requests, RequestStates

LEMMA EnsureActionKeeps ==
  ASSUME PurchaseAssumption, PurchaseInv, NEW s \in Fulfillers, EnsureAction(s)
  PROVE  PurchaseInv'
<1> DEFINE n == Len(deeds) + 1
           new == [fulfiller[s] EXCEPT !.pc = "planned", !.at = n]
<1>1. /\ Len(deeds) \in 0..ActionLimit /\ DOMAIN deeds = 1..Len(deeds)
      /\ deeds \in [1..Len(deeds) -> Deeds] /\ deeds \in Seq(Deeds)
      /\ ActionLimit \in Nat /\ fulfiller \in [Fulfillers -> FulfillerRows]
      /\ ordered \subseteq DOMAIN deeds /\ purchase \in Requests /\ overtaken \in BOOLEAN
  BY DeedsTyped DEF PurchaseInv, PurchaseTypeOK, PurchaseAssumption, FulfillerRows
<1>2. /\ Len(deeds) < ActionLimit /\ ~OpenAction(Len(deeds)) /\ fulfiller[s].pc = "loaded"
      /\ deeds' = Append(deeds, NewDeed) /\ purchase' = purchase /\ ordered' = ordered
      /\ overtaken' = (overtaken \/ purchase.status \in TerminalRequestStates)
  BY DEF EnsureAction, Overtakes, Holding
<1>3. NewDeed \in Deeds /\ NewDeed.portal = "none" /\ NewDeed.status = "planned"
  BY DEF NewDeed, Deeds, RequestStates, PortalStates
<1>4. n \in 1..ActionLimit /\ n \notin DOMAIN deeds
  BY <1>1, <1>2
<1>5. new \in FulfillerRows /\ new.pc = "planned" /\ new.at = n /\ new.row = fulfiller[s].row
  <2>1. PICK m \in 0..ActionLimit : m = n
    BY <1>1, <1>4
  <2> QED BY <1>1, <2>1 DEF FulfillerRows
<1>6. fulfiller' = [fulfiller EXCEPT ![s] = new]
  BY <1>1 DEF EnsureAction, FulfillerRows
<1> HIDE DEF new
<1>7. /\ deeds' \in Seq(Deeds) /\ Len(deeds') = n /\ deeds'[n] = NewDeed
      /\ \A k \in 1..Len(deeds) : deeds'[k] = deeds[k]
  BY <1>1, <1>2, <1>3
<1>8. /\ DOMAIN deeds' = 1..n /\ deeds' \in [1..n -> Deeds]
      /\ deeds' \in UNION {[1..k -> Deeds] : k \in 0..ActionLimit}
  <2>1. DOMAIN deeds' = 1..n /\ deeds' \in [1..n -> Deeds]
    BY <1>7, LenProperties
  <2>2. n \in 0..ActionLimit
    BY <1>4
  <2> QED BY <2>1, <2>2
<1>9. DOMAIN deeds \subseteq DOMAIN deeds' /\ n \in DOMAIN deeds'
      /\ \A k \in DOMAIN deeds' : k \in DOMAIN deeds \/ k = n
  BY <1>1, <1>8
<1>10. /\ fulfiller' \in [Fulfillers -> FulfillerRows] /\ fulfiller'[s] = new
       /\ \A o \in Fulfillers \ {s} : fulfiller'[o] = fulfiller[o]
  BY <1>1, <1>5, <1>6
<1>11. PurchaseTypeOK'
  BY <1>1, <1>2, <1>8, <1>9, <1>10 DEF PurchaseTypeOK, FulfillerRows
<1> HIDE DEF n
<1>12. \A o \in Fulfillers : FulfillerFine(o)'
  BY <1>1, <1>2, <1>3, <1>5, <1>7, <1>9, <1>10 DEF PurchaseInv, FulfillerFine, Plans
<1>13. \A o, p \in Fulfillers :
         Plans(o)' /\ Plans(p)' /\ fulfiller'[o].at = fulfiller'[p].at => o = p
  <2>1. \A o \in Fulfillers \ {s} : Plans(o)' => fulfiller'[o].at # n /\ Plans(o)
    BY <1>4, <1>10 DEF PurchaseInv, FulfillerFine, Plans
  <2> QED BY <1>5, <1>10, <2>1 DEF PurchaseInv
<1>14. \A k \in DOMAIN deeds' : DeedFine(k)'
  <2>1. n \notin ordered /\ "none" \notin SentStates
    BY <1>1, <1>4 DEF SentStates
  <2> QED BY <1>1, <1>2, <1>3, <1>7, <1>9, <2>1 DEF PurchaseInv, DeedFine
<1>15. ASSUME ~overtaken' PROVE OneDeed'
  <2>1. OneDeed /\ purchase.status \notin TerminalRequestStates
    BY <1>2, <1>15 DEF PurchaseInv
  <2>2. \A k \in DOMAIN deeds : deeds[k].status \notin ClosedActions
    BY <2>1 DEF OneDeed
  <2>3. Len(deeds) = 0
    <3>1. Len(deeds) > 0 => Len(deeds) \in DOMAIN deeds
      BY <1>1
    <3> QED BY <1>1, <1>2, <2>2, <3>1 DEF OpenAction
  <2>4. \A k \in DOMAIN deeds' : deeds'[k].status = "planned"
    BY <1>1, <1>3, <1>7, <1>9, <2>3
  <2>5. Len(deeds') <= 1
    BY <1>7, <2>3 DEF n
  <2> QED BY <2>4, <2>5 DEF OneDeed, ClosedActions
<1> QED BY <1>11, <1>12, <1>13, <1>14, <1>15 DEF PurchaseInv

LEMMA ObserveActionKeeps ==
  ASSUME PurchaseAssumption, PurchaseInv, NEW s \in Fulfillers, ObserveAction(s)
  PROVE  PurchaseInv'
<1> DEFINE n == Len(deeds)
           f == fulfiller[s]
           Become(status, portal) ==
             SaveBoth(s, [f.row EXCEPT !.status = status], n,
                      [deeds[n] EXCEPT !.status = status, !.portal = portal])
<1>1. /\ n \in 0..ActionLimit /\ DOMAIN deeds = 1..n
      /\ fulfiller \in [Fulfillers -> FulfillerRows] /\ f.pc = "loaded"
      /\ f.row \in Requests /\ f.row.status \notin TerminalRequestStates
      /\ purchase \in Requests /\ overtaken \in BOOLEAN
      /\ OpenAction(n) /\ ordered' = ordered /\ fulfiller' = [fulfiller EXCEPT ![s] = AtEase]
  BY DeedsTyped DEF PurchaseInv, PurchaseTypeOK, FulfillerRows, FulfillerFine, ObserveAction,
                    Holding, Leave
<1>2. n \in DOMAIN deeds /\ deeds[n] \in Deeds /\ DeedFine(n)
  <2>1. deeds \in [1..n -> Deeds] /\ n \in 1..n
    BY <1>1, DeedsTyped DEF PurchaseInv, PurchaseTypeOK, OpenAction
  <2> QED BY <1>1, <2>1 DEF PurchaseInv
<1>3. CASE UNCHANGED <<purchase, deeds, overtaken>>
  BY <1>1, <1>3, AtEaseIsRow, FulfillerTurns
<1>4. ASSUME NEW status \in {"completed", "needs_user", "failed", "waiting_provider", "blocked"},
             NEW portal \in PortalStates, Become(status, portal), portal # "none",
             deeds[n].portal # "none",
             portal \in SentStates => deeds[n].portal \in SentStates
      PROVE  PurchaseInv'
  <2> DEFINE row == [f.row EXCEPT !.status = status]
             deed == [deeds[n] EXCEPT !.status = status, !.portal = portal]
  <2>1. row \in Requests /\ row.status = status /\ status \in RequestStates
    BY <1>1 DEF Requests, RequestStates, TerminalRequestStates
  <2>2. deed \in Deeds /\ deed.status = status /\ deed.portal = portal
        /\ deed.approved = deeds[n].approved
    BY <1>2, <2>1 DEF Deeds
  <2>3. SaveBoth(s, row, n, deed)
    BY <1>4
  <2> HIDE DEF row, deed
  <2>4. /\ purchase' \in Requests /\ overtaken' \in BOOLEAN
        /\ row.status # f.row.status => purchase'.status = row.status
        /\ ~overtaken' => ~overtaken /\ purchase.status \notin TerminalRequestStates
        /\ deeds' = [deeds EXCEPT ![n] = deed]
    BY <2>1, <2>3, SaveFacts
  <2>5. deed.status \in ClosedActions => purchase'.status \in TerminalRequestStates
    BY <1>1, <2>1, <2>2, <2>4 DEF ClosedActions, TerminalRequestStates
  <2>6. n \in ordered \/ deed.portal \in SentStates => deed.approved
    BY <1>2, <1>4, <2>2 DEF DeedFine
  <2>7. deed.portal # "none" /\ deeds[n].portal # "none"
        /\ (deeds[n].approved => deed.approved)
    BY <1>4, <2>2
  <2> HIDE DEF n, f
  <2> QED BY <1>1, <1>2, <2>2, <2>4, <2>5, <2>6, <2>7, AtEaseIsRow, DeedMoves
<1>5. \/ UNCHANGED <<purchase, deeds, overtaken>>
      \/ deeds[n].portal = "verified" /\ Become("completed", deeds[n].portal)
      \/ deeds[n].portal = "needs_user_auth" /\ Become("needs_user", deeds[n].portal)
      \/ deeds[n].portal = "failed" /\ Become("failed", deeds[n].portal)
      \/ deeds[n].portal \in {"pending", "queued"} /\ Become("waiting_provider", deeds[n].portal)
      \/ deeds[n].portal = "creation_uncertain" /\ Become("blocked", deeds[n].portal)
      \/ deeds[n].portal = "creation_uncertain" /\ Become("waiting_provider", "queued")
  BY DEF ObserveAction
<1>6. "queued" \in PortalStates /\ deeds[n].portal \in PortalStates
  BY <1>2 DEF PortalStates, Deeds
<1> HIDE DEF Become, n, f
<1> QED BY <1>3, <1>4, <1>5, <1>6 DEF SentStates

LEMMA PlanFacts ==
  ASSUME PurchaseAssumption, PurchaseInv, NEW s \in Fulfillers, Plans(s)
  PROVE  LET f == fulfiller[s] IN
         /\ f \in FulfillerRows /\ f.row \in Requests /\ f.at \in DOMAIN deeds
         /\ f.row.status \notin TerminalRequestStates /\ f.row.authorized \in BOOLEAN
         /\ deeds[f.at] \in Deeds /\ DeedFine(f.at) /\ FulfillerFine(s)
         /\ f.pc \in {"planned", "enqueueing"}
         /\ purchase \in Requests /\ overtaken \in BOOLEAN
<1>1. /\ fulfiller \in [Fulfillers -> FulfillerRows] /\ FulfillerFine(s)
      /\ purchase \in Requests /\ overtaken \in BOOLEAN
  BY DEF PurchaseInv, PurchaseTypeOK, FulfillerRows
<1>2. \A n \in DOMAIN deeds : deeds[n] \in Deeds /\ DeedFine(n)
  <2>1. deeds \in [1..Len(deeds) -> Deeds]
    BY DeedsTyped DEF PurchaseInv, PurchaseTypeOK
  <2> QED BY <2>1 DEF PurchaseInv
<1> QED BY <1>1, <1>2 DEF Plans, FulfillerFine, FulfillerRows, Requests

LEMMA DispatchActionKeeps ==
  ASSUME PurchaseAssumption, PurchaseInv, NEW s \in Fulfillers, NEW allowed \in PolicyAnswers,
         DispatchAction(s, allowed)
  PROVE  PurchaseInv'
<1> DEFINE f == fulfiller[s]
           deed == Prepared(f.row.authorized \/ allowed)
           row == [status |-> deed.status, authorized |-> deed.approved]
           new == [f EXCEPT !.pc = "enqueueing", !.row = row]
<1>1. f.pc = "planned" /\ Plans(s)
  BY DEF DispatchAction, Holding, Plans
<1>2. /\ f \in FulfillerRows /\ f.row \in Requests /\ f.at \in DOMAIN deeds
      /\ deeds[f.at] \in Deeds /\ DeedFine(f.at) /\ deeds[f.at].portal = "none"
      /\ f.row.authorized \in BOOLEAN /\ fulfiller \in [Fulfillers -> FulfillerRows]
  BY <1>1, PlanFacts DEF FulfillerFine, PurchaseInv, PurchaseTypeOK, FulfillerRows
<1>3. /\ deed \in Deeds /\ deed.portal = "pending" /\ deed.approved \in BOOLEAN
      /\ deed.status \in {"dispatching", "needs_user"}
  <2>1. PICK approved \in BOOLEAN : deed = Prepared(approved)
    BY <1>2 DEF PolicyAnswers
  <2>2. Prepared(approved) \in Deeds /\ Prepared(approved).portal = "pending"
        /\ Prepared(approved).approved = approved
        /\ Prepared(approved).status \in {"dispatching", "needs_user"}
    BY DEF Prepared, Deeds, RequestStates, PortalStates
  <2> QED BY <2>1, <2>2
<1>4. /\ SaveBoth(s, row, f.at, deed) /\ ordered' = ordered
      /\ IF deed.approved
           THEN fulfiller' = [fulfiller EXCEPT ![s].pc = "enqueueing", ![s].row = row]
           ELSE Leave(s)
  BY DEF DispatchAction
<1> HIDE DEF deed
<1>5. row \in Requests /\ row.status = deed.status
  BY <1>3 DEF Requests, RequestStates
<1> HIDE DEF row
<1>6. /\ purchase' \in Requests /\ overtaken' \in BOOLEAN
      /\ ~overtaken' => ~overtaken /\ purchase.status \notin TerminalRequestStates
      /\ deeds' = [deeds EXCEPT ![f.at] = deed]
  BY <1>4, <1>5, SaveFacts
<1>7. new \in FulfillerRows /\ new.pc = "enqueueing" /\ new.at = f.at /\ new.row = row
  BY <1>2, <1>5 DEF FulfillerRows
<1>8. CASE deed.approved
  <2>1. fulfiller' = [fulfiller EXCEPT ![s] = new]
    BY <1>2, <1>4, <1>8 DEF FulfillerRows
  <2>2. row.status \notin TerminalRequestStates /\ deed.status \notin ClosedActions
        /\ deed.portal \notin SentStates /\ deed.portal # "none"
    BY <1>3, <1>5 DEF TerminalRequestStates, ClosedActions, SentStates
  <2> HIDE DEF new, f
  <2>3. fulfiller[s].at = f.at
    BY DEF f
  <2> QED BY <1>1, <1>2, <1>3, <1>4, <1>6, <1>7, <1>8, <2>1, <2>2, <2>3, DeedMoves
<1>9. CASE ~deed.approved
  <2>1. fulfiller' = [fulfiller EXCEPT ![s] = AtEase]
    BY <1>4, <1>9 DEF Leave
  <2>2. f.at \notin ordered /\ deed.status \notin ClosedActions
        /\ deed.portal \notin SentStates /\ deed.portal # "none"
    BY <1>2, <1>3 DEF DeedFine, ClosedActions, SentStates
  <2> HIDE DEF new, f
  <2>3. fulfiller[s].at = f.at
    BY DEF f
  <2> QED BY <1>1, <1>2, <1>3, <1>4, <1>6, <2>1, <2>2, <2>3, AtEaseIsRow, DeedMoves
<1> QED BY <1>3, <1>8, <1>9

LEMMA EnqueueOrderKeeps ==
  ASSUME PurchaseAssumption, PurchaseInv, NEW s \in Fulfillers, EnqueueOrder(s)
  PROVE  PurchaseInv'
<1> DEFINE n == fulfiller[s].at
           deed == [deeds[n] EXCEPT !.portal = IF @ = "pending" THEN "queued" ELSE @]
<1>1. /\ Plans(s) /\ n \in DOMAIN deeds /\ deeds[n] \in Deeds /\ deeds[n].approved
      /\ deeds[n].portal # "none" /\ purchase \in Requests /\ overtaken \in BOOLEAN
      /\ fulfiller' = [fulfiller EXCEPT ![s] = AtEase]
      /\ UNCHANGED <<purchase, ordered, overtaken>>
  BY PlanFacts DEF EnqueueOrder, Holding, Plans, FulfillerFine, Leave
<1>2. deed \in Deeds /\ deed.status = deeds[n].status /\ deed.approved = deeds[n].approved
      /\ deed.portal # "none"
  BY <1>1 DEF Deeds, PortalStates
<1>3. deeds' = [deeds EXCEPT ![n] = deed]
  BY <1>1 DEF EnqueueOrder
<1> HIDE DEF deed
<1>4. ~overtaken' => /\ ~overtaken
                     /\ deed.status \in ClosedActions =>
                          purchase'.status \in TerminalRequestStates
                     /\ purchase.status \in TerminalRequestStates =>
                          purchase'.status \in TerminalRequestStates
  BY <1>1, <1>2 DEF PurchaseInv, OneDeed
<1>5. fulfiller[s].at = n
  OBVIOUS
<1> HIDE DEF n
<1> QED BY <1>1, <1>2, <1>3, <1>4, <1>5, AtEaseIsRow, DeedMoves

LEMMA DispatchFailsKeeps ==
  ASSUME PurchaseAssumption, PurchaseInv, NEW s \in Fulfillers, DispatchFails(s)
  PROVE  PurchaseInv'
<1> DEFINE f == fulfiller[s]
           n == f.at
           row == [f.row EXCEPT !.status = "blocked"]
           deed == [deeds[n] EXCEPT !.status = "blocked"]
<1>1. /\ Plans(s) /\ n \in DOMAIN deeds /\ deeds[n] \in Deeds /\ DeedFine(n)
      /\ f.row \in Requests /\ ordered' = ordered
      /\ fulfiller' = [fulfiller EXCEPT ![s] = AtEase]
  BY PlanFacts DEF DispatchFails, Holding, Plans, Leave
<1>2. /\ deed \in Deeds /\ deed.status = "blocked" /\ deed.portal = deeds[n].portal
      /\ deed.approved = deeds[n].approved /\ row \in Requests
  BY <1>1 DEF Deeds, Requests, RequestStates
<1>3. SaveBoth(s, row, n, deed)
  BY DEF DispatchFails
<1> HIDE DEF deed, row
<1>4. /\ purchase' \in Requests /\ overtaken' \in BOOLEAN
      /\ ~overtaken' => ~overtaken /\ purchase.status \notin TerminalRequestStates
      /\ deeds' = [deeds EXCEPT ![n] = deed]
  BY <1>2, <1>3, SaveFacts
<1>5. deed.status \notin ClosedActions
      /\ (n \in ordered \/ deed.portal \in SentStates => deed.approved)
      /\ fulfiller[s].at = n
  BY <1>1, <1>2 DEF ClosedActions, DeedFine
<1>6. ~overtaken' => /\ ~overtaken
                     /\ deed.status \in ClosedActions =>
                          purchase'.status \in TerminalRequestStates
                     /\ purchase.status \in TerminalRequestStates =>
                          purchase'.status \in TerminalRequestStates
  BY <1>4, <1>5
<1>7. deed.portal = "none" => deeds[n].portal = "none"
  BY <1>2
<1> HIDE DEF n, f
<1> QED BY <1>1, <1>2, <1>4, <1>5, <1>6, <1>7, AtEaseIsRow, DeedMoves

LEMMA LoadPurchaseKeeps ==
  ASSUME PurchaseAssumption, PurchaseInv, NEW s \in Fulfillers,
         LoadPurchase(s) \/ AuthorizePurchase(s)
  PROVE  PurchaseInv'
<1>1. /\ purchase \in Requests /\ overtaken \in BOOLEAN /\ AtEase \in FulfillerRows
      /\ fulfiller \in [Fulfillers -> FulfillerRows] /\ fulfiller[s].pc = "idle"
  BY AtEaseIsRow DEF PurchaseInv, PurchaseTypeOK, FulfillerRows, LoadPurchase,
                     AuthorizePurchase, Holding
<1>2. \A row \in Requests :
        LET new == [AtEase EXCEPT !.pc = "loaded", !.row = row]
        IN  new \in FulfillerRows /\ new.pc = "loaded" /\ new.row = row
  BY <1>1 DEF FulfillerRows
<1>3. CASE LoadPurchase(s)
  <2> DEFINE new == [AtEase EXCEPT !.pc = "loaded", !.row = purchase]
  <2>1. /\ fulfiller' = [fulfiller EXCEPT ![s] = new]
        /\ purchase.status \notin TerminalRequestStates
        /\ UNCHANGED <<purchase, deeds, ordered, overtaken>>
    BY <1>3 DEF LoadPurchase
  <2>2. new \in FulfillerRows /\ new.pc = "loaded" /\ new.row = purchase
    BY <1>1, <1>2
  <2> HIDE DEF new
  <2> QED BY <1>1, <2>1, <2>2, FulfillerTurns
<1>4. CASE AuthorizePurchase(s)
  <2> DEFINE row == [status |-> IF purchase.status = "needs_user" THEN "planned"
                                ELSE purchase.status,
                     authorized |-> TRUE]
             new == [AtEase EXCEPT !.pc = "loaded", !.row = row]
  <2>1. /\ purchase' = row /\ UNCHANGED <<deeds, ordered, overtaken>>
        /\ fulfiller' = [fulfiller EXCEPT ![s] =
             IF row.status \in TerminalRequestStates THEN @ ELSE new]
    BY <1>4 DEF AuthorizePurchase
  <2>2. row \in Requests /\ (purchase.status \in TerminalRequestStates =>
                               row.status \in TerminalRequestStates)
    BY <1>1 DEF Requests, RequestStates, TerminalRequestStates
  <2> HIDE DEF row
  <2>3. new \in FulfillerRows /\ new.pc = "loaded" /\ new.row = row
    BY <1>2, <2>2
  <2> HIDE DEF new
  <2>4. CASE row.status \in TerminalRequestStates
    <3>1. fulfiller' = [fulfiller EXCEPT ![s] = fulfiller[s]]
      BY <2>1, <2>4
    <3>2. fulfiller[s] \in FulfillerRows
      BY <1>1
    <3> QED BY <1>1, <2>1, <2>2, <3>1, <3>2, FulfillerTurns
  <2>5. CASE row.status \notin TerminalRequestStates
    <3>1. fulfiller' = [fulfiller EXCEPT ![s] = new]
      BY <2>1, <2>5
    <3> QED BY <1>1, <2>1, <2>2, <2>3, <2>5, <3>1, FulfillerTurns
  <2> QED BY <2>4, <2>5
<1> QED BY <1>3, <1>4

LEMMA RunBreaksKeeps ==
  ASSUME PurchaseAssumption, PurchaseInv, NEW s \in Fulfillers,
         RunBreaks(s) \/ FulfillerDies(s)
  PROVE  PurchaseInv'
<1>1. /\ purchase \in Requests /\ overtaken \in BOOLEAN
      /\ fulfiller' = [fulfiller EXCEPT ![s] = AtEase]
      /\ UNCHANGED <<deeds, ordered>>
  BY DEF PurchaseInv, PurchaseTypeOK, RunBreaks, FulfillerDies, Leave
<1>2. \/ UNCHANGED <<purchase, overtaken>>
      \/ /\ purchase' = [purchase EXCEPT !.status = "blocked"]
         /\ overtaken' = (overtaken \/ purchase.status \in TerminalRequestStates)
  BY DEF RunBreaks, FulfillerDies, Overtakes
<1>3. purchase' \in Requests
  BY <1>1, <1>2 DEF Requests, RequestStates
<1>4. overtaken' \in BOOLEAN
  BY <1>1, <1>2
<1>5. ~overtaken' => ~overtaken /\ (purchase.status \in TerminalRequestStates =>
                                      purchase'.status \in TerminalRequestStates)
  BY <1>1, <1>2
<1> QED BY <1>1, <1>3, <1>4, <1>5, AtEaseIsRow, FulfillerTurns

LEMMA CancelPurchaseKeeps ==
  ASSUME PurchaseInv, CancelPurchase
  PROVE  PurchaseInv'
<1>1. /\ purchase' \in Requests /\ purchase'.status \in TerminalRequestStates
      /\ UNCHANGED <<deeds, ordered, fulfiller, overtaken>>
  BY DEF PurchaseInv, PurchaseTypeOK, CancelPurchase, Requests, RequestStates,
         TerminalRequestStates
<1> QED BY <1>1 DEF PurchaseInv, PurchaseTypeOK, FulfillerFine, Plans, DeedFine, OneDeed

LEMMA OrderMoves ==
  ASSUME PurchaseAssumption, PurchaseInv, NEW n \in 1..ActionLimit,
         OrderRuns(n) \/ OrderResumed(n) \/ ApproveOrder(n)
  PROVE  PurchaseInv'
<1>1. /\ n \in DOMAIN deeds /\ deeds[n] \in Deeds /\ DeedFine(n) /\ deeds[n].portal # "none"
      /\ UNCHANGED <<purchase, fulfiller, overtaken>>
  <2>1. n \in DOMAIN deeds
    BY DEF OrderRuns, OrderResumed, ApproveOrder
  <2>2. deeds \in [1..Len(deeds) -> Deeds]
    BY DeedsTyped DEF PurchaseInv, PurchaseTypeOK
  <2>3. deeds[n].portal # "none"
    BY DEF OrderRuns, OrderResumed, ApproveOrder, PurchaseInv, DeedFine
  <2> QED BY <2>1, <2>2, <2>3 DEF OrderRuns, OrderResumed, ApproveOrder, PurchaseInv
<1>2. ASSUME NEW portal \in SentStates, deeds' = [deeds EXCEPT ![n].portal = portal],
             deeds[n].approved, ordered' \in {ordered, ordered \cup {n}}
      PROVE  PurchaseInv'
  <2> DEFINE deed == [deeds[n] EXCEPT !.portal = portal]
  <2>1. deed \in Deeds /\ deed.status = deeds[n].status /\ deed.portal = portal
        /\ deed.approved = deeds[n].approved
    BY <1>1 DEF Deeds, SentStates, PortalStates
  <2>2. deeds' = [deeds EXCEPT ![n] = deed] /\ portal # "none"
    BY <1>2 DEF SentStates
  <2> HIDE DEF deed
  <2> QED BY <1>1, <1>2, <2>1, <2>2, PortalMoves
<1>3. CASE OrderRuns(n)
  <2>1. deeds[n].approved
    BY <1>1, <1>3 DEF OrderRuns, DeedFine, SentStates
  <2>2. PICK result \in {"verified", "creation_uncertain", "failed", "needs_user_auth"} :
          deeds' = [deeds EXCEPT ![n].portal = result]
    BY <1>3 DEF OrderRuns
  <2> QED BY <1>2, <1>3, <2>1, <2>2 DEF OrderRuns, SentStates
<1>4. CASE OrderResumed(n)
  <2>1. deeds[n].approved
    BY <1>1, <1>4 DEF OrderResumed, DeedFine, SentStates
  <2> QED BY <1>2, <1>4, <2>1 DEF OrderResumed, SentStates
<1>5. CASE ApproveOrder(n)
  <2> DEFINE deed == [deeds[n] EXCEPT !.approved = TRUE]
  <2>1. deed \in Deeds /\ deed.status = deeds[n].status /\ deed.portal = deeds[n].portal
        /\ deed.approved
    BY <1>1 DEF Deeds
  <2>2. deeds' = [deeds EXCEPT ![n] = deed] /\ ordered' = ordered
    BY <1>1, <1>5 DEF ApproveOrder, Deeds
  <2> HIDE DEF deed
  <2> QED BY <1>1, <2>1, <2>2, PortalMoves
<1> QED BY <1>3, <1>4, <1>5

LEMMA PurchaseStepKeeps ==
  ASSUME PurchaseAssumption, PurchaseInv, [PurchaseNext]_purchaseVars
  PROVE  PurchaseInv'
<1>1. CASE UNCHANGED purchaseVars
  BY <1>1 DEF purchaseVars, PurchaseInv, PurchaseTypeOK, FulfillerFine, Plans, DeedFine, OneDeed
<1> QED BY <1>1, LoadPurchaseKeeps, EnsureActionKeeps, ObserveActionKeeps, EnqueueOrderKeeps,
           DispatchActionKeeps, DispatchFailsKeeps, RunBreaksKeeps, CancelPurchaseKeeps,
           OrderMoves DEF PurchaseNext

LEMMA PurchaseAlways == ASSUME PurchaseAssumption PROVE PurchaseSpec => []PurchaseInv
<1>1. PurchaseInit => PurchaseInv
  BY PurchaseInitInv
<1>2. PurchaseInv /\ [PurchaseNext]_purchaseVars => PurchaseInv'
  BY PurchaseStepKeeps
<1> QED BY <1>1, <1>2, PTL DEF PurchaseSpec

\* The request, its actions and the sessions have their types; what was ordered is an
\* action.
THEOREM PurchaseTypes == ASSUME PurchaseAssumption PROVE PurchaseSpec => []PurchaseTypeOK
<1>1. PurchaseInv => PurchaseTypeOK
  BY DEF PurchaseInv
<1> QED BY <1>1, PurchaseAlways, PTL

\* A purchase is ordered once, and only as approved, for any number of sessions and
\* actions, unless a run acted on a request that had been settled meanwhile.
THEOREM PurchaseOrderedOnce == ASSUME PurchaseAssumption PROVE PurchaseSpec => []PurchaseIsOnce
<1>1. ASSUME PurchaseInv PROVE PurchaseIsOnce
  <2>1. ordered \subseteq DOMAIN deeds /\ DOMAIN deeds = 1..Len(deeds) /\ Len(deeds) \in Nat
    BY <1>1, DeedsTyped DEF PurchaseInv, PurchaseTypeOK, PurchaseAssumption
  <2>2. ASSUME ~overtaken PROVE Cardinality(ordered) <= 1
    <3>1. ordered \subseteq {1}
      BY <1>1, <2>1, <2>2 DEF PurchaseInv, OneDeed
    <3>2. IsFiniteSet({1}) /\ Cardinality({1}) = 1
      BY FS_Singleton
    <3> QED BY <3>1, <3>2, FS_Subset
  <2>3. \A n \in ordered : deeds[n].approved
    BY <1>1, <2>1 DEF PurchaseInv, DeedFine
  <2> QED BY <2>2, <2>3 DEF PurchaseIsOnce
<1> QED BY <1>1, PurchaseAlways, PTL

(***************************************************************************)
(* Evidence of the accounts                                                *)
(***************************************************************************)

Tags == {"mark", "no mark", "note"} \cup LiveRows
Entries == Rows \cup Movements \cup (Rows \X Tags) \cup (Movements \X Tags)
             \cup (Rows \X Movements \X {"plain", "internal"})
KeeperRows == [pc : KeeperPlaces, plan : SUBSET Entries, alone : BOOLEAN]
Paired == UNION Pairs
Untouched == \A m \in Movements : live[m] = "none"

\* What is called internal is like a side of a pair.
LikePaired(m) == \E r \in Paired : Likeness[r][m] >= 2

\* What is known of the movements, whatever sessions do: a row is matched with a record
\* that is there and like it.
Known ==
  /\ connected \in BOOLEAN /\ disturbed \in BOOLEAN
  /\ live \in [Movements -> LiveRows]
  /\ attached \subseteq imported /\ imported \subseteq Statements
  /\ noted \subseteq Paired /\ marked \subseteq Paired
  /\ matched \subseteq Listed \X Movements
  /\ \A r \in Rows : \A m \in Movements :
       <<r, m>> \in matched => live[m] # "none" /\ Likeness[r][m] >= 2
  /\ \A m \in Movements : live[m] = "internal" => LikePaired(m)
  /\ ~connected => Untouched

\* What a session is about to write is true, though it may be old.
KeeperFine(k) ==
  /\ k.pc = "fetching" => connected
  /\ \A r \in Rows :
       /\ k.pc = "merging" /\ <<r, "mark">> \in k.plan => r \in Paired
       /\ k.pc = "pairing" /\ {<<r, "mark">>, <<r, "note">>} \cap k.plan # {} => r \in Paired
       /\ k.pc = "matching" /\ {<<r, "plain">>, <<r, "internal">>} \cap k.plan # {}
            => r \in Listed
       /\ k.pc = "matching" /\ <<r, "internal">> \in k.plan => r \in Paired
  /\ \A m \in Movements :
       /\ k.pc = "resorting" /\ m \in k.plan => live[m] # "none"
       /\ k.pc = "spreading" /\ m \in k.plan => LikePaired(m) /\ live[m] # "none"
  /\ \A r \in Rows : \A m \in Movements : \A w \in {"plain", "internal"} :
       k.pc = "matching" /\ <<r, m, w>> \in k.plan
         => r \in Listed /\ live[m] # "none" /\ Likeness[r][m] >= 2
              /\ (w = "internal" => r \in Paired)

\* The row of a movement that is clear
Clear(r) == r \in Listed /\ IsClear(MovementOf[r])

\* It has still to be matched.
Due(r) == r \in Listed /\ Records(r) = {} /\ live[MovementOf[r]] # "none"

\* How far a session has come that is alone
AloneFine(k) ==
  /\ k.pc \in {"sort", "sorting", "pair", "pairing", "spread", "spreading", "match", "matching"}
       => attached = imported \/ Untouched
  /\ \A r \in Rows : Clear(r) =>
       /\ r \in Paired /\ k.pc = "pairing" => r \in noted \/ <<r, "note">> \in k.plan
       /\ r \in Paired /\ k.pc \in {"spread", "spreading", "match", "matching"} => r \in noted
       /\ r \in noted /\ <<r, MovementOf[r]>> \in matched =>
            /\ k.pc = "spreading" /\ live[MovementOf[r]] = "plain" => MovementOf[r] \in k.plan
            /\ k.pc \in {"match", "matching"} => live[MovementOf[r]] # "plain"
       /\ k.pc = "matching" /\ Due(r) =>
            \/ {<<r, "plain">>, <<r, "internal">>} \cap k.plan # {}
            \/ {<<r, MovementOf[r], "plain">>, <<r, MovementOf[r], "internal">>} \cap k.plan # {}
       /\ k.pc = "matching" /\ r \in noted =>
            /\ <<r, "plain">> \notin k.plan
            /\ <<r, MovementOf[r], "plain">> \in k.plan => live[MovementOf[r]] # "plain"

\* What the last pass that ran alone left
Right ==
  \A r \in Rows : Clear(r) =>
    /\ r \in Paired => r \in noted
    /\ live[MovementOf[r]] # "none" => <<r, MovementOf[r]>> \in matched
    /\ r \in noted /\ <<r, MovementOf[r]>> \in matched => live[MovementOf[r]] # "plain"

OnlyOne == \A s \in Keepers : keeper[s].alone /\ ~Idle(s) => \A o \in Keepers \ {s} : Idle(o)

LedgerInv ==
  /\ Known
  /\ keeper \in [Keepers -> KeeperRows]
  /\ \A s \in Keepers : KeeperFine(keeper[s])
  /\ OnlyOne
  /\ \A s \in Keepers : keeper[s].alone /\ ~Idle(s) => AloneFine(keeper[s])
  /\ ~disturbed /\ Working = {} => Right

LEMMA PairsAre ==
  ASSUME LedgerAssumption
  PROVE  Paired \subseteq Listed /\ (Known => Listed \subseteq Rows)
<1>1. Paired \subseteq Listed
  BY DEF Paired, Pairs
<1>2. ASSUME Known PROVE Listed \subseteq Rows
  BY <1>2 DEF Known, Listed, Rows
<1> QED BY <1>1, <1>2

LEMMA OfIs ==
  ASSUME LedgerAssumption, NEW r \in Rows, NEW m \in Movements
  PROVE  MovementOf[r] \in Movements /\ Likeness[r][m] \in 0..3
BY DEF LedgerAssumption

\* A clear movement and its row have to do with each other only.
LEMMA ClearIs ==
  ASSUME LedgerAssumption, Listed \subseteq Rows, NEW r \in Rows, Clear(r)
  PROVE  /\ \A m \in Movements : Likeness[r][m] >= 2 => m = MovementOf[r]
         /\ \A q \in Listed : Likeness[q][MovementOf[r]] >= 2 => q = r
         /\ \A free \in SUBSET Movements : MovementOf[r] \in free => BestOf(r, free) = {MovementOf[r]}
         /\ \A p, q \in Twins : r \in p /\ p \cap q # {} => p = q
<1> DEFINE m == MovementOf[r]
<1>1. /\ r \in Showing(m) /\ IsClear(m) /\ m \in Movements /\ MovementOf[r] = m
  BY DEF Clear, Showing, LedgerAssumption
<1>2. /\ Showing(m) = {r} /\ Likeness[r][m] \in {2, 3}
      /\ Likeness[r][m] = 2 => \A o \in Movements : o = m \/ Likeness[r][o] = 0
      /\ \A p, q \in Twins : r \in p /\ p \cap q # {} => p = q
  BY <1>1 DEF IsClear
<1>3. /\ \A o \in Movements \ {m} : Likeness[r][o] <= 1
      /\ \A q \in Rows : MovementOf[q] # m => Likeness[q][m] <= 1
  BY <1>1 DEF IsClear, ToldApart
<1>4. \A o \in Movements : Likeness[r][o] >= 2 => o = m
  BY <1>3, OfIs
<1>5. \A q \in Listed : Likeness[q][m] >= 2 => q = r
  <2>1. ASSUME NEW q \in Listed, Likeness[q][m] >= 2 PROVE MovementOf[q] = m
    BY <1>1, <1>3, <2>1, OfIs
  <2> QED BY <1>2, <2>1 DEF Showing
<1>6. ASSUME NEW free \in SUBSET Movements, m \in free PROVE BestOf(r, free) = {m}
  <2> DEFINE found == {o \in free : Likeness[r][o] > 0}
  <2>1. m \in found
    BY <1>2, <1>6
  <2>2. Likeness[r][m] = 2 => found = {m}
    BY <1>2, <2>1
  <2>3. \A o \in found : Likeness[r][o] <= Likeness[r][m] /\ Likeness[r][o] \in Nat
    BY <1>1, <1>2, <1>3, OfIs
  <2>4. \A o \in found : o # m => Likeness[r][o] <= 1
    BY <1>3
  <2>5. m \in BestOf(r, free)
    <3>1. CASE Likeness[r][m] = 2
      BY <2>1, <2>2, <2>3, <3>1 DEF BestOf
    <3>2. CASE Likeness[r][m] = 3
      BY <2>1, <2>3, <3>2 DEF BestOf
    <3> QED BY <1>2, <3>1, <3>2
  <2>6. ASSUME NEW o \in BestOf(r, free) PROVE o = m
    <3>1. o \in found /\ Likeness[r][o] >= 2
      BY <2>3 DEF BestOf
    <3> QED BY <2>3, <2>4, <3>1
  <2> QED BY <2>5, <2>6
<1> QED BY <1>2, <1>4, <1>5, <1>6

\* What BestOf finds is free and like the row.
LEMMA BestIs ==
  ASSUME LedgerAssumption, NEW r \in Rows, NEW free \in SUBSET Movements,
         NEW m \in BestOf(r, free)
  PROVE  m \in free /\ Likeness[r][m] >= 2
BY OfIs DEF BestOf

\* A pair is not a triple.
LEMMA Shapes == \A a, b, c, d, e : <<a, b>> # <<c, d, e>>
OBVIOUS

LEMMA PairsGrow == ASSUME imported \subseteq imported' PROVE Listed \subseteq Listed'
  /\ Paired \subseteq Paired'
<1>1. Listed \subseteq Listed'
  BY DEF Listed
<1> QED BY <1>1 DEF Paired, Pairs

LEMMA UnoccupiedIs == Unoccupied \in KeeperRows /\ Unoccupied.pc = "idle" /\ Unoccupied.alone = TRUE
BY DEF Unoccupied, KeeperRows, KeeperPlaces

LEMMA LedgerInitInv == ASSUME LedgerAssumption, LedgerInit PROVE LedgerInv
<1>1. /\ connected = FALSE /\ live = [m \in Movements |-> "none"] /\ disturbed = FALSE
      /\ imported = {} /\ attached = {} /\ noted = {} /\ marked = {} /\ matched = {}
      /\ keeper = [s \in Keepers |-> Unoccupied]
  BY DEF LedgerInit
<1>2. connected \in BOOLEAN /\ disturbed \in BOOLEAN
  BY <1>1, Zenon
<1>3. Known
  BY <1>1, <1>2 DEF Known, Untouched, LiveRows
<1>4. Listed = {} /\ Paired = {}
  <2>1. Listed = {}
    BY <1>1 DEF Listed
  <2> QED BY <2>1, PairsAre
<1>5. Right
  BY <1>4 DEF Right, Clear
<1>6. \A s \in Keepers : keeper[s] \in KeeperRows /\ Idle(s) /\ KeeperFine(keeper[s])
  BY <1>1, UnoccupiedIs DEF Idle, KeeperFine
<1>7. keeper \in [Keepers -> KeeperRows]
  BY <1>1, UnoccupiedIs
<1> QED BY <1>3, <1>5, <1>6, <1>7 DEF LedgerInv, OnlyOne

LEMMA KeeperIs ==
  ASSUME LedgerInv, NEW s \in Keepers
  PROVE  /\ keeper[s] \in KeeperRows /\ KeeperFine(keeper[s])
         /\ keeper[s].alone /\ ~Idle(s) => AloneFine(keeper[s])
BY DEF LedgerInv

-----------------------------------------------------------------------------
\* What is known only grows; then the plans that others hold stay true.
Growing ==
  /\ imported \subseteq imported' /\ (connected => connected')
  /\ \A m \in Movements : live[m] # "none" => live'[m] # "none"

LEMMA PlansStay ==
  ASSUME Growing, NEW k, KeeperFine(k), NEW k1, k1.pc = k.pc, k1.plan = k.plan PROVE KeeperFine(k1)'
<1>1. Paired \subseteq Paired' /\ Listed \subseteq Listed'
  BY PairsGrow DEF Growing
<1>2. \A m : LikePaired(m) => LikePaired(m)'
  BY <1>1 DEF LikePaired
<1> QED BY <1>1, <1>2 DEF KeeperFine, Growing

\* A session at work goes on or ends.
LEMMA KeeperMoves ==
  ASSUME LedgerInv, NEW s \in Keepers, ~Idle(s), NEW k \in KeeperRows,
         keeper' = [keeper EXCEPT ![s] = k], Known', Growing, KeeperFine(k)',
         k.pc # "idle" /\ k.alone => keeper[s].alone /\ AloneFine(k)',
         k.pc = "idle" => disturbed' \/ (keeper[s].alone /\ Right')
  PROVE  LedgerInv'
<1>1. keeper \in [Keepers -> KeeperRows] /\ OnlyOne
  BY DEF LedgerInv
<1>2. /\ keeper' \in [Keepers -> KeeperRows] /\ keeper'[s] = k
      /\ \A t \in Keepers \ {s} : keeper'[t] = keeper[t]
  BY <1>1
<1>3. ASSUME NEW t \in Keepers PROVE KeeperFine(keeper[t])'
  <2>1. CASE t = s
    BY <1>2, <2>1 DEF KeeperFine
  <2>2. CASE t # s
    <3>1. keeper'[t] = keeper[t] /\ KeeperFine(keeper[t])
      BY <1>2, <2>2, KeeperIs
    <3> DEFINE old == keeper[t]
    <3>2. KeeperFine(old)' <=> KeeperFine(keeper[t])'
      BY <3>1 DEF KeeperFine
    <3> QED BY <3>1, PlansStay
  <2> QED BY <2>1, <2>2
<1>4. ASSUME NEW t \in Keepers, keeper'[t].alone, keeper'[t].pc # "idle"
      PROVE  t = s /\ keeper[s].alone /\ AloneFine(keeper[t])'
  <2>1. t = s
    BY <1>1, <1>2, <1>4 DEF OnlyOne, Idle
  <2>2. k.pc # "idle" /\ k.alone
    BY <1>2, <1>4, <2>1
  <2> QED BY <1>2, <2>1, <2>2 DEF AloneFine
<1>5. OnlyOne'
  BY <1>1, <1>2, <1>4 DEF OnlyOne, Idle
<1>6. ~disturbed' /\ Working' = {} => Right'
  <2>1. Working' = {} => k.pc = "idle"
    BY <1>2 DEF Working, Idle
  <2> QED BY <2>1
<1> QED BY <1>2, <1>3, <1>4, <1>5, <1>6 DEF LedgerInv, Idle

\* A session starts, alone if nobody is at work, and nobody else is alone any more.
LEMMA KeeperStarts ==
  ASSUME LedgerInv, NEW s \in Keepers, NEW pc \in KeeperPlaces \ {"idle"},
         NEW plan \in SUBSET Entries,
         Start(s, pc, plan), Known', Growing,
         KeeperFine([pc |-> pc, plan |-> plan, alone |-> TRUE])',
         pc \notin {"sort", "sorting", "pair", "pairing", "spread", "spreading", "match", "matching"}
  PROVE  LedgerInv'
<1> PICK alone \in BOOLEAN : alone <=> Working = {}
  OBVIOUS
<1> DEFINE k == [pc |-> pc, plan |-> plan, alone |-> alone]
<1>1. keeper \in [Keepers -> KeeperRows] /\ OnlyOne /\ Idle(s)
  BY DEF LedgerInv, Start
<1>2. /\ k \in KeeperRows /\ k.pc = pc /\ k.plan = plan
      /\ k.alone => \A o \in Keepers : Idle(o)
  BY DEF KeeperRows, Working
<1>3. keeper' = [o \in Keepers |-> IF o = s THEN k
                                  ELSE [keeper[o] EXCEPT !.alone = keeper[o].alone /\ Idle(o)]]
  BY DEF Start
<1>4. KeeperFine(k)'
  BY DEF KeeperFine
<1> HIDE DEF k
<1>5. /\ keeper'[s] = k
      /\ \A t \in Keepers \ {s} : /\ keeper'[t] \in KeeperRows
                                  /\ keeper'[t].pc = keeper[t].pc
                                  /\ keeper'[t].plan = keeper[t].plan
                                  /\ keeper'[t].alone => Idle(t)
  <2>1. keeper'[s] = k
    BY <1>3
  <2>2. ASSUME NEW t \in Keepers \ {s}
        PROVE  /\ keeper'[t] \in KeeperRows /\ keeper'[t].pc = keeper[t].pc
               /\ keeper'[t].plan = keeper[t].plan
               /\ keeper'[t].alone => Idle(t)
    <3>1. keeper[t] \in KeeperRows /\ Idle(t) \in BOOLEAN
      BY <1>1 DEF Idle
    <3>2. keeper'[t] = [keeper[t] EXCEPT !.alone = keeper[t].alone /\ Idle(t)]
      BY <1>3
    <3>3. (keeper[t].alone /\ Idle(t)) \in BOOLEAN
      OBVIOUS
    <3> QED BY <3>1, <3>2, <3>3 DEF KeeperRows
  <2> QED BY <2>1, <2>2
<1>6. keeper' \in [Keepers -> KeeperRows]
  <2>1. DOMAIN keeper' = Keepers
    BY <1>3
  <2> QED BY <1>2, <1>3, <1>5
<1>7. ASSUME NEW t \in Keepers PROVE KeeperFine(keeper[t])'
  <2>1. CASE t = s
    BY <1>4, <1>5, <2>1 DEF KeeperFine
  <2>2. CASE t # s
    BY <1>5, <2>2, KeeperIs, PlansStay DEF KeeperFine
  <2> QED BY <2>1, <2>2
<1>8. ASSUME NEW t \in Keepers, keeper'[t].alone, keeper'[t].pc # "idle"
      PROVE  t = s /\ \A o \in Keepers : Idle(o)
  BY <1>2, <1>5, <1>8 DEF Idle
<1>9. OnlyOne'
  BY <1>5, <1>8 DEF OnlyOne, Idle
<1>10. ASSUME NEW t \in Keepers, keeper'[t].alone, keeper'[t].pc # "idle" PROVE AloneFine(keeper[t])'
  BY <1>2, <1>5, <1>8, <1>10 DEF AloneFine
<1>11. Working' # {}
  BY <1>2, <1>5 DEF Working, Idle
<1> QED BY <1>6, <1>7, <1>9, <1>10, <1>11 DEF LedgerInv, Idle

\* The row of a session that goes on
LEMMA ProceedIs ==
  ASSUME LedgerInv, NEW s \in Keepers, NEW pc \in KeeperPlaces,
         NEW plan \in SUBSET Entries, Proceed(s, pc, plan)
  PROVE  \E k \in KeeperRows : /\ keeper' = [keeper EXCEPT ![s] = k]
                               /\ k.pc = pc /\ k.plan = plan /\ k.alone = keeper[s].alone
<1> DEFINE k == [keeper[s] EXCEPT !.pc = pc, !.plan = plan]
<1>1. keeper[s] \in KeeperRows /\ keeper \in [Keepers -> KeeperRows]
  BY DEF LedgerInv
<1>2. keeper' = [keeper EXCEPT ![s] = k]
  BY <1>1 DEF Proceed, KeeperRows
<1>3. k \in KeeperRows /\ k.pc = pc /\ k.plan = plan /\ k.alone = keeper[s].alone
  BY <1>1 DEF KeeperRows
<1> QED BY <1>2, <1>3

LEMMA MoveOnIs ==
  ASSUME LedgerInv, NEW s \in Keepers, NEW from \in KeeperPlaces \ {"idle"},
         NEW to \in KeeperPlaces, MoveOn(s, from, to)
  PROVE  /\ keeper[s].pc = from /\ ~Idle(s)
         /\ \E k \in KeeperRows : /\ keeper' = [keeper EXCEPT ![s] = k]
                                  /\ k.pc = to /\ k.plan = {} /\ k.alone = keeper[s].alone
BY ProceedIs DEF MoveOn, Idle

LEMMA KnownIs ==
  ASSUME LedgerInv
  PROVE  /\ connected \in BOOLEAN /\ disturbed \in BOOLEAN
         /\ live \in [Movements -> LiveRows]
         /\ attached \subseteq imported /\ imported \subseteq Statements
         /\ noted \subseteq Paired /\ marked \subseteq Paired
         /\ matched \subseteq Listed \X Movements
         /\ \A r \in Rows : \A m \in Movements :
              <<r, m>> \in matched => live[m] # "none" /\ Likeness[r][m] >= 2
         /\ \A m \in Movements : live[m] = "internal" => LikePaired(m)
         /\ ~connected => Untouched
BY DEF LedgerInv, Known

LEMMA RowsAre ==
  ASSUME LedgerAssumption, LedgerInv
  PROVE  /\ Listed \subseteq Rows /\ Paired \subseteq Listed
         /\ noted \subseteq Rows /\ marked \subseteq Rows
         /\ \A st \in imported : st \subseteq Rows
<1>1. Listed \subseteq Rows /\ Paired \subseteq Listed
  BY PairsAre DEF LedgerInv
<1>2. \A st \in imported : st \subseteq Rows
  BY KnownIs DEF Rows
<1> QED BY <1>1, <1>2, KnownIs

\* Unless a statement comes in, the rows stay what they are.
LEMMA SamePairs ==
  ASSUME imported' = imported
  PROVE  /\ Listed' = Listed /\ Paired' = Paired
         /\ \A m : LikePaired(m)' <=> LikePaired(m)
         /\ \A r : Clear(r)' <=> Clear(r)
<1>1. Listed' = Listed /\ Paired' = Paired
  BY DEF Listed, Paired, Pairs
<1>2. ASSUME NEW m PROVE IsClear(m)' <=> IsClear(m)
  BY <1>1 DEF IsClear, Showing, ToldApart
<1>3. ASSUME NEW r PROVE Clear(r)' <=> Clear(r)
  BY <1>1, <1>2 DEF Clear
<1> QED BY <1>1, <1>3 DEF LikePaired

\* What is known is kept when a record becomes plain, or internal for what its row is.
LEMMA KnownStays ==
  ASSUME LedgerInv, imported' = imported, connected' = connected, disturbed' \in BOOLEAN,
         attached' \subseteq imported, noted' \subseteq Paired, marked' \subseteq Paired,
         live' \in [Movements -> LiveRows],
         \A m \in Movements : \/ live'[m] = live[m]
                              \/ live'[m] = "plain" /\ (connected \/ live[m] # "none")
                              \/ live'[m] = "internal" /\ live[m] # "none" /\ LikePaired(m),
         matched' \subseteq Listed \X Movements,
         \A r \in Rows : \A m \in Movements :
           <<r, m>> \in matched' => <<r, m>> \in matched \/ (live[m] # "none" /\ Likeness[r][m] >= 2)
  PROVE  Known' /\ Growing
<1>1. Listed' = Listed /\ Paired' = Paired /\ \A m : LikePaired(m)' <=> LikePaired(m)
  BY SamePairs
<1>2. Growing /\ \A m \in Movements : live[m] # "none" => live'[m] # "none"
  BY KnownIs DEF Growing, LiveRows
<1>3. ~connected' => Untouched'
  BY KnownIs DEF Untouched
<1>4. \A r \in Rows : \A m \in Movements :
        <<r, m>> \in matched' => live'[m] # "none" /\ Likeness[r][m] >= 2
  BY <1>2, KnownIs
<1>5. \A m \in Movements : live'[m] = "internal" => LikePaired(m)'
  BY <1>1, KnownIs
<1>6. connected' \in BOOLEAN /\ imported' \subseteq Statements
  BY KnownIs
<1> QED BY <1>1, <1>2, <1>3, <1>4, <1>5, <1>6 DEF Known

LEMMA ConnectStep == ASSUME LedgerAssumption, LedgerInv, ConnectBank PROVE LedgerInv'
<1>1. connected' = TRUE /\ UNCHANGED <<live, imported, attached, noted, marked, matched, keeper,
        disturbed>>
  BY DEF ConnectBank, rowVars
<1>2. /\ Listed' = Listed /\ Paired' = Paired /\ Growing
      /\ \A m : LikePaired(m)' <=> LikePaired(m)
      /\ \A r : Clear(r)' <=> Clear(r)
  BY <1>1, SamePairs DEF Growing
<1>3. connected' \in BOOLEAN
  BY <1>1, Zenon
<1>4. Known'
  BY <1>1, <1>2, <1>3, KnownIs DEF Known
<1>5. ASSUME NEW s \in Keepers PROVE KeeperFine(keeper[s])'
                 /\ (AloneFine(keeper[s]) => AloneFine(keeper[s])')
  <2>1. KeeperFine(keeper[s])
    BY DEF LedgerInv
  <2>2. KeeperFine(keeper[s])'
    BY <1>1, <1>2, <2>1 DEF KeeperFine
  <2>3. AloneFine(keeper[s]) => AloneFine(keeper[s])'
    BY <1>1, <1>2 DEF AloneFine, Untouched, Due, Records
  <2> QED BY <2>2, <2>3
<1>6. Right => Right'
  BY <1>1, <1>2 DEF Right
<1> QED BY <1>1, <1>2, <1>4, <1>5, <1>6 DEF LedgerInv, OnlyOne, Idle, Working

LEMMA ImportStep ==
  ASSUME LedgerAssumption, LedgerInv, NEW s \in Keepers, ImportStatement(s) PROVE LedgerInv'
<1>1. PICK st \in Statements \ imported :
        /\ imported' = imported \cup {st}
        /\ attached' = IF connected THEN attached \cup {st} ELSE attached
  BY DEF ImportStatement
<1>2. Start(s, "attach", {}) /\ UNCHANGED <<connected, live, noted, marked, matched, disturbed>>
  BY DEF ImportStatement
<1>3. Growing /\ Listed \subseteq Listed' /\ Paired \subseteq Paired'
  BY <1>1, <1>2, PairsGrow DEF Growing
<1>4. \A m : LikePaired(m) => LikePaired(m)'
  BY <1>3 DEF LikePaired
<1>5. Known'
  BY <1>1, <1>2, <1>3, <1>4, KnownIs DEF Known, Untouched
<1>6. KeeperFine([pc |-> "attach", plan |-> {}, alone |-> TRUE])'
  BY DEF KeeperFine
<1>7. "attach" \in KeeperPlaces \ {"idle"}
  BY DEF KeeperPlaces
<1> QED BY <1>2, <1>3, <1>5, <1>6, <1>7, KeeperStarts

\* Steps that only read
LEMMA NothingWritten ==
  ASSUME LedgerInv, UNCHANGED <<connected, live, imported, attached, noted, marked, matched, disturbed>>
  PROVE  Known' /\ Growing /\ Listed' = Listed /\ Paired' = Paired
<1>1. Known' /\ Growing
  BY KnownIs, KnownStays
<1> QED BY <1>1, SamePairs

LEMMA MergeStep ==
  ASSUME LedgerAssumption, LedgerInv, NEW s \in Keepers, MergeStatement(s) PROVE LedgerInv'
<1>1. PICK st \in imported :
        Start(s, "merging", {<<r, IF r \in marked THEN "mark" ELSE "no mark">> : r \in st})
  BY DEF MergeStatement
<1>2. UNCHANGED <<connected, live, imported, attached, noted, marked, matched, disturbed>>
  BY DEF MergeStatement, rowVars
<1>3. st \subseteq Rows
  BY RowsAre
<1>4. PICK plan \in SUBSET Entries :
        plan = {<<r, IF r \in marked THEN "mark" ELSE "no mark">> : r \in st}
  <2>1. \A r \in st : <<r, IF r \in marked THEN "mark" ELSE "no mark">> \in Rows \X Tags
    BY <1>3 DEF Tags
  <2>2. {<<r, IF r \in marked THEN "mark" ELSE "no mark">> : r \in st} \subseteq Rows \X Tags
    BY <2>1
  <2> QED BY <2>2 DEF Entries
<1>5. \A r \in Rows : <<r, "mark">> \in plan => r \in Paired'
  BY <1>2, <1>4, NothingWritten, KnownIs
<1>6. KeeperFine([pc |-> "merging", plan |-> plan, alone |-> TRUE])'
  BY <1>5 DEF KeeperFine
<1>7. "merging" \in KeeperPlaces \ {"idle"}
  BY DEF KeeperPlaces
<1> QED BY <1>1, <1>2, <1>4, <1>6, <1>7, NothingWritten, KeeperStarts

LEMMA FetchStep ==
  ASSUME LedgerAssumption, LedgerInv, NEW s \in Keepers, FetchTransactions(s) PROVE LedgerInv'
<1>1. PICK window \in SUBSET Movements : Start(s, "fetching", {<<m, live[m]>> : m \in window})
  BY DEF FetchTransactions
<1>2. /\ UNCHANGED <<connected, live, imported, attached, noted, marked, matched, disturbed>>
      /\ connected
  BY DEF FetchTransactions, rowVars
<1>3. PICK plan \in SUBSET Entries : plan = {<<m, live[m]>> : m \in window}
  <2>1. \A m \in window : <<m, live[m]>> \in Movements \X Tags
    BY KnownIs DEF Tags
  <2>2. {<<m, live[m]>> : m \in window} \subseteq Movements \X Tags
    BY <2>1
  <2> QED BY <2>2 DEF Entries
<1>4. KeeperFine([pc |-> "fetching", plan |-> plan, alone |-> TRUE])'
  BY <1>2 DEF KeeperFine
<1>5. "fetching" \in KeeperPlaces \ {"idle"}
  BY DEF KeeperPlaces
<1> QED BY <1>1, <1>2, <1>3, <1>4, <1>5, NothingWritten, KeeperStarts

LEMMA BreakOffStep ==
  ASSUME LedgerInv, NEW s \in Keepers, ~Idle(s), BreakOff(s),
         UNCHANGED <<connected, live, imported, attached, noted, marked, matched>>
  PROVE  LedgerInv'
<1>1. PICK k \in KeeperRows : k = Unoccupied
  BY UnoccupiedIs
<1>2. keeper' = [keeper EXCEPT ![s] = k] /\ disturbed' = TRUE /\ k.pc = "idle"
  BY <1>1, UnoccupiedIs DEF BreakOff
<1>3. disturbed' \in BOOLEAN
  BY <1>2, Zenon
<1>4. Known' /\ Growing
  BY <1>3, KnownIs, KnownStays
<1>5. KeeperFine(k)'
  BY <1>2 DEF KeeperFine
<1> QED BY <1>2, <1>4, <1>5, KeeperMoves

LEMMA EnrichStep ==
  ASSUME LedgerAssumption, LedgerInv, NEW s \in Keepers, EnrichRows(s) PROVE LedgerInv'
<1> DEFINE as(was) == {r \in Listed : <<r, was>> \in keeper[s].plan}
           all == as("mark") \cup as("no mark")
<1>1. /\ MoveOn(s, "merging", "attach")
      /\ marked' = (marked \ all) \cup as("mark")
      /\ attached' = attached \cup {st \in imported : connected /\ st \cap all # {}}
      /\ UNCHANGED <<connected, live, imported, noted, matched, disturbed>>
  BY DEF EnrichRows, Planned
<1>2. /\ keeper[s].pc = "merging" /\ ~Idle(s)
      /\ \E k \in KeeperRows : /\ keeper' = [keeper EXCEPT ![s] = k]
                               /\ k.pc = "attach" /\ k.plan = {} /\ k.alone = keeper[s].alone
  BY <1>1, MoveOnIs DEF KeeperPlaces
<1>3. PICK k \in KeeperRows : /\ keeper' = [keeper EXCEPT ![s] = k]
                              /\ k.pc = "attach" /\ k.alone = keeper[s].alone
  BY <1>2
<1>4. as("mark") \subseteq Paired
  BY <1>2, RowsAre, KeeperIs DEF KeeperFine
<1>5. marked' \subseteq Paired /\ attached' \subseteq imported
  BY <1>1, <1>4, KnownIs
<1> HIDE DEF as, all
<1>6. Known' /\ Growing
  BY <1>1, <1>5, KnownIs, KnownStays
<1>7. KeeperFine(k)' /\ AloneFine(k)'
  BY <1>3 DEF KeeperFine, AloneFine
<1> QED BY <1>2, <1>3, <1>6, <1>7, KeeperMoves

LEMMA StoreStep ==
  ASSUME LedgerAssumption, LedgerInv, NEW s \in Keepers, StoreTransactions(s) PROVE LedgerInv'
<1>1. /\ keeper[s].pc = "fetching" /\ ~Idle(s) /\ connected
      /\ UNCHANGED <<connected, imported, attached, noted, marked, matched>>
  BY KeeperIs DEF StoreTransactions, Idle, KeeperFine, rowVars
<1>2. CASE BreakOff(s) /\ UNCHANGED live
  BY <1>1, <1>2, BreakOffStep
<1>3. CASE /\ Proceed(s, "resort", {}) /\ UNCHANGED disturbed
           /\ live' = [m \in Movements |->
                IF Planned(s) \cap {<<m, "none">>, <<m, "internal">>} # {} THEN "plain" ELSE live[m]]
  <2>1. PICK k \in KeeperRows : /\ keeper' = [keeper EXCEPT ![s] = k]
                                /\ k.pc = "resort" /\ k.alone = keeper[s].alone
    BY <1>3, ProceedIs DEF KeeperPlaces
  <2>2. \A m \in Movements : live'[m] = "plain" \/ live'[m] = live[m]
    BY <1>3
  <2>3. live' \in [Movements -> LiveRows]
    BY <1>3, <2>2, KnownIs DEF LiveRows
  <2>4. Known' /\ Growing
    BY <1>1, <1>3, <2>2, <2>3, KnownIs, KnownStays
  <2>5. KeeperFine(k)' /\ AloneFine(k)'
    BY <2>1 DEF KeeperFine, AloneFine
  <2> QED BY <1>1, <2>1, <2>4, <2>5, KeeperMoves
<1> QED BY <1>2, <1>3 DEF StoreTransactions

\* A session reads what it is to write next.
LEMMA ReadsStep ==
  ASSUME LedgerInv, NEW s \in Keepers, ~Idle(s),
         NEW pc \in KeeperPlaces \ {"idle"}, NEW plan \in SUBSET Entries,
         Proceed(s, pc, plan),
         UNCHANGED <<connected, live, imported, attached, noted, marked, matched, disturbed>>,
         KeeperFine([pc |-> pc, plan |-> plan, alone |-> TRUE])',
         keeper[s].alone => AloneFine([pc |-> pc, plan |-> plan, alone |-> TRUE])'
  PROVE  LedgerInv'
<1>1. PICK k \in KeeperRows : /\ keeper' = [keeper EXCEPT ![s] = k]
                              /\ k.pc = pc /\ k.plan = plan /\ k.alone = keeper[s].alone
  BY ProceedIs
<1>2. KeeperFine(k)' /\ (k.alone => AloneFine(k)')
  BY <1>1 DEF KeeperFine, AloneFine
<1> QED BY <1>1, <1>2, NothingWritten, KeeperMoves

\* Nothing that a reading session relies on changes.
LEMMA ReadsSame ==
  ASSUME UNCHANGED <<connected, live, imported, attached, noted, marked, matched>>, NEW k
  PROVE  /\ KeeperFine(k)' <=> KeeperFine(k)
         /\ AloneFine(k)' <=> AloneFine(k)
         /\ Right' <=> Right
<1>1. /\ Listed' = Listed /\ Paired' = Paired
      /\ \A m : LikePaired(m)' <=> LikePaired(m)
      /\ \A r : Clear(r)' <=> Clear(r)
  BY SamePairs
<1>2. KeeperFine(k)' <=> KeeperFine(k)
  BY <1>1 DEF KeeperFine
<1>3. AloneFine(k)' <=> AloneFine(k)
  BY <1>1 DEF AloneFine, Untouched, Due, Records
<1>4. Right' <=> Right
  BY <1>1 DEF Right
<1> QED BY <1>2, <1>3, <1>4

LEMMA ReadsOn ==
  ASSUME LedgerInv, NEW s \in Keepers, ~Idle(s),
         NEW pc \in KeeperPlaces \ {"idle"}, NEW plan \in SUBSET Entries, Proceed(s, pc, plan),
         UNCHANGED <<connected, live, imported, attached, noted, marked, matched, disturbed>>,
         KeeperFine([pc |-> pc, plan |-> plan, alone |-> TRUE]),
         keeper[s].alone => AloneFine([pc |-> pc, plan |-> plan, alone |-> TRUE])
  PROVE  LedgerInv'
BY ReadsSame, ReadsStep

LEMMA ReadLiveStep ==
  ASSUME LedgerAssumption, LedgerInv, NEW s \in Keepers,
         ReadTransactions(s) \/ ReadRows(s) \/ FindPairs(s) \/ ReadMatches(s) \/ MatchRows(s)
  PROVE  LedgerInv'
<1>1. /\ ~Idle(s) /\ KeeperFine(keeper[s]) /\ (keeper[s].alone => AloneFine(keeper[s]))
      /\ UNCHANGED <<connected, live, imported, attached, noted, marked, matched, disturbed>>
  BY KeeperIs DEF ReadTransactions, ReadRows, FindPairs, ReadMatches, MatchRows, Idle, rowVars
<1>2. Listed \subseteq Rows /\ Paired \subseteq Listed /\ noted \subseteq Rows
  BY RowsAre
<1>3. CASE ReadTransactions(s)
  <2>1. PICK plan \in SUBSET Entries : /\ plan = {m \in Movements : live[m] = "internal"}
                                       /\ Proceed(s, "resorting", plan)
    BY <1>3 DEF ReadTransactions, Entries
  <2>2. KeeperFine([pc |-> "resorting", plan |-> plan, alone |-> TRUE])
    BY <2>1 DEF KeeperFine
  <2>3. AloneFine([pc |-> "resorting", plan |-> plan, alone |-> TRUE])
    BY DEF AloneFine
  <2> QED BY <1>1, <2>1, <2>2, <2>3, ReadsOn DEF KeeperPlaces
<1>4. CASE ReadRows(s)
  <2>1. PICK plan \in SUBSET Entries : plan = noted \ marked
    BY <1>2 DEF Entries
  <2>2. Proceed(s, "sorting", plan) /\ keeper[s].pc = "sort"
    BY <1>4, <2>1 DEF ReadRows
  <2>3. KeeperFine([pc |-> "sorting", plan |-> plan, alone |-> TRUE])
    BY DEF KeeperFine
  <2>4. keeper[s].alone => AloneFine([pc |-> "sorting", plan |-> plan, alone |-> TRUE])
    BY <1>1, <2>2 DEF AloneFine
  <2> QED BY <1>1, <2>2, <2>3, <2>4, ReadsOn DEF KeeperPlaces
<1>5. CASE FindPairs(s)
  <2>1. PICK pairs \in Pairings :
          Proceed(s, "pairing", {<<r, "mark">> : r \in (UNION pairs) \ marked}
                                \cup {<<r, "note">> : r \in (UNION pairs) \ noted})
    BY <1>5 DEF FindPairs
  <2> DEFINE found == UNION pairs
  <2>2. found \subseteq Paired /\ \A p \in Pairs : \E q \in pairs : p \cap q # {}
    BY DEF Pairings, Paired
  <2>3. ASSUME NEW r \in Rows, Clear(r), r \in Paired PROVE r \in found
    <3>1. PICK p \in Pairs : r \in p
      BY <2>3 DEF Paired
    <3>2. PICK q \in pairs : p \cap q # {}
      BY <2>2, <3>1
    <3>3. p \in Twins /\ q \in Twins
      BY <3>1, <3>2 DEF Pairings, Pairs
    <3>4. p = q
      BY <1>2, <2>3, <3>1, <3>2, <3>3, ClearIs
    <3> QED BY <3>1, <3>2, <3>4
  <2> HIDE DEF found
  <2>4. PICK plan \in SUBSET Entries :
          plan = {<<r, "mark">> : r \in found \ marked} \cup {<<r, "note">> : r \in found \ noted}
    <3>1. \A r \in found : <<r, "mark">> \in Rows \X Tags /\ <<r, "note">> \in Rows \X Tags
      BY <1>2, <2>2 DEF Tags
    <3>2. {<<r, "mark">> : r \in found \ marked} \subseteq Rows \X Tags
      BY <3>1
    <3>3. {<<r, "note">> : r \in found \ noted} \subseteq Rows \X Tags
      BY <3>1
    <3> QED BY <3>2, <3>3 DEF Entries
  <2>5. Proceed(s, "pairing", plan) /\ keeper[s].pc = "pair"
    BY <1>5, <2>1, <2>4 DEF FindPairs, found
  <2>6. KeeperFine([pc |-> "pairing", plan |-> plan, alone |-> TRUE])
    BY <2>2, <2>4 DEF KeeperFine
  <2>7. keeper[s].alone => AloneFine([pc |-> "pairing", plan |-> plan, alone |-> TRUE])
    BY <1>1, <2>3, <2>4, <2>5 DEF AloneFine
  <2> QED BY <1>1, <2>5, <2>6, <2>7, ReadsOn DEF KeeperPlaces
<1>6. CASE ReadMatches(s)
  <2>1. PICK plan \in SUBSET Entries :
          plan = {m \in Movements : live[m] = "plain" /\ \E r \in noted : m \in Records(r)}
    BY DEF Entries
  <2>2. Proceed(s, "spreading", plan) /\ keeper[s].pc = "spread"
    BY <1>6, <2>1 DEF ReadMatches
  <2>3. \A m \in plan : LikePaired(m) /\ live[m] # "none"
    BY <1>2, <2>1, KnownIs DEF LikePaired, Records
  <2>4. KeeperFine([pc |-> "spreading", plan |-> plan, alone |-> TRUE])
    BY <2>3 DEF KeeperFine
  <2>5. \A r \in Rows :
          r \in noted /\ <<r, MovementOf[r]>> \in matched /\ live[MovementOf[r]] = "plain" => MovementOf[r] \in plan
    <3>1. ASSUME NEW r \in Rows, r \in noted, <<r, MovementOf[r]>> \in matched, live[MovementOf[r]] = "plain"
          PROVE  MovementOf[r] \in plan
      <4>1. MovementOf[r] \in Movements
        BY DEF LedgerAssumption
      <4>2. MovementOf[r] \in Records(r)
        BY <3>1, <4>1 DEF Records
      <4> QED BY <2>1, <3>1, <4>1, <4>2
    <3> QED BY <3>1
  <2>6. keeper[s].alone => AloneFine([pc |-> "spreading", plan |-> plan, alone |-> TRUE])
    BY <1>1, <2>2, <2>5 DEF AloneFine
  <2> QED BY <1>1, <2>2, <2>4, <2>6, ReadsOn DEF KeeperPlaces
<1>7. CASE MatchRows(s)
  <2> DEFINE rows == {q \in UNION attached : Records(q) = {}}
  <2>1. /\ keeper[s].pc = "match" /\ Proceed(s, "matching", {<<r, AsInHistory(r)>> : r \in rows})
    BY <1>7 DEF MatchRows
  <2>2. /\ rows \subseteq Listed
        /\ \A r \in rows : /\ AsInHistory(r) \in {"plain", "internal"}
                           /\ AsInHistory(r) = "internal" <=> r \in noted
    BY KnownIs DEF Listed, AsInHistory
  <2>3. keeper[s].alone => \A r \in Rows : Due(r) => r \in rows
    <3>1. keeper[s].alone => attached = imported \/ Untouched
      BY <1>1, <2>1 DEF AloneFine
    <3> QED BY <3>1 DEF Due, Untouched, Listed, LedgerAssumption
  <2> HIDE DEF rows
  <2>4. PICK plan \in SUBSET Entries : plan = {<<r, AsInHistory(r)>> : r \in rows}
    <3>1. \A r \in rows : <<r, AsInHistory(r)>> \in Rows \X Tags
      BY <1>2, <2>2 DEF Tags, LiveRows
    <3>2. {<<r, AsInHistory(r)>> : r \in rows} \subseteq Rows \X Tags
      BY <3>1
    <3> QED BY <3>2 DEF Entries
  <2>5. Proceed(s, "matching", plan)
    BY <2>1, <2>4
  <2>6. \A r, t : <<r, t>> \in plan => r \in rows /\ t = AsInHistory(r)
    BY <2>4
  <2>7. \A r, m, w : <<r, m, w>> \notin plan
    BY <2>4, Shapes
  <2>8. KeeperFine([pc |-> "matching", plan |-> plan, alone |-> TRUE])
    <3>1. \A r \in Rows : {<<r, "plain">>, <<r, "internal">>} \cap plan # {} => r \in Listed
      BY <2>2, <2>6
    <3>2. \A r \in Rows : <<r, "internal">> \in plan => r \in Paired
      BY <2>2, <2>6, KnownIs
    <3> QED BY <2>7, <3>1, <3>2 DEF KeeperFine
  <2>9. /\ \A r \in rows : {<<r, "plain">>, <<r, "internal">>} \cap plan # {}
        /\ \A r \in noted : <<r, "plain">> \notin plan
    <3>1. ASSUME NEW r \in rows PROVE {<<r, "plain">>, <<r, "internal">>} \cap plan # {}
      <4>1. <<r, AsInHistory(r)>> \in plan
        BY <2>4
      <4> QED BY <2>2, <4>1
    <3>2. ASSUME NEW r \in noted, <<r, "plain">> \in plan PROVE FALSE
      <4>1. r \in rows /\ "plain" = AsInHistory(r)
        BY <2>6, <3>2
      <4> QED BY <2>2, <3>2, <4>1
    <3> QED BY <3>1, <3>2
  <2>10. keeper[s].alone => AloneFine([pc |-> "matching", plan |-> plan, alone |-> TRUE])
    BY <1>1, <2>1, <2>3, <2>7, <2>9 DEF AloneFine
  <2> QED BY <1>1, <2>5, <2>8, <2>10, ReadsOn DEF KeeperPlaces
<1> QED BY <1>3, <1>4, <1>5, <1>6, <1>7

LEMMA ResortStep ==
  ASSUME LedgerAssumption, LedgerInv, NEW s \in Keepers, ResortTransactions(s) PROVE LedgerInv'
<1>1. /\ MoveOn(s, "resorting", "attach")
      /\ live' = [m \in Movements |-> IF m \in keeper[s].plan THEN "plain" ELSE live[m]]
      /\ UNCHANGED <<connected, imported, attached, noted, marked, matched, disturbed>>
  BY DEF ResortTransactions, Planned, rowVars
<1>2. keeper[s].pc = "resorting" /\ ~Idle(s)
  BY <1>1, MoveOnIs DEF KeeperPlaces
<1>3. PICK k \in KeeperRows : /\ keeper' = [keeper EXCEPT ![s] = k]
                              /\ k.pc = "attach" /\ k.alone = keeper[s].alone
  BY <1>1, MoveOnIs DEF KeeperPlaces
<1>4. \A m \in Movements : live'[m] = live[m] \/ (live'[m] = "plain" /\ live[m] # "none")
  <2>1. \A m \in Movements : m \in keeper[s].plan => live[m] # "none"
    BY <1>2, KeeperIs DEF KeeperFine
  <2> QED BY <1>1, <2>1
<1>5. live' \in [Movements -> LiveRows]
  BY <1>1, <1>4, KnownIs DEF LiveRows
<1>6. Known' /\ Growing
  BY <1>1, <1>4, <1>5, KnownIs, KnownStays
<1>7. KeeperFine(k)' /\ AloneFine(k)'
  BY <1>3 DEF KeeperFine, AloneFine
<1> QED BY <1>2, <1>3, <1>6, <1>7, KeeperMoves

LEMMA AttachStep ==
  ASSUME LedgerAssumption, LedgerInv, NEW s \in Keepers, AttachStatements(s) PROVE LedgerInv'
<1>1. /\ MoveOn(s, "attach", "sort")
      /\ attached' = IF connected THEN imported ELSE attached
      /\ UNCHANGED <<connected, live, imported, noted, marked, matched, disturbed>>
  BY DEF AttachStatements
<1>2. keeper[s].pc = "attach" /\ ~Idle(s)
  BY <1>1, MoveOnIs DEF KeeperPlaces
<1>3. PICK k \in KeeperRows : /\ keeper' = [keeper EXCEPT ![s] = k]
                              /\ k.pc = "sort" /\ k.alone = keeper[s].alone
  BY <1>1, MoveOnIs DEF KeeperPlaces
<1>4. Known' /\ Growing
  BY <1>1, KnownIs, KnownStays
<1>5. attached' = imported' \/ Untouched'
  BY <1>1, KnownIs DEF Untouched
<1>6. KeeperFine(k)' /\ AloneFine(k)'
  BY <1>3, <1>5 DEF KeeperFine, AloneFine
<1> QED BY <1>2, <1>3, <1>4, <1>6, KeeperMoves

LEMMA SortStep ==
  ASSUME LedgerAssumption, LedgerInv, NEW s \in Keepers, SortRows(s) PROVE LedgerInv'
<1>1. /\ MoveOn(s, "sorting", "pair")
      /\ noted' = noted \ keeper[s].plan
      /\ UNCHANGED <<connected, live, imported, attached, marked, matched, disturbed>>
  BY DEF SortRows, Planned
<1>2. keeper[s].pc = "sorting" /\ ~Idle(s)
  BY <1>1, MoveOnIs DEF KeeperPlaces
<1>3. PICK k \in KeeperRows : /\ keeper' = [keeper EXCEPT ![s] = k]
                              /\ k.pc = "pair" /\ k.alone = keeper[s].alone
  BY <1>1, MoveOnIs DEF KeeperPlaces
<1>4. Known' /\ Growing
  BY <1>1, KnownIs, KnownStays
<1>5. keeper[s].alone => attached' = imported' \/ Untouched'
  BY <1>1, <1>2, KeeperIs DEF Untouched, AloneFine
<1>6. KeeperFine(k)' /\ (k.alone => AloneFine(k)')
  BY <1>3, <1>5 DEF KeeperFine, AloneFine
<1> QED BY <1>2, <1>3, <1>4, <1>6, KeeperMoves

LEMMA MarkStep ==
  ASSUME LedgerAssumption, LedgerInv, NEW s \in Keepers, MarkPairs(s) PROVE LedgerInv'
<1>1. /\ MoveOn(s, "pairing", "spread")
      /\ marked' = marked \cup {r \in Rows : <<r, "mark">> \in keeper[s].plan}
      /\ noted' = noted \cup {r \in Rows : <<r, "note">> \in keeper[s].plan}
      /\ UNCHANGED <<connected, live, imported, attached, matched, disturbed>>
  BY DEF MarkPairs, Planned
<1>2. keeper[s].pc = "pairing" /\ ~Idle(s)
  BY <1>1, MoveOnIs DEF KeeperPlaces
<1>3. PICK k \in KeeperRows : /\ keeper' = [keeper EXCEPT ![s] = k]
                              /\ k.pc = "spread" /\ k.alone = keeper[s].alone
  BY <1>1, MoveOnIs DEF KeeperPlaces
<1>4. marked' \subseteq Paired /\ noted' \subseteq Paired
  <2>1. \A r \in Rows : {<<r, "mark">>, <<r, "note">>} \cap keeper[s].plan # {} => r \in Paired
    BY <1>2, KeeperIs DEF KeeperFine
  <2> QED BY <1>1, <2>1, KnownIs
<1>5. Known' /\ Growing
  BY <1>1, <1>4, KnownIs, KnownStays
<1>6. /\ Paired' = Paired /\ \A r : Clear(r)' <=> Clear(r)
  BY <1>1, SamePairs
<1>7. keeper[s].alone => /\ attached' = imported' \/ Untouched'
                         /\ \A r \in Rows : Clear(r) /\ r \in Paired => r \in noted'
  BY <1>1, <1>2, KeeperIs DEF Untouched, AloneFine
<1>8. KeeperFine(k)' /\ (k.alone => AloneFine(k)')
  BY <1>3, <1>6, <1>7 DEF KeeperFine, AloneFine
<1> QED BY <1>2, <1>3, <1>5, <1>8, KeeperMoves

LEMMA SpreadStep ==
  ASSUME LedgerAssumption, LedgerInv, NEW s \in Keepers, SpreadInternal(s) PROVE LedgerInv'
<1>1. /\ MoveOn(s, "spreading", "match")
      /\ live' = [m \in Movements |-> IF m \in keeper[s].plan THEN "internal" ELSE live[m]]
      /\ UNCHANGED <<connected, imported, attached, noted, marked, matched, disturbed>>
  BY DEF SpreadInternal, Planned, rowVars
<1>2. keeper[s].pc = "spreading" /\ ~Idle(s)
  BY <1>1, MoveOnIs DEF KeeperPlaces
<1>3. PICK k \in KeeperRows : /\ keeper' = [keeper EXCEPT ![s] = k]
                              /\ k.pc = "match" /\ k.alone = keeper[s].alone
  BY <1>1, MoveOnIs DEF KeeperPlaces
<1>4. \A m \in Movements : \/ live'[m] = live[m] /\ m \notin keeper[s].plan
                           \/ live'[m] = "internal" /\ live[m] # "none" /\ LikePaired(m)
  BY <1>1, <1>2, KeeperIs DEF KeeperFine
<1>5. live' \in [Movements -> LiveRows]
  BY <1>1, <1>4, KnownIs DEF LiveRows
<1>6. Known' /\ Growing
  BY <1>1, <1>4, <1>5, KnownIs, KnownStays
<1>7. Paired' = Paired /\ \A r : Clear(r)' <=> Clear(r)
  BY <1>1, SamePairs
<1>8. ASSUME keeper[s].alone
      PROVE  /\ attached' = imported' \/ Untouched'
             /\ \A r \in Rows : Clear(r) =>
                  /\ r \in Paired => r \in noted'
                  /\ r \in noted' /\ <<r, MovementOf[r]>> \in matched' => live'[MovementOf[r]] # "plain"
  <2>1. AloneFine(keeper[s])
    BY <1>2, <1>8, KeeperIs
  <2>2. attached' = imported' \/ Untouched'
    <3>1. Untouched => Untouched'
      BY <1>4 DEF Untouched
    <3> QED BY <1>1, <1>2, <2>1, <3>1 DEF AloneFine
  <2>3. \A r \in Rows : MovementOf[r] \in Movements
    BY DEF LedgerAssumption
  <2> QED BY <1>1, <1>2, <1>4, <2>1, <2>2, <2>3 DEF AloneFine
<1>9. KeeperFine(k)' /\ (k.alone => AloneFine(k)')
  BY <1>3, <1>7, <1>8 DEF KeeperFine, AloneFine
<1> QED BY <1>2, <1>3, <1>6, <1>9, KeeperMoves

LEMMA MatchRowStep ==
  ASSUME LedgerAssumption, LedgerInv, NEW s \in Keepers, MatchRow(s) PROVE LedgerInv'
<1> DEFINE plan == keeper[s].plan
           now == {m \in Movements :
                     \E q \in Rows, w \in {"plain", "internal"} : <<q, m, w>> \in plan}
           free == {m \in Movements \ now : live[m] # "none" /\ ~Taken(m)}
<1>1. /\ keeper[s].pc = "matching" /\ ~Idle(s) /\ KeeperFine(keeper[s])
      /\ keeper[s].alone => AloneFine(keeper[s])
      /\ UNCHANGED <<connected, live, imported, attached, noted, marked, matched, disturbed>>
  BY KeeperIs DEF MatchRow, Idle, rowVars
<1>2. PICK r \in Rows, as \in {"plain", "internal"} :
        /\ <<r, as>> \in plan
        /\ \/ BestOf(r, free) = {} /\ Proceed(s, "matching", plan \ {<<r, as>>})
           \/ \E m \in BestOf(r, free) :
                Proceed(s, "matching",
                  (plan \ {<<r, as>>}) \cup {<<r, m, IF live[m] = "plain" THEN as ELSE "plain">>})
  BY DEF MatchRow, Planned
<1>3. /\ plan \in SUBSET Entries /\ Listed \subseteq Rows
      /\ r \in Listed /\ (as = "internal" => r \in Paired)
  BY <1>1, <1>2, RowsAre, KeeperIs DEF KeeperFine, KeeperRows
<1>4. /\ free \subseteq Movements
      /\ \A m \in free : live[m] # "none"
  OBVIOUS
\* The record of a clear row is still free for it when it is due.
<1>5. ASSUME NEW q \in Rows, Clear(q), Due(q),
             {<<q, MovementOf[q], "plain">>, <<q, MovementOf[q], "internal">>} \cap plan = {}
      PROVE  MovementOf[q] \in free
  <2>1. MovementOf[q] \in Movements /\ live[MovementOf[q]] # "none"
    BY <1>5 DEF Due, LedgerAssumption
  <2>2. ~Taken(MovementOf[q])
    <3>1. ASSUME NEW o \in Rows, <<o, MovementOf[q]>> \in matched PROVE FALSE
      <4>1. o \in Listed /\ Likeness[o][MovementOf[q]] >= 2
        BY <2>1, <3>1, KnownIs
      <4>2. o = q
        BY <1>3, <1>5, <4>1, ClearIs
      <4> QED BY <1>5, <2>1, <3>1, <4>2 DEF Due, Records
    <3> QED BY <3>1 DEF Taken, Records
  <2>3. MovementOf[q] \notin now
    <3>1. ASSUME NEW o \in Rows, NEW w \in {"plain", "internal"}, <<o, MovementOf[q], w>> \in plan
          PROVE  FALSE
      <4>1. o \in Listed /\ Likeness[o][MovementOf[q]] >= 2
        BY <1>1, <2>1, <3>1 DEF KeeperFine
      <4>2. o = q
        BY <1>3, <1>5, <4>1, ClearIs
      <4> QED BY <1>5, <3>1, <4>2
    <3> QED BY <3>1
  <2> QED BY <2>1, <2>2, <2>3
<1>6. ASSUME NEW q \in Rows, Clear(q), NEW t
      PROVE  <<q, t>> \in plan => q # r \/ t # as \/ <<q, t>> = <<r, as>>
  OBVIOUS
<1> HIDE DEF now, free
<1>7. CASE BestOf(r, free) = {} /\ Proceed(s, "matching", plan \ {<<r, as>>})
  <2>1. PICK left \in SUBSET Entries : left = plan \ {<<r, as>>}
    BY <1>3
  <2>2. /\ \A q, m, w : <<q, m, w>> \in left <=> <<q, m, w>> \in plan
        /\ \A q, t : <<q, t>> \in left <=> <<q, t>> \in plan /\ ~(q = r /\ t = as)
    BY <2>1, Shapes
  <2>3. KeeperFine([pc |-> "matching", plan |-> left, alone |-> TRUE])
    BY <1>1, <2>2 DEF KeeperFine
  <2>4. ASSUME keeper[s].alone
        PROVE  AloneFine([pc |-> "matching", plan |-> left, alone |-> TRUE])
    <3>1. AloneFine(keeper[s])
      BY <1>1, <2>4
    <3>2. ASSUME NEW q \in Rows, Clear(q), Due(q)
          PROVE  \/ {<<q, "plain">>, <<q, "internal">>} \cap left # {}
                 \/ {<<q, MovementOf[q], "plain">>, <<q, MovementOf[q], "internal">>} \cap left # {}
      <4>1. CASE {<<q, MovementOf[q], "plain">>, <<q, MovementOf[q], "internal">>} \cap plan # {}
        BY <2>2, <4>1
      <4>2. CASE {<<q, MovementOf[q], "plain">>, <<q, MovementOf[q], "internal">>} \cap plan = {}
        <5>1. MovementOf[q] \in free
          BY <1>5, <3>2, <4>2
        <5>2. BestOf(q, free) = {MovementOf[q]}
          BY <1>3, <1>4, <3>2, <5>1, ClearIs
        <5>3. q # r
          BY <1>7, <5>2
        <5>4. {<<q, "plain">>, <<q, "internal">>} \cap plan # {}
          BY <1>1, <3>1, <3>2, <4>2 DEF AloneFine
        <5> QED BY <2>2, <5>3, <5>4
      <4> QED BY <4>1, <4>2
    <3> QED BY <1>1, <2>2, <3>1, <3>2 DEF AloneFine
  <2> QED BY <1>1, <1>7, <2>1, <2>3, <2>4, ReadsOn DEF KeeperPlaces
<1>8. ASSUME NEW m \in BestOf(r, free),
             Proceed(s, "matching",
               (plan \ {<<r, as>>}) \cup {<<r, m, IF live[m] = "plain" THEN as ELSE "plain">>})
      PROVE  LedgerInv'
  <2>1. m \in free /\ m \in Movements /\ live[m] # "none" /\ Likeness[r][m] >= 2
    BY <1>4, BestIs
  <2>2. PICK w0 \in {"plain", "internal"} : w0 = IF live[m] = "plain" THEN as ELSE "plain"
    OBVIOUS
  <2>3. PICK left \in SUBSET Entries : left = (plan \ {<<r, as>>}) \cup {<<r, m, w0>>}
    <3>1. <<r, m, w0>> \in Rows \X Movements \X {"plain", "internal"}
      BY <2>1
    <3>2. <<r, m, w0>> \in Entries
      BY <3>1 DEF Entries
    <3> QED BY <1>3, <3>2
  <2>4. /\ \A q, o, w : <<q, o, w>> \in left <=>
                          <<q, o, w>> \in plan \/ (q = r /\ o = m /\ w = w0)
        /\ \A q, t : <<q, t>> \in left <=> <<q, t>> \in plan /\ ~(q = r /\ t = as)
    BY <2>3, Shapes
  <2>5. KeeperFine([pc |-> "matching", plan |-> left, alone |-> TRUE])
    <3>1. w0 = "internal" => r \in Paired
      BY <1>3, <2>2
    <3>2. ASSUME NEW q \in Rows, NEW o \in Movements, NEW w \in {"plain", "internal"},
                 <<q, o, w>> \in left
          PROVE  q \in Listed /\ live[o] # "none" /\ Likeness[q][o] >= 2
                   /\ (w = "internal" => q \in Paired)
      <4>1. CASE <<q, o, w>> \in plan
        BY <1>1, <4>1 DEF KeeperFine
      <4>2. CASE q = r /\ o = m /\ w = w0
        BY <1>3, <2>1, <3>1, <4>2
      <4> QED BY <2>4, <3>2, <4>1, <4>2
    <3>3. \A q \in Rows : /\ {<<q, "plain">>, <<q, "internal">>} \cap left # {} => q \in Listed
                          /\ <<q, "internal">> \in left => q \in Paired
      BY <1>1, <2>4 DEF KeeperFine
    <3> QED BY <3>2, <3>3 DEF KeeperFine
  <2>6. ASSUME keeper[s].alone
        PROVE  AloneFine([pc |-> "matching", plan |-> left, alone |-> TRUE])
    <3>1. AloneFine(keeper[s])
      BY <1>1, <2>6
    <3>2. ASSUME NEW q \in Rows, Clear(q), Due(q)
          PROVE  \/ {<<q, "plain">>, <<q, "internal">>} \cap left # {}
                 \/ {<<q, MovementOf[q], "plain">>, <<q, MovementOf[q], "internal">>} \cap left # {}
      <4>1. CASE {<<q, MovementOf[q], "plain">>, <<q, MovementOf[q], "internal">>} \cap plan # {}
        BY <2>4, <4>1
      <4>2. CASE {<<q, MovementOf[q], "plain">>, <<q, MovementOf[q], "internal">>} \cap plan = {} /\ q = r
        <5>1. BestOf(q, free) = {MovementOf[q]}
          BY <1>3, <1>4, <1>5, <3>2, <4>2, ClearIs
        <5>2. m = MovementOf[q]
          BY <4>2, <5>1
        <5> QED BY <2>2, <2>4, <4>2, <5>2
      <4>3. CASE {<<q, MovementOf[q], "plain">>, <<q, MovementOf[q], "internal">>} \cap plan = {} /\ q # r
        <5>1. {<<q, "plain">>, <<q, "internal">>} \cap plan # {}
          BY <1>1, <3>1, <3>2, <4>3 DEF AloneFine
        <5> QED BY <2>4, <4>3, <5>1
      <4> QED BY <4>1, <4>2, <4>3
    <3>3. ASSUME NEW q \in Rows, Clear(q), q \in noted
          PROVE  /\ <<q, "plain">> \notin left
                 /\ <<q, MovementOf[q], "plain">> \in left => live[MovementOf[q]] # "plain"
      <4>1. /\ <<q, "plain">> \notin plan
            /\ <<q, MovementOf[q], "plain">> \in plan => live[MovementOf[q]] # "plain"
        BY <1>1, <3>1, <3>3 DEF AloneFine
      <4> QED BY <1>2, <2>2, <2>4, <4>1
    <3> QED BY <1>1, <2>4, <3>1, <3>2, <3>3 DEF AloneFine
  <2> QED BY <1>1, <1>8, <2>2, <2>3, <2>5, <2>6, ReadsOn DEF KeeperPlaces
<1> QED BY <1>2, <1>7, <1>8

LEMMA MatchStep ==
  ASSUME LedgerAssumption, LedgerInv, NEW s \in Keepers, StoreMatches(s) PROVE LedgerInv'
<1> DEFINE plan == keeper[s].plan
           found == {p \in Rows \X Movements :
                       \E as \in {"plain", "internal"} : <<p[1], p[2], as>> \in plan}
           internal == {m \in Movements : \E r \in Rows : <<r, m, "internal">> \in plan}
<1>1. /\ keeper[s].pc = "matching" /\ ~Idle(s) /\ KeeperFine(keeper[s])
      /\ keeper[s].alone => AloneFine(keeper[s])
      /\ \A r \in Rows : {<<r, "plain">>, <<r, "internal">>} \cap plan = {}
      /\ UNCHANGED <<connected, imported, attached, noted, marked>>
  BY KeeperIs DEF StoreMatches, Planned, Idle
<1>2. CASE BreakOff(s) /\ UNCHANGED <<live, matched>>
  BY <1>1, <1>2, BreakOffStep
<1>3. CASE /\ matched' = {q \in matched : \A p \in found : p[1] # q[1]} \cup found
           /\ live' = [m \in Movements |-> IF m \in internal THEN "internal" ELSE live[m]]
           /\ keeper' = [keeper EXCEPT ![s] = Unoccupied] /\ disturbed' = ~keeper[s].alone
  <2>1. PICK k \in KeeperRows : k = Unoccupied
    BY UnoccupiedIs
  <2>2. keeper' = [keeper EXCEPT ![s] = k] /\ k.pc = "idle"
    BY <1>3, <2>1, UnoccupiedIs
  <2>3. \A r \in Rows : \A m \in Movements :
          /\ <<r, m>> \in found <=> {<<r, m, "plain">>, <<r, m, "internal">>} \cap plan # {}
          /\ <<r, m>> \in found => r \in Listed /\ live[m] # "none" /\ Likeness[r][m] >= 2
    BY <1>1 DEF KeeperFine
  <2>4. \A m \in internal : live[m] # "none" /\ LikePaired(m)
    BY <1>1 DEF KeeperFine, LikePaired
  <2>5. found \subseteq Rows \X Movements /\ internal \subseteq Movements
    OBVIOUS
  <2>6. \A r \in Rows : \A m \in Movements : <<r, m, "internal">> \in plan => m \in internal
    OBVIOUS
  <2> HIDE DEF found, internal
  <2>7. \A m \in Movements : \/ live'[m] = live[m] /\ m \notin internal
                             \/ live'[m] = "internal" /\ live[m] # "none" /\ LikePaired(m)
    BY <1>3, <2>4
  <2>8. live' \in [Movements -> LiveRows]
    BY <1>3, <2>7, KnownIs DEF LiveRows
  <2>9. disturbed' \in BOOLEAN
    BY <1>3, Zenon
  <2>10. /\ found \subseteq Listed \X Movements
         /\ \A r \in Rows : \A m \in Movements :
              <<r, m>> \in matched' => <<r, m>> \in matched \/ <<r, m>> \in found
    BY <1>3, <2>3, <2>5
  <2>11. Known' /\ Growing
    <3>1. matched' \subseteq Listed \X Movements
      BY <1>3, <2>10, KnownIs
    <3>2. \A r \in Rows : \A m \in Movements :
            <<r, m>> \in matched' => <<r, m>> \in matched \/ (live[m] # "none" /\ Likeness[r][m] >= 2)
      BY <2>3, <2>10
    <3> QED BY <1>1, <2>7, <2>8, <2>9, <3>1, <3>2, KnownIs, KnownStays
  <2>12. KeeperFine(k)'
    BY <2>2 DEF KeeperFine
  <2>13. ASSUME keeper[s].alone PROVE Right'
    <3>1. AloneFine(keeper[s]) /\ \A r : Clear(r)' <=> Clear(r)
      BY <1>1, <2>13, SamePairs
    <3>2. ASSUME NEW r \in Rows, Clear(r), live'[MovementOf[r]] # "none" PROVE <<r, MovementOf[r]>> \in matched'
      <4>1. MovementOf[r] \in Movements /\ live[MovementOf[r]] # "none" /\ r \in Listed
        BY <2>7, <3>2 DEF LedgerAssumption, Clear
      <4>2. \A m \in Movements : <<r, m>> \in found \/ <<r, m>> \in matched => m = MovementOf[r]
        BY <2>3, <3>2, ClearIs, KnownIs, RowsAre
      <4>3. CASE <<r, MovementOf[r]>> \in found
        BY <1>3, <4>3
      <4>4. CASE <<r, MovementOf[r]>> \notin found
        <5>1. \A p \in found : p[1] # r
          BY <2>5, <4>2, <4>4
        <5>2. ~Due(r)
          BY <1>1, <2>3, <3>1, <3>2, <4>1, <4>4 DEF AloneFine
        <5>3. PICK m \in Movements : <<r, m>> \in matched
          BY <4>1, <5>2 DEF Due, Records
        <5> QED BY <1>3, <4>2, <5>1, <5>3
      <4> QED BY <4>3, <4>4
    <3>3. ASSUME NEW r \in Rows, Clear(r), r \in noted, <<r, MovementOf[r]>> \in matched'
          PROVE  live'[MovementOf[r]] # "plain"
      <4>1. MovementOf[r] \in Movements
        BY DEF LedgerAssumption
      <4>2. /\ <<r, MovementOf[r]>> \in matched => live[MovementOf[r]] # "plain"
            /\ <<r, MovementOf[r], "plain">> \in plan => live[MovementOf[r]] # "plain"
        BY <1>1, <3>1, <3>3 DEF AloneFine
      <4>3. \/ <<r, MovementOf[r]>> \in matched \/ <<r, MovementOf[r], "plain">> \in plan
            \/ <<r, MovementOf[r], "internal">> \in plan
        BY <2>3, <2>10, <3>3, <4>1
      <4> QED BY <2>6, <2>7, <4>1, <4>2, <4>3
    <3>4. \A r \in Rows : Clear(r) /\ r \in Paired => r \in noted
      BY <1>1, <3>1 DEF AloneFine
    <3>5. Paired' = Paired
      BY <1>1, SamePairs
    <3> QED BY <1>1, <3>1, <3>2, <3>3, <3>4, <3>5 DEF Right
  <2>14. disturbed' \/ (keeper[s].alone /\ Right')
    BY <1>3, <2>13
  <2> QED BY <1>1, <2>2, <2>11, <2>12, <2>14, KeeperMoves
<1> QED BY <1>2, <1>3 DEF StoreMatches, Planned

LEMMA LedgerNextInv == ASSUME LedgerAssumption, LedgerInv, [LedgerNext]_ledgerVars PROVE LedgerInv'
<1>1. CASE UNCHANGED ledgerVars
  <2>1. UNCHANGED <<connected, live, imported, attached, noted, marked, matched, keeper, disturbed>>
    BY <1>1 DEF ledgerVars
  <2>2. ASSUME NEW t \in Keepers
        PROVE  (KeeperFine(keeper[t])' <=> KeeperFine(keeper[t]))
               /\ (AloneFine(keeper[t])' <=> AloneFine(keeper[t]))
    BY <2>1, ReadsSame DEF KeeperFine, AloneFine
  <2>3. Known' /\ (Right' <=> Right)
    BY <2>1, NothingWritten, ReadsSame
  <2> QED BY <2>1, <2>2, <2>3 DEF LedgerInv, OnlyOne, Idle, Working
<1>2. CASE ConnectBank
  BY <1>2, ConnectStep
<1>3. ASSUME NEW s \in Keepers,
             \/ ImportStatement(s) \/ MergeStatement(s) \/ EnrichRows(s)
             \/ FetchTransactions(s) \/ StoreTransactions(s)
             \/ ReadTransactions(s) \/ ResortTransactions(s)
             \/ AttachStatements(s) \/ ReadRows(s) \/ SortRows(s)
             \/ FindPairs(s) \/ MarkPairs(s) \/ ReadMatches(s) \/ SpreadInternal(s)
             \/ MatchRows(s) \/ MatchRow(s) \/ StoreMatches(s) \/ PassFails(s)
      PROVE  LedgerInv'
  <2>1. CASE PassFails(s)
    BY <2>1, BreakOffStep DEF PassFails, Idle, rowVars
  <2> QED BY <1>3, <2>1, ImportStep, MergeStep, EnrichStep, FetchStep, StoreStep, ReadLiveStep,
             ResortStep, AttachStep, SortStep, MarkStep, SpreadStep, MatchRowStep,
             MatchStep
<1> QED BY <1>1, <1>2, <1>3 DEF LedgerNext

LEMMA LedgerAlways == ASSUME LedgerAssumption PROVE LedgerSpec => []LedgerInv
<1>1. LedgerInit => LedgerInv
  BY LedgerInitInv
<1>2. LedgerInv /\ [LedgerNext]_ledgerVars => LedgerInv'
  BY LedgerNextInv
<1> QED BY <1>1, <1>2, PTL DEF LedgerSpec

\* What is told apart is not internal by another's row, nor matched with another's record.
LEMMA ApartIs ==
  ASSUME LedgerAssumption, LedgerInv, NEW m \in Movements, ToldApart(m)
  PROVE  /\ \A r \in Rows : \A o \in Movements :
              Likeness[r][o] >= 2 => (MovementOf[r] = m <=> o = m)
         /\ live[m] = "internal" => IsPaired(m)
         /\ \A r \in Showing(m) : Records(r) # {} => live[m] # "none"
<1>1. ASSUME NEW r \in Rows, NEW o \in Movements, Likeness[r][o] >= 2
      PROVE  MovementOf[r] = m <=> o = m
  BY <1>1, OfIs DEF ToldApart
<1>2. ASSUME live[m] = "internal" PROVE IsPaired(m)
  <2>1. PICK r \in Paired : Likeness[r][m] >= 2
    BY <1>2, KnownIs DEF LikePaired
  <2>2. r \in Listed /\ MovementOf[r] = m
    BY <1>1, <2>1, RowsAre
  <2>3. r \in Showing(m)
    BY <2>2 DEF Showing
  <2> QED BY <2>1, <2>3 DEF IsPaired, Paired
<1>3. ASSUME NEW r \in Showing(m), Records(r) # {} PROVE live[m] # "none"
  <2>1. r \in Rows /\ MovementOf[r] = m
    BY RowsAre DEF Showing
  <2>2. PICK o \in Movements : <<r, o>> \in matched
    BY <1>3 DEF Records
  <2>3. live[o] # "none" /\ Likeness[r][o] >= 2
    BY <2>1, <2>2, KnownIs
  <2>4. o = m
    BY <1>1, <2>1, <2>3
  <2> QED BY <2>3, <2>4
<1> QED BY <1>1, <1>2, <1>3

LEMMA NeverLost ==
  ASSUME LedgerAssumption, LedgerInv, NEW m \in Movements,
         IsKnown(m), ToldApart(m), ~IsPaired(m)
  PROVE  Evidence(m) >= 1
<1> DEFINE rows == {r \in Showing(m) : r \notin noted /\ Records(r) = {}}
<1>1. IsFiniteSet(rows) /\ Cardinality(rows) \in Nat
  <2>1. rows \subseteq Rows
    BY RowsAre DEF Showing
  <2>2. IsFiniteSet(rows)
    BY <2>1, FS_Subset DEF LedgerAssumption
  <2> QED BY <2>2, FS_CardinalityType
<1>2. Evidence(m) = Cardinality(rows) + (IF live[m] = "plain" THEN 1 ELSE 0)
  BY DEF Evidence
<1>3. CASE live[m] = "plain"
  <2> HIDE DEF rows
  <2> QED BY <1>1, <1>2, <1>3
<1>4. CASE live[m] # "plain"
  <2>1. live[m] = "none"
    BY <1>4, ApartIs, KnownIs DEF LiveRows
  <2>2. PICK r \in Showing(m) : TRUE
    BY <2>1 DEF IsKnown
  <2>3. Records(r) = {}
    BY <2>1, ApartIs
  <2>4. r \notin noted
    BY KnownIs DEF IsPaired, Paired
  <2>5. rows # {}
    BY <2>3, <2>4
  <2>6. Cardinality(rows) # 0
    BY <1>1, <2>5, FS_EmptySet
  <2> HIDE DEF rows
  <2> QED BY <1>1, <1>2, <1>4, <2>6
<1> QED BY <1>3, <1>4

LEMMA RightCounts ==
  ASSUME LedgerAssumption, LedgerInv, Right, NEW m \in Movements, IsKnown(m), IsClear(m)
  PROVE  Evidence(m) = IF IsPaired(m) THEN 0 ELSE 1
<1> DEFINE rows == {r \in Showing(m) : r \notin noted /\ Records(r) = {}}
<1>1. Evidence(m) = Cardinality(rows) + (IF live[m] = "plain" THEN 1 ELSE 0)
  BY DEF Evidence
<1>2. /\ ToldApart(m) /\ live[m] \in {"none", "plain", "internal"}
      /\ live[m] = "internal" => IsPaired(m)
  BY ApartIs, KnownIs DEF IsClear, LiveRows
<1>3. CASE Showing(m) = {}
  <2>1. rows = {} /\ ~IsPaired(m)
    BY <1>3 DEF IsPaired
  <2>2. Cardinality(rows) = 0
    BY <2>1, FS_EmptySet
  <2> HIDE DEF rows
  <2> QED BY <1>1, <1>2, <1>3, <2>1, <2>2 DEF IsKnown
<1>4. ASSUME NEW r \in Showing(m) PROVE Evidence(m) = IF IsPaired(m) THEN 0 ELSE 1
  <2>1. r \in Rows /\ r \in Listed /\ MovementOf[r] = m /\ Clear(r)
    BY RowsAre DEF Showing, Clear
  <2>2. Showing(m) = {r}
    BY DEF IsClear
  <2>3. IsPaired(m) <=> r \in Paired
    BY <2>2 DEF IsPaired, Paired
  <2>4. r \in noted <=> r \in Paired
    BY <2>1, KnownIs DEF Right
  <2>5. /\ live[m] # "none" => <<r, m>> \in matched
        /\ r \in noted /\ <<r, m>> \in matched => live[m] # "plain"
    BY <2>1 DEF Right
  <2>6. Records(r) # {} <=> live[m] # "none"
    <3>1. Records(r) # {} => live[m] # "none"
      BY <1>2, ApartIs
    <3>2. live[m] # "none" => m \in Records(r)
      BY <2>5 DEF Records
    <3> QED BY <3>1, <3>2
  <2>7. Cardinality(rows) = IF r \notin noted /\ live[m] = "none" THEN 1 ELSE 0
    <3>1. CASE r \notin noted /\ live[m] = "none"
      <4>1. rows = {r}
        BY <2>2, <2>6, <3>1
      <4> QED BY <3>1, <4>1, FS_Singleton
    <3>2. CASE ~(r \notin noted /\ live[m] = "none")
      <4>1. rows = {}
        BY <2>2, <2>6, <3>2
      <4> QED BY <3>2, <4>1, FS_EmptySet
    <3> QED BY <3>1, <3>2
  <2> HIDE DEF rows
  <2> QED BY <1>1, <1>2, <2>3, <2>4, <2>5, <2>7
<1> QED BY <1>3, <1>4

\* Records, rows and the sessions' stages keep their types, and what is attached,
\* noted, marked or matched is of an imported statement.
THEOREM LedgerTypes == ASSUME LedgerAssumption PROVE LedgerSpec => []LedgerTypeOK
<1>1. LedgerInv => LedgerTypeOK
  <2> SUFFICES ASSUME LedgerInv PROVE LedgerTypeOK
    OBVIOUS
  <2>1. {connected, disturbed} \subseteq BOOLEAN
    BY KnownIs
  <2>2. \A s \in Keepers : keeper[s].pc \in KeeperPlaces /\ keeper[s].alone \in BOOLEAN
    BY DEF LedgerInv, KeeperRows
  <2>3. Paired \subseteq Listed
    BY PairsAre
  <2> QED BY <2>1, <2>2, <2>3, KnownIs DEF LedgerTypeOK
<1> QED BY <1>1, LedgerAlways, PTL

\* A movement whose rows are not taken for others and that is not between own accounts is
\* never left out; and when the last pass ran alone, one whose row is clear counts once,
\* or not at all when both sides are there: for any movements, statements, likenesses and
\* sessions, whatever passes crossed or broke off before. It rests on what no crossing can
\* undo: a row is matched only with a record like it, and only what is like a side of a
\* pair is ever called internal.
THEOREM ClearMoneyIsCountedOnce == ASSUME LedgerAssumption PROVE LedgerSpec => []ClearMoneyCountsOnce
<1>1. LedgerInv => ClearMoneyCountsOnce
  <2> SUFFICES ASSUME LedgerInv PROVE ClearMoneyCountsOnce
    OBVIOUS
  <2>1. \A m \in Movements : IsKnown(m) /\ ToldApart(m) /\ ~IsPaired(m) => Evidence(m) >= 1
    BY NeverLost
  <2>2. (~disturbed /\ Working = {}) =>
          \A m \in Movements : IsKnown(m) /\ IsClear(m) =>
            Evidence(m) = IF IsPaired(m) THEN 0 ELSE 1
    BY RightCounts DEF LedgerInv
  <2> QED BY <2>1, <2>2 DEF ClearMoneyCountsOnce
<1> QED BY <1>1, LedgerAlways, PTL

=============================================================================
