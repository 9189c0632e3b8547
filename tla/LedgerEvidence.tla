---------------------------- MODULE LedgerEvidence ----------------------------
(***************************************************************************)
(* The evidence that budgets and forecasts are learned from: transactions  *)
(* synchronised from the bank, and rows of uploaded statements             *)
(* (bank_statement_import.py). A pass of statement reconciliation, which   *)
(* follows every upload and every synchronisation, matches the two, so     *)
(* that a movement of money counts once, and finds the movements between   *)
(* own accounts, which do not count. Uploads, the engine's job and the     *)
(* owner's routes run such passes at once; every stage of one is a commit. *)
(*                                                                         *)
(* Simplifications                                                         *)
(*  - The bank gives every movement an id, which it keeps.                 *)
(*  - A movement between own accounts shows neither an own IBAN nor a      *)
(*    known name: only the other account's statement can tell.             *)
(*  - The two formats of a Revolut statement agree.                        *)
(***************************************************************************)
EXTENDS Naturals, FiniteSets

CONSTANTS
  Movements,   \* movements on the accounts, each seen from one account
  Statements,  \* statements, each its rows; two exports may list one movement
  MovementOf,  \* the movement that a row shows
  Likeness,    \* what the bank's record of a movement is to a row: 0 not of its account,
               \* days, direction and amount; else by its _match_score, 1 below 0.55,
               \* 2 below 0.64, 3 above
  Twins,       \* two rows that are read as the sides of a movement between own accounts
  Keepers      \* sessions

Rows == UNION Statements

LedgerAssumption ==
  /\ IsFiniteSet(Rows)
  /\ \A st, other \in Statements : st = other \/ st \cap other = {}
  /\ MovementOf \in [Rows -> Movements]
  /\ Likeness \in [Rows -> [Movements -> 0..3]]
  /\ \A t \in Twins : /\ t \subseteq Rows /\ Cardinality(t) = 2
                    /\ \A st \in Statements : ~(t \subseteq st)

VARIABLES
  connected,  \* the bank shows the accounts
  live,       \* bank_transactions: is_internal_transfer of each
  imported,   \* bank_statement_imports
  attached,   \* those with their matched_bank_account_id
  noted,      \* historical rows that are is_internal_transfer
  marked,     \* historical rows with cross_statement_internal in their raw_json
  matched,    \* historical rows with their matched_bank_transaction_id, a unique one
  keeper,     \* what each session is about to do, and what it read for it
  disturbed   \* history: a pass broke off or met another since the last that ran alone

rowVars == <<imported, attached, noted, marked, matched>>
ledgerVars == <<connected, live, imported, attached, noted, marked, matched, keeper,
                disturbed>>

Listed == UNION imported
Records(r) == {m \in Movements : <<r, m>> \in matched}
Taken(m) == \E r \in Rows : m \in Records(r)
LiveRows == {"none", "plain", "internal"}
KeeperPlaces == {"idle", "merging", "fetching", "resort", "resorting", "attach", "sort",
                 "sorting", "pair", "pairing", "spread", "spreading", "match",
                 "matching"}

\* alone: no other session was at work since this one started.
Unoccupied == [pc |-> "idle", plan |-> {}, alone |-> TRUE]

LedgerInit ==
  /\ connected = FALSE /\ live = [m \in Movements |-> "none"]
  /\ imported = {} /\ attached = {} /\ noted = {} /\ marked = {} /\ matched = {}
  /\ keeper = [s \in Keepers |-> Unoccupied] /\ disturbed = FALSE

Idle(s) == keeper[s].pc = "idle"
Working == {s \in Keepers : ~Idle(s)}
Proceed(s, pc, plan) == keeper' = [keeper EXCEPT ![s].pc = pc, ![s].plan = plan]
MoveOn(s, from, to) == keeper[s].pc = from /\ Proceed(s, to, {})
Start(s, pc, plan) ==
  /\ Idle(s)
  /\ keeper' = [o \in Keepers |->
       IF o = s THEN [pc |-> pc, plan |-> plan, alone |-> Working = {}]
       ELSE [keeper[o] EXCEPT !.alone = @ /\ Idle(o)]]
Planned(s) == keeper[s].plan
BreakOff(s) == keeper' = [keeper EXCEPT ![s] = Unoccupied] /\ disturbed' = TRUE

-----------------------------------------------------------------------------
\* complete_bank_connection
ConnectBank ==
  /\ ~connected /\ connected' = TRUE
  /\ UNCHANGED <<live, rowVars, keeper, disturbed>>

\* A new statement; its key lets one session commit it.
ImportStatement(s) ==
  /\ \E st \in Statements \ imported :
       /\ imported' = imported \cup {st}
       /\ attached' = IF connected THEN attached \cup {st} ELSE attached
  /\ Start(s, "attach", {})
  /\ UNCHANGED <<connected, live, noted, marked, matched, disturbed>>

\* The other format of an imported one: raw_json is read and written as a whole.
MergeStatement(s) ==
  /\ \E st \in imported :
       Start(s, "merging", {<<r, IF r \in marked THEN "mark" ELSE "no mark">> : r \in st})
  /\ UNCHANGED <<connected, live, rowVars, disturbed>>

EnrichRows(s) ==
  LET as(was) == {r \in Listed : <<r, was>> \in Planned(s)}
      all == as("mark") \cup as("no mark") IN
  /\ MoveOn(s, "merging", "attach")
  /\ marked' = (marked \ all) \cup as("mark")
  /\ attached' = attached \cup
       {st \in imported : connected /\ st \cap all # {}}
  /\ UNCHANGED <<connected, live, imported, noted, matched, disturbed>>

-----------------------------------------------------------------------------
\* sync_bank_transactions: what the bank lists, with the rows that the session finds.
FetchTransactions(s) ==
  /\ connected
  /\ \E window \in SUBSET Movements :
       Start(s, "fetching", {<<m, live[m]>> : m \in window})
  /\ UNCHANGED <<connected, live, rowVars, disturbed>>

\* The unique key refuses what another session has inserted.
StoreTransactions(s) ==
  /\ keeper[s].pc = "fetching"
  /\ IF \E m \in Movements : <<m, "none">> \in Planned(s) /\ live[m] # "none"
       THEN BreakOff(s) /\ UNCHANGED live
       ELSE /\ Proceed(s, "resort", {}) /\ UNCHANGED disturbed
            /\ live' = [m \in Movements |->
                 IF Planned(s) \cap {<<m, "none">>, <<m, "internal">>} # {} THEN "plain"
                 ELSE live[m]]
  /\ UNCHANGED <<connected, rowVars>>

\* recategorize_bank_transaction_history sees nothing internal in the bank's records.
ReadTransactions(s) ==
  /\ keeper[s].pc = "resort"
  /\ Proceed(s, "resorting", {m \in Movements : live[m] = "internal"})
  /\ UNCHANGED <<connected, live, rowVars, disturbed>>

ResortTransactions(s) ==
  /\ MoveOn(s, "resorting", "attach")
  /\ live' = [m \in Movements |-> IF m \in Planned(s) THEN "plain" ELSE live[m]]
  /\ UNCHANGED <<connected, rowVars, disturbed>>

-----------------------------------------------------------------------------
\* reconcile_statement_transactions_with_bank
AttachStatements(s) ==
  /\ MoveOn(s, "attach", "sort")
  /\ attached' = IF connected THEN imported ELSE attached
  /\ UNCHANGED <<connected, live, imported, noted, marked, matched, disturbed>>

\* recategorize_historical_statement_history
ReadRows(s) ==
  /\ keeper[s].pc = "sort" /\ Proceed(s, "sorting", noted \ marked)
  /\ UNCHANGED <<connected, live, rowVars, disturbed>>

SortRows(s) ==
  /\ MoveOn(s, "sorting", "pair")
  /\ noted' = noted \ Planned(s)
  /\ UNCHANGED <<connected, live, imported, attached, marked, matched, disturbed>>

\* reconcile_cross_statement_internal_transfers: two sides on two statements, each used
\* for one pair.
Pairs == {t \in Twins : t \subseteq Listed}
Pairings ==
  {pairs \in SUBSET Pairs :
     /\ \A p, q \in pairs : p = q \/ p \cap q = {}
     /\ \A p \in Pairs : \E q \in pairs : p \cap q # {}}

FindPairs(s) ==
  /\ keeper[s].pc = "pair"
  /\ \E pairs \in Pairings :
       LET found == UNION pairs IN
       Proceed(s, "pairing", {<<r, "mark">> : r \in found \ marked}
                             \cup {<<r, "note">> : r \in found \ noted})
  /\ UNCHANGED <<connected, live, rowVars, disturbed>>

MarkPairs(s) ==
  /\ MoveOn(s, "pairing", "spread")
  /\ marked' = marked \cup {r \in Rows : <<r, "mark">> \in Planned(s)}
  /\ noted' = noted \cup {r \in Rows : <<r, "note">> \in Planned(s)}
  /\ UNCHANGED <<connected, live, imported, attached, matched, disturbed>>

\* What is internal in the history is internal in the bank's record that it matched.
ReadMatches(s) ==
  /\ keeper[s].pc = "spread"
  /\ Proceed(s, "spreading",
       {m \in Movements : live[m] = "plain" /\ \E r \in noted : m \in Records(r)})
  /\ UNCHANGED <<connected, live, rowVars, disturbed>>

SpreadInternal(s) ==
  /\ MoveOn(s, "spreading", "match")
  /\ live' = [m \in Movements |-> IF m \in Planned(s) THEN "internal" ELSE live[m]]
  /\ UNCHANGED <<connected, rowVars, disturbed>>

AsInHistory(r) == IF r \in noted THEN "internal" ELSE "plain"

\* Unmatched rows of attached statements.
MatchRows(s) ==
  /\ keeper[s].pc = "match"
  /\ Proceed(s, "matching",
       {<<r, AsInHistory(r)>> : r \in {q \in UNION attached : Records(q) = {}}})
  /\ UNCHANGED <<connected, live, rowVars, disturbed>>

\* Mutant: as much is asked of a record alone as of several.
BestOfMany(r, free) ==
  {m \in free : Likeness[r][m] = 3 /\ \A o \in free : Likeness[r][o] <= Likeness[r][m]}

\* The bank's records that the row may be matched with: the most alike, and alike enough,
\* for which more is asked when there are several.
BestOf(r, free) ==
  LET found == {m \in free : Likeness[r][m] > 0} IN
  {m \in found : /\ \A o \in found : Likeness[r][o] <= Likeness[r][m]
                 /\ Likeness[r][m] >= (IF found = {m} THEN 2 ELSE 3)}

\* Each row is a query of its own, which sees what this session has matched before.
MatchRow(s) ==
  /\ keeper[s].pc = "matching"
  /\ \E r \in Rows, as \in {"plain", "internal"} :
       LET now == {m \in Movements :
                     \E q \in Rows, w \in {"plain", "internal"} : <<q, m, w>> \in Planned(s)}
           best == BestOf(r, {m \in Movements \ now : live[m] # "none" /\ ~Taken(m)}) IN
       /\ <<r, as>> \in Planned(s)
       /\ \/ best = {} /\ Proceed(s, "matching", Planned(s) \ {<<r, as>>})
          \/ \E m \in best :
               Proceed(s, "matching",
                 (Planned(s) \ {<<r, as>>})
                   \cup {<<r, m, IF live[m] = "plain" THEN as ELSE "plain">>})
  /\ UNCHANGED <<connected, live, rowVars, disturbed>>

\* The unique key refuses a record that another session has matched with another row;
\* only what the session has changed is written.
StoreMatches(s) ==
  LET found == {p \in Rows \X Movements :
                  \E as \in {"plain", "internal"} : <<p[1], p[2], as>> \in Planned(s)}
      internal == {m \in Movements : \E r \in Rows : <<r, m, "internal">> \in Planned(s)} IN
  /\ keeper[s].pc = "matching"
  /\ \A r \in Rows : {<<r, "plain">>, <<r, "internal">>} \cap Planned(s) = {}
  /\ IF \E p \in found, q \in matched : p[2] = q[2] /\ p[1] # q[1]
       THEN BreakOff(s) /\ UNCHANGED <<live, matched>>
       ELSE /\ matched' = {q \in matched : \A p \in found : p[1] # q[1]} \cup found
            /\ live' = [m \in Movements |-> IF m \in internal THEN "internal" ELSE live[m]]
            /\ keeper' = [keeper EXCEPT ![s] = Unoccupied] /\ disturbed' = ~keeper[s].alone
  /\ UNCHANGED <<connected, imported, attached, noted, marked>>

\* The process dies, or a query or the bank fails.
PassFails(s) ==
  /\ keeper[s].pc # "idle" /\ BreakOff(s)
  /\ UNCHANGED <<connected, live, rowVars>>

LedgerNext ==
  \/ ConnectBank
  \/ \E s \in Keepers :
       \/ ImportStatement(s) \/ MergeStatement(s) \/ EnrichRows(s)
       \/ FetchTransactions(s) \/ StoreTransactions(s)
       \/ ReadTransactions(s) \/ ResortTransactions(s)
       \/ AttachStatements(s) \/ ReadRows(s) \/ SortRows(s)
       \/ FindPairs(s) \/ MarkPairs(s) \/ ReadMatches(s) \/ SpreadInternal(s)
       \/ MatchRows(s) \/ MatchRow(s) \/ StoreMatches(s)
       \/ PassFails(s)

LedgerSpec == LedgerInit /\ [][LedgerNext]_ledgerVars

-----------------------------------------------------------------------------
LedgerTypeOK ==
  /\ {connected, disturbed} \subseteq BOOLEAN
  /\ live \in [Movements -> LiveRows]
  /\ attached \subseteq imported /\ imported \subseteq Statements
  /\ noted \subseteq Listed /\ marked \subseteq Listed
  /\ matched \subseteq Listed \X Movements
  /\ \A s \in Keepers : keeper[s].pc \in KeeperPlaces /\ keeper[s].alone \in BOOLEAN

\* _learning_transactions: what is counted of a movement.
Showing(m) == {r \in Listed : MovementOf[r] = m}
Evidence(m) ==
  Cardinality({r \in Showing(m) : r \notin noted /\ Records(r) = {}})
    + (IF live[m] = "plain" THEN 1 ELSE 0)
IsKnown(m) == live[m] # "none" \/ Showing(m) # {}
IsPaired(m) == \E r \in Showing(m) : \E p \in Pairs : r \in p

\* Rows of other movements are not taken for this one, nor its own for others.
ToldApart(m) ==
  \A r \in Rows : \A o \in Movements : (MovementOf[r] = m) # (o = m) => Likeness[r][o] <= 1

\* Its row, in one statement only, is always recognised and has one twin at most.
IsClear(m) ==
  /\ ToldApart(m)
  /\ \A r \in Showing(m) :
       /\ Showing(m) = {r}
       /\ Likeness[r][m] \in {2, 3}
       /\ Likeness[r][m] = 2 => \A o \in Movements : o = m \/ Likeness[r][o] = 0
       /\ \A p, q \in Twins : r \in p /\ p \cap q # {} => p = q

\* However uploads, synchronisations and passes overlap, die and undo each other's
\* categories, a movement that is not confused with others and not between own accounts
\* is never left out; and one pass that runs alone sets it right: then one whose row is
\* clear counts exactly once, or not at all when both sides are there.
ClearMoneyCountsOnce ==
  /\ \A m \in Movements : IsKnown(m) /\ ToldApart(m) /\ ~IsPaired(m) => Evidence(m) >= 1
  /\ (~disturbed /\ Working = {}) =>
       \A m \in Movements : IsKnown(m) /\ IsClear(m) =>
         Evidence(m) = IF IsPaired(m) THEN 0 ELSE 1

\* "one monetary event is counted once" (V0.7.2_REVOLUT_DUAL_FORMAT.md): after a pass
\* that ran alone, however the statements overlap and are written.
NothingCountsTwice ==
  (~disturbed /\ Working = {}) => \A m \in Movements : Evidence(m) <= 1
===============================================================================
