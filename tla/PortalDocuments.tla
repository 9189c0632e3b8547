---------------------------- MODULE PortalDocuments ----------------------------
(***************************************************************************)
(* Documents that a portal lists for the owner (portal_document_sync.py):  *)
(* a sync lists them, keeps a row for each, downloads and ingests them.    *)
(* The portal may ask for a one-time code at any time, a download may      *)
(* fail, the process may die; jobs of the scheduler and of the owner's     *)
(* route sync one source at once, and the owner tests it meanwhile.        *)
(*                                                                         *)
(* A session reads the source once and writes the columns that it changes: *)
(* what another session wrote in the others stays.                         *)
(*                                                                         *)
(* Simplifications                                                         *)
(*  - The rows of a source come in any order.                              *)
(*  - "failed" stands for the states of _failure_state; none of them is    *)
(*    told apart by what follows.                                          *)
(*  - The owner's test takes place at once.                               *)
(*  - A session whose source is deleted ends then, not at its next commit. *)
(*  - The row of a download that died is written again when it restarts.   *)
(***************************************************************************)
EXTENDS Naturals, FiniteSets

CONSTANTS
  Papers,      \* documents that the portal may list
  NoPaper,
  Fetchers,    \* sessions
  PaperLimit   \* max_documents_per_sync

PaperAssumption == NoPaper \notin Papers /\ PaperLimit \in Nat \ {0}

VARIABLES
  source,    \* portal_document_sources: status, challenge, code; proven: last_success_at
  papers,    \* portal_document_items: status
  fetcher,   \* each session: the source as it read it, what it found, what it has left
  archive,   \* documents that the ingestion has taken
  arrived    \* history: listed to a sync that took all its rows and was clean

paperVars == <<source, papers, fetcher, archive, arrived>>

SourceStates == {"absent", "ready", "syncing", "needs_user_auth", "degraded", "failed",
                 "partial"}
PaperStates == {"none", "discovered", "downloading", "downloaded", "ingested", "retry",
                "needs_user_auth"}
Challenges == {"otp", "credentials"}
Configured == [status |-> "ready", challenge |-> "none", code |-> FALSE]
Gone == [pc |-> "idle", seen |-> Configured, found |-> {}, todo |-> {}, paper |-> NoPaper,
         failed |-> FALSE, whole |-> TRUE]
Fetching == {s \in Fetchers : fetcher[s].pc # "idle"}
Columns == DOMAIN Configured
Row == [c \in Columns |-> source[c]]

PaperInit ==
  /\ source = [status |-> "absent", challenge |-> "none", code |-> FALSE, proven |-> FALSE]
  /\ papers = [d \in Papers |-> "none"]
  /\ fetcher = [s \in Fetchers |-> Gone]
  /\ archive = {} /\ arrived = {}

\* The columns that a session has changed, over those of the row
Changed(s, to) == [c \in DOMAIN source |->
  IF c \in Columns /\ to[c] # fetcher[s].seen[c] THEN to[c] ELSE source[c]]
Fetcher(s, as) == fetcher' = [fetcher EXCEPT ![s] = as]
Leave(s) == Fetcher(s, Gone)

-----------------------------------------------------------------------------
\* upsert_source; another recipe, or another portal, forgets the successes.
UpsertSource ==
  /\ \E proven \in {source.proven, FALSE} :
       source' = [c \in DOMAIN source |-> IF c = "proven" THEN proven ELSE Configured[c]]
  /\ UNCHANGED <<papers, fetcher, archive, arrived>>

\* delete_source takes its items along; a later one has documents of its own.
DeleteSource ==
  /\ source.status # "absent"
  /\ source' = [source EXCEPT !.status = "absent", !.challenge = "none",
                              !.code = FALSE, !.proven = FALSE]
  /\ papers' = [d \in Papers |-> "none"]
  /\ fetcher' = [s \in Fetchers |-> Gone]
  /\ archive' = {} /\ arrived' = {}

SetAuthCode ==
  /\ source.status = "needs_user_auth" /\ source.challenge = "otp"
  /\ source' = [source EXCEPT !.status = "ready", !.code = TRUE]
  /\ UNCHANGED <<papers, fetcher, archive, arrived>>

\* sync_source, from a job of the scheduler or of the owner
StartSync(s) ==
  /\ s \notin Fetching /\ source.status # "absent"
  /\ Fetcher(s, [Gone EXCEPT !.pc = "syncing", !.seen = [Row EXCEPT !.status = "syncing"]])
  /\ source' = [source EXCEPT !.status = "syncing"]
  /\ UNCHANGED <<papers, archive, arrived>>

\* The owner's test: a discovery of which only a challenge, a failure or a login that was
\* needed is kept
TestSource ==
  /\ source.status # "absent"
  /\ \/ \E kind \in Challenges :
          source' = [source EXCEPT !.status = "needs_user_auth", !.challenge = kind,
                                   !.code = @ /\ source.challenge # "otp"]
     \/ source' = [source EXCEPT !.status = "failed"]
     \/ source' = [source EXCEPT !.challenge = "none", !.code = FALSE]
  /\ UNCHANGED <<papers, fetcher, archive, arrived>>

\* _authenticate meets a challenge, perhaps after it has typed the code.
Challenged(s) ==
  /\ fetcher[s].pc = "syncing"
  /\ \E kind \in Challenges :
       LET seen == fetcher[s].seen IN
       source' = Changed(s, [status |-> "needs_user_auth", challenge |-> kind,
                             code |-> seen.code /\ seen.challenge # "otp"])
  /\ Leave(s)
  /\ UNCHANGED <<papers, archive, arrived>>

\* Anything else breaks the discovery off.
DiscoveryFails(s) ==
  /\ fetcher[s].pc = "syncing"
  /\ source' = Changed(s, [fetcher[s].seen EXCEPT !.status = "failed"])
  /\ Leave(s)
  /\ UNCHANGED <<papers, archive, arrived>>

\* Mutant: a download that died is left to the session that began it.
ResumableIfSettled == {"discovered", "retry", "downloaded"}

\* A download that another session has begun is begun again: it may have died.
Resumable == {"discovered", "retry", "downloaded", "downloading"}

\* extract_candidates of the pages of the listing, until the limit
Listings == {found \in SUBSET Papers : Cardinality(found) <= PaperLimit}

\* discover_source keeps what it found and clears what waited for the owner; sync_source
\* takes the rows that are to be fetched, up to its limit. Another session that has
\* inserted a row since then breaks it off: SessionDies.
ListDocuments(s) ==
  /\ fetcher[s].pc = "syncing"
  /\ \E found \in Listings :
       LET listed == [d \in Papers |->
             IF d \notin found THEN papers[d]
             ELSE CASE papers[d] = "none" -> "discovered"
                    [] papers[d] = "needs_user_auth" -> "retry"
                    [] OTHER -> papers[d]]
           waiting == {d \in Papers : listed[d] \in Resumable}
           known == [Configured EXCEPT !.status =
                       IF found = {} /\ source.proven THEN "degraded" ELSE "ready"] IN
       /\ papers' = listed
       /\ source' = Changed(s, known)
       /\ \E todo \in SUBSET waiting :
            /\ todo = waiting \/ Cardinality(todo) = PaperLimit
            /\ Cardinality(todo) <= PaperLimit
            /\ Fetcher(s, [fetcher[s] EXCEPT !.pc = "listed", !.seen = known,
                 !.found = found, !.todo = todo, !.whole = todo = waiting])
  /\ UNCHANGED <<archive, arrived>>

\* The loop of sync_source: each row is committed as "downloading" first.
BeginDownload(s) ==
  /\ fetcher[s].pc = "listed"
  /\ \E d \in fetcher[s].todo :
       /\ papers' = [papers EXCEPT ![d] = "downloading"]
       /\ Fetcher(s, [fetcher[s] EXCEPT !.pc = "downloading", !.paper = d,
                                        !.todo = @ \ {d}])
  /\ UNCHANGED <<source, archive, arrived>>

Downloaded(s) ==
  /\ fetcher[s].pc = "downloading"
  /\ papers' = [papers EXCEPT ![fetcher[s].paper] = "downloaded"]
  /\ Fetcher(s, [fetcher[s] EXCEPT !.pc = "downloaded"])
  /\ UNCHANGED <<source, archive, arrived>>

\* ingest_document_bytes, which knows a document that it has taken before
Ingest(s) ==
  /\ fetcher[s].pc = "downloaded"
  /\ archive' = archive \cup {fetcher[s].paper}
  /\ Fetcher(s, [fetcher[s] EXCEPT !.pc = "taken"])
  /\ UNCHANGED <<source, papers, arrived>>

Ingested(s) ==
  /\ fetcher[s].pc = "taken"
  /\ papers' = [papers EXCEPT ![fetcher[s].paper] = "ingested"]
  /\ Fetcher(s, [fetcher[s] EXCEPT !.pc = "listed", !.paper = NoPaper])
  /\ UNCHANGED <<source, archive, arrived>>

\* The download or the ingestion fails: the next sync tries again.
ItemFails(s) ==
  /\ fetcher[s].pc \in {"downloading", "downloaded"}
  /\ papers' = [papers EXCEPT ![fetcher[s].paper] = "retry"]
  /\ Fetcher(s, [fetcher[s] EXCEPT !.pc = "listed", !.paper = NoPaper, !.failed = TRUE])
  /\ UNCHANGED <<source, archive, arrived>>

\* The portal asks in the middle: the item and the source wait, the others are not tried.
ItemChallenged(s) ==
  /\ fetcher[s].pc = "downloading"
  /\ \E kind \in Challenges :
       source' = Changed(s, [status |-> "needs_user_auth", challenge |-> kind,
                             code |-> FALSE])
  /\ papers' = [papers EXCEPT ![fetcher[s].paper] = "needs_user_auth"]
  /\ Leave(s)
  /\ UNCHANGED <<archive, arrived>>

\* The end of sync_source. Where items failed, the job fails too and is retried.
FinishSync(s) ==
  LET at == fetcher[s]
      clean == at.seen.status # "degraded" /\ ~at.failed
      status == CASE at.seen.status = "degraded" -> "degraded"
                  [] at.failed -> "partial"
                  [] OTHER -> "ready" IN
  /\ at.pc = "listed" /\ at.todo = {}
  /\ source' = [Changed(s, [at.seen EXCEPT !.status = status]) EXCEPT
                  !.proven = @ \/ (clean /\ at.found # {})]
  /\ arrived' = IF clean /\ at.whole THEN arrived \cup at.found ELSE arrived
  /\ Leave(s)
  /\ UNCHANGED <<papers, archive>>

SessionDies(s) ==
  /\ s \in Fetching /\ Leave(s)
  /\ UNCHANGED <<source, papers, archive, arrived>>

PaperNext ==
  \/ UpsertSource \/ DeleteSource \/ SetAuthCode \/ TestSource
  \/ \E s \in Fetchers :
       \/ StartSync(s)
       \/ Challenged(s) \/ DiscoveryFails(s) \/ ListDocuments(s)
       \/ BeginDownload(s) \/ Downloaded(s) \/ Ingest(s) \/ Ingested(s)
       \/ ItemFails(s) \/ ItemChallenged(s) \/ FinishSync(s) \/ SessionDies(s)

PaperSpec == PaperInit /\ [][PaperNext]_paperVars

-----------------------------------------------------------------------------
PaperTypeOK ==
  /\ source.status \in SourceStates /\ source.challenge \in Challenges \cup {"none"}
  /\ source.code \in BOOLEAN /\ source.proven \in BOOLEAN
  /\ papers \in [Papers -> PaperStates]
  /\ \A s \in Fetchers : fetcher[s].paper \in Papers \cup {NoPaper}
  /\ archive \subseteq Papers /\ arrived \subseteq Papers

\* What the portal listed to a sync that was not cut by its limit and reported no failure
\* has been ingested, whatever other syncs do meanwhile and whatever broke earlier ones
\* off, wherever; and a row is only called ingested when its document is.
PortalDocumentsArrive ==
  /\ arrived \subseteq archive
  /\ \A d \in Papers : papers[d] = "ingested" => d \in archive
================================================================================
