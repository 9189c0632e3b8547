---------------------------- MODULE DriveArchive -----------------------------
(***************************************************************************)
(* Archiving a document on Google Drive: drive_folder_recovery.py,         *)
(* document_archive_recovery.py and ingest_document_bytes of               *)
(* document_ingestion.py. Any session may ingest the same bytes, the       *)
(* outcome of a create may stay unknown, Drive's search may lag behind,    *)
(* and a session may die between any two awaits.                           *)
(*                                                                         *)
(* Simplifications                                                         *)
(*  - A folder path has one component; the intents of its parents repeat   *)
(*    the same protocol one by one.                                        *)
(*  - Nobody but the program creates matching items, so that every         *)
(*    candidate of a search is the item of the intent.                     *)
(*  - Provenance, audit and document analysis are left out; the analysis   *)
(*    is where the ingestion may still fail (AbandonIngestion).            *)
(***************************************************************************)
EXTENDS Naturals, FiniteSets

CONSTANTS
  ArchivedFiles,   \* documents, each a checksum and an account scope
  ArchiveFolder,   \* the folder they belong in
  Ingestions,      \* sessions that may ingest
  MaxCreates       \* bound on the create calls for each item

DriveAssumption == ArchiveFolder \notin ArchivedFiles /\ MaxCreates \in Nat \ {0}

Items == ArchivedFiles \cup {ArchiveFolder}

VARIABLES
  intent,      \* status of the item's intent row, "none" before it is inserted
  bound,       \* items whose intent row holds a provider id
  onDrive,     \* items that exist at the provider, with how often each was created
  searchable,  \* those that the provider's search finds
  creates,     \* create calls for each item
  record,      \* files with a document_records row
  owned,       \* times _financial_ownership was run for each file
  ingestion    \* what each session does

driveVars == <<intent, bound, onDrive, searchable, creates, record, owned, ingestion>>

IntentStates == {"none", "prepared", "submitting", "creation_uncertain", "verified"}
IngestPlaces == {"idle", "preparing", "searching", "following", "claiming", "creating",
                 "created", "refused", "doubtful", "recording", "owning"}

\* item: the intent at hand; file: the document; seen: the intent's status as loaded.
NoIngestion == [pc |-> "idle", item |-> ArchiveFolder, file |-> ArchiveFolder,
                seen |-> "none"]

DriveInit ==
  /\ intent = [i \in Items |-> "none"]
  /\ bound = {} /\ searchable = {} /\ record = {}
  /\ onDrive = [i \in Items |-> 0] /\ creates = [i \in Items |-> 0]
  /\ owned = [f \in ArchivedFiles |-> 0]
  /\ ingestion = [s \in Ingestions |-> NoIngestion]

Turn(s, changes) == ingestion' = [ingestion EXCEPT ![s] = changes]
providerVars == <<onDrive, searchable, creates>>
documentVars == <<record, owned>>

-----------------------------------------------------------------------------
\* A document that has its row is linked; another is taken to the archive.
Ingest(s) ==
  /\ ingestion[s].pc = "idle"
  /\ \E f \in ArchivedFiles \ record :
       Turn(s, [NoIngestion EXCEPT !.pc = "preparing", !.item = f, !.file = f])
  /\ UNCHANGED <<intent, bound, providerVars, documentVars>>

\* prepare_*_intent: the row found, or inserted under the unique key.
PrepareIntent(s) ==
  LET i == ingestion[s].item IN
  /\ ingestion[s].pc = "preparing"
  /\ intent' = [intent EXCEPT ![i] = IF @ = "none" THEN "prepared" ELSE @]
  /\ Turn(s, [ingestion[s] EXCEPT !.pc = "searching", !.seen = intent'[i]])
  /\ UNCHANGED <<bound, providerVars, documentVars>>

\* Where the session goes once the item is known: from the folder back to the
\* claim of the file, from the file on to its row.
Resolved(s) ==
  Turn(s, IF ingestion[s].item = ArchiveFolder
            THEN [ingestion[s] EXCEPT !.pc = "claiming", !.item = ingestion[s].file]
            ELSE [ingestion[s] EXCEPT !.pc = "recording"])

Bind(s) ==
  LET i == ingestion[s].item IN
  /\ intent' = [intent EXCEPT ![i] = "verified"]
  /\ bound' = bound \cup {i}
  /\ Resolved(s)

\* reconcile_*: decided by the status as loaded, then by what the search finds.
\* A fresh intent may go on when nothing is found, any other is given up.
Reconcile(s) ==
  LET at == ingestion[s] IN
  /\ at.pc \in {"searching", "following"}
  /\ \/ /\ at.seen = "verified"
        /\ Resolved(s)
        /\ UNCHANGED <<intent, bound>>
     \/ /\ at.seen # "verified" /\ at.item \in searchable
        /\ Bind(s)
     \/ /\ at.seen # "verified" /\ at.item \notin searchable
        /\ Turn(s, IF at.pc = "following" \/ at.seen # "prepared" THEN NoIngestion
                   ELSE IF at.item = ArchiveFolder THEN [at EXCEPT !.pc = "claiming"]
                   ELSE [at EXCEPT !.pc = "preparing", !.item = ArchiveFolder])
        /\ UNCHANGED <<intent, bound>>
  /\ UNCHANGED <<providerVars, documentVars>>

\* The conditional update, and the refresh of the row when it was lost.
\* Mutant: a lost claim is taken for the other session's success.
ClaimOrTrust(s) ==
  LET at == ingestion[s] IN
  /\ at.pc = "claiming"
  /\ IF intent[at.item] = "prepared"
       THEN /\ creates[at.item] < MaxCreates
            /\ intent' = [intent EXCEPT ![at.item] = "submitting"]
            /\ Turn(s, [at EXCEPT !.pc = "creating", !.seen = "submitting"])
       ELSE /\ Resolved(s)
            /\ UNCHANGED intent
  /\ UNCHANGED <<bound, providerVars, documentVars>>

ClaimIntent(s) ==
  LET at == ingestion[s] IN
  /\ at.pc = "claiming"
  /\ IF intent[at.item] = "prepared"
       THEN /\ creates[at.item] < MaxCreates
            /\ intent' = [intent EXCEPT ![at.item] = "submitting"]
            /\ Turn(s, [at EXCEPT !.pc = "creating", !.seen = "submitting"])
       ELSE /\ Turn(s, [at EXCEPT !.pc = "following", !.seen = intent[at.item]])
            /\ UNCHANGED intent
  /\ UNCHANGED <<bound, providerVars, documentVars>>

\* create_drive_folder_once, upload_drive_file. Only a definitive refusal tells
\* that nothing was created.
CreateItem(s) ==
  LET at == ingestion[s] IN
  /\ at.pc = "creating"
  /\ creates' = [creates EXCEPT ![at.item] = @ + 1]
  /\ \/ /\ onDrive' = [onDrive EXCEPT ![at.item] = @ + 1]
        /\ \E pc \in {"created", "doubtful"} : Turn(s, [at EXCEPT !.pc = pc])
     \/ /\ \E pc \in {"refused", "doubtful"} : Turn(s, [at EXCEPT !.pc = pc])
        /\ UNCHANGED onDrive
  /\ UNCHANGED <<intent, bound, searchable, documentVars>>

BindCreated(s) ==
  /\ ingestion[s].pc = "created"
  /\ Bind(s)
  /\ UNCHANGED <<providerVars, documentVars>>

AllowAnotherCreate(s) ==
  /\ ingestion[s].pc = "refused"
  /\ intent' = [intent EXCEPT ![ingestion[s].item] = "prepared"]
  /\ Turn(s, NoIngestion)
  /\ UNCHANGED <<bound, providerVars, documentVars>>

\* Mutant: doubt is treated as a refusal.
RetryInDoubt(s) ==
  /\ ingestion[s].pc = "doubtful"
  /\ intent' = [intent EXCEPT ![ingestion[s].item] = "prepared"]
  /\ Turn(s, NoIngestion)
  /\ UNCHANGED <<bound, providerVars, documentVars>>

RecordDoubt(s) ==
  /\ ingestion[s].pc = "doubtful"
  /\ intent' = [intent EXCEPT ![ingestion[s].item] = "creation_uncertain"]
  /\ Turn(s, [ingestion[s] EXCEPT !.pc = "following", !.seen = "creation_uncertain"])
  /\ UNCHANGED <<bound, providerVars, documentVars>>

\* The row of the document; only the session that inserted it goes on to its bill.
RecordDocument(s) ==
  LET at == ingestion[s] IN
  /\ at.pc = "recording"
  /\ Turn(s, IF at.file \in record THEN NoIngestion ELSE [at EXCEPT !.pc = "owning"])
  /\ record' = record \cup {at.file}
  /\ UNCHANGED <<intent, bound, providerVars, owned>>

TakeFinancialOwnership(s) ==
  /\ ingestion[s].pc = "owning"
  /\ owned' = [owned EXCEPT ![ingestion[s].file] = @ + 1]
  /\ Turn(s, NoIngestion)
  /\ UNCHANGED <<intent, bound, providerVars, record>>

\* An error that is raised, or the death of the process.
AbandonIngestion(s) ==
  /\ ingestion[s].pc # "idle"
  /\ Turn(s, NoIngestion)
  /\ UNCHANGED <<intent, bound, providerVars, documentVars>>

-----------------------------------------------------------------------------
IndexItem ==
  /\ \E i \in Items \ searchable :
       /\ onDrive[i] > 0
       /\ searchable' = searchable \cup {i}
  /\ UNCHANGED <<intent, bound, onDrive, creates, documentVars, ingestion>>

DriveNext ==
  \/ \E s \in Ingestions :
       \/ Ingest(s) \/ PrepareIntent(s) \/ Reconcile(s) \/ ClaimIntent(s)
       \/ CreateItem(s) \/ BindCreated(s) \/ AllowAnotherCreate(s) \/ RecordDoubt(s)
       \/ RecordDocument(s) \/ TakeFinancialOwnership(s) \/ AbandonIngestion(s)
  \/ IndexItem

DriveSpec == DriveInit /\ [][DriveNext]_driveVars

-----------------------------------------------------------------------------
DriveTypeOK ==
  /\ intent \in [Items -> IntentStates]
  /\ bound \subseteq Items /\ searchable \subseteq Items /\ record \subseteq ArchivedFiles
  /\ onDrive \in [Items -> Nat]
  /\ creates \in [Items -> 0..MaxCreates]
  /\ owned \in [ArchivedFiles -> Nat]
  /\ ingestion \in [Ingestions -> [pc : IngestPlaces, item : Items, file : Items,
                                   seen : IntentStates]]

\* One copy of every folder and file, and one bill of every document: a create
\* that the program gave up on, or that another session waits for, is never
\* repeated, however late the search shows its result. And what the rows say exists
\* on Drive: a bound intent's item, the file of a recorded document, and, of every
\* file there, the folder it was put into.
ArchivedOnce ==
  /\ \A i \in Items : onDrive[i] <= 1
  /\ \A f \in ArchivedFiles : owned[f] <= 1
  /\ \A i \in bound \cup record : onDrive[i] > 0
  /\ \A f \in ArchivedFiles : onDrive[f] > 0 => ArchiveFolder \in bound
=============================================================================
