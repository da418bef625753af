---------------------------- MODULE Adjudication ----------------------------
(***************************************************************************)
(* The operator's decisions about autonomy candidates                       *)
(* (twill_autonomy_review.py): an append-only journal per candidate in the  *)
(* artifacts tree, listed by a sidecar manifest the root manifest points    *)
(* to, committed to git and projected into the database, where the autonomy *)
(* detectors (twill_detectors.py) join it with the current assessments.     *)
(*                                                                          *)
(* A basis stands for the versions and hashes a decision is about: it       *)
(* changes with the transcript and with the analyzer.                       *)
(***************************************************************************)
EXTENDS Naturals, Sequences, SequencesExt, FiniteSets

CONSTANTS
    Candidates,
    None,
    Dispositions,   \* only "supported" is told from the others
    Inferred,       \* what the assessment of a basis says; None: no candidate
    MaxBasis, MaxRevisions, MaxFaults, MaxCrashes

ASSUME AdjudicationAssumption ==
    /\ "supported" \in Dispositions
    /\ Inferred \in [1..MaxBasis -> Dispositions \cup {None}]
    /\ {MaxBasis, MaxRevisions, MaxFaults, MaxCrashes} \subseteq Nat
    /\ MaxBasis # 0

VARIABLES
    \* the artifacts tree
    journal,        \* records of each candidate; <<>> for no file
    sidecar,        \* the journals autonomy/manifest.json lists; None for no file
    pointer,        \* the sidecar the root manifest points to
    namespace,      \* the directory autonomy/ exists
    temporary,      \* temporary files in it: "own", or left by a killed command
    head,           \* the last commit
    \* the database
    transcript,     \* the basis of each candidate's transcript now
    episode,        \* the basis stored for its episode; 0 for no row
    assessment,     \* the basis that was assessed; 0 for no row
    decision,       \* the latest journal record and its revision; None
    findings,       \* candidates the autonomy clusters count
    \* the running command
    pc,
    review,         \* the candidate reviewed, the record and what was there
    faults, crashes,
    abandoned,      \* a commit could not be read back and its review was undone
    unrestored      \* an error ended the undoing of a review

tree == <<journal, sidecar, pointer, namespace, temporary>>
database == <<transcript, episode, assessment, decision, findings>>
counts == <<faults, crashes, abandoned, unrestored>>
vars == <<tree, head, database, pc, review, counts>>

Record == [disposition : Dispositions, basis : 1..MaxBasis]
Projection == [revision : Nat \ {0}, record : Record]
Journals == [Candidates -> Seq(Record)]

ASSUME NoneAssumption == None \notin Projection \cup Journals

NoJournals == [c \in Candidates |-> <<>>]

Init ==
    /\ journal = NoJournals /\ sidecar = None /\ pointer = None
    /\ namespace = FALSE /\ temporary = {}
    /\ head = NoJournals
    /\ transcript = [c \in Candidates |-> 1] /\ episode = transcript
    /\ assessment = [c \in Candidates |-> 0]
    /\ decision = [c \in Candidates |-> None]
    /\ findings = {}
    /\ pc = "idle" /\ review = None
    /\ faults = 0 /\ crashes = 0 /\ abandoned = FALSE /\ unrestored = FALSE

\* _journal_paths and read_autonomy_manifest: the root manifest, the sidecar
\* and the files agree, and nothing else is in the namespace.
Readable ==
    IF namespace
    THEN temporary = {} /\ sidecar = journal /\ pointer = sidecar
    ELSE pointer = None

Latest(c) ==
    IF journal[c] = <<>> THEN None
    ELSE [revision |-> Len(journal[c]), record |-> Last(journal[c])]

Go(step) == pc' = step /\ UNCHANGED <<review, counts>>
End == pc' = "idle" /\ review' = None

-----------------------------------------------------------------------------
(* twill autonomy review *)

Revisions == Cardinality({x \in Candidates \X (1..MaxRevisions) : x[2] <= Len(journal[x[1]])})

\* The record is about the basis that was assessed last, and follows what the
\* file holds.
Review(c, disposition) ==
    /\ pc = "idle" /\ assessment[c] # 0
    /\ Revisions < MaxRevisions
    /\ pc' = "write"
    /\ review' = [candidate |-> c,
                  record |-> [disposition |-> disposition, basis |-> assessment[c]],
                  before |-> [journal |-> journal, sidecar |-> sidecar, pointer |-> pointer,
                              namespace |-> namespace]]
    /\ namespace' = TRUE
    /\ UNCHANGED <<journal, sidecar, pointer, temporary, head, database, counts>>

WriteTemporary ==
    /\ pc = "write"
    /\ temporary' = temporary \cup {"own"}
    /\ Go("replace")
    /\ UNCHANGED <<journal, sidecar, pointer, namespace, head, database>>

\* Mutant: the journal holds the last decision only.
ReplaceWhole ==
    /\ pc = "replace"
    /\ journal' = [journal EXCEPT ![review.candidate] = <<review.record>>]
    /\ temporary' = temporary \ {"own"}
    /\ Go("sidecar")
    /\ UNCHANGED <<sidecar, pointer, namespace, head, database>>

Replace ==
    /\ pc = "replace"
    /\ journal' = [journal EXCEPT ![review.candidate] = Append(@, review.record)]
    /\ temporary' = temporary \ {"own"}
    /\ Go("sidecar")
    /\ UNCHANGED <<sidecar, pointer, namespace, head, database>>

WriteSidecar ==
    /\ pc = "sidecar" /\ temporary = {}
    /\ sidecar' = journal
    /\ Go("root")
    /\ UNCHANGED <<journal, pointer, namespace, temporary, head, database>>

WriteRoot ==
    /\ pc = "root"
    /\ pointer' = sidecar
    /\ Go("commit")
    /\ UNCHANGED <<journal, sidecar, namespace, temporary, head, database>>

\* Mutant: the database follows before the commit, which comes with the next
\* publication.
CommitLater ==
    /\ pc = "commit" /\ Readable
    /\ Go("reconcile")
    /\ UNCHANGED <<tree, head, database>>

\* publish_snapshot(push=False), whose own steps are in module Publication.
Commit ==
    /\ pc = "commit" /\ Readable
    /\ head' = journal
    /\ Go("verify")
    /\ UNCHANGED <<tree, database>>

\* It reads the commit back.
Verify ==
    /\ pc = "verify"
    /\ Go("reconcile")
    /\ UNCHANGED <<tree, head, database>>

\* An error up to the end of the publication, or a temporary file an earlier
\* command left: the files are put back, the last one written first. A commit
\* that was made stays.
Fail ==
    /\ pc \in {"write", "replace", "sidecar", "root", "commit", "verify"}
    /\ \/ pc = "sidecar" /\ temporary # {} /\ UNCHANGED faults
       \/ faults < MaxFaults /\ faults' = faults + 1
    /\ pc' = "restore root"
    /\ abandoned' = (abandoned \/ pc = "verify")
    /\ temporary' = temporary \ {"own"}
    /\ UNCHANGED <<journal, sidecar, pointer, namespace, head, database, review, crashes, unrestored>>

RestoreRoot ==
    /\ pc = "restore root"
    /\ pointer' = review.before.pointer
    /\ Go("restore sidecar")
    /\ UNCHANGED <<journal, sidecar, namespace, temporary, head, database>>

RestoreSidecar ==
    /\ pc = "restore sidecar"
    /\ sidecar' = review.before.sidecar
    /\ Go("restore journal")
    /\ UNCHANGED <<journal, pointer, namespace, temporary, head, database>>

\* Mutant: a namespace that was created for the review stays.
RestoreJournalOnly ==
    /\ pc = "restore journal"
    /\ journal' = review.before.journal
    /\ End
    /\ UNCHANGED <<namespace, sidecar, pointer, temporary, head, database, counts>>

RestoreJournal ==
    /\ pc = "restore journal"
    /\ journal' = review.before.journal
    /\ namespace' = review.before.namespace
    /\ End
    /\ UNCHANGED <<sidecar, pointer, temporary, head, database, counts>>

\* An error while the files are put back ends the review where it is. The last
\* of them is the journal; the directories made for the review are removed after.
RestoreFails ==
    /\ pc \in {"restore root", "restore sidecar", "restore journal"}
    /\ faults < MaxFaults /\ faults' = faults + 1
    /\ unrestored' = TRUE
    /\ \/ UNCHANGED journal
       \/ pc = "restore journal" /\ journal' = review.before.journal
    /\ End
    /\ UNCHANGED <<sidecar, pointer, namespace, temporary, head, database, crashes, abandoned>>

-----------------------------------------------------------------------------
(* twill detect, and the end of a review *)

\* project: assessments from the episodes as they are stored now.
Assessed(c) ==
    IF episode[c] # 0 /\ Inferred[episode[c]] # None THEN episode[c] ELSE 0

Project ==
    /\ pc \in {"idle", "project"}
    /\ assessment' = [c \in Candidates |-> Assessed(c)]
    /\ pc' = IF pc = "idle" THEN "reconcile" ELSE "recover"
    /\ UNCHANGED <<tree, head, transcript, episode, decision, findings, review, counts>>

\* Mutant: a detection goes on with the projection it has.
ReconciledIfReadable(then) ==
    /\ decision' = IF Readable THEN [c \in Candidates |-> Latest(c)] ELSE decision
    /\ IF then = "idle" THEN End /\ UNCHANGED counts ELSE Go(then)
    /\ UNCHANGED <<tree, head, transcript, episode, assessment, findings>>

\* The whole projection is replaced in one transaction; a tree that cannot be
\* read ends the command.
Reconciled(then) ==
    /\ IF Readable
       THEN /\ decision' = [c \in Candidates |-> Latest(c)]
            /\ IF then = "idle" THEN End /\ UNCHANGED counts ELSE Go(then)
       ELSE End /\ UNCHANGED <<decision, counts>>
    /\ UNCHANGED <<tree, head, transcript, episode, assessment, findings>>

Reconcile == pc = "reconcile" /\ Reconciled("refresh")

\* Mutant: a decision holds for whatever the candidate became.
EligibleByName(c) ==
    /\ assessment[c] # 0 /\ assessment[c] = episode[c]
    /\ IF decision[c] = None THEN Inferred[assessment[c]] = "supported"
       ELSE decision[c].record.disposition = "supported"

\* _autonomy_queries: without a decision the assessment counts, with one it is
\* the decision, and only about this very basis.
Eligible(c) ==
    /\ assessment[c] # 0 /\ assessment[c] = episode[c]
    /\ IF decision[c] = None THEN Inferred[assessment[c]] = "supported"
       ELSE decision[c].record = [disposition |-> "supported", basis |-> assessment[c]]

Refresh ==
    /\ pc = "refresh"
    /\ findings' = {c \in Candidates : Eligible(c)}
    /\ End
    /\ UNCHANGED <<tree, head, transcript, episode, assessment, decision, counts>>

\* assert_reconciled.
UpToDate == Readable /\ \A c \in Candidates : decision[c] = Latest(c)

\* twill rank refreshes the autonomy clusters as well, and stops on a
\* projection that is not that of the journals.
Rank ==
    /\ pc = "idle" /\ UpToDate
    /\ findings' = {c \in Candidates : Eligible(c)}
    /\ UNCHANGED <<tree, head, transcript, episode, assessment, decision, pc, review, counts>>

-----------------------------------------------------------------------------
(* Ingest, rebuild, publish and other artifact commands *)

\* A transcript changes and is ingested.
Ingest(c) ==
    /\ pc = "idle" /\ transcript[c] < MaxBasis
    /\ transcript' = [transcript EXCEPT ![c] = @ + 1]
    /\ episode' = [episode EXCEPT ![c] = transcript[c] + 1]
    /\ UNCHANGED <<tree, head, assessment, decision, findings, pc, review, counts>>

\* The hourly ingest reads again what a killed rebuild did not get to.
IngestAgain ==
    /\ pc = "idle" /\ episode # transcript
    /\ episode' = transcript
    /\ UNCHANGED <<tree, head, transcript, assessment, decision, findings, pc, review, counts>>

\* doctor --rebuild: the database is deleted, then read from the transcripts,
\* assessed and reconciled.
Discard ==
    /\ pc = "idle"
    /\ episode' = [c \in Candidates |-> 0]
    /\ assessment' = episode'
    /\ decision' = [c \in Candidates |-> None]
    /\ findings' = {}
    /\ Go("reread")
    /\ UNCHANGED <<tree, head, transcript>>

Reread ==
    /\ pc = "reread"
    /\ episode' = transcript
    /\ Go("project")
    /\ UNCHANGED <<tree, head, transcript, assessment, decision, findings>>

Recover == pc = "recover" /\ Reconciled("idle")

Publish ==
    /\ pc = "idle" /\ Readable /\ head # journal
    /\ head' = journal
    /\ UNCHANGED <<tree, database, pc, review, counts>>

\* A lesson or a digest is written: the root manifest points to the sidecar as
\* it is, and there has to be one.
WriteManifest ==
    /\ pc = "idle" /\ namespace /\ sidecar # None /\ pointer # sidecar
    /\ pointer' = sidecar
    /\ UNCHANGED <<journal, sidecar, namespace, temporary, head, database, pc, review, counts>>

\* A kill leaves the files as they are and a temporary one for the operator.
Crash ==
    /\ pc # "idle" /\ crashes < MaxCrashes
    /\ crashes' = crashes + 1
    /\ temporary' = IF temporary = {} THEN {} ELSE {"stray"}
    /\ End
    /\ UNCHANGED <<journal, sidecar, pointer, namespace, head, database, faults, abandoned, unrestored>>

CleanUp ==
    /\ pc = "idle" /\ temporary # {}
    /\ temporary' = {}
    /\ UNCHANGED <<journal, sidecar, pointer, namespace, head, database, pc, review, counts>>

Next ==
    \/ \E c \in Candidates, disposition \in Dispositions : Review(c, disposition)
    \/ WriteTemporary \/ Replace \/ WriteSidecar \/ WriteRoot \/ Commit \/ Verify
    \/ Fail \/ RestoreRoot \/ RestoreSidecar \/ RestoreJournal \/ RestoreFails
    \/ Project \/ Reconcile \/ Refresh \/ Rank
    \/ \E c \in Candidates : Ingest(c)
    \/ IngestAgain \/ Discard \/ Reread \/ Recover \/ Publish \/ WriteManifest
    \/ Crash \/ CleanUp

Spec == Init /\ [][Next]_vars

-----------------------------------------------------------------------------
(* Properties *)

ReviewSteps == {"write", "replace", "sidecar", "root", "commit", "verify",
                "restore root", "restore sidecar", "restore journal"}

TypeOK ==
    /\ journal \in Journals /\ head \in Journals
    /\ sidecar \in Journals \cup {None} /\ pointer \in Journals \cup {None}
    /\ namespace \in BOOLEAN /\ temporary \subseteq {"own", "stray"}
    /\ transcript \in [Candidates -> 1..MaxBasis]
    /\ episode \in [Candidates -> 0..MaxBasis] /\ assessment \in [Candidates -> 0..MaxBasis]
    /\ decision \in [Candidates -> Projection \cup {None}]
    /\ findings \subseteq Candidates
    /\ pc \in ReviewSteps \cup {"idle", "reconcile", "refresh", "reread", "project", "recover"}
    /\ pc \in ReviewSteps =>
         review \in [candidate : Candidates, record : Record,
                     before : [journal : Journals, sidecar : Journals \cup {None},
                               pointer : Journals \cup {None}, namespace : BOOLEAN]]
    /\ faults \in Nat /\ crashes \in Nat /\ abandoned \in BOOLEAN /\ unrestored \in BOOLEAN

\* When the findings are computed, each rests on the last decision in the
\* journal about the transcript as it was last read, or on none and on the
\* assessment: neither a killed review nor a rebuilt database brings back what
\* was dismissed, and no decision outlives the evidence it was about.
FindingsFollowJournals ==
    [][findings' # findings => \A c \in findings' :
         IF journal[c] = <<>> THEN Inferred[episode[c]] = "supported"
         ELSE Last(journal[c]) = [disposition |-> "supported", basis |-> episode[c]]]_vars

\* What was committed of a journal stays in it, whatever failed or was killed
\* (docs/plan/plan.md:556-558, "rather than rewriting history"), as long as no
\* review was undone after its commit: then the next publication takes the
\* record back.
JournalsOnlyGrow ==
    [][~abandoned => \A c \in Candidates : IsPrefix(head[c], head'[c])]_vars

\* The database learns of a decision after the commit that holds it, unless the
\* command was killed in between (docs/notes/artifact-contract.md:189-191) or an
\* error kept it from taking an uncommitted record back.
CommittedFirst ==
    crashes = 0 /\ ~unrestored => \A c \in Candidates :
        decision[c] # None => decision[c].revision <= Len(head[c])

\* However often and wherever reviews failed, the tree they leave can be read,
\* unless a second error hit the undoing of one.
FailureLeavesReadable ==
    pc = "idle" /\ crashes = 0 /\ ~unrestored => Readable

=============================================================================
