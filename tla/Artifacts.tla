----------------------------- MODULE Artifacts ------------------------------
(***************************************************************************)
(* Lessons and guards as files under artifacts_root, the manifest that      *)
(* lists them, and the clusters in the state database that lessons are      *)
(* drafted from: manifest_after_write in twill_artifacts.py around the      *)
(* writes of twill_lessons.py, twill_guards.py and twill_explainer.py.      *)
(*                                                                          *)
(* The state lock admits one command at a time, so one pc is enough.  A     *)
(* command replaces a file, then the manifest; Explain also commits the     *)
(* database, last.  Any step may fail, and the process may be killed        *)
(* between any two.  What a kill leaves behind stays: changed files, an     *)
(* old manifest, temporary files.  Operators edit lesson files without the  *)
(* lock.                                                                    *)
(***************************************************************************)
EXTENDS Lesson, Naturals

CONSTANTS
    Lessons,        \* lesson ids; each is the hash of one cluster's id
    Absent,         \* no such file
    Torn,           \* a file whose writer was killed half-way
    MaxCrashes,     \* bound: commands that are killed
    MaxFaults,      \* bound: file system or database errors
    MaxEdits,       \* bound: edits by hand
    MaxCommands     \* bound: commands on single lessons

ASSUME ArtifactsAssumption ==
    /\ Absent # Torn
    /\ None \notin Lessons \cup Text
    /\ {Absent, Torn} \cap Record = {}
    /\ {MaxCrashes, MaxFaults, MaxEdits, MaxCommands} \subseteq Nat

VARIABLES
    lessons,   \* file of each lesson
    guards,    \* guard files, as pairs of a lesson and a template
    manifest,  \* what manifest.json lists, or None
    litter,    \* where killed writers left temporary files
    cluster,   \* state of the cluster behind each lesson
    quota,     \* whether this week's Explain invocation is spent
    pc,        \* the running command's next step
    job,       \* what it is to do: lesson, template and stage
    next,      \* the record it has prepared
    drafts,    \* lessons Explain is to write, with their texts
    todo,      \* those it has not created yet
    undo,      \* lesson files it has not restored yet
    saved,     \* lessons and guards when the transaction began
    crashes, faults, edits, commands

files == <<lessons, guards, manifest, litter>>
database == <<cluster, quota>>
process == <<pc, job, next, drafts, todo, undo, saved>>
counters == <<crashes, faults, edits, commands>>
vars == <<files, database, process, counters>>

Tree == [lessons |-> lessons, guards |-> guards]

\* A tree with no artifact in it.
Empty == [lessons |-> [l \in Lessons |-> Absent], guards |-> {}]

Readable(l) == lessons[l] \notin {Absent, Torn}

NoJob == [lesson |-> None, template |-> None, stage |-> "none"]

Stage == {"none", "record", "guard", "attach", "drafts", "mirrors"}

Cluster == {"none", "open", "drafted", "dismissed"}

Trees == [lessons : [Lessons -> Record \cup {Absent, Torn}],
          guards : SUBSET (Lessons \X Template)]

ASSUME ManifestAssumption == None \notin Trees

TypeOK ==
    /\ lessons \in [Lessons -> Record \cup {Absent, Torn}]
    /\ guards \in SUBSET (Lessons \X Template)
    /\ manifest \in Trees \cup {None}
    /\ litter \in SUBSET {"namespace", "root"}
    /\ cluster \in [Lessons -> Cluster]
    /\ quota \in BOOLEAN
    /\ pc \in {"idle", "create", "write", "manifest", "commit", "restore"}
    /\ job \in [lesson : Lessons \cup {None}, template : Template \cup {None}, stage : Stage]
    /\ next \in Record \cup {Absent}
    /\ drafts \in [Lessons -> Text \cup {None}]
    /\ todo \in SUBSET Lessons
    /\ undo \in SUBSET Lessons
    /\ saved \in Trees
    /\ crashes \in Nat /\ faults \in Nat /\ edits \in Nat /\ commands \in Nat

NoDrafts == [l \in Lessons |-> None]

Init ==
    /\ lessons = Empty.lessons /\ guards = {} /\ manifest = None /\ litter = {}
    /\ cluster = [l \in Lessons |-> "none"] /\ quota = FALSE
    /\ pc = "idle" /\ job = NoJob /\ next = Absent /\ drafts = NoDrafts
    /\ todo = {} /\ undo = {} /\ saved = Empty
    /\ crashes = 0 /\ faults = 0 /\ edits = 0 /\ commands = 0

-----------------------------------------------------------------------------
(* Transactions on files *)

\* The process forgets everything; files and database keep what they have.
Ended ==
    /\ pc' = "idle" /\ job' = NoJob /\ next' = Absent /\ drafts' = NoDrafts
    /\ todo' = {} /\ undo' = {} /\ saved' = Empty

\* manifest_after_write takes its snapshot before the first write.
Begin(l, t, stage, record) ==
    /\ pc' = "write"
    /\ job' = [lesson |-> l, template |-> t, stage |-> stage]
    /\ next' = record
    /\ saved' = Tree
    /\ UNCHANGED <<drafts, todo, undo>>

\* The lesson files a transaction may have touched.
Touched ==
    CASE job.stage = "drafts" -> {l \in Lessons : drafts[l] # None}
      [] job.stage \in {"record", "attach"} -> {job.lesson}
      [] OTHER -> {}

\* An error: some lesson files are restored, one after the other.
GiveUp(some) ==
    /\ pc' = "restore"
    /\ undo' = some
    /\ UNCHANGED <<job, next, drafts, todo, saved>>

\* What the write step of a transaction does to the files.
Replaced ==
    IF job.stage = "guard"
    THEN /\ guards' = guards \cup {<<job.lesson, job.template>>}
         /\ UNCHANGED lessons
    ELSE /\ lessons' = [lessons EXCEPT ![job.lesson] = next]
         /\ UNCHANGED guards

Write ==
    /\ pc = "write"
    /\ Replaced
    /\ pc' = "manifest"
    /\ UNCHANGED <<manifest, litter, database, job, next, drafts, todo, undo, saved, counters>>

\* The error comes before or after the rename.
WriteFails ==
    /\ pc = "write"
    /\ faults < MaxFaults
    /\ faults' = faults + 1
    /\ Replaced \/ UNCHANGED <<lessons, guards>>
    /\ GiveUp(Touched)
    /\ UNCHANGED <<manifest, litter, database, crashes, edits, commands>>

\* write_manifest, and what the command goes on to do.  The inventory refuses
\* any file it does not recognise, temporary files of killed writers too.
WriteManifest ==
    /\ pc = "manifest"
    /\ "namespace" \notin litter
    /\ manifest' = Tree
    /\ CASE job.stage = "drafts" ->
              pc' = "commit" /\ UNCHANGED <<job, next, drafts, todo, undo, saved>>
         [] job.stage = "record" /\ job.template # None ->
              Begin(job.lesson, job.template, "guard", Absent)
         [] job.stage = "guard" /\ lessons[job.lesson].layer = RequiredLayer(job.template) ->
              Begin(job.lesson, job.template, "attach",
                    Guarded(lessons[job.lesson], job.template))
         [] job.stage = "mirrors" /\ job.lesson # None ->
              Begin(job.lesson, None, "record", Resolved(lessons[job.lesson]))
         [] OTHER -> Ended
    /\ UNCHANGED <<lessons, guards, litter, database, counters>>

\* Mutant: a manifest that cannot be written ends the command.
ManifestFailsOnly ==
    /\ pc = "manifest"
    /\ \/ "namespace" \in litter /\ UNCHANGED faults
       \/ faults < MaxFaults /\ faults' = faults + 1
    /\ Ended
    /\ UNCHANGED <<files, database, crashes, edits, commands>>

ManifestFails ==
    /\ pc = "manifest"
    /\ \/ "namespace" \in litter /\ UNCHANGED faults
       \/ faults < MaxFaults /\ faults' = faults + 1
    /\ GiveUp(Touched)
    /\ UNCHANGED <<files, database, crashes, edits, commands>>

RestoreLesson(l) ==
    /\ pc = "restore"
    /\ l \in undo
    /\ lessons' = [lessons EXCEPT ![l] = saved.lessons[l]]
    /\ undo' = undo \ {l}
    /\ UNCHANGED <<guards, manifest, litter, database, pc, job, next, drafts, todo, saved,
                   counters>>

\* The guard, if this transaction wrote one, and the end of the command.
RestoreRest ==
    /\ pc = "restore"
    /\ undo = {}
    /\ guards' = IF job.stage = "guard" THEN saved.guards ELSE guards
    /\ Ended
    /\ UNCHANGED <<lessons, manifest, litter, database, counters>>

\* An error while restoring ends the command with the rest not restored.
RestoreFails ==
    /\ pc = "restore"
    /\ faults < MaxFaults
    /\ faults' = faults + 1
    /\ Ended
    /\ UNCHANGED <<files, database, crashes, edits, commands>>

-----------------------------------------------------------------------------
(* Commands on one lesson *)

CommandStarts ==
    /\ pc = "idle"
    /\ commands < MaxCommands
    /\ commands' = commands + 1

\* accept and unapply both ask for the state accepted.
Accept(l) ==
    /\ CommandStarts
    /\ Readable(l)
    /\ "accepted" \in Legal(lessons[l].state)
    /\ Begin(l, None, "record", Accepted(lessons[l]))
    /\ UNCHANGED <<files, database, crashes, faults, edits>>

\* apply, with the guard template t if --emit-guard is given.
Apply(l, layer, bead, t) ==
    /\ CommandStarts
    /\ Readable(l)
    /\ Owned(layer, bead)
    /\ t # None => RequiredLayer(t) = layer
    /\ \/ /\ "applied" \in Legal(lessons[l].state)
          /\ Begin(l, t, "record", Applied(lessons[l], layer, bead))
       \/ /\ AlreadyApplied(lessons[l], layer, bead)
          /\ t # None
          /\ Begin(l, t, "guard", Absent)
    /\ UNCHANGED <<files, database, crashes, faults, edits>>

\* measure reads every lesson, writes its mirrors (not modelled here) and the
\* manifest, and then resolves a lesson that has stopped recurring, if any.
Measure(l) ==
    /\ CommandStarts
    /\ \A k \in Lessons : lessons[k] # Torn
    /\ l # None => Readable(l) /\ lessons[l].state = "applied"
    /\ pc' = "manifest"
    /\ job' = [NoJob EXCEPT !.lesson = l, !.stage = "mirrors"]
    /\ saved' = Tree
    /\ UNCHANGED <<files, database, next, drafts, todo, undo, crashes, faults, edits>>

-----------------------------------------------------------------------------
(* Commands on clusters *)

\* detect inserts the clusters it finds as open and deletes open ones it no
\* longer finds; a drafted or dismissed one stays what it is.
Detect(found) ==
    /\ pc = "idle"
    /\ cluster' = [l \in Lessons |->
                     CASE cluster[l] = "none" /\ l \in found -> "open"
                       [] cluster[l] = "open" /\ l \notin found -> "none"
                       [] OTHER -> cluster[l]]
    /\ UNCHANGED <<files, quota, process, counters>>

Dismiss(l) ==
    /\ pc = "idle"
    /\ cluster[l] # "none"
    /\ cluster' = [cluster EXCEPT ![l] = "dismissed"]
    /\ UNCHANGED <<files, quota, process, counters>>

\* doctor --rebuild lays down a fresh database.
Rebuild ==
    /\ pc = "idle"
    /\ cluster' = [l \in Lessons |-> "none"]
    /\ quota' = FALSE
    /\ UNCHANGED <<files, process, counters>>

NewWeek ==
    /\ quota
    /\ quota' = FALSE
    /\ UNCHANGED <<files, cluster, process, counters>>

\* The reservation is committed before the model is called, so a call that
\* fails, or whose answer cannot be written, has spent the week.
ExplainFails ==
    /\ pc = "idle"
    /\ ~quota
    /\ quota' = TRUE
    /\ UNCHANGED <<files, cluster, process, counters>>

\* Mutant: a lesson that exists is written again.
ExplainAgain(batch, text) ==
    /\ pc = "idle"
    /\ ~quota
    /\ batch # {}
    /\ \A l \in batch : cluster[l] = "open"
    /\ quota' = TRUE
    /\ drafts' = [l \in Lessons |-> IF l \in batch THEN text[l] ELSE None]
    /\ todo' = batch
    /\ saved' = Tree
    /\ job' = [NoJob EXCEPT !.stage = "drafts"]
    /\ pc' = "create"
    /\ UNCHANGED <<files, cluster, next, undo, counters>>

\* Every lesson of the batch is new, or is there already with the same bytes.
\* Its clusters were read as open ones under the same lock, so that the check at
\* the end, which drafted ones would pass too, sees none of these.
Explain(batch, text) ==
    /\ pc = "idle"
    /\ ~quota
    /\ batch # {}
    /\ \A l \in batch : cluster[l] = "open" /\ lessons[l] \in {Absent, Draft(text[l])}
    /\ quota' = TRUE
    /\ drafts' = [l \in Lessons |-> IF l \in batch THEN text[l] ELSE None]
    /\ todo' = {l \in batch : lessons[l] = Absent}
    /\ saved' = Tree
    /\ job' = [NoJob EXCEPT !.stage = "drafts"]
    /\ pc' = "create"
    /\ UNCHANGED <<files, cluster, next, undo, counters>>

Create(l) ==
    /\ pc = "create"
    /\ l \in todo
    /\ lessons' = [lessons EXCEPT ![l] = Draft(drafts[l])]
    /\ todo' = todo \ {l}
    /\ UNCHANGED <<guards, manifest, litter, database, pc, job, next, drafts, undo, saved,
                   counters>>

Created ==
    /\ pc = "create"
    /\ todo = {}
    /\ pc' = "manifest"
    /\ UNCHANGED <<files, database, job, next, drafts, todo, undo, saved, counters>>

CreateFails ==
    /\ pc = "create"
    /\ todo # {}
    /\ faults < MaxFaults
    /\ faults' = faults + 1
    /\ GiveUp(Touched)
    /\ UNCHANGED <<files, database, crashes, edits, commands>>

CommitDrafts ==
    /\ pc = "commit"
    /\ cluster' = [l \in Lessons |-> IF drafts[l] # None THEN "drafted" ELSE cluster[l]]
    /\ Ended
    /\ UNCHANGED <<files, quota, counters>>

\* The manifest is written by now; only the lessons just created are taken back.
CommitFails ==
    /\ pc = "commit"
    /\ faults < MaxFaults
    /\ faults' = faults + 1
    /\ GiveUp({l \in Touched : saved.lessons[l] = Absent})
    /\ UNCHANGED <<files, database, crashes, edits, commands>>

-----------------------------------------------------------------------------
(* The environment *)

\* A killed writer may leave a temporary file or, when it creates a lesson in
\* place, a part of it.
Crash ==
    /\ pc # "idle"
    /\ crashes < MaxCrashes
    /\ crashes' = crashes + 1
    /\ \/ UNCHANGED <<lessons, litter>>
       \/ /\ pc \in {"write", "restore"} \/ job.stage = "mirrors"
          /\ litter' = litter \cup {"namespace"}
          /\ UNCHANGED lessons
       \/ /\ pc = "manifest"
          /\ litter' = litter \cup {"root"}
          /\ UNCHANGED lessons
       \/ /\ pc = "create"
          /\ \E l \in todo : lessons' = [lessons EXCEPT ![l] = Torn]
          /\ UNCHANGED litter
    /\ Ended
    /\ UNCHANGED <<guards, manifest, database, faults, edits, commands>>

HandEdit(l, t) ==
    /\ edits < MaxEdits
    /\ edits' = edits + 1
    /\ Readable(l)
    /\ t # lessons[l].text
    /\ lessons' = [lessons EXCEPT ![l].text = t]
    /\ UNCHANGED <<guards, manifest, litter, database, process, crashes, faults, commands>>

\* Operators remove what killed writers left.
CleanUp ==
    /\ pc = "idle"
    /\ litter' = {}
    /\ lessons' = [l \in Lessons |-> IF lessons[l] = Torn THEN Absent ELSE lessons[l]]
    /\ UNCHANGED <<guards, manifest, database, process, counters>>

-----------------------------------------------------------------------------
LessonCommand ==
    \E l \in Lessons :
        \/ Accept(l)
        \/ \E layer \in Layer, bead \in Bead \cup {None}, t \in Template \cup {None} :
              Apply(l, layer, bead, t)

ClusterCommand ==
    \/ \E found \in SUBSET Lessons : Detect(found)
    \/ \E l \in Lessons : Dismiss(l)
    \/ (\E l \in Lessons \cup {None} : Measure(l))
    \/ Rebuild
    \/ ExplainFails
    \/ \E batch \in SUBSET Lessons, text \in [Lessons -> Text] : Explain(batch, text)

Transaction ==
    \/ Write \/ WriteFails
    \/ WriteManifest \/ ManifestFails
    \/ (\E l \in Lessons : RestoreLesson(l)) \/ RestoreRest \/ RestoreFails
    \/ (\E l \in Lessons : Create(l)) \/ Created \/ CreateFails
    \/ CommitDrafts \/ CommitFails
    \/ Crash

Surroundings ==
    \/ NewWeek
    \/ \E l \in Lessons, t \in Text : HandEdit(l, t)

Next == LessonCommand \/ ClusterCommand \/ Transaction \/ Surroundings \/ CleanUp

Spec == Init /\ [][Next]_vars

-----------------------------------------------------------------------------
(* Properties *)

\* Between commands the manifest lists exactly the files that are there, as
\* long as nobody edited one, no command was killed, and no error hit the
\* handling of another: a command that fails restores what it changed
\* (manifest_after_write).  One gap is known: drafts that are unlinked because
\* the database commit failed stay in the manifest.
FailureRestoresFiles ==
    pc = "idle" /\ crashes = 0 /\ edits = 0 /\ faults <= 1 =>
        \/ manifest = None /\ Tree = Empty
        \/ /\ manifest # None
           /\ manifest.guards = guards
           /\ \A l \in Lessons :
                 \/ manifest.lessons[l] = lessons[l]
                 \/ /\ faults = 1 /\ cluster[l] # "drafted"
                    /\ lessons[l] = Absent /\ manifest.lessons[l].state = "draft"

\* Whatever sequence of accept, apply, unapply and measure a lesson went
\* through, load_lesson reads it: owner, date and layer agree with its state.
LessonsLoad ==
    \A l \in Lessons : Readable(l) => Valid(lessons[l])

\* A lesson never refers to a guard file that is not there, not even after a
\* kill between the three transactions of apply --emit-guard.
GuardsAreWritten ==
    \A l \in Lessons :
        Readable(l) /\ lessons[l].guard # None => <<l, lessons[l].guard>> \in guards

\* A cluster marked drafted has a lesson that was written in full: the files
\* come before the commit that marks it (write_lesson_files).
DraftedIsWritten ==
    \A l \in Lessons : cluster[l] = "drafted" => Readable(l)

\* dismiss suppresses a cluster permanently (dismiss_cluster's docstring): TLC
\* refutes it (README).
DismissalIsPermanent ==
    [][\A l \in Lessons : cluster[l] = "dismissed" => cluster'[l] = "dismissed"]_vars

\* A command is rolled back at the manifest only when an error happens:
\* temporary files of killed writers are no inventory entries
\* (docs/notes/artifact-contract.md:96) and do not stop later commands.  TLC
\* refutes it (README).
RollbackNeedsAnError ==
    [][pc = "manifest" /\ pc' = "restore" => faults' > faults]_vars

\* The lifecycle state that counts: before the command while one may still be
\* rolled back, otherwise what is in the file.
Counts == IF pc = "idle" THEN lessons ELSE saved.lessons

Lifecycle ==
    INSTANCE Lifecycle WITH
        stage <- [l \in Lessons |->
                    IF Counts[l] \in {Absent, Torn} THEN <<"none", None>>
                    ELSE <<Counts[l].state, Counts[l].layer>>]

\* With rollbacks, kills and errors, a lesson still only moves along the
\* lifecycle of twill_lessons.py.
ImplementsLifecycle == Lifecycle!Spec
=============================================================================
