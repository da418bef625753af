------------------------- MODULE PublicationProofs --------------------------
(***************************************************************************)
(* Proofs about Artifacts, for any number of lessons, commands, crashes     *)
(* and errors: types, readable lessons, guard references, drafted clusters; *)
(* and about Publication, which extends it: sound commits, clean indexes.   *)
(***************************************************************************)
EXTENDS Publication, TLAPS

\* A tree whose lessons load and refer to guard files it has.
Good(ls, gs) ==
    \A l \in Lessons :
        ls[l] \in Record =>
            /\ Valid(ls[l])
            /\ ls[l].guard # None => <<l, ls[l].guard>> \in gs

\* What the steps of a command may rely on.
JobOK ==
    /\ pc = "write" =>
          /\ job.stage \in {"record", "guard", "attach"}
          /\ job.stage = "guard" => lessons[job.lesson] \in Record
          /\ job.stage # "guard" =>
                /\ next \in Record
                /\ Valid(next)
                /\ next.guard # None => <<job.lesson, next.guard>> \in guards
    /\ job.stage \in {"record", "guard", "attach"} => job.lesson \in Lessons
    /\ job.stage = "guard" => job.template # None /\ Good(lessons, saved.guards)
    /\ pc = "manifest" =>
          /\ job.stage \in {"record", "guard", "attach"} => lessons[job.lesson] \in Record
          /\ job.stage = "guard" => <<job.lesson, job.template>> \in guards
          /\ job.stage = "mirrors" /\ job.lesson # None =>
                lessons[job.lesson] \in Record /\ lessons[job.lesson].state = "applied"

\* What Explain has written of its batch.
DraftsOK ==
    /\ pc = "create" =>
          /\ job.stage = "drafts"
          /\ \A l \in todo : drafts[l] # None /\ saved.lessons[l] = Absent
          /\ \A l \in Lessons : drafts[l] # None /\ l \notin todo => lessons[l] \in Record
    /\ pc \in {"manifest", "commit"} /\ job.stage = "drafts" =>
          \A l \in Lessons : drafts[l] # None => lessons[l] \in Record
    /\ pc = "commit" => job.stage = "drafts"

Inv ==
    /\ TypeOK
    /\ Good(lessons, guards)
    /\ Good(saved.lessons, saved.guards)
    /\ saved.guards \subseteq guards
    /\ \A l \in Lessons :
          cluster[l] = "drafted" =>
              lessons[l] \in Record /\ (pc # "idle" => saved.lessons[l] \in Record)
    /\ JobOK
    /\ DraftsOK

-----------------------------------------------------------------------------
(* Records *)

LEMMA DraftLoads ==
  ASSUME NEW t \in Text
  PROVE  Draft(t) \in Record /\ Valid(Draft(t)) /\ Draft(t).guard = None
  BY LessonAssumption DEF Draft, Record, Valid, State, Terminal, Template

LEMMA AcceptedLoads ==
  ASSUME NEW r \in Record, Valid(r)
  PROVE  Accepted(r) \in Record /\ Valid(Accepted(r)) /\ Accepted(r).guard = r.guard
  BY LessonAssumption DEF Accepted, Record, Valid, State, Terminal, Template

LEMMA AppliedLoads ==
  ASSUME NEW r \in Record, Valid(r), NEW layer \in Layer, NEW bead \in Bead \cup {None},
         Owned(layer, bead)
  PROVE  /\ Applied(r, layer, bead) \in Record
         /\ Valid(Applied(r, layer, bead))
         /\ Applied(r, layer, bead).guard = r.guard
  BY LessonAssumption DEF Applied, Owned, Record, Valid, State, Terminal, Template

LEMMA ResolvedLoads ==
  ASSUME NEW r \in Record, Valid(r), r.state = "applied"
  PROVE  Resolved(r) \in Record /\ Valid(Resolved(r)) /\ Resolved(r).guard = r.guard
  BY LessonAssumption DEF Resolved, Record, Valid, State, Terminal, Template

LEMMA GuardedLoads ==
  ASSUME NEW r \in Record, Valid(r), NEW t \in Template
  PROVE  Guarded(r, t) \in Record /\ Valid(Guarded(r, t)) /\ Guarded(r, t).guard = t
  BY DEF Guarded, Record, Valid

LEMMA EditedLoads ==
  ASSUME NEW r \in Record, Valid(r), NEW t \in Text
  PROVE  LET e == [r EXCEPT !.text = t]
         IN  e \in Record /\ Valid(e) /\ e.guard = r.guard /\ e.state = r.state
  BY DEF Record, Valid

-----------------------------------------------------------------------------
(* The steps *)

LEMMA InvInit == Init => Inv
<1> SUFFICES ASSUME Init PROVE Inv
  OBVIOUS
<1>1. quota \in BOOLEAN
  BY Zenon DEF Init
<1> QED
  BY <1>1, ArtifactsAssumption
  DEF Init, Empty, NoJob, NoDrafts, Trees, Cluster, Stage, Inv, TypeOK, Good, JobOK,
      DraftsOK

LEMMA InvNewWeek ==
  ASSUME Inv, NewWeek
  PROVE  Inv'
<1>1. quota' \in BOOLEAN
  BY Zenon DEF NewWeek
<1> QED
  BY <1>1
  DEF NewWeek, files, process, counters, Trees, Cluster, Stage, Inv, TypeOK, Good, JobOK,
      DraftsOK

LEMMA InvCrash ==
  ASSUME Inv, Crash
  PROVE  Inv'
<1>1. litter' \subseteq {"namespace", "root"}
  BY DEF Crash, Inv, TypeOK
<1>2. (TypeOK /\ JobOK /\ DraftsOK)'
  BY <1>1, ArtifactsAssumption
  DEF Crash, Ended, database, NoJob, NoDrafts, Empty, Trees, Cluster, Stage, Inv, TypeOK,
      Good, JobOK, DraftsOK
<1>3. (Good(lessons, guards) /\ Good(saved.lessons, saved.guards) /\ saved.guards \subseteq guards)'
  BY ArtifactsAssumption
  DEF Crash, Ended, database, NoJob, NoDrafts, Empty, Trees, Cluster, Stage, Inv, TypeOK,
      Good, JobOK, DraftsOK
<1> QED
  BY <1>2, <1>3, ArtifactsAssumption
  DEF Crash, Ended, database, NoJob, NoDrafts, Empty, Trees, Cluster, Stage, Inv, TypeOK,
      Good, JobOK, DraftsOK

LEMMA InvAccept ==
  ASSUME Inv, NEW l \in Lessons, Accept(l)
  PROVE  Inv'
<1>1. /\ lessons[l] \in Record
      /\ Valid(lessons[l])
      /\ lessons[l].guard # None => <<l, lessons[l].guard>> \in guards
  BY DEF Accept, Readable, Inv, TypeOK, Good
<1>2. /\ next' \in Record
      /\ Valid(next')
      /\ next'.guard # None => <<l, next'.guard>> \in guards
  BY <1>1, AcceptedLoads DEF Accept, Begin
<1> QED
  BY <1>2, LessonAssumption
  DEF Accept, CommandStarts, Readable, Begin, files, database, Tree, Trees, Cluster,
      Stage, Inv, TypeOK, Good, JobOK, DraftsOK

LEMMA InvApply ==
  ASSUME Inv,
         NEW l \in Lessons, NEW layer \in Layer, NEW bead \in Bead \cup {None},
         NEW t \in Template \cup {None},
         Apply(l, layer, bead, t)
  PROVE  Inv'
<1>1. /\ lessons[l] \in Record
      /\ Valid(lessons[l])
      /\ lessons[l].guard # None => <<l, lessons[l].guard>> \in guards
  BY DEF Apply, Readable, Inv, TypeOK, Good
<1>2. \/ /\ job' = [lesson |-> l, template |-> t, stage |-> "record"]
         /\ next' \in Record
         /\ Valid(next')
         /\ next'.guard # None => <<l, next'.guard>> \in guards
      \/ /\ job' = [lesson |-> l, template |-> t, stage |-> "guard"]
         /\ t # None
         /\ next' = Absent
  BY <1>1, AppliedLoads DEF Apply, Begin
<1>3. /\ pc' = "write" /\ saved' = Tree
      /\ UNCHANGED <<files, database, drafts, todo, undo, crashes, faults, edits>>
      /\ commands' = commands + 1
  BY DEF Apply, Begin, CommandStarts
<1> QED
  BY <1>1, <1>2, <1>3
  DEF files, database, Tree, Trees, Stage, Inv, TypeOK, Good, JobOK, DraftsOK

LEMMA InvMeasure ==
  ASSUME Inv, NEW l \in Lessons \cup {None}, Measure(l)
  PROVE  Inv'
<1>1. job' = [lesson |-> l, template |-> None, stage |-> "mirrors"]
  BY DEF Measure, NoJob
<1>2. l # None => lessons[l] \in Record /\ lessons[l].state = "applied"
  BY DEF Measure, Readable, Inv, TypeOK
<1>3. /\ pc' = "manifest" /\ saved' = Tree
      /\ UNCHANGED <<files, database, next, drafts, todo, undo, crashes, faults, edits>>
      /\ commands' = commands + 1
  BY DEF Measure, CommandStarts
<1> QED
  BY <1>1, <1>2, <1>3
  DEF files, database, Tree, Trees, Stage, Inv, TypeOK, Good, JobOK, DraftsOK

LEMMA InvWriteManifest ==
  ASSUME Inv, WriteManifest
  PROVE  Inv'
<1>1. CASE job.stage = "drafts"
  BY <1>1
  DEF WriteManifest, Tree, Begin, Ended, database, counters, NoJob, NoDrafts, Empty,
      Trees, Cluster, Stage, Inv, TypeOK, Good, JobOK, DraftsOK
<1>2. CASE job.stage = "record" /\ job.template # None
  BY <1>2
  DEF WriteManifest, Tree, Begin, Ended, database, counters, NoJob, NoDrafts, Empty,
      Trees, Cluster, Stage, Inv, TypeOK, Good, JobOK, DraftsOK
<1>3. CASE job.stage = "guard" /\ lessons[job.lesson].layer = RequiredLayer(job.template)
  <2>1. /\ lessons[job.lesson] \in Record
        /\ Valid(lessons[job.lesson])
        /\ job.template \in Template
        /\ <<job.lesson, job.template>> \in guards
    BY <1>3 DEF WriteManifest, Inv, TypeOK, Good, JobOK
  <2>2. next' = Guarded(lessons[job.lesson], job.template)
    BY <1>3 DEF WriteManifest, Begin
  <2>3. /\ next' \in Record
        /\ Valid(next')
        /\ next'.guard = job.template
    BY <2>1, <2>2, GuardedLoads
  <2> QED
    BY <1>3, <2>1, <2>3
    DEF WriteManifest, Tree, Begin, Ended, database, counters, NoJob, NoDrafts, Empty,
        Trees, Cluster, Stage, Inv, TypeOK, Good, JobOK, DraftsOK
<1>4. CASE job.stage = "mirrors" /\ job.lesson # None
  <2>1. /\ lessons[job.lesson] \in Record
        /\ Valid(lessons[job.lesson])
        /\ lessons[job.lesson].guard # None
             => <<job.lesson, lessons[job.lesson].guard>> \in guards
        /\ lessons[job.lesson].state = "applied"
    BY <1>4 DEF WriteManifest, Inv, TypeOK, Good, JobOK
  <2>2. /\ next' \in Record
        /\ Valid(next')
        /\ next'.guard # None => <<job.lesson, next'.guard>> \in guards
    BY <1>4, <2>1, ResolvedLoads DEF WriteManifest, Begin
  <2> QED
    BY <1>4, <2>2
    DEF WriteManifest, Tree, Begin, Ended, database, counters, NoJob, NoDrafts, Empty,
        Trees, Cluster, Stage, Inv, TypeOK, Good, JobOK, DraftsOK
<1>5. CASE Ended /\ manifest' = Tree /\ UNCHANGED <<lessons, guards, litter, database, counters>>
  BY <1>5, ArtifactsAssumption
  DEF WriteManifest, Tree, Begin, Ended, database, counters, NoJob, NoDrafts, Empty,
      Trees, Cluster, Stage, Inv, TypeOK, Good, JobOK, DraftsOK
<1> QED
  BY <1>1, <1>2, <1>3, <1>4, <1>5 DEF WriteManifest

LEMMA InvHandEdit ==
  ASSUME Inv, NEW l \in Lessons, NEW t \in Text, HandEdit(l, t)
  PROVE  Inv'
<1> DEFINE e == [lessons[l] EXCEPT !.text = t]
<1>1. /\ lessons[l] \in Record
      /\ Valid(lessons[l])
  BY DEF HandEdit, Readable, Inv, TypeOK, Good
<1>2. /\ e \in Record
      /\ Valid(e)
      /\ e.guard = lessons[l].guard
      /\ e.state = lessons[l].state
  BY <1>1, EditedLoads
<1>3. /\ lessons' = [lessons EXCEPT ![l] = e]
      /\ edits' = edits + 1
      /\ UNCHANGED <<guards, manifest, litter, database, process, crashes, faults, commands>>
  BY DEF HandEdit
<1> HIDE DEF e
<1>4. /\ lessons' \in [Lessons -> Record \cup {Absent, Torn}]
      /\ \A k \in Lessons :
            /\ lessons[k] \in Record <=> lessons'[k] \in Record
            /\ lessons[k] \in Record =>
                  /\ Valid(lessons'[k]) <=> Valid(lessons[k])
                  /\ lessons'[k].guard = lessons[k].guard
                  /\ lessons'[k].state = lessons[k].state
  BY <1>1, <1>2, <1>3 DEF Inv, TypeOK
<1>5. /\ UNCHANGED <<guards, cluster, pc, job, next, drafts, todo, saved>>
      /\ TypeOK'
  BY <1>3, <1>4 DEF database, process, Inv, TypeOK
<1>6. (Good(lessons, guards) /\ (job.stage = "guard" => Good(lessons, saved.guards)))'
  BY <1>4, <1>5 DEF Inv, JobOK, Good
<1>7. JobOK'
  BY <1>4, <1>5, <1>6 DEF Inv, TypeOK, JobOK
<1>8. DraftsOK'
  BY <1>4, <1>5 DEF Inv, TypeOK, DraftsOK
<1> QED
  BY <1>4, <1>5, <1>6, <1>7, <1>8 DEF Inv, Good

LEMMA InvWrite ==
  ASSUME Inv, Write
  PROVE  Inv'
  BY ArtifactsAssumption
  DEF Write, Replaced, database, counters, Trees, Cluster, Stage, Inv, TypeOK, Good,
      JobOK, DraftsOK

LEMMA InvWriteFails ==
  ASSUME Inv, WriteFails
  PROVE  Inv'
  BY ArtifactsAssumption
  DEF WriteFails, Replaced, GiveUp, Touched, database, Trees, Cluster, Stage, Inv, TypeOK,
      Good, JobOK, DraftsOK

LEMMA InvManifestFails ==
  ASSUME Inv, ManifestFails
  PROVE  Inv'
  BY ArtifactsAssumption
  DEF ManifestFails, GiveUp, Touched, files, database, Trees, Cluster, Stage, Inv, TypeOK,
      Good, JobOK, DraftsOK

LEMMA InvRestoreLesson ==
  ASSUME Inv, NEW l \in Lessons, RestoreLesson(l)
  PROVE  Inv'
  BY ArtifactsAssumption
  DEF RestoreLesson, database, counters, Trees, Cluster, Stage, Inv, TypeOK, Good, JobOK,
      DraftsOK

LEMMA InvRestoreRest ==
  ASSUME Inv, RestoreRest
  PROVE  Inv'
  BY ArtifactsAssumption
  DEF RestoreRest, Ended, database, counters, NoJob, NoDrafts, Empty, Trees, Cluster,
      Stage, Inv, TypeOK, Good, JobOK, DraftsOK

LEMMA InvRestoreFails ==
  ASSUME Inv, RestoreFails
  PROVE  Inv'
  BY ArtifactsAssumption
  DEF RestoreFails, Ended, files, database, NoJob, NoDrafts, Empty, Trees, Cluster, Stage,
      Inv, TypeOK, Good, JobOK, DraftsOK

LEMMA InvCreate ==
  ASSUME Inv, NEW l \in Lessons, Create(l)
  PROVE  Inv'
  BY ArtifactsAssumption, DraftLoads, SMTT(60)
  DEF Create, database, counters, Trees, Cluster, Stage, Inv, TypeOK, Good, JobOK,
      DraftsOK

LEMMA InvCreated ==
  ASSUME Inv, Created
  PROVE  Inv'
  BY ArtifactsAssumption
  DEF Created, files, database, counters, Trees, Cluster, Stage, Inv, TypeOK, Good, JobOK,
      DraftsOK

LEMMA InvCreateFails ==
  ASSUME Inv, CreateFails
  PROVE  Inv'
  BY ArtifactsAssumption
  DEF CreateFails, GiveUp, Touched, files, database, Trees, Cluster, Stage, Inv, TypeOK,
      Good, JobOK, DraftsOK

LEMMA InvCommitDrafts ==
  ASSUME Inv, CommitDrafts
  PROVE  Inv'
  BY ArtifactsAssumption
  DEF CommitDrafts, Ended, files, counters, NoJob, NoDrafts, Empty, Trees, Cluster, Stage,
      Inv, TypeOK, Good, JobOK, DraftsOK

LEMMA InvCommitFails ==
  ASSUME Inv, CommitFails
  PROVE  Inv'
  BY ArtifactsAssumption
  DEF CommitFails, GiveUp, Touched, files, database, Trees, Cluster, Stage, Inv, TypeOK,
      Good, JobOK, DraftsOK

LEMMA InvDetect ==
  ASSUME Inv, NEW found \in SUBSET Lessons, Detect(found)
  PROVE  Inv'
  BY ArtifactsAssumption
  DEF Detect, files, process, counters, Trees, Cluster, Stage, Inv, TypeOK, Good, JobOK,
      DraftsOK

LEMMA InvDismiss ==
  ASSUME Inv, NEW l \in Lessons, Dismiss(l)
  PROVE  Inv'
  BY ArtifactsAssumption
  DEF Dismiss, files, process, counters, Trees, Cluster, Stage, Inv, TypeOK, Good, JobOK,
      DraftsOK

LEMMA InvRebuild ==
  ASSUME Inv, Rebuild
  PROVE  Inv'
  BY ArtifactsAssumption
  DEF Rebuild, files, process, counters, Trees, Cluster, Stage, Inv, TypeOK, Good, JobOK,
      DraftsOK

LEMMA InvExplainFails ==
  ASSUME Inv, ExplainFails
  PROVE  Inv'
  BY ArtifactsAssumption
  DEF ExplainFails, files, process, counters, Trees, Cluster, Stage, Inv, TypeOK, Good,
      JobOK, DraftsOK

LEMMA InvExplain ==
  ASSUME Inv, NEW batch \in SUBSET Lessons, NEW text \in [Lessons -> Text], Explain(batch, text)
  PROVE  Inv'
  BY ArtifactsAssumption, DraftLoads, SMTT(60)
  DEF Explain, Tree, NoJob, files, counters, Trees, Cluster, Stage, Inv, TypeOK, Good,
      JobOK, DraftsOK

LEMMA InvCleanUp ==
  ASSUME Inv, CleanUp
  PROVE  Inv'
  BY ArtifactsAssumption
  DEF CleanUp, database, process, counters, Trees, Cluster, Stage, Inv, TypeOK, Good,
      JobOK, DraftsOK

LEMMA InvNext ==
  ASSUME Inv, [Next]_vars
  PROVE  Inv'
<1>1. ASSUME NEW l \in Lessons, Accept(l) PROVE Inv'
  BY <1>1, InvAccept
<1>2. ASSUME NEW l \in Lessons, NEW layer \in Layer, NEW bead \in Bead \cup {None},
             NEW t \in Template \cup {None}, Apply(l, layer, bead, t)
      PROVE  Inv'
  BY <1>2, InvApply
<1>3. CASE ClusterCommand
  BY <1>3, InvDetect, InvDismiss, InvMeasure, InvRebuild, InvExplainFails, InvExplain
  DEF ClusterCommand
<1>4. CASE Transaction
  BY <1>4, InvWrite, InvWriteFails, InvWriteManifest, InvManifestFails, InvRestoreLesson,
     InvRestoreRest, InvRestoreFails, InvCreate, InvCreated, InvCreateFails,
     InvCommitDrafts, InvCommitFails, InvCrash
  DEF Transaction
<1>5. CASE Surroundings
  BY <1>5, InvNewWeek, InvHandEdit DEF Surroundings
<1>6. CASE UNCHANGED vars
  BY <1>6 DEF vars, files, database, process, counters, Inv, TypeOK, Good, JobOK, DraftsOK
<1> QED
  BY <1>1, <1>2, <1>3, <1>4, <1>5, <1>6, InvCleanUp DEF Next, LessonCommand

LEMMA InvAlways == Spec => []Inv
  BY InvInit, InvNext, PTL DEF Spec

-----------------------------------------------------------------------------
(* The theorems *)

\* The variables keep their types, whatever fails or is killed.
THEOREM ArtifactsTypeOK == Spec => []TypeOK
<1>1. Inv => TypeOK
  BY DEF Inv
<1> QED
  BY <1>1, InvAlways, PTL

\* Every lesson file that is there in full loads, through any sequence of
\* commands, rollbacks, kills and edits of its text.
THEOREM LessonsAlwaysLoad == Spec => []LessonsLoad
<1>1. Inv => LessonsLoad
  BY DEF Inv, TypeOK, Good, LessonsLoad, Readable
<1> QED
  BY <1>1, InvAlways, PTL

\* A lesson refers only to guard files that exist: apply writes the guard
\* first, and a guard is taken back only while nothing refers to it.
THEOREM GuardsAlwaysWritten == Spec => []GuardsAreWritten
<1>1. Inv => GuardsAreWritten
  BY DEF Inv, TypeOK, Good, GuardsAreWritten, Readable
<1> QED
  BY <1>1, InvAlways, PTL

\* A drafted cluster has its lesson in full, even if Explain was killed or
\* its commit failed.
THEOREM DraftedAlwaysWritten == Spec => []DraftedIsWritten
<1>1. Inv => DraftedIsWritten
  BY ArtifactsAssumption DEF Inv, DraftedIsWritten, Readable
<1> QED
  BY <1>1, InvAlways, PTL
-----------------------------------------------------------------------------
(* The lifecycle *)

\* Where a lesson file stands in its lifecycle.
Phase(r) == IF r \in {Absent, Torn} THEN <<"none", None>> ELSE <<r.state, r.layer>>

Advances(from, to) ==
    \/ from = <<"draft", None>> /\ to = <<"accepted", None>>
    \/ \E layer \in Layer :
          \/ from = <<"accepted", None>> /\ to = <<"applied", layer>>
          \/ from = <<"applied", layer>> /\ to = <<"accepted", None>>
          \/ from = <<"applied", layer>> /\ to = <<"resolved", layer>>

\* What a running command may have done to the phase of a lesson.
Changing(l) ==
    \/ job.stage = "record" /\ l = job.lesson
       /\ Advances(Phase(saved.lessons[l]), Phase(lessons[l]))
    \/ job.stage = "drafts" /\ drafts[l] # None
       /\ Phase(saved.lessons[l]) = <<"none", None>> /\ Phase(lessons[l]) = <<"draft", None>>

\* A running command is at most one step ahead of the tree it may fall back to.
AtMostOneAhead ==
    /\ pc # "idle" => \A l \in Lessons :
          Phase(lessons[l]) = Phase(saved.lessons[l]) \/ Changing(l)
    /\ pc = "write" => \A l \in Lessons : Phase(lessons[l]) = Phase(saved.lessons[l])
    /\ pc = "write" /\ job.stage = "record" =>
          Advances(Phase(saved.lessons[job.lesson]), Phase(next))
    /\ pc = "write" /\ job.stage = "attach" =>
          Phase(next) = Phase(saved.lessons[job.lesson])

LEMMA PhaseOfRecord ==
  ASSUME NEW r \in Record
  PROVE  Phase(r) = <<r.state, r.layer>> /\ r.state \in State /\ r.layer \in Layer \cup {None}
  BY ArtifactsAssumption DEF Phase, Record

LEMMA AcceptedAdvances ==
  ASSUME NEW r \in Record, Valid(r), "accepted" \in Legal(r.state)
  PROVE  Advances(Phase(r), Phase(Accepted(r)))
<1>1. Accepted(r) \in Record /\ Accepted(r).state = "accepted" /\ Accepted(r).layer = None
  BY AcceptedLoads DEF Accepted, Record
<1>2. Phase(r) = <<r.state, r.layer>> /\ Phase(Accepted(r)) = <<"accepted", None>>
  BY <1>1, PhaseOfRecord
<1>3. r.state \in State /\ r.layer \in Layer \cup {None}
  BY PhaseOfRecord
<1>4. \/ r.state = "draft" /\ r.layer = None
      \/ r.state = "applied" /\ r.layer \in Layer
  BY <1>3 DEF Legal, State, Terminal, Valid
<1> QED
  BY <1>2, <1>4 DEF Advances

LEMMA AppliedAdvances ==
  ASSUME NEW r \in Record, Valid(r), "applied" \in Legal(r.state),
         NEW layer \in Layer, NEW bead \in Bead \cup {None}, Owned(layer, bead)
  PROVE  Advances(Phase(r), Phase(Applied(r, layer, bead)))
<1> DEFINE a == Applied(r, layer, bead)
<1>1. a \in Record /\ a.state = "applied" /\ a.layer = layer
  BY AppliedLoads DEF Applied, Record
<1>2. Phase(r) = <<r.state, r.layer>> /\ Phase(a) = <<"applied", layer>>
  BY <1>1, PhaseOfRecord
<1>3. r.state \in State /\ r.layer \in Layer \cup {None}
  BY PhaseOfRecord
<1>4. r.state = "accepted" /\ r.layer = None
  BY <1>3 DEF Legal, State, Terminal, Valid
<1> HIDE DEF a
<1>5. Advances(Phase(r), Phase(a))
  BY <1>2, <1>4 DEF Advances
<1> QED
  BY <1>5 DEF a

LEMMA ResolvedAdvances ==
  ASSUME NEW r \in Record, Valid(r), r.state = "applied"
  PROVE  Advances(Phase(r), Phase(Resolved(r)))
<1>1. Resolved(r) \in Record /\ Resolved(r).state = "resolved" /\ Resolved(r).layer = r.layer
  BY ResolvedLoads DEF Resolved, Record
<1>2. Phase(r) = <<"applied", r.layer>> /\ Phase(Resolved(r)) = <<"resolved", r.layer>>
  BY <1>1, PhaseOfRecord
<1>3. r.layer \in Layer
  BY PhaseOfRecord DEF Valid
<1> QED
  BY <1>2, <1>3 DEF Advances

\* Attaching a guard and editing the text keep the phase.
LEMMA SamePhase ==
  ASSUME NEW r \in Record, NEW t
  PROVE  /\ t \in Template => Phase(Guarded(r, t)) = Phase(r)
         /\ t \in Text => Phase([r EXCEPT !.text = t]) = Phase(r)
         /\ t \in Text => Phase(Draft(t)) = <<"draft", None>>
<1>1. t \in Template => Phase(Guarded(r, t)) = Phase(r)
  <2> SUFFICES ASSUME t \in Template PROVE Phase(Guarded(r, t)) = Phase(r)
    OBVIOUS
  <2>1. Guarded(r, t) \in Record /\ Guarded(r, t).state = r.state /\ Guarded(r, t).layer = r.layer
    BY DEF Guarded, Record
  <2> QED
    BY <2>1, PhaseOfRecord
<1>2. t \in Text => Phase([r EXCEPT !.text = t]) = Phase(r)
  <2> SUFFICES ASSUME t \in Text PROVE Phase([r EXCEPT !.text = t]) = Phase(r)
    OBVIOUS
  <2> DEFINE e == [r EXCEPT !.text = t]
  <2>1. e \in Record /\ e.state = r.state /\ e.layer = r.layer
    BY DEF Record
  <2> HIDE DEF e
  <2>2. Phase(e) = Phase(r)
    BY <2>1, PhaseOfRecord
  <2> QED
    BY <2>2 DEF e
<1>3. t \in Text => Phase(Draft(t)) = <<"draft", None>>
  <2> SUFFICES ASSUME t \in Text PROVE Phase(Draft(t)) = <<"draft", None>>
    OBVIOUS
  <2>1. Draft(t) \in Record /\ Draft(t).state = "draft" /\ Draft(t).layer = None
    BY DraftLoads DEF Draft
  <2> QED
    BY <2>1, PhaseOfRecord
<1> QED
  BY <1>1, <1>2, <1>3

\* A command that begins from idle: the tree it may fall back to is the one
\* that is there.
LEMMA AheadBegins ==
  ASSUME Inv, AtMostOneAhead, pc = "idle", [Next]_vars
  PROVE  /\ AtMostOneAhead'
         /\ \A l \in Lessons : Phase(Counts'[l]) = Phase(Counts[l])
<1>1. \A l \in Lessons : Phase(lessons[l]) = Phase(Counts[l])
  BY DEF Counts
<1>2. ASSUME UNCHANGED <<lessons, process>>
      PROVE  /\ AtMostOneAhead'
             /\ \A l \in Lessons : Phase(Counts'[l]) = Phase(Counts[l])
  BY <1>2 DEF process, AtMostOneAhead, Counts
<1>3. ASSUME lessons' = lessons, saved' = Tree, pc' # "idle",
             pc' = "write" /\ job'.stage = "record" =>
                 Advances(Phase(lessons[job'.lesson]), Phase(next')),
             job'.stage # "attach"
      PROVE  /\ AtMostOneAhead'
             /\ \A l \in Lessons : Phase(Counts'[l]) = Phase(Counts[l])
  BY <1>1, <1>3 DEF AtMostOneAhead, Counts, Tree
<1>4. ASSUME NEW l \in Lessons, Readable(l) PROVE lessons[l] \in Record /\ Valid(lessons[l])
  BY <1>4 DEF Readable, Inv, TypeOK, Good
<1>5. ASSUME NEW l \in Lessons, Accept(l)
      PROVE  /\ AtMostOneAhead'
             /\ \A k \in Lessons : Phase(Counts'[k]) = Phase(Counts[k])
  <2>1. Advances(Phase(lessons[l]), Phase(Accepted(lessons[l])))
    BY <1>4, <1>5, AcceptedAdvances DEF Accept
  <2>2. lessons' = lessons /\ saved' = Tree /\ pc' # "idle"
        /\ job'.lesson = l /\ job'.stage = "record" /\ next' = Accepted(lessons[l])
    BY <1>5 DEF Accept, Begin, files
  <2> QED
    BY <1>3, <2>1, <2>2
<1>6. ASSUME NEW l \in Lessons, NEW layer \in Layer, NEW bead \in Bead \cup {None},
             NEW t \in Template \cup {None}, Apply(l, layer, bead, t)
      PROVE  /\ AtMostOneAhead'
             /\ \A k \in Lessons : Phase(Counts'[k]) = Phase(Counts[k])
  <2>1. lessons' = lessons /\ saved' = Tree /\ pc' # "idle" /\ job'.lesson = l
        /\ job'.stage \in {"record", "guard"}
    BY <1>6 DEF Apply, Begin, files
  <2>2. job'.stage = "record" => "applied" \in Legal(lessons[l].state)
                                 /\ next' = Applied(lessons[l], layer, bead)
    BY <1>6 DEF Apply, Begin
  <2>3. job'.stage = "record" => Advances(Phase(lessons[l]), Phase(next'))
    BY <1>4, <1>6, <2>2, AppliedAdvances DEF Apply
  <2> QED
    BY <1>3, <2>1, <2>3
<1>7. ASSUME NEW l \in Lessons \cup {None}, Measure(l)
      PROVE  /\ AtMostOneAhead'
             /\ \A k \in Lessons : Phase(Counts'[k]) = Phase(Counts[k])
  BY <1>3, <1>7 DEF Measure, NoJob, files
<1>8. ASSUME NEW batch \in SUBSET Lessons, NEW text \in [Lessons -> Text], Explain(batch, text)
      PROVE  /\ AtMostOneAhead'
             /\ \A k \in Lessons : Phase(Counts'[k]) = Phase(Counts[k])
  BY <1>3, <1>8 DEF Explain, NoJob, files
<1>9. ASSUME NEW l \in Lessons, NEW t \in Text, HandEdit(l, t)
      PROVE  /\ AtMostOneAhead'
             /\ \A k \in Lessons : Phase(Counts'[k]) = Phase(Counts[k])
  <2>1. Phase(lessons'[l]) = Phase(lessons[l]) /\ \A k \in Lessons \ {l} : lessons'[k] = lessons[k]
    BY <1>4, <1>9, SamePhase DEF HandEdit, Inv, TypeOK
  <2>2. pc' = "idle"
    BY <1>9 DEF HandEdit, process
  <2> QED
    BY <2>1, <2>2 DEF AtMostOneAhead, Counts
<1>10. ASSUME CleanUp
       PROVE  /\ AtMostOneAhead'
              /\ \A k \in Lessons : Phase(Counts'[k]) = Phase(Counts[k])
  <2>1. \A k \in Lessons : Phase(lessons'[k]) = Phase(lessons[k])
    BY <1>10 DEF CleanUp, Phase
  <2>2. pc' = "idle"
    BY <1>10 DEF CleanUp, process
  <2> QED
    BY <2>1, <2>2 DEF AtMostOneAhead, Counts
<1>11. ASSUME ClusterCommand \/ Surroundings
       PROVE  \/ UNCHANGED <<lessons, process>>
              \/ \E l \in Lessons \cup {None} : Measure(l)
              \/ \E batch \in SUBSET Lessons, text \in [Lessons -> Text] : Explain(batch, text)
              \/ \E l \in Lessons, t \in Text : HandEdit(l, t)
  BY <1>11 DEF ClusterCommand, Surroundings, Detect, Dismiss, Rebuild, ExplainFails, NewWeek, files
<1>12. ~ Transaction
  BY DEF Transaction, Write, WriteFails, WriteManifest, ManifestFails, RestoreLesson,
         RestoreRest, RestoreFails, Create, Created, CreateFails, CommitDrafts, CommitFails,
         Crash
<1>13. CASE UNCHANGED vars
  BY <1>2, <1>13 DEF vars, files
<1> QED
  BY <1>2, <1>5, <1>6, <1>7, <1>8, <1>9, <1>10, <1>11, <1>12, <1>13 DEF Next, LessonCommand

\* What the running command leaves of the phases: those of the saved tree or
\* of the files as they are.
BetweenTrees ==
    \A l \in Lessons : Phase(Counts'[l]) \in {Phase(saved.lessons[l]), Phase(lessons[l])}

LEMMA AheadWrite ==
  ASSUME Inv, AtMostOneAhead, Write \/ WriteFails
  PROVE  AtMostOneAhead' /\ BetweenTrees
<1>1. pc = "write" /\ pc' # "idle" /\ pc' # "write" /\ UNCHANGED <<job, drafts, saved>>
  BY DEF Write, WriteFails, GiveUp
<1>2. job.stage \in {"record", "guard", "attach"} /\ lessons \in [Lessons -> Record \cup {Absent, Torn}]
  BY <1>1 DEF Inv, JobOK, TypeOK
<1>3. \/ lessons' = lessons
      \/ job.stage \in {"record", "attach"} /\ lessons' = [lessons EXCEPT ![job.lesson] = next]
  BY <1>2 DEF Write, WriteFails, Replaced
<1>4. \A l \in Lessons :
        \/ Phase(lessons'[l]) = Phase(lessons[l])
        \/ l = job.lesson /\ job.stage \in {"record", "attach"} /\ Phase(lessons'[l]) = Phase(next)
  BY <1>2, <1>3
<1>5. AtMostOneAhead'
  BY <1>1, <1>2, <1>4 DEF AtMostOneAhead, Changing
<1>6. BetweenTrees
  BY <1>1 DEF BetweenTrees, Counts
<1> QED
  BY <1>5, <1>6

LEMMA AheadManifest ==
  ASSUME Inv, AtMostOneAhead, WriteManifest
  PROVE  AtMostOneAhead' /\ BetweenTrees
<1>1. pc = "manifest" /\ lessons' = lessons
  BY DEF WriteManifest
<1>2. CASE job.stage = "drafts"
  <2>1. pc' = "commit" /\ UNCHANGED <<job, drafts, saved>>
    BY <1>2 DEF WriteManifest
  <2> QED
    BY <1>1, <2>1 DEF AtMostOneAhead, Changing, BetweenTrees, Counts
<1>3. ASSUME pc' = "write", saved' = Tree, job'.lesson = job.lesson,
             job'.stage = "record" => Advances(Phase(lessons[job.lesson]), Phase(next')),
             job'.stage = "attach" => Phase(next') = Phase(lessons[job.lesson])
      PROVE  AtMostOneAhead' /\ BetweenTrees
  BY <1>1, <1>3 DEF AtMostOneAhead, BetweenTrees, Counts, Tree
<1>4. CASE job.stage = "record" /\ job.template # None
  BY <1>3, <1>4 DEF WriteManifest, Begin
<1>5. CASE job.stage = "guard" /\ lessons[job.lesson].layer = RequiredLayer(job.template)
  <2>1. lessons[job.lesson] \in Record /\ job.template \in Template
    BY <1>1, <1>5 DEF Inv, TypeOK, JobOK
  <2>2. Phase(Guarded(lessons[job.lesson], job.template)) = Phase(lessons[job.lesson])
    BY <2>1, SamePhase
  <2>3. /\ pc' = "write" /\ saved' = Tree /\ job'.lesson = job.lesson /\ job'.stage = "attach"
        /\ next' = Guarded(lessons[job.lesson], job.template)
    BY <1>5 DEF WriteManifest, Begin
  <2> QED
    BY <1>3, <2>2, <2>3
<1>6. CASE job.stage = "mirrors" /\ job.lesson # None
  <2>1. lessons[job.lesson] \in Record /\ lessons[job.lesson].state = "applied"
        /\ job.lesson \in Lessons
    BY <1>1, <1>6 DEF Inv, TypeOK, JobOK
  <2>2. Valid(lessons[job.lesson])
    BY <2>1 DEF Inv, Good
  <2>3. Advances(Phase(lessons[job.lesson]), Phase(Resolved(lessons[job.lesson])))
    BY <2>1, <2>2, ResolvedAdvances
  <2>4. /\ pc' = "write" /\ saved' = Tree /\ job'.lesson = job.lesson /\ job'.stage = "record"
        /\ next' = Resolved(lessons[job.lesson])
    BY <1>6 DEF WriteManifest, Begin
  <2> QED
    BY <1>3, <2>3, <2>4
<1>7. CASE Ended
  BY <1>1, <1>7 DEF Ended, AtMostOneAhead, BetweenTrees, Counts
<1> QED
  BY <1>2, <1>4, <1>5, <1>6, <1>7 DEF WriteManifest

LEMMA AheadCreate ==
  ASSUME Inv, AtMostOneAhead, NEW l \in Lessons, Create(l)
  PROVE  AtMostOneAhead' /\ BetweenTrees
<1>1. pc = "create" /\ pc' = "create" /\ UNCHANGED <<job, drafts, saved>> /\ l \in todo
      /\ lessons' = [lessons EXCEPT ![l] = Draft(drafts[l])]
  BY DEF Create
<1>2. job.stage = "drafts" /\ drafts[l] \in Text /\ drafts[l] # None /\ saved.lessons[l] = Absent
      /\ lessons \in [Lessons -> Record \cup {Absent, Torn}]
  BY <1>1 DEF Inv, TypeOK, DraftsOK
<1>3. Phase(saved.lessons[l]) = <<"none", None>>
  BY <1>2 DEF Phase
<1>4. Phase(lessons'[l]) = <<"draft", None>>
  <2>1. Draft(drafts[l]) \in Record
    BY <1>2, DraftLoads
  <2>2. Phase(Draft(drafts[l])) = <<"draft", None>>
    BY <1>2, <2>1, SamePhase
  <2> QED
    BY <1>1, <1>2, <2>2
<1>5. \A k \in Lessons \ {l} : lessons'[k] = lessons[k]
  BY <1>1, <1>2
<1>6. \A k \in Lessons : (Phase(lessons[k]) = Phase(saved.lessons[k]) \/ Changing(k))'
  BY <1>1, <1>2, <1>3, <1>4, <1>5 DEF AtMostOneAhead, Changing
<1>7. AtMostOneAhead'
  BY <1>1, <1>6 DEF AtMostOneAhead
<1> QED
  BY <1>1, <1>7 DEF BetweenTrees, Counts

LEMMA AheadRestore ==
  ASSUME Inv, AtMostOneAhead, NEW l \in Lessons, RestoreLesson(l)
  PROVE  AtMostOneAhead' /\ BetweenTrees
<1>1. pc = "restore" /\ pc' = "restore" /\ UNCHANGED <<job, drafts, saved>>
      /\ \A k \in Lessons : lessons'[k] \in {lessons[k], saved.lessons[k]}
  BY DEF RestoreLesson, Inv, TypeOK
<1>2. \A k \in Lessons : (Phase(lessons[k]) = Phase(saved.lessons[k]) \/ Changing(k))'
  BY <1>1 DEF AtMostOneAhead, Changing
<1> QED
  BY <1>1, <1>2 DEF AtMostOneAhead, BetweenTrees, Counts

LEMMA AheadHandEdit ==
  ASSUME Inv, AtMostOneAhead, pc # "idle", NEW l \in Lessons, NEW t \in Text, HandEdit(l, t)
  PROVE  AtMostOneAhead' /\ BetweenTrees
<1>1. lessons[l] \in Record
  BY DEF HandEdit, Readable, Inv, TypeOK
<1>2. \A k \in Lessons : Phase(lessons'[k]) = Phase(lessons[k])
  BY <1>1, SamePhase DEF HandEdit, Inv, TypeOK
<1>3. UNCHANGED <<pc, job, next, drafts, saved>>
  BY DEF HandEdit, process
<1>4. \A k \in Lessons : (Phase(lessons[k]) = Phase(saved.lessons[k]) \/ Changing(k))'
  BY <1>2, <1>3 DEF AtMostOneAhead, Changing
<1>5. AtMostOneAhead'
  BY <1>2, <1>3, <1>4 DEF AtMostOneAhead
<1> QED
  BY <1>3, <1>5 DEF BetweenTrees, Counts

LEMMA AheadCrash ==
  ASSUME Inv, AtMostOneAhead, Crash
  PROVE  AtMostOneAhead' /\ BetweenTrees
<1>1. pc' = "idle"
  BY DEF Crash, Ended
<1>2. \/ lessons' = lessons
      \/ pc = "create" /\ \E l \in todo : lessons' = [lessons EXCEPT ![l] = Torn]
  BY DEF Crash
<1>3. \A k \in Lessons : Phase(lessons'[k]) \in {Phase(saved.lessons[k]), Phase(lessons[k])}
  <2>1. CASE lessons' = lessons
    BY <2>1
  <2>2. ASSUME pc = "create", NEW l \in todo, lessons' = [lessons EXCEPT ![l] = Torn],
               NEW k \in Lessons
        PROVE  Phase(lessons'[k]) \in {Phase(saved.lessons[k]), Phase(lessons[k])}
    <3>1. lessons'[k] = IF k = l THEN Torn ELSE lessons[k]
      BY <2>2 DEF Inv, TypeOK
    <3>2. saved.lessons[l] = Absent
      BY <2>2 DEF Inv, DraftsOK
    <3> QED
      BY <3>1, <3>2 DEF Phase
  <2> QED
    BY <1>2, <2>1, <2>2
<1> QED
  BY <1>1, <1>3 DEF AtMostOneAhead, BetweenTrees, Counts

LEMMA AheadWorks ==
  ASSUME Inv, AtMostOneAhead, pc # "idle", [Next]_vars
  PROVE  AtMostOneAhead' /\ BetweenTrees
<1>1. ASSUME lessons' = lessons, pc' # "idle", pc' # "write" \/ (pc' = pc /\ UNCHANGED next),
             UNCHANGED <<job, drafts, saved>>
      PROVE  AtMostOneAhead' /\ BetweenTrees
  <2>1. \A k \in Lessons : (Phase(lessons[k]) = Phase(saved.lessons[k]) \/ Changing(k))'
    BY <1>1 DEF AtMostOneAhead, Changing
  <2> QED
    BY <1>1, <2>1 DEF AtMostOneAhead, BetweenTrees, Counts
<1>2. ASSUME lessons' = lessons, pc' = "idle"
      PROVE  AtMostOneAhead' /\ BetweenTrees
  BY <1>2 DEF AtMostOneAhead, BetweenTrees, Counts
<1>3. CASE Transaction
  <2>1. CASE ManifestFails \/ Created \/ CreateFails \/ CommitFails
    BY <1>1, <2>1 DEF ManifestFails, Created, CreateFails, CommitFails, GiveUp, files
  <2>2. CASE RestoreRest \/ RestoreFails \/ CommitDrafts
    BY <1>2, <2>2 DEF RestoreRest, RestoreFails, CommitDrafts, Ended, files
  <2> QED
    BY <1>3, <2>1, <2>2, AheadWrite, AheadManifest, AheadCreate, AheadRestore, AheadCrash
    DEF Transaction
<1>4. CASE Surroundings
  <2>1. CASE NewWeek
    BY <1>1, <2>1 DEF NewWeek, files, process
  <2> QED
    BY <1>4, <2>1, AheadHandEdit DEF Surroundings
<1>5. CASE UNCHANGED vars
  BY <1>1, <1>5 DEF vars, files, process
<1>6. ~ (LessonCommand \/ ClusterCommand \/ CleanUp)
  BY DEF LessonCommand, ClusterCommand, CleanUp, Accept, Apply, Measure, CommandStarts,
         Detect, Dismiss, Rebuild, ExplainFails, Explain
<1> QED
  BY <1>3, <1>4, <1>5, <1>6 DEF Next


\* The state of Lifecycle, as Artifacts instantiates it.
Stages == [l \in Lessons |-> IF Counts[l] \in {Absent, Torn} THEN <<"none", None>>
                             ELSE <<Counts[l].state, Counts[l].layer>>]

LEMMA StagesArePhases ==
  /\ Stages = [l \in Lessons |-> Phase(Counts[l])]
  /\ Stages' = [l \in Lessons |-> Phase(Counts'[l])]
  BY DEF Stages, Phase

LEMMA StepOfLifecycle ==
  ASSUME NEW l \in Lessons, Advances(Stages[l], Stages'[l]),
         \A k \in Lessons \ {l} : Stages'[k] = Stages[k]
  PROVE  Lifecycle!Next
<1>1. Stages' = [Stages EXCEPT ![l] = Stages'[l]]
  BY StagesArePhases
<1>2. \/ /\ Stages[l] = <<"draft", None>>
         /\ Stages' = [Stages EXCEPT ![l] = <<"accepted", None>>]
      \/ \E layer \in Layer :
            \/ /\ Stages[l] = <<"accepted", None>>
               /\ Stages' = [Stages EXCEPT ![l] = <<"applied", layer>>]
            \/ /\ Stages[l] = <<"applied", layer>>
               /\ Stages' = [Stages EXCEPT ![l] = <<"accepted", None>>]
            \/ /\ Stages[l] = <<"applied", layer>>
               /\ Stages' = [Stages EXCEPT ![l] = <<"resolved", layer>>]
  BY <1>1 DEF Advances
<1>3. Lifecycle!Step(l)
  BY <1>2 DEF Lifecycle!Step, Lifecycle!Move, Stages
<1> QED
  BY <1>3 DEF Lifecycle!Next

LEMMA DraftsOfLifecycle ==
  ASSUME \A l \in Lessons :
            \/ Stages'[l] = Stages[l]
            \/ Stages[l] = <<"none", None>> /\ Stages'[l] = <<"draft", None>>
  PROVE  Lifecycle!Next
<1> DEFINE batch == {l \in Lessons : Stages'[l] # Stages[l]}
<1>1. \A l \in batch : Stages[l] = <<"none", None>> /\ Stages'[l] = <<"draft", None>>
  OBVIOUS
<1>2. Stages' = [l \in Lessons |-> IF l \in batch THEN <<"draft", None>> ELSE Stages[l]]
  <2>1. \A l \in Lessons : Stages'[l] = IF l \in batch THEN <<"draft", None>> ELSE Stages[l]
    BY <1>1
  <2> HIDE DEF batch
  <2>2. Stages' = [l \in Lessons |-> Stages'[l]]
    BY StagesArePhases
  <2> QED
    BY <2>1, <2>2
<1>3. PICK drafted \in SUBSET Lessons : drafted = batch
  OBVIOUS
<1> HIDE DEF batch
<1>4. Lifecycle!DraftAll(drafted)
  BY <1>1, <1>2, <1>3 DEF Lifecycle!DraftAll, Stages
<1> QED
  BY <1>4 DEF Lifecycle!Next

\* What a running command does to the phases is a step of the lifecycle or
\* nothing.
LEMMA CommandIsStep ==
  ASSUME Inv, AtMostOneAhead, pc # "idle", BetweenTrees
  PROVE  [Lifecycle!Next]_Stages
<1>1. \A l \in Lessons : Stages[l] = Phase(saved.lessons[l])
                         /\ Stages'[l] \in {Phase(saved.lessons[l]), Phase(lessons[l])}
  BY StagesArePhases DEF Counts, BetweenTrees
<1>2. \A l \in Lessons : Stages'[l] = Stages[l] \/ (Changing(l) /\ Stages'[l] = Phase(lessons[l]))
  BY <1>1 DEF AtMostOneAhead
<1>3. (\A l \in Lessons : Stages'[l] = Stages[l]) => Stages' = Stages
  BY StagesArePhases
<1>4. CASE job.stage = "record"
  <2>1. job.lesson \in Lessons
    BY <1>4 DEF Inv, JobOK
  <2>2. \A l \in Lessons \ {job.lesson} : Stages'[l] = Stages[l]
    BY <1>2, <1>4 DEF Changing
  <2>3. \/ Stages'[job.lesson] = Stages[job.lesson]
        \/ Advances(Stages[job.lesson], Stages'[job.lesson])
    BY <1>1, <1>2, <1>4, <2>1 DEF Changing
  <2>4. CASE Advances(Stages[job.lesson], Stages'[job.lesson])
    BY <2>1, <2>2, <2>4, StepOfLifecycle
  <2> QED
    BY <1>3, <2>2, <2>3, <2>4
<1>5. CASE job.stage = "drafts"
  <2>1. \A l \in Lessons :
            \/ Stages'[l] = Stages[l]
            \/ Stages[l] = <<"none", None>> /\ Stages'[l] = <<"draft", None>>
    BY <1>1, <1>2, <1>5 DEF Changing
  <2> QED
    BY <2>1, DraftsOfLifecycle
<1>6. CASE job.stage \notin {"record", "drafts"}
  BY <1>2, <1>3, <1>6 DEF Changing
<1> QED
  BY <1>4, <1>5, <1>6

LEMMA AheadInit ==
  ASSUME Init
  PROVE  AtMostOneAhead /\ Lifecycle!Init
<1>1. AtMostOneAhead
  BY DEF Init, AtMostOneAhead
<1>2. Stages = [l \in Lessons |-> <<"none", None>>]
  BY DEF Init, Empty, Stages, Counts
<1> QED
  BY <1>1, <1>2 DEF Lifecycle!Init, Stages

LEMMA AheadNext ==
  ASSUME Inv, AtMostOneAhead, [Next]_vars
  PROVE  AtMostOneAhead' /\ [Lifecycle!Next]_Stages
<1>1. CASE pc = "idle"
  <2>1. AtMostOneAhead' /\ \A l \in Lessons : Phase(Counts'[l]) = Phase(Counts[l])
    BY <1>1, AheadBegins
  <2>2. Stages' = Stages
    BY <2>1, StagesArePhases
  <2> QED
    BY <2>1, <2>2
<1>2. CASE pc # "idle"
  BY <1>2, AheadWorks, CommandIsStep
<1> QED
  BY <1>1, <1>2

\* Through rollbacks, kills and errors each lesson moves along the lifecycle of
\* twill_lessons.py and never skips a stage: what a command prepares is one
\* legal move from the tree it falls back to, and only then does the next of
\* its transactions begin.
THEOREM ArtifactsImplementLifecycle == Spec => ImplementsLifecycle
<1>1. Init => Inv /\ AtMostOneAhead /\ Lifecycle!Init
  BY InvInit, AheadInit
<1>2. Inv /\ AtMostOneAhead /\ [Next]_vars
        => Inv' /\ AtMostOneAhead' /\ [Lifecycle!Next]_Stages
  BY InvNext, AheadNext
<1> QED
  BY <1>1, <1>2, PTL DEF Spec, ImplementsLifecycle, Lifecycle!Spec, Stages

-----------------------------------------------------------------------------
(* Failures and the manifest *)

\* Without a kill or an edit, and with at most one error.
Quiet == crashes = 0 /\ edits = 0 /\ faults <= 1

\* The manifest lists a lesson, or a draft that was unlinked.
ListedLesson(l, r) ==
    \/ manifest.lessons[l] = r
    \/ /\ faults = 1 /\ cluster[l] # "drafted"
       /\ r = Absent /\ manifest.lessons[l].state = "draft"

\* The manifest lists a tree.
Listed(ls, gs) ==
    \/ manifest = None /\ ls = Empty.lessons /\ gs = {}
    \/ /\ manifest # None /\ manifest.guards = gs
       /\ \A l \in Lessons : ListedLesson(l, ls[l])

\* What a restore that goes through ends with.
RestoredLessons == [l \in Lessons |-> IF l \in undo THEN saved.lessons[l] ELSE lessons[l]]
RestoredGuards == IF job.stage = "guard" THEN saved.guards ELSE guards

\* What the batch of explain is like before its commit.
BatchInv ==
    pc # "idle" /\ job.stage = "drafts" =>
        \A l \in Lessons : drafts[l] # None =>
            /\ cluster[l] # "drafted"
            /\ pc # "restore" /\ (pc = "create" => l \notin todo) => lessons[l].state = "draft"

\* At each step of a command, what the manifest lists.
StepInv ==
    /\ pc = "idle" => Listed(lessons, guards)
    /\ pc \in {"create", "write", "manifest"} =>
          /\ Listed(saved.lessons, saved.guards)
          /\ \A l \in Lessons \ Touched : lessons[l] = saved.lessons[l]
          /\ job.stage # "guard" => guards = saved.guards
    /\ pc = "write" => Tree = saved
    /\ pc = "commit" => manifest = Tree
    /\ pc = "restore" => faults = 1 /\ Listed(RestoredLessons, RestoredGuards)


NoneTorn ==
    \A l \in Lessons : lessons[l] # Torn /\ (pc # "idle" => saved.lessons[l] # Torn)

FilesInv == Quiet => litter = {} /\ NoneTorn /\ BatchInv /\ StepInv

LEMMA QuietBefore ==
  ASSUME Inv, [Next]_vars, Quiet'
  PROVE  Quiet
<1>1. crashes \in Nat /\ faults \in Nat /\ edits \in Nat
  BY DEF Inv, TypeOK
<1>2. crashes' \in {crashes, crashes + 1} /\ faults' \in {faults, faults + 1}
      /\ edits' \in {edits, edits + 1}
  <2>1. CASE Transaction
    BY <2>1
    DEF Transaction, Write, WriteFails, WriteManifest, ManifestFails, RestoreLesson,
        RestoreRest, RestoreFails, Create, Created, CreateFails, CommitDrafts, CommitFails,
        Crash, counters
  <2>2. CASE LessonCommand \/ ClusterCommand
    BY <2>2
    DEF LessonCommand, ClusterCommand, Accept, Apply, Measure, Detect, Dismiss, Rebuild,
        ExplainFails, Explain, counters
  <2>3. CASE Surroundings \/ CleanUp \/ UNCHANGED vars
    BY <2>3 DEF Surroundings, NewWeek, HandEdit, CleanUp, counters, vars
  <2> QED
    BY <2>1, <2>2, <2>3 DEF Next
<1> QED
  BY <1>1, <1>2 DEF Quiet

\* A tree that is listed stays listed while the manifest is not written, no
\* cluster becomes drafted, and at most the first error comes.
LEMMA ListedStays ==
  ASSUME NEW ls, NEW gs, Listed(ls, gs), manifest' = manifest,
         faults' = faults \/ faults = 0,
         \A l \in Lessons : cluster'[l] = "drafted" => cluster[l] = "drafted"
  PROVE  Listed(ls, gs)'
  BY DEF Listed, ListedLesson

\* A command begins.
LEMMA FilesBegin ==
  ASSUME Inv, FilesInv, Quiet, pc = "idle", saved' = Tree,
         UNCHANGED <<lessons, guards, manifest, litter, cluster, crashes, faults, edits>>,
         pc' \in {"create", "write", "manifest"}, BatchInv'
  PROVE  FilesInv'
<1>1. Listed(lessons, guards) /\ NoneTorn /\ litter = {}
  BY DEF FilesInv, StepInv
<1>2. Listed(lessons, guards)'
  BY <1>1 DEF Listed, ListedLesson
<1>3. saved'.lessons = lessons' /\ saved'.guards = guards'
  BY DEF Tree
<1>4. Listed(saved.lessons, saved.guards)'
  BY <1>2, <1>3 DEF Listed, ListedLesson
<1>5. StepInv'
  BY <1>3, <1>4 DEF StepInv, Tree
<1> QED
  BY <1>1, <1>3, <1>5 DEF FilesInv, NoneTorn

LEMMA FilesCommand ==
  ASSUME Inv, FilesInv, Quiet, LessonCommand
  PROVE  FilesInv'
<1>1. \A l \in Lessons : Accept(l) => FilesInv'
  BY FilesBegin DEF Accept, CommandStarts, Begin, files, database, BatchInv
<1>2. \A l \in Lessons, layer \in Layer, bead \in Bead \cup {None}, t \in Template \cup {None} :
        Apply(l, layer, bead, t) => FilesInv'
  <2> TAKE l \in Lessons, layer \in Layer, bead \in Bead \cup {None}, t \in Template \cup {None}
  <2> HAVE Apply(l, layer, bead, t)
  <2>1. pc = "idle" /\ saved' = Tree /\ pc' = "write" /\ job'.stage # "drafts"
        /\ UNCHANGED <<lessons, guards, manifest, litter, cluster, crashes, faults, edits>>
    BY DEF Apply, CommandStarts, Begin, files, database
  <2> QED
    BY <2>1, FilesBegin DEF BatchInv
<1> QED
  BY <1>1, <1>2 DEF LessonCommand

LEMMA FilesExplain ==
  ASSUME Inv, FilesInv, Quiet, NEW batch \in SUBSET Lessons, NEW text \in [Lessons -> Text],
         Explain(batch, text)
  PROVE  FilesInv'
<1>1. pc = "idle" /\ saved' = Tree /\ pc' = "create"
      /\ UNCHANGED <<lessons, guards, manifest, litter, cluster, crashes, faults, edits>>
  BY DEF Explain, files, counters
<1>2. ASSUME NEW l \in Lessons, drafts'[l] # None
      PROVE  cluster[l] = "open" /\ (l \notin todo' => lessons[l].state = "draft")
  <2>1. l \in batch
    BY <1>2 DEF Explain
  <2>2. cluster[l] = "open" /\ lessons[l] \in {Absent, Draft(text[l])}
    BY <2>1 DEF Explain
  <2>3. l \notin todo' => lessons[l] = Draft(text[l])
    BY <2>1, <2>2 DEF Explain
  <2> QED
    BY <2>2, <2>3 DEF Draft
<1>3. BatchInv'
  BY <1>1, <1>2 DEF BatchInv
<1> QED
  BY <1>1, <1>3, FilesBegin

\* Nothing happens to files, and no cluster becomes drafted.
LEMMA FilesIdle ==
  ASSUME Inv, FilesInv, Quiet, UNCHANGED <<files, process, counters>>,
         \A l \in Lessons : cluster'[l] = "drafted" => cluster[l] = "drafted"
  PROVE  FilesInv'
<1>1. UNCHANGED <<lessons, guards, manifest, litter, pc, job, drafts, todo, undo, saved, faults>>
  BY DEF files, process, counters
<1>2. \A ls, gs : Listed(ls, gs) => Listed(ls, gs)'
  BY <1>1, ListedStays
<1>3. /\ Listed(lessons, guards) => Listed(lessons, guards)'
      /\ Listed(saved.lessons, saved.guards) => Listed(saved.lessons, saved.guards)'
      /\ Listed(RestoredLessons, RestoredGuards) => Listed(RestoredLessons, RestoredGuards)'
  <2>1. RestoredLessons' = RestoredLessons /\ RestoredGuards' = RestoredGuards
    BY <1>1 DEF RestoredLessons, RestoredGuards
  <2> QED
    BY <1>1, <2>1 DEF Listed, ListedLesson
<1>4. BatchInv /\ StepInv /\ NoneTorn /\ litter = {}
  BY DEF FilesInv
<1>5. StepInv'
  <2>1. Touched' = Touched /\ Tree' = Tree
    BY <1>1 DEF Touched, Tree
  <2> QED
    BY <1>1, <1>3, <1>4, <2>1 DEF StepInv
<1>6. BatchInv' /\ NoneTorn'
  BY <1>1, <1>4 DEF BatchInv, NoneTorn
<1> QED
  BY <1>1, <1>4, <1>5, <1>6 DEF FilesInv

LEMMA FilesCluster ==
  ASSUME Inv, FilesInv, Quiet, ClusterCommand
  PROVE  FilesInv'
<1>1. CASE ExplainFails \/ Rebuild \/ (\E l \in Lessons : Dismiss(l))
           \/ (\E found \in SUBSET Lessons : Detect(found))
  <2>1. UNCHANGED <<files, process, counters>>
    BY <1>1 DEF ExplainFails, Rebuild, Dismiss, Detect
  <2>2. \A l \in Lessons : cluster'[l] = "drafted" => cluster[l] = "drafted"
    BY <1>1 DEF ExplainFails, Rebuild, Dismiss, Detect, Inv, TypeOK
  <2> QED
    BY <2>1, <2>2, FilesIdle
<1>2. ASSUME NEW l \in Lessons \cup {None}, Measure(l) PROVE FilesInv'
  BY <1>2, FilesBegin DEF Measure, CommandStarts, NoJob, files, database, BatchInv
<1> QED
  BY <1>1, <1>2, FilesExplain DEF ClusterCommand

LEMMA FilesCleanUp ==
  ASSUME Inv, FilesInv, Quiet, CleanUp
  PROVE  FilesInv'
<1>1. \A l \in Lessons : lessons[l] # Torn
  BY DEF FilesInv, NoneTorn
<1>2. lessons' = lessons
  BY <1>1 DEF CleanUp, Inv, TypeOK
<1>3. UNCHANGED <<files, process, counters>> /\ cluster' = cluster
  BY <1>2 DEF CleanUp, FilesInv, files, database
<1> QED
  BY <1>3, FilesIdle

\* An error: what the restore will end with is the saved tree.
LEMMA FilesGiveUp ==
  ASSUME Inv, FilesInv, Quiet, Quiet', faults' = faults + 1,
         pc \in {"create", "write", "manifest"}, GiveUp(Touched),
         \A l \in Lessons \ Touched : lessons'[l] = lessons[l],
         \A l \in Lessons : lessons'[l] # Torn,
         guards' = guards \/ job.stage = "guard",
         UNCHANGED <<manifest, litter, cluster>>
  PROVE  FilesInv'
<1>1. BatchInv /\ StepInv /\ NoneTorn /\ litter = {}
  BY DEF FilesInv
<1>2. pc' = "restore" /\ undo' = Touched /\ UNCHANGED <<job, drafts, saved>>
  BY DEF GiveUp
<1>3. faults = 0 /\ faults' = 1
  BY DEF Quiet, Inv, TypeOK
<1>4. /\ Listed(saved.lessons, saved.guards)
      /\ \A l \in Lessons \ Touched : lessons[l] = saved.lessons[l]
      /\ job.stage # "guard" => guards = saved.guards
  BY <1>1 DEF StepInv
<1>5. \A ls, gs : Listed(ls, gs) => Listed(ls, gs)'
  BY <1>3, ListedStays
<1>6. PICK ls, gs : ls = saved.lessons /\ gs = saved.guards
  OBVIOUS
<1>7. Listed(ls, gs)'
  BY <1>4, <1>5, <1>6
<1>8. RestoredLessons' = ls
  <2>1. ls \in [Lessons -> Record \cup {Absent, Torn}]
    BY <1>6 DEF Inv, TypeOK, Trees
  <2>2. \A l \in Lessons : RestoredLessons'[l] = ls[l]
    BY <1>2, <1>4, <1>6 DEF RestoredLessons
  <2>3. RestoredLessons' = [l \in Lessons |-> RestoredLessons'[l]]
    BY DEF RestoredLessons
  <2> QED
    BY <2>1, <2>2, <2>3
<1>9. RestoredGuards' = gs
  BY <1>2, <1>4, <1>6 DEF RestoredGuards
<1>10. Listed(RestoredLessons, RestoredGuards)'
  BY <1>7, <1>8, <1>9 DEF Listed, ListedLesson
<1>11. StepInv'
  BY <1>2, <1>3, <1>10 DEF StepInv
<1>12. BatchInv'
  BY <1>1, <1>2 DEF BatchInv, StepInv
<1>13. NoneTorn'
  BY <1>1, <1>2 DEF NoneTorn
<1> QED
  BY <1>1, <1>11, <1>12, <1>13 DEF FilesInv

LEMMA FilesFails ==
  ASSUME Inv, FilesInv, Quiet, Quiet', WriteFails \/ ManifestFails \/ CreateFails
  PROVE  FilesInv'
<1>0. litter = {} /\ NoneTorn
  BY DEF FilesInv
<1>1. CASE ManifestFails \/ CreateFails
  <2>1. UNCHANGED <<lessons, guards, manifest, litter, cluster>>
        /\ pc \in {"create", "manifest"} /\ GiveUp(Touched)
    BY <1>1 DEF ManifestFails, CreateFails, files, database
  <2>2. faults' = faults + 1
    BY <1>0, <1>1 DEF ManifestFails, CreateFails
  <2> QED
    BY <1>0, <2>1, <2>2, FilesGiveUp DEF NoneTorn
<1>2. CASE WriteFails
  <2>1. pc = "write" /\ faults' = faults + 1 /\ GiveUp(Touched)
        /\ UNCHANGED <<manifest, litter, cluster>>
    BY <1>2 DEF WriteFails, database
  <2>2. /\ job.stage \in {"record", "guard", "attach"} /\ job.lesson \in Lessons
        /\ job.stage # "guard" => next \in Record
        /\ lessons \in [Lessons -> Record \cup {Absent, Torn}]
    BY <2>1 DEF Inv, TypeOK, JobOK
  <2>3. \/ UNCHANGED lessons
        \/ job.stage # "guard" /\ lessons' = [lessons EXCEPT ![job.lesson] = next]
    BY <1>2 DEF WriteFails, Replaced
  <2>4. job.stage # "guard" => Touched = {job.lesson}
    BY <2>2 DEF Touched
  <2>5. \A l \in Lessons \ Touched : lessons'[l] = lessons[l]
    BY <2>2, <2>3, <2>4
  <2>6. \A l \in Lessons : lessons'[l] # Torn
    BY <1>0, <2>2, <2>3, ArtifactsAssumption DEF NoneTorn
  <2>7. guards' = guards \/ job.stage = "guard"
    BY <1>2 DEF WriteFails, Replaced
  <2> QED
    BY <2>1, <2>5, <2>6, <2>7, FilesGiveUp
<1> QED
  BY <1>1, <1>2

LEMMA FilesCommitFails ==
  ASSUME Inv, FilesInv, Quiet, Quiet', CommitFails
  PROVE  FilesInv'
<1>1. BatchInv /\ StepInv /\ NoneTorn /\ litter = {} /\ pc = "commit"
  BY DEF FilesInv, CommitFails
<1>2. job.stage = "drafts" /\ manifest = Tree
  BY <1>1 DEF Inv, DraftsOK, StepInv
<1>3. /\ pc' = "restore" /\ undo' = {l \in Touched : saved.lessons[l] = Absent}
      /\ UNCHANGED <<lessons, guards, manifest, litter, cluster, job, drafts, saved>>
  BY DEF CommitFails, GiveUp, files, database
<1>4. faults = 0 /\ faults' = 1
  BY DEF Quiet, Inv, TypeOK, CommitFails
<1>5. Touched = {l \in Lessons : drafts[l] # None}
  BY <1>2 DEF Touched
<1>6. \A l \in Touched : cluster[l] # "drafted"
  BY <1>1, <1>2, <1>5 DEF BatchInv
<1>7. \A l \in Touched : lessons[l].state = "draft"
  BY <1>1, <1>2, <1>5 DEF BatchInv
<1>8. \A l \in Lessons : ListedLesson(l, RestoredLessons[l])'
  <2> TAKE l \in Lessons
  <2>1. manifest'.lessons[l] = lessons[l]
    BY <1>2, <1>3 DEF Tree
  <2>2. RestoredLessons'[l] = IF l \in undo' THEN Absent ELSE lessons[l]
    BY <1>3 DEF RestoredLessons
  <2> QED
    BY <1>3, <1>4, <1>6, <1>7, <2>1, <2>2 DEF ListedLesson
<1>9. RestoredGuards' = manifest'.guards /\ manifest' # None
  <2>1. RestoredGuards' = guards
    BY <1>2, <1>3 DEF RestoredGuards
  <2>2. manifest # None
    BY <1>2, ManifestAssumption DEF Inv, TypeOK, Trees, Tree
  <2> QED
    BY <1>2, <1>3, <2>1, <2>2 DEF Tree
<1>10. Listed(RestoredLessons, RestoredGuards)'
  BY <1>8, <1>9 DEF Listed
<1>11. StepInv'
  BY <1>3, <1>4, <1>10 DEF StepInv
<1>12. BatchInv' /\ NoneTorn'
  BY <1>1, <1>3 DEF BatchInv, NoneTorn
<1> QED
  BY <1>1, <1>3, <1>11, <1>12 DEF FilesInv

LEMMA FilesWrite ==
  ASSUME Inv, FilesInv, Quiet, Write
  PROVE  FilesInv'
<1>1. BatchInv /\ StepInv /\ NoneTorn /\ litter = {} /\ pc = "write"
  BY DEF FilesInv, Write
<1>2. /\ job.stage \in {"record", "guard", "attach"} /\ job.lesson \in Lessons
      /\ job.stage # "guard" => next \in Record
      /\ lessons \in [Lessons -> Record \cup {Absent, Torn}]
  BY <1>1 DEF Inv, TypeOK, JobOK
<1>3. pc' = "manifest" /\ UNCHANGED <<manifest, litter, cluster, job, drafts, todo, undo, saved, faults>>
  BY DEF Write, database, counters
<1>4. IF job.stage = "guard" THEN lessons' = lessons
      ELSE guards' = guards /\ lessons' = [lessons EXCEPT ![job.lesson] = next]
  BY DEF Write, Replaced
<1>5. Touched' = Touched /\ (job.stage # "guard" => Touched = {job.lesson})
  BY <1>2, <1>3 DEF Touched
<1>6. Listed(saved.lessons, saved.guards) /\ lessons = saved.lessons /\ guards = saved.guards
  BY <1>1 DEF StepInv, Tree
<1>7. Listed(saved.lessons, saved.guards)'
  BY <1>3, <1>6 DEF Listed, ListedLesson
<1>8. \A l \in Lessons \ Touched : lessons'[l] = lessons[l]
  BY <1>2, <1>4, <1>5
<1>9. StepInv'
  BY <1>3, <1>4, <1>5, <1>6, <1>7, <1>8 DEF StepInv
<1>10. NoneTorn'
  BY <1>1, <1>2, <1>3, <1>4, ArtifactsAssumption DEF NoneTorn
<1> QED
  BY <1>1, <1>2, <1>3, <1>9, <1>10 DEF FilesInv, BatchInv

LEMMA FilesWriteManifest ==
  ASSUME Inv, FilesInv, Quiet, WriteManifest
  PROVE  FilesInv'
<1>1. BatchInv /\ StepInv /\ NoneTorn /\ litter = {} /\ pc = "manifest"
  BY DEF FilesInv, WriteManifest
<1>2. manifest' = Tree /\ UNCHANGED <<lessons, guards, litter, cluster, crashes, faults, edits>>
  BY DEF WriteManifest, database, counters
<1>3. TypeOK' /\ manifest' = Tree'
  BY <1>2, InvWriteManifest DEF Inv, Tree
<1>4. Listed(lessons, guards)'
  <2>1. manifest' # None
    BY <1>3, ManifestAssumption DEF TypeOK, Tree, Trees
  <2> QED
    BY <1>3, <2>1 DEF Listed, ListedLesson, Tree
<1>5. CASE job.stage = "drafts"
  <2>1. pc' = "commit" /\ UNCHANGED <<job, drafts, todo, undo, saved>>
    BY <1>5 DEF WriteManifest
  <2>2. BatchInv' /\ NoneTorn'
    BY <1>1, <1>2, <2>1 DEF BatchInv, NoneTorn
  <2> QED
    BY <1>1, <1>2, <1>3, <2>1, <2>2 DEF FilesInv, StepInv
<1>6. ASSUME pc' = "write", saved' = Tree, job'.stage # "drafts"
      PROVE  FilesInv'
  <2>1. saved' = Tree' /\ saved'.lessons = lessons' /\ saved'.guards = guards'
    BY <1>2, <1>6 DEF Tree
  <2>2. Listed(saved.lessons, saved.guards)'
    BY <1>4, <2>1 DEF Listed, ListedLesson
  <2>3. StepInv'
    BY <1>6, <2>1, <2>2 DEF StepInv
  <2>4. BatchInv' /\ NoneTorn'
    BY <1>1, <1>2, <1>6, <2>1 DEF BatchInv, NoneTorn
  <2> QED
    BY <1>1, <1>2, <2>3, <2>4 DEF FilesInv
<1>7. CASE Ended
  BY <1>1, <1>2, <1>4, <1>7 DEF Ended, FilesInv, StepInv, BatchInv, NoneTorn
<1> QED
  BY <1>5, <1>6, <1>7 DEF WriteManifest, Begin

LEMMA FilesRestore ==
  ASSUME Inv, FilesInv, Quiet, NEW l \in Lessons, RestoreLesson(l)
  PROVE  FilesInv'
<1>1. BatchInv /\ StepInv /\ NoneTorn /\ litter = {} /\ pc = "restore"
  BY DEF FilesInv, RestoreLesson
<1>2. /\ l \in undo /\ undo' = undo \ {l} /\ pc' = "restore"
      /\ lessons' = [lessons EXCEPT ![l] = saved.lessons[l]]
      /\ UNCHANGED <<guards, manifest, litter, cluster, job, drafts, saved, faults>>
  BY <1>1 DEF RestoreLesson, database, counters
<1>3. RestoredLessons' = RestoredLessons /\ RestoredGuards' = RestoredGuards
  BY <1>2 DEF RestoredLessons, RestoredGuards, Inv, TypeOK
<1>4. Listed(RestoredLessons, RestoredGuards)'
  BY <1>1, <1>2, <1>3 DEF StepInv, Listed, ListedLesson
<1>5. NoneTorn'
  BY <1>1, <1>2 DEF NoneTorn, Inv, TypeOK
<1> QED
  BY <1>1, <1>2, <1>4, <1>5 DEF FilesInv, StepInv, BatchInv

LEMMA FilesRestored ==
  ASSUME Inv, FilesInv, Quiet, RestoreRest
  PROVE  FilesInv'
<1>1. BatchInv /\ StepInv /\ NoneTorn /\ litter = {} /\ pc = "restore" /\ undo = {}
  BY DEF FilesInv, RestoreRest
<1>2. pc' = "idle" /\ guards' = RestoredGuards
      /\ UNCHANGED <<lessons, manifest, litter, cluster, faults>>
  BY DEF RestoreRest, Ended, RestoredGuards, database, counters
<1>3. RestoredLessons = lessons
  BY <1>1 DEF RestoredLessons, Inv, TypeOK
<1>4. Listed(lessons, guards)'
  BY <1>1, <1>2, <1>3 DEF StepInv, Listed, ListedLesson
<1> QED
  BY <1>1, <1>2, <1>4 DEF FilesInv, StepInv, BatchInv, NoneTorn

LEMMA FilesCreate ==
  ASSUME Inv, FilesInv, Quiet, NEW l \in Lessons, Create(l)
  PROVE  FilesInv'
<1>1. BatchInv /\ StepInv /\ NoneTorn /\ litter = {} /\ pc = "create" /\ l \in todo
  BY DEF FilesInv, Create
<1>2. /\ pc' = "create" /\ todo' = todo \ {l}
      /\ lessons' = [lessons EXCEPT ![l] = Draft(drafts[l])]
      /\ UNCHANGED <<guards, manifest, litter, cluster, job, drafts, saved, faults>>
  BY <1>1 DEF Create, database, counters
<1>3. job.stage = "drafts" /\ drafts[l] # None /\ drafts[l] \in Text
      /\ lessons \in [Lessons -> Record \cup {Absent, Torn}]
  BY <1>1 DEF Inv, TypeOK, DraftsOK
<1>4. Touched' = Touched /\ l \in Touched
  BY <1>2, <1>3 DEF Touched
<1>5. Draft(drafts[l]) \in Record /\ Draft(drafts[l]).state = "draft"
  BY <1>3, DraftLoads DEF Draft
<1>6. lessons'[l] = Draft(drafts[l]) /\ \A k \in Lessons \ {l} : lessons'[k] = lessons[k]
  BY <1>2, <1>3
<1>7. Listed(saved.lessons, saved.guards)'
  BY <1>1, <1>2 DEF StepInv, Listed, ListedLesson
<1>8. StepInv'
  BY <1>1, <1>2, <1>4, <1>6, <1>7 DEF StepInv
<1>9. BatchInv'
  BY <1>1, <1>2, <1>3, <1>5, <1>6 DEF BatchInv
<1>10. NoneTorn'
  BY <1>1, <1>2, <1>5, <1>6, ArtifactsAssumption DEF NoneTorn
<1> QED
  BY <1>1, <1>2, <1>8, <1>9, <1>10 DEF FilesInv

LEMMA FilesCreated ==
  ASSUME Inv, FilesInv, Quiet, Created
  PROVE  FilesInv'
<1>1. BatchInv /\ StepInv /\ NoneTorn /\ litter = {} /\ pc = "create" /\ todo = {}
  BY DEF FilesInv, Created
<1>2. /\ pc' = "manifest"
      /\ UNCHANGED <<lessons, guards, manifest, litter, cluster, job, drafts, todo, undo, saved, faults>>
  BY DEF Created, files, database, counters
<1>3. Touched' = Touched
  BY <1>2 DEF Touched
<1>4. Listed(saved.lessons, saved.guards)'
  BY <1>1, <1>2 DEF StepInv, Listed, ListedLesson
<1>5. StepInv'
  BY <1>1, <1>2, <1>3, <1>4 DEF StepInv
<1> QED
  BY <1>1, <1>2, <1>5 DEF FilesInv, BatchInv, NoneTorn

LEMMA FilesCommitted ==
  ASSUME Inv, FilesInv, Quiet, CommitDrafts
  PROVE  FilesInv'
<1>1. StepInv /\ NoneTorn /\ litter = {} /\ pc = "commit"
  BY DEF FilesInv, CommitDrafts
<1>2. pc' = "idle" /\ UNCHANGED <<lessons, guards, manifest, litter, faults>>
  BY DEF CommitDrafts, Ended, files, counters
<1>3. Listed(lessons, guards)'
  <2>1. manifest' = Tree'
    BY <1>1, <1>2 DEF StepInv, Tree
  <2>2. manifest' # None
    BY <1>2, <2>1, ManifestAssumption DEF Tree, Inv, TypeOK, Trees
  <2> QED
    BY <2>1, <2>2 DEF Listed, ListedLesson, Tree
<1> QED
  BY <1>1, <1>2, <1>3 DEF FilesInv, StepInv, BatchInv, NoneTorn

LEMMA FilesTransaction ==
  ASSUME Inv, FilesInv, Quiet, Quiet', Transaction
  PROVE  FilesInv'
<1>1. ~ RestoreFails
  <2>1. pc = "restore" => faults = 1
    BY DEF FilesInv, StepInv
  <2> QED
    BY <2>1 DEF RestoreFails, Quiet
<1>2. ~ Crash
  BY DEF Crash, Quiet
<1> QED
  BY <1>1, <1>2, FilesWrite, FilesFails, FilesWriteManifest, FilesRestore, FilesRestored,
     FilesCreate, FilesCreated, FilesCommitted, FilesCommitFails
  DEF Transaction

LEMMA FilesInit ==
  ASSUME Init
  PROVE  FilesInv
BY ArtifactsAssumption
DEF Init, Empty, FilesInv, NoneTorn, BatchInv, StepInv, Listed

LEMMA FilesNext ==
  ASSUME Inv, FilesInv, [Next]_vars
  PROVE  FilesInv'
<1> SUFFICES ASSUME Quiet' PROVE FilesInv'
  BY DEF FilesInv
<1>1. Quiet
  BY QuietBefore
<1>2. CASE Surroundings
  <2>1. ~ \E l \in Lessons, t \in Text : HandEdit(l, t)
    BY <1>1 DEF HandEdit, Quiet
  <2> QED
    BY <1>1, <1>2, <2>1, FilesIdle DEF Surroundings, NewWeek
<1>3. CASE UNCHANGED vars
  BY <1>1, <1>3, FilesIdle DEF vars, database
<1> QED
  BY <1>1, <1>2, <1>3, FilesCommand, FilesCluster, FilesTransaction, FilesCleanUp DEF Next

\* A command that fails leaves files that the manifest lists: at every moment
\* of it the manifest lists the tree a rollback ends with.  A draft unlinked
\* after its commit failed is the only exception, and no cluster counts on it.
THEOREM FailureAlwaysRestores == Spec => []FailureRestoresFiles
<1>1. FilesInv => FailureRestoresFiles
  BY DEF FilesInv, StepInv, Quiet, Listed, ListedLesson, FailureRestoresFiles, Tree, Empty
<1>2. Init => Inv /\ FilesInv
  BY InvInit, FilesInit
<1>3. Inv /\ FilesInv /\ [Next]_vars => Inv' /\ FilesInv'
  BY InvNext, FilesNext
<1> QED
  BY <1>1, <1>2, <1>3, PTL DEF Spec

-----------------------------------------------------------------------------
(* Publication *)

\* Where an index stands, as long as no process was killed.
IndexOK ==
    crashes = 0 =>
        /\ step \in {"idle", "status", "verify", "push"} => index = head
        /\ step \in {"add", "validate", "commit"} => before = head

PubInv ==
    /\ Inv
    /\ PubTypeOK
    /\ CommitsAreSnapshots
    /\ step = "commit" => Sound(index)
    /\ step = "push" => Sound(head)
    /\ IndexOK

-----------------------------------------------------------------------------
(* Steps of the worktree *)

LEMMA PubInvInit == PubInit => PubInv
<1> SUFFICES ASSUME PubInit PROVE PubInv
  OBVIOUS
<1>1. Inv
  BY InvInit DEF PubInit
<1>2. NoCommit \in Snapshots
  BY DEF NoCommit, Snapshot, Snapshots, Empty
<1> QED
  BY <1>1, <1>2 DEF PubInit, PubInv, Inv, PubTypeOK, CommitsAreSnapshots, IndexOK

\* The publisher changes no file, no cluster and no running command.
LEMMA InvFrame ==
  ASSUME Inv, UNCHANGED <<files, database, process>>,
         crashes' \in Nat, faults' \in Nat, edits' \in Nat, commands' \in Nat
  PROVE  Inv'
  BY DEF files, database, process, Inv, TypeOK, Good, JobOK, DraftsOK

\* A kill is never forgotten.
LEMMA CrashesStay ==
  ASSUME Inv, Next, crashes' = 0
  PROVE  crashes = 0
<1>1. CASE Crash
  BY <1>1 DEF Crash, Inv, TypeOK
<1>2. CASE Transaction /\ ~Crash
  BY <1>2
  DEF Transaction, Write, WriteFails, WriteManifest, ManifestFails, RestoreLesson,
      RestoreRest, RestoreFails, Create, Created, CreateFails, CommitDrafts, CommitFails,
      counters
<1>3. CASE LessonCommand \/ ClusterCommand
  BY <1>3
  DEF LessonCommand, ClusterCommand, Accept, Apply, Measure, Detect, Dismiss, Rebuild,
      ExplainFails, Explain, counters
<1>4. CASE Surroundings \/ CleanUp
  BY <1>4 DEF Surroundings, NewWeek, HandEdit, CleanUp, counters
<1> QED
  BY <1>1, <1>2, <1>3, <1>4 DEF Next

LEMMA PubInvWorktree ==
  ASSUME PubInv, Next, UNCHANGED <<git, publisher>>
  PROVE  PubInv'
<1>1. Inv'
  BY InvNext DEF PubInv
<1>2. crashes' = 0 => crashes = 0
  BY CrashesStay DEF PubInv
<1>3. UNCHANGED <<index, head, remote, step, expected, changed, before, commits>>
  BY DEF git, publisher
<1> QED
  BY <1>1, <1>2, <1>3
  DEF PubInv, Inv, PubTypeOK, CommitsAreSnapshots, IndexOK, Sound

-----------------------------------------------------------------------------
(* Steps of the publisher *)

\* What the publisher reads of the worktree is typed.
LEMMA WorktreeType ==
  ASSUME TypeOK
  PROVE  /\ Worktree \in Snapshots
         /\ manifest \in Trees \cup {None}
         /\ \A some \in SUBSET Lessons : \A s \in Snapshots :
              Snapshot([lessons |-> [l \in Lessons |-> IF l \in some THEN lessons[l]
                                                       ELSE s.lessons[l]],
                        guards |-> guards], manifest) \in Snapshots
  BY DEF TypeOK, Worktree, Snapshot, Snapshots, Tree, Trees

LEMMA PubInvStep ==
  ASSUME PubInv, PublishStep
  PROVE  PubInv'
<1> USE DEF git, publisher, IndexOK, CommitsAreSnapshots, Stopped
<1>1. /\ UNCHANGED <<files, database, process, edits, commands>>
      /\ crashes' \in Nat /\ faults' \in Nat
      /\ crashes' = 0 => crashes = 0
  BY DEF PublishStep, Publish, Status, Add, ValidateStaged, Commit, ValidateCommit,
         GitFails, Push, PushFails, PublisherCrash, vars, counters, PubInv, Inv, TypeOK
<1>2. Inv'
  BY <1>1, InvFrame DEF PubInv, Inv, TypeOK
<1>3. /\ NoCommit \in Snapshots
      /\ TypeOK
      /\ manifest \in Trees \cup {None}
  BY WorktreeType DEF NoCommit, Snapshot, Snapshots, Empty, PubInv, Inv
<1>4. PubTypeOK'
  <2>1. CASE Publish
    BY <1>2, <1>3, <2>1 DEF Publish, PubInv, Inv, PubTypeOK
  <2>2. CASE Status
    BY <1>2, <1>3, <2>2 DEF Status, PubInv, Inv, PubTypeOK
  <2>3. CASE Add
    <3>1. index' \in Snapshots
      BY <1>3, <2>3, WorktreeType DEF Add, PubInv, PubTypeOK
    <3> QED
      BY <1>2, <2>3, <3>1 DEF Add, PubInv, Inv, PubTypeOK
  <2>4. CASE ValidateStaged \/ Commit \/ ValidateCommit
    BY <1>2, <1>3, <2>4 DEF ValidateStaged, Commit, ValidateCommit, PubInv, Inv, PubTypeOK
  <2>5. CASE GitFails \/ Push \/ PushFails \/ PublisherCrash
    BY <1>2, <1>3, <2>5 DEF GitFails, Push, PushFails, PublisherCrash, PubInv, Inv, PubTypeOK
  <2> QED
    BY <2>1, <2>2, <2>3, <2>4, <2>5 DEF PublishStep
<1>5. (IndexOK)'
  BY <1>1
  DEF PublishStep, Publish, Status, Add, ValidateStaged, Commit, ValidateCommit,
      GitFails, Push, PushFails, PublisherCrash, PubInv, PubTypeOK
<1>6. /\ UNCHANGED head \/ (head' = index /\ step = "commit")
      /\ remote' \in {remote, head}
      /\ remote' = head => step = "push" \/ remote' = remote
  BY DEF PublishStep, Publish, Status, Add, ValidateStaged, Commit, ValidateCommit,
         GitFails, Push, PushFails, PublisherCrash
<1>7. (step = "commit" => Sound(index))'
  BY DEF PublishStep, Publish, Status, Add, ValidateStaged, Commit, ValidateCommit,
         GitFails, Push, PushFails, PublisherCrash, Sound
<1>8. (step = "push" => Sound(head))'
  BY DEF PublishStep, Publish, Status, Add, ValidateStaged, Commit, ValidateCommit,
         GitFails, Push, PushFails, PublisherCrash, Sound, PubInv
<1>9. (CommitsAreSnapshots)'
  BY <1>6 DEF PubInv, Sound, NoCommit
<1> QED
  BY <1>2, <1>4, <1>5, <1>7, <1>8, <1>9 DEF PubInv

LEMMA PubInvNext ==
  ASSUME PubInv, [PubNext]_pubVars
  PROVE  PubInv'
<1>1. CASE Next /\ UNCHANGED <<git, publisher>>
  BY <1>1, PubInvWorktree
<1>2. Surroundings => Next
  BY DEF Next
<1>3. CASE UNCHANGED pubVars
  <2>1. Inv'
    BY <1>3, InvNext DEF pubVars, PubInv
  <2> QED
    BY <1>3, <2>1
    DEF pubVars, vars, counters, git, publisher, PubInv, Inv, PubTypeOK,
        CommitsAreSnapshots, IndexOK, Sound
<1> QED
  BY <1>1, <1>2, <1>3, PubInvStep DEF PubNext

LEMMA PubInvAlways == PubSpec => []PubInv
  BY PubInvInit, PubInvNext, PTL DEF PubSpec

-----------------------------------------------------------------------------
(* The theorems *)

\* The publisher's variables keep their types, and the worktree's.
THEOREM PublicationTypeOK == PubSpec => []PubTypeOK
<1>1. PubInv => PubTypeOK
  BY DEF PubInv
<1> QED
  BY <1>1, PubInvAlways, PTL

\* Whatever is edited, killed or fails while publish_snapshot runs, what it
\* commits and pushes is a snapshot the v1 reader accepts: the staged tree is
\* validated, and the commit takes exactly that tree.
THEOREM CommitsAlwaysSnapshots == PubSpec => []CommitsAreSnapshots
<1>1. PubInv => CommitsAreSnapshots
  BY DEF PubInv
<1> QED
  BY <1>1, PubInvAlways, PTL

\* A publication that fails puts the index back to the last commit.
THEOREM FailuresAlwaysUnstage == PubSpec => []FailureUnstages
<1>1. PubInv => FailureUnstages
  BY DEF PubInv, IndexOK, FailureUnstages
<1> QED
  BY <1>1, PubInvAlways, PTL
=============================================================================
