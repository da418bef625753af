---------------------------- MODULE Publication -----------------------------
(***************************************************************************)
(* publish_snapshot in twill_artifacts.py: the worktree of Artifacts is     *)
(* validated, staged, validated again, committed and pushed.  Git itself    *)
(* is external: an index, a branch and its remote, each holding a tree with *)
(* a manifest.  A tree without manifest stands for no commit, and commits   *)
(* that differ in the manifest's timestamp only are the same here.          *)
(***************************************************************************)
EXTENDS Artifacts

CONSTANT MaxCommits  \* bound: commits

ASSUME PublicationAssumption == MaxCommits \in Nat

VARIABLES
    index,     \* the staged tree
    head,      \* the last commit
    remote,    \* the last commit pushed to origin
    step,      \* the publisher's next step
    expected,  \* the manifest it validated in the worktree
    changed,   \* lesson files git status reported
    before,    \* the index to go back to
    commits

git == <<index, head, remote>>
publisher == <<step, expected, changed, before, commits>>
pubVars == <<vars, git, publisher>>

Snapshot(tree, listed) ==
    [lessons |-> tree.lessons, guards |-> tree.guards, manifest |-> listed]

NoCommit == Snapshot(Empty, None)

Worktree == Snapshot(Tree, manifest)

Snapshots == [lessons : [Lessons -> Record \cup {Absent, Torn}],
              guards : SUBSET (Lessons \X Template),
              manifest : Trees \cup {None}]

\* What the v1 reader accepts: the manifest lists exactly what is there, every
\* lesson parses, and guards and lessons refer to each other's files.
Sound(s) ==
    /\ s.manifest = [lessons |-> s.lessons, guards |-> s.guards]
    /\ \A l \in Lessons :
          /\ s.lessons[l] # Torn
          /\ s.lessons[l] # Absent =>
                /\ Valid(s.lessons[l])
                /\ s.lessons[l].guard # None => <<l, s.lessons[l].guard>> \in s.guards
    /\ \A g \in s.guards : s.lessons[g[1]] # Absent

PubTypeOK ==
    /\ TypeOK
    /\ index \in Snapshots /\ head \in Snapshots /\ remote \in Snapshots
    /\ before \in Snapshots
    /\ step \in {"idle", "status", "add", "validate", "commit", "verify", "push"}
    /\ expected \in Trees \cup {None}
    /\ changed \in SUBSET Lessons
    /\ commits \in Nat

PubInit ==
    /\ Init
    /\ index = NoCommit /\ head = NoCommit /\ remote = NoCommit
    /\ step = "idle" /\ expected = None /\ changed = {} /\ before = NoCommit
    /\ commits = 0

Stopped ==
    /\ step' = "idle" /\ expected' = None /\ changed' = {} /\ before' = NoCommit

\* read_manifest on the worktree.
Publish ==
    /\ pc = "idle" /\ step = "idle"
    /\ "namespace" \notin litter
    /\ commits < MaxCommits \/ (Worktree = index /\ index = head)
    /\ Sound(Worktree)
    /\ step' = "status"
    /\ expected' = manifest
    /\ UNCHANGED <<vars, git, changed, before, commits>>

\* git status also reports what is staged and not committed.  A file outside
\* the contract stops the publisher.
Status ==
    /\ step = "status"
    /\ \/ /\ litter # {}
          /\ Stopped
       \/ /\ litter = {}
          /\ Worktree # index \/ index # head
          /\ changed' = {l \in Lessons : lessons[l] # index.lessons[l] \/
                                         index.lessons[l] # head.lessons[l]}
          /\ before' = index
          /\ step' = "add"
          /\ UNCHANGED expected
       \/ /\ litter = {}
          /\ Worktree = index /\ index = head
          /\ Sound(head)
          /\ step' = "push"
          /\ UNCHANGED <<expected, changed, before>>
    /\ UNCHANGED <<vars, git, commits>>

\* Lesson files as they are now, those that were reported; guards and the
\* manifest nobody changes meanwhile.
Add ==
    /\ step = "add"
    /\ index' = Snapshot([lessons |-> [l \in Lessons |-> IF l \in changed THEN lessons[l]
                                                         ELSE index.lessons[l]],
                          guards |-> guards], manifest)
    /\ step' = "validate"
    /\ UNCHANGED <<vars, head, remote, expected, changed, before, commits>>

\* Mutant: what is staged is what was validated in the worktree.
StagedIsTrusted ==
    /\ step = "validate"
    /\ step' = "commit"
    /\ UNCHANGED <<vars, git, expected, changed, before, commits>>

ValidateStaged ==
    /\ step = "validate"
    /\ IF Sound(index) /\ index.manifest = expected
       THEN /\ step' = "commit"
            /\ UNCHANGED <<index, expected, changed, before>>
       ELSE /\ index' = before
            /\ Stopped
    /\ UNCHANGED <<vars, head, remote, commits>>

Commit ==
    /\ step = "commit"
    /\ head' = index
    /\ commits' = commits + 1
    /\ step' = "verify"
    /\ UNCHANGED <<vars, index, remote, expected, changed, before>>

\* The commit is read back; one that is not what was validated is not pushed.
ValidateCommit ==
    /\ step = "verify"
    /\ IF Sound(head) /\ head.manifest = expected
       THEN step' = "push" /\ UNCHANGED <<expected, changed, before>>
       ELSE Stopped
    /\ UNCHANGED <<vars, git, commits>>

\* git add or git commit fails, and the old index is read back.
GitFails ==
    /\ step \in {"add", "commit"}
    /\ faults < MaxFaults
    /\ faults' = faults + 1
    /\ index' = before
    /\ Stopped
    /\ UNCHANGED <<files, database, process, crashes, edits, commands, head, remote, commits>>

Push ==
    /\ step = "push"
    /\ remote' = head
    /\ Stopped
    /\ UNCHANGED <<vars, index, head, commits>>

\* A commit that cannot be read back or pushed is left to be pushed by a later
\* run.
PushFails ==
    /\ step \in {"verify", "push"}
    /\ faults < MaxFaults
    /\ faults' = faults + 1
    /\ Stopped
    /\ UNCHANGED <<files, database, process, crashes, edits, commands, git, commits>>

PublisherCrash ==
    /\ step # "idle"
    /\ crashes < MaxCrashes
    /\ crashes' = crashes + 1
    /\ Stopped
    /\ UNCHANGED <<files, database, process, faults, edits, commands, git, commits>>

PublishStep ==
    \/ Publish \/ Status \/ Add \/ ValidateStaged \/ Commit \/ ValidateCommit
    \/ GitFails \/ Push \/ PushFails \/ PublisherCrash

\* The state lock keeps commands and the publisher apart; edits it does not.
PubNext ==
    \/ step = "idle" /\ Next /\ UNCHANGED <<git, publisher>>
    \/ step # "idle" /\ Surroundings /\ UNCHANGED <<git, publisher>>
    \/ PublishStep

-----------------------------------------------------------------------------
(* Properties *)

\* What was committed, and what was pushed, is a snapshot the v1 reader
\* accepts: an artifact and its manifest are in it together, whatever was
\* edited, killed or failed while it was published (publish_snapshot and the
\* staged validation of _validate_git_tree).
CommitsAreSnapshots ==
    \A s \in {head, remote} : s = NoCommit \/ Sound(s)

\* A publication that failed leaves nothing staged that a later git command
\* could commit (the read-tree in publish_snapshot); only a kill can.
FailureUnstages ==
    step = "idle" /\ crashes = 0 => index = head

PubSpec == PubInit /\ [][PubNext]_pubVars
=============================================================================
