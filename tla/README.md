# A TLA+ model of TWILL

TWILL reads the transcripts that coding agents leave on disk, stores what it
observes in a SQLite database, clusters the observations, drafts lessons from
the clusters and publishes reviewed lessons to an artifacts repository. It is a
command-line program: a systemd timer runs `ingest` and `detect` every hour, an
operator runs the other verbs. There is one writer at a time, behind a flock.
What is hard is everything outside that lock: the transcripts grow, shrink and
vanish while they are read, processes die between two steps, and state is split
between a database that can be rebuilt and files that cannot.

## The system

| Component | State it keeps | Operations | What makes it correct |
|---|---|---|---|
| cursor bookkeeping (`twill_cursor.py`) | one row per transcript: session id, digest of the first 4 KiB, size, mtime, offset, errors, error streak, missing flag | `file_facts`, `plan_ingest`, `scan_lines`, `upsert_cursor`, `mark_missing` | the offset follows a newline; a changed file is read from zero; a torn tail is never consumed |
| ingest run (`twill_app.py`) | events, observations, usage, keyed by file and by session id | `ingest`, `ingest --file`, `doctor --rebuild` | rows and cursor move together; the rows are those a from-scratch ingest would make; every file is read in the end |
| state lock (`twill_lock.py`) | the kernel lock, pid and time in the lock file | `StateLock.__enter__`, `__exit__`, `_read_owner` | writers exclude each other; the loser is told who holds the lock; nobody waits |
| readers (`twill_reader.py`, `codex_reader.py`, `twill_interactions.py`) | calls waiting for a result, the open turn, question and reply of each thread, one flag "a correction may follow" | one method per record, `finish` | a call is reported once, with its result; a correction is the first text after a stop; a terminal state is one the records prove |
| episodes (`twill_episodes.py`) | per session the episodes with authority, lifecycle and facts | `_derive` over the interaction rows | an authorized episode has a grant that nothing later took back |
| autonomy (`twill_autonomy*.py`) | assessments; a journal per candidate with two manifests in the artifacts tree; the journals' projection in the database | `_assess`, `review_candidate`, `reconcile`, `assert_reconciled` | a finding rests on the last committed decision about the transcript as it is |
| detectors, trend (`twill_detectors.py`, `twill_trend.py`) | clusters, their sessions, run records, weekly cells and waste | `detect`, the queries of each detector, `attribute_weekly_waste` | a run refreshes a detector wholly or not at all; the four queries of a detector agree |
| review, prune (`twill_review.py`, `twill_prune.py`) | a cluster's state and reason; the retention window | `dismiss`, `prune` | a decision outlives every refresh; a prune changes no finding of the window |
| rules and coverage (`twill_rulecorpus.py`, `twill_ranker.py`, `twill_rules.py`) | one row per rule file with its digest, stale flag and last read; the rule that covers each cluster | `index_corpus`, `ingest_rule_reads`, `match_rule`, the deletion report | coverage and history follow a rule's content, not its path |
| explain (`twill_explainer.py`) | quota, cluster states, draft files | `explain` | one call a week; no draft without a validated answer; files and cluster states agree |
| lessons (`twill_lessons.py`, `twill_guards.py`) | one file per lesson with its state and guard | `accept`, `apply`, `unapply`, ... | only the legal transitions, each by an operator |
| artifacts (`twill_artifacts.py`, `twill_publisher.py`) | manifest, inventory, committed snapshot | `manifest_after_write`, `publish_snapshot` | the manifest names what is on disk; only a validated snapshot is published |
| measurement (`twill_measure.py`) | measurement rows and mirror files | `measure`, `restore_measurements` | a rebuild restores what the mirrors hold |
| schema, status (`twill_schema.py`, `twill_status.py`) | schema version, `status.json` | `run_migrations`, `record_stage` | a migration happens whole or not at all |

Components interact by calls within one process, through the database, through
files in the artifacts tree, and through the transcripts, which others write.
The hard behaviours: a producer that writes between any two reads of a visit; a
crash before a commit; file and database updates that are not atomic together;
the newest-first limit, which may starve old files; a session id that changes
or is shared; the error streak, which three code paths keep; flags a parser
sets and clears in many places; queries that must agree and are written one by
one; rule files that move between two looks at them; and a decision that was
made about an input that has changed since.

`PROJECT.json` lists the components with their status, the hazards with their
lines, the runs, the source lines of each definition and the findings.

## Modules

### Ingest

`Transcript` -- what ingest reads from a file. JSON is abstracted to the least
that can be torn: a record r is written as the two bytes `r r`, a newline ends a
line, a blank line is skipped, any other terminated line is invalid, and bytes
after the last newline are a tail. Digests are modelled by the bytes they cover.

`Ingest` extends it with the run. The mapping to the code:

| TLA+ | code |
|---|---|
| `content`, `present`, `mtime`, `fresh` | the transcripts on disk, and which are younger than the settle window |
| `cursor`, `events`, `obs`, `usage` | the tables `cursor`, `transcript_event`, `observation`, `session_usage` |
| `pc`, `phase`, `todo`, `cur`, `done` | where `ingest_command` and the visited file are |
| `facts`, `plan`, `scan` | the locals of `ingest_path` |
| `StartSource`, `StartFile`, `StartRebuild`, `Discard` | the three ways a run starts, `_discard_state_database` |
| `MarkMissing`, `Pick`, `EndRun` | the sweep and the loop over the settled files |
| `Stat`, `Hash`, `Plan`, `Open`, `Read`, `Parse` | the separate looks at the file: stat, digest, re-hash, fstat, the reads, the reread for usage |
| `Skip`, `DoNotSkip`, `Refresh`, `Persist` | the four ways a visit ends well, each one transaction at most |
| `Vanished`, `StartRefused`, `PersistFails`, `Crash` | the ways a run ends early |
| `Extend`, `Replace`, `Remove`, `Restore`, `Settle` | producers, upstream cleanup and time |

Each look at the file is a step of its own, so that producers interleave with
all of them. The database steps are atomic because the code wraps them in one
transaction and the lock admits no second writer. Two constants choose how far
producers go: `AppendRacesScan` allows an append between `fstat` and the last
read of a scan, `ReplaceRacesVisit` allows a rewrite during a visit. The many
`read` calls of one scan are one step: an append during them has the effect of
one just before the last, but a rewrite that mixes old and new bytes within one
scan is not modelled. Files with the same mtime are visited in either order.

`Visible` is an assumption about producers. The digest covers 4 KiB, and the
header of `twill_cursor.py` accepts that a rewrite behind an unchanged prefix
is taken for an append. `Visible` keeps producers within what the code can see:
a write that leaves a row covering its file leaves the consumed bytes alone.
Consumed are the bytes before the offset and, where an append during a scan left
the offset inside a line, the rest of that line, as its event is stored too. The
proof of `NoLineLost` asked for the latter: a producer that truncates within such
a line and fills it up again makes ingest lose a line, as TLC confirmed.

`Evidence` is the abstract specification: a store that holds the records of a
file's complete lines up to some line, that only grows while the file only
grows, and that knows no digests, offsets or passes. `Ingest` implements it
with `store <- events` and `intact <-` the files their cursor row covers.

`StateLock` models each invocation of the CLI as a process with its verb:
`Start` is main's decision, `Acquire` and `Refuse` are flock with `LOCK_NB`,
`Truncate` and `Stamp` write the metadata in two steps, `Clear` and `Unlock`
undo it in two, `ReadOwner`, `ReadNothing` and `ProcOwner` are the lookup of a
refused command, and `Crash` may hit any step.

### What the readers derive

An ingest parses the whole prefix of a transcript again and replaces what it
stored, so a behaviour of `Readers` is one parse. `Interactions` is what the two
parsers share: the records read (`log`), the rows they yield (`inter`,
`events`), the state between records (`pending`, `awaiting`, `question`, `last`,
`turn`, `asked`) and `Finish`. `ClaudeReader` has one action for each kind of
record of `ClaudeCodeLineParser`, `CodexReader` for each of
`CodexRolloutLineParser`, and `Readers` puts both beside each other with
what they promise. The properties are read off the log alone, as a reader of
the transcript would judge it. A record carries one content block and a text is
a class (`plain`, `quoted`, `sentinel`, `refusal`, `meta`, `metasentinel`); a
Codex call id is not used twice, a streamed Claude record repeats a call at any
time, and a result comes in the thread of its call. The optional history
database of Codex only decides which replies it proves complete.

`Episodes` goes on from the interaction rows: one action per row and class of
text, as `_derive` distinguishes them (`Note`, `Decision`, `Status`, `Resume`,
`Approve`, `Close`, `Opens`, `Ask`, `Answer`, ...). An action of the agent is a
verb with its object; wording rules are classes and one mark (`hold`,
`restrict`, `wait`, or `cut` for a text that was truncated when stored; a text
with several stands for its strongest). Marks are read in every row that
`_derive` reads them in. `Shortlisted`, `Candidate`, `Evidence` and `Supported`
are the assessment of `twill_autonomy.py` for the four families of claims.

### Detectors and clusters

`Detectors` has the queries. `ClusterPairs`, `HitPairs`, `WeeklyPairs` and
`Counts` give, for each of D-01 to D-08 and D-10, the rows of the four queries
as sets over the tables; `Refused` and `Findings` are what the runner makes of
them. `Norm` is redaction and truncation of keys. `Ingest` adds any row with
any day, `Prune` deletes the old observations and leaves D-04's denials, which
are copied from a log.

`Clusters` has the runner, with what a query reads abstracted to hits. The
detectors differ in three ways: `External` ones read an input of another program
(D-04 a log, D-10 a catalog), `Replayed` ones have no session-hit and no weekly
query (D-09, D-10), so nothing of theirs is in `cluster_session` or split as
waste, and `Quiet` keys are findings that count no session (silent hosts of D-08,
the documents of D-09):

| TLA+ | code |
|---|---|
| `cluster`, `member`, `record`, `cells`, `share` | the tables `cluster`, `cluster_session`, `detector_run`, `cluster_week` with its waste |
| `log`, `registered` | what the inputs of external detectors would give, and the detectors of the deployed code |
| `Detect`, `Rank`, `Prune` | the three commands that start `run_detectors`, each with its registry and windows |
| `Skip`, `Refuse`, `Fails`, `Run` | the ends of `_run_one`: input absent, semantics drifted, a failed query, the one transaction |
| `Attribute` | `attribute_weekly_waste` after the last detector |
| `Dismiss`, `Reserve`, `Draft`, `NoAnswer` | `dismiss_cluster`; the weekly quota and the end of `explain` |
| `Rebuild`, `Crash`, `Upgrade`, `Rotate`, `NextWeek` | recovery, kills, deployments of newer or older code, other programs, the calendar |

`Corpus` has the rule files and `rule_doc`: `Move`, `Write`, `Delete`, `Reglob`
are an operator at work, `Ingest` and `Expire` bring and take read observations,
`Rank` is `index_corpus` document by document (`IndexDoc`), the stale sweep, the
read markers and `match_rule` in one transaction. `Unread`,
`DeletionCandidates` and `DoctorComplains` are what the rules report, D-09 and
doctor make of the tables. A content stands for its digest, and which clusters
it mentions is given.

`Adjudication` has the operator's decisions about autonomy candidates.
`Review` to `Verify` are the steps of `review_candidate`: namespace, temporary
file, replaced journal, sidecar manifest, root manifest, commit and its
reading back; `Fail` and the three `Restore...` steps are its rollback, and
`RestoreFails` is an error in one of them. `Project`,
`Reconcile`, `Refresh` are `detect` and the end of a review, `Rank` the
assertion and refresh of `rank`, `Discard`, `Reread`, `Recover` the rebuild. A
basis stands for the versions and hashes a decision is bound to; it changes
with the transcript.

### Lessons and their publication

`Lesson` is the record of a lesson and its transitions as operators: what
`load_lesson` accepts (`Valid`), what a named command may do (`Legal`), and the
record each command writes. Summary, evidence and body are one value, `text`.

`Artifacts` is the tree under `artifacts_root` with the cluster table behind it:

| TLA+ | code |
|---|---|
| `lessons`, `guards`, `manifest`, `litter` | the files: lessons, guards, what `manifest.json` lists, temporary files of killed writers |
| `cluster`, `quota` | the rows `cluster` and the week in `meta` |
| `pc`, `job`, `next`, `drafts`, `todo`, `undo`, `saved` | where the one command under the lock is, and the locals of `manifest_after_write` |
| `Accept`, `Apply`, `Measure` | `accept_command` and `unapply_command`, `apply_command`, `measure_lessons` up to their first write |
| `Write`, `WriteManifest` and their failures, `RestoreLesson`, `RestoreRest`, `RestoreFails` | `manifest_after_write` around one write; `WriteManifest` also begins the next transaction of `apply --emit-guard` and of `measure` |
| `Explain`, `Create`, `Created`, `CreateFails`, `CommitDrafts`, `CommitFails`, `ExplainFails` | the quota and `write_lesson_files` |
| `Detect`, `Dismiss`, `Rebuild` | what they do to cluster rows |
| `Crash`, `HandEdit`, `CleanUp`, `NewWeek` | a kill, an operator with an editor, the calendar |

Each file is replaced in one step, as temporary file and rename make it; a new
lesson is created in place, so a kill may leave it torn. `measure` resolves at
most one lesson per run here; several are as several runs.

`Lifecycle` is the abstract specification: the graph of states a lesson moves
along. `Artifacts` implements it with the state of the file, or, while a command
may still be rolled back, the one before the command.

`Publication` extends `Artifacts` with `publish_snapshot`: validate the
worktree, `git status`, `git add`, validate the staged tree, commit, validate
the commit, push. Git
is external: an index, a branch and a remote that hold trees. The lock keeps
other commands out; edits by hand interleave with every step.

The modules `MC...` hold the values TLC needs, the modules `...Proofs` the
theorems. Operators commented "Mutant" are plausible bugs that show that a
property can fail; no specification uses them.

## Runs

| run | what it shows |
|---|---|
| `MCIngestFile` | the main instance: two files and a limit of one, where the newest may stay corrupt or torn for ever; every kind of write, all three run modes, crashes; refinement of `Evidence`, each file is caught up, a torn tail raises the alarm |
| `MCIngestPair` | two files and a limit of one, one of a kind the readers do not know, records of two sessions, appends during a scan, rewrites during a visit: no line is lost and the usage row follows the session |
| `MCIngestScanRace` | finding: an append during a scan leaves the cursor inside or before a consumed line |
| `MCLock` | writers exclude each other, the loser is told the owner or a dead one, and every command ends |
| `MCReaders` | every log of four records through either parser: runs reported with their results, corrections, answers, terminal states |
| `MCEpisodes` | every session of five rows over two actions: what authorizes an episode, and which claims an assessment supports |
| `MCDetectors` | every short history of two sessions: hit query, weekly query and cluster query agree, and a prune keeps the window |
| `MCClusters` | two detectors, one with silent hosts and one without session-hit query, under detect, rank and prune with failures, kills, deployments, an input that comes and goes, dismissals, the weekly call and a rebuild |
| `MCCorpus` | three rule files that move, change, vanish and are read between two ranks: coverage and history follow the content, and a proposed deletion is safe |
| `MCAdjudication` | two candidates reviewed while their transcripts change, with two errors and a kill anywhere, also in a rollback, rebuilds, ranks and publications |
| `MCArtifacts` | two lessons, drafted, accepted, applied with guard, unapplied, resolved, with an error and a kill anywhere; refinement of `Lifecycle` |
| `MCPublication` | one lesson and a publisher, with edits, errors and a kill: only sound trees are committed, a failure leaves nothing staged |

### Where code and documents disagree

`MCIngestScanRace` is a run of its own. Its append has a sequel: if it ends a
line, the line is stored and the offset stays before it, so the next pass
inserts it again, the unique key refuses, and the run ends there, as does each
later one. With `AppendRacesScan = TRUE`, `EventuallyCaughtUp` is false.

Some definitions state what a document says and are false of the code. They
stand in their modules, marked in a comment, and TLC gives the behaviour when
one is added to the cfg named here with the changed values.

| definition | instance | what the code does | what the document says |
|---|---|---|---|
| `ObservationsAsFromScratch` | `MCIngestFile`, `SessionOf <- Switches`, invariants only | a span whose records name another session leaves the observations of the former one (`twill_app.py:1296`) | "byte-identical derived rows" (`docs/plan/plan.md:678`); a rebuild is a from-scratch ingest (`twill_app.py:2129`) |
| `CommittedLinesObserved` | `MCIngestFile`, `Limit = 2`, `SessionOf <- Shared`, invariants only | observations are deleted by session id, so the second file of a session deletes those of the first (`twill_app.py:1297`) | the offset never exceeds the last line "whose observations are committed" (`docs/plan/plan.md:676`) |
| `DismissalIsPermanent` | `MCArtifacts` | a rebuild makes a new database and no file holds the dismissal (`twill_app.py:2157`) | "Permanently suppress one cluster" (`twill_review.py:95`), `docs/plan/plan.md:1323` |
| `RollbackNeedsAnError` | `MCArtifacts` | a temporary file of a killed writer makes the manifest of every later command fail (`twill_artifacts.py:357`) | "Temporary dot-files are never inventory entries" (`docs/notes/artifact-contract.md:96`) |
| `CorrectionBeforeAction` | `MCReaders` | the Claude parser clears its flag at the result of an invocation, not at the invocation (`twill_reader.py:610`) | "Once the agent acts -- a new tool invocation or a completed result" (`docs/notes/event-contract.md:53`) |
| `HoldDefeatsGrant` | `MCEpisodes` | a settled decision and a dated instruction are recorded and not searched for a hold (`twill_episodes.py:140-155`) | "An explicit permission hold defeats an inferred grant" (`docs/notes/episode-contract.md:29`) |
| `LiveRuleCovers` | `MCCorpus` | a covering path that is stale is kept although a live rule mentions the cluster (`twill_ranker.py:391`) | "Candidate paths are ordered live before stale" (docstring of `match_rule`) |
| `CorrectionAfterRefusal` | `MCReaders` | a refused Codex output is reported and sets no correction flag (`codex_reader.py:562`, `:673`) | the first turn "after an `interrupt` or a `tool_rejected`" (`docs/notes/event-contract.md:52`) |
| `OneRunPerCall` | `MCReaders` | a streamed Claude record that repeats a call after its result opens it again, and it is reported a second time (`twill_reader.py:602`) | "one shell command invocation paired with its result" (`docs/notes/event-contract.md:40`) |
| `RejectedIsNoRun` | `MCReaders` | a call refused by a text of the user, or by Codex's rejection event, stays pending and is reported with unknown exit (`twill_reader.py:502`) | "A call that was rejected before executing is never a `run`" (`docs/notes/event-contract.md:43`) |
| `WasteWithinUsage` | `MCClusters`, `MaxIncidents = 0`, `External = {}`, `Replayed = {}`, no symmetry | `rank` passes a registry of its own, and the pass splits the cost anew among its cells only (`twill_app.py:2545`) | "never exceed its usage" (`twill_trend.py:464`) |
| `ClustersAwaitInput` | `MCClusters`, `MaxIncidents = 0` | `prune` runs every detector without regard to the logs they read (`twill_prune.py:318`) | "its clusters survive untouched until the input returns" (`twill_app.py:2329`) |

Also, the comment at `main` and `rebuild_command`'s docstring say that a timer
that fires during a recovery queues behind it; in the code and in `Refuse` it
is turned away at once, as EC-10 of the plan asks. The metadata of a process
that died as owner stays until the next owner empties the file: a command
refused just then names the dead one, which `ReportedOwnerIsCurrentOrDead`
allows.

### Gaps the properties leave out

No document speaks of these, or a property excludes them by its condition.

Artifacts and lessons:
- If the commit at the end of `write_lesson_files` fails, the new lessons are
  unlinked after the manifest was written, and it lists files that are gone
  (`twill_explainer.py:1466`). `FailureRestoresFiles` excepts these drafts.
- `_create_lesson` writes in place (`twill_explainer.py:1309`), unlike
  `docs/notes/artifact-contract.md:90` says of every file. A kill leaves a torn
  lesson, and every reader of all lessons stops until it is removed.
- After a kill between a lesson and its manifest, the same command finds the
  lesson in its target state and returns (`twill_lessons.py:904`): the manifest
  stays old until another command writes one.
- After a kill between the manifest and the commit, or a rebuild, a cluster is
  open although its lesson exists. The next `explain` refuses the whole batch
  if the text differs, and the week is spent.
- A second error while a rollback is under way leaves a changed file beside an
  old manifest, so `FailureRestoresFiles` counts at most one error.
- A lesson that is unapplied and applied at another layer keeps its old guard
  reference until a new guard is attached.
- A failure of the `git read-tree` that undoes a publication is ignored by the
  code (`check=False`) and not modelled.

Autonomy:
- If `publish_snapshot` fails after its commit (`twill_artifacts.py:1190`), the
  files are undone and the commit stays; the next publication takes the record
  back, against `docs/plan/plan.md:556`. `JournalsOnlyGrow` excepts it with the
  variable `abandoned`.
- After a kill between the manifests and the commit, the tree is readable and
  `detect` projects a decision that no commit holds
  (`docs/notes/artifact-contract.md:189`); `CommittedFirst` counts no kill.
- A second error while a failed review puts its files back ends it where it is:
  journal and manifests may disagree, or a record stays that nothing committed.
  `FailureLeavesReadable` and `CommittedFirst` except it (`unrestored`).
- A kill earlier leaves a temporary file or half a namespace, and `detect`,
  `rank`, `explain` and `measure` stop until it is cleaned up.
- Answers to an old question may hold the episode that is open now, not the one
  they answer (`Answer`).

Detectors and clusters:
- Keys longer than 240 characters may be cut to the same one; the detector is
  refused from then on (`DetectorContractError`) and its clusters stay as they
  are. `HitsNameEverySession` has the condition.
- D-03's weekly count includes failures before a success, its cluster count
  does not. After a prune D-08 forgets hosts it only knew from rows that are
  gone, and a pair of D-05 or D-06 becomes adjacent if the row between had an
  older timestamp. `WeeklyAddsUp` and `PruneKeepsFindings` name all three.
- Waste in cells older than the trailing weeks keeps the value of the last
  split. A rebuild forgets the quota, so `OneCallPerWeek` adds one call for each
  (`docs/plan/plan.md:1243` has at most one).
- The weekly shadow of the trend bounds only the table `observation`
  (`twill_trend.py:337`), not the logs of other programs.

Rules:
- A rule that moves while its old path is given other content loses its read
  history; `MovesKeepHistory` excepts it.
- A stale row whose file returns under another layer stays stale until the next
  index, as `StaleMeansGone` says, and a read of a path counts for the content
  its row has by now.

Readers:
- Text quoted from history counts as the correction. A refusal in the result of
  a question is its answer, two results may both be answers to one question,
  and the correction flag is one for all threads.
- Later records of a message id yield no interaction, so their results link to
  none.

### Bounds

Ingest: a file holds at most seven bytes (six in `MCIngestFile`), two whole lines
and the begin of a third, with a prefix of two bytes that is shorter
than a line, so files below, at and above the prefix occur, and every boundary of
a line is a possible cut. Two writes suffice for an append and a rewrite, or for
both halves of a line; one operator command or crash comes between any two steps.
Longer interleavings (a crash within a rebuild that follows a rewrite) are left to
the proofs, which have no bound; the liveness properties are checked for what
fits. `MCIngestFile` has 741 000 states. One of its two files begins with a
corrupt line and a torn one, and with a limit of one either may be the newer, so a
file that is never finished competes with one that waits. `AlarmRuns` is two where
the code has three, and the streak is counted up to it, since nothing tells larger
values apart; two still needs the streak to be carried from one run to the next. A
cap of one or two observations is reached by a file of two or three lines.

Lock: one command of each kind, as the theorem `LockExcludesWriters` covers all
of them, and three processes, one to leave, one to enter and one to be refused,
and two of the five read attempts, as more only repeat the same step; two
crashes let an owner and its successor die.

Readers: four records are a stop, an action, a text and one more, or a call with
its result, a repetition and an end; two threads; one record that is rare
(`MaxRare`). Episodes: five rows are a request, a question, the next request, a
claim and a late answer, after which the first episode spans the claim; two
episodes and two actions, one to be approved and one not; one row of the rarer
kinds (`MaxRare`).

Detectors: up to four rows of five suites of contents, each with what its
queries tell apart, three days in two weeks, two sessions, as the thresholds are
two sessions and three failures. Two long keys are cut to the same one.
Clusters: one detector with findings by session and silent hosts (D-08) and one
that matches a catalog and has neither session-hit nor weekly query (D-10), a
key that is hit and one that is silent, two sessions (the threshold is one or
two, so an upgrade or a downgrade changes the semantics), two weeks with a
window of one and a series of two, two commands and one incident. Windows longer
than the series, which the code admits, are not modelled: a row could then have
no weekly cell. Corpus: three paths, two rules that mention the cluster and one
that does not, three edits between or after reads, which make a move with its
old path reused.

Adjudication: two candidates, the assessments dismissed, supported and none as
the transcript changes twice, two revisions, two errors, so that one may hit the
undoing of the other, and one kill. `supported`
and `dismissed` stand for all dispositions, since only the first is told from
the others.

Artifacts: two layers suffice, `hook`, which needs an owner and has two guard
templates, and `retrieval_only`, which has no owner; two texts tell a lesson from
its rewritten self. Four commands are accept, apply, unapply and apply again.
One error and one kill hit any step of a transaction, an edit by hand comes
alone (`EditsComeAlone`; the theorems have no such bound); two errors only
matter for the gap named above. With two lessons a batch can be written in part.
Publication needs one lesson, one edit to change a file between two looks at it,
and one commit.

### Fairness and deadlock

The timer fires for ever (`twill-ingest.timer`, hourly, persistent), a started
run goes on, and time passes the settle window of a file nobody writes.
Producers, operator and crashes are not fair. For the lock, a process that was
started goes on; nothing says that one starts. The other runs check safety,
which needs no fairness. Liveness is claimed without the races only, since the
append above stops ingest for good.

`CHECK_DEADLOCK FALSE` appears where a behaviour ends: in the lock run all
invocations may have ended, a parse has finished, a session or a history has
its last row, and in `MCClusters`, `MCDetectors` and `MCCorpus` the bounds on
commands, rows and edits are used up.

## Proofs

All theorems hold for every value of the constants: any number of files,
records, sessions, detectors and processes, any contents and bounds.

- `StateLockProofs`. `LockInvariant` says that exactly the process between flock
  and unlock is the holder, and that the metadata names it from `Stamp` to
  `Clear`. From it follow `LockTypeOK`, `LockMetadata` and
  `LockExcludesWriters`; the last one also needs that every verb that is not
  `ReadOnly` needs the lock. `ReportedAlwaysCurrentOrDead` needs `ToldInv`: a pid
  in the file is that of a running owner or of a dead one, and a refused process
  has seen every owner since it began to look.
- `IngestProofs`. The first part has the lemmas about lines, tails and events:
  the end of a scan is on a boundary, events up to an offset depend only on the
  bytes before it, and events of adjacent spans join. `TypeOK` is not inductive:
  a step of a visit needs that a file is being visited, and a resume that its row
  exists. `TypeInv` adds both. The other parts are:
  - Commits, for `AppendRacesScan = FALSE`. `EventsAreCommittedLines` says
    nothing about a visit under way, so `CommitInv` adds what a visit holds: the
    plan fits the row it was made from (`PlanSound`); a resume of a file whose
    digest is still true is of the file the row describes (`ResumeSound`); the
    scanned span ends at a line of that file (`SpanSound`). If the digest is no
    longer true, the commit stores a row that does not cover the file and
    promises nothing: the next pass reparses. The lemma `SpanJoins` shows that
    the kept events and those of the span are the events up to the new offset.
  - Refinement, for `AppendRacesScan = ReplaceRacesVisit = FALSE`: every step of
    ingest is a step of `Evidence` or a stutter. The extra invariant is that a
    visit's span reaches at least its cursor. `CursorMonotone` follows.
  - `NothingIsLost`, with every race allowed. The cursor may then be inside or
    before a line that is stored, so the invariant `HeldInv` is weaker than
    `CommitInv`: the stored events reach some boundary of a line at or beyond the
    cursor (`Stored`), and a span under way keeps that.
  - `UsageAlwaysFollows`, with every race allowed.
  - `ObservationsAlwaysFromScratch`, for `AppendRacesScan = FALSE` and
    `SessionIsFile`: the session id of a file is its own and no record changes it.
    Where a record may, the statement is false (table above). `ObsInv` adds to
    `CommitInv` that rows carry the file's own session and that the observations
    a scan has derived are those of its lines (`NormSound`).
- `ClustersProofs`. `TypeOK` is inductive and not trivial: `prune` takes each
  window from an earlier run or from a row, and `LongestWindow` shows by the
  well-founded order of the numbers up to `History` that the choice exists and
  is an allowed window. Under it both halves of `TablesAgree`, `RowsFit` and
  `RowsHaveRun`, are kept by every step, with a lemma for each kind: one run
  writes all tables of its detector (`RunFits`, `RunRecords`), a review changes
  no session (`ReviewKeepsTables`), the rest leaves them alone. A row of a run
  has a weekly cell because what a window of at most `History` weeks emits the
  series counts (`EmittedIsCounted`). Of a detector without session-hit query no
  session is ever a member, and a silent finding counts none. `CallsInv`
  strengthens `OneCallPerWeek` by the week in the quota: where it is not the
  current one, there was no call beyond the rebuilds. The action properties
  follow from lemmas about one step: an upsert leaves state and reason of a
  reviewed row, a run commits only the semantics its record names, or the first
  ones of a version, and the waste pass (`PassIsAttribute`) gives every cell of
  a session the same part, the number of those cells.
- `DetectorsProofs`, for any table and rows.
  A threshold takes no session from a key that recurs, so hit query and
  cluster query name the same sessions (`HitsAlwaysNameEverySession`); a prune
  leaves the rows of a later window and, in order, those between two of them
  (`WindowKeepsRows`, `WindowKeepsBetween`), so every query returns what it did
  (`PruneAlwaysKeepsFindings`). `WeeklyAlwaysAddsUp` needs that the weekly query
  finds the keys and sessions of the clusters (`WeeklyFindsTheClusters`), and
  `CountsAddUp`: a sum of the sizes of disjoint sets is the size of their union.
  The sum is a fold; instead of an induction over it, the sizes of the unions are
  shown to solve its recursion, and a smallest set on which another solution
  differs is refuted.
- `PublicationProofs` begins with `Artifacts`. None of `LessonsLoad`,
  `GuardsAreWritten` and `DraftedIsWritten` is inductive. `Inv` adds that the
  saved tree a rollback returns to has them too, that its guards are still
  there, that the record a command has prepared is valid and refers to a guard
  that exists (`JobOK`), and how far the batch of `explain` is (`DraftsOK`). In
  particular a guard is only taken back while no lesson refers to it. One lemma
  per action shows that the step keeps `Inv`; the record operators enter by the
  lemmas `AcceptedLoads`, `AppliedLoads`, ... alone. `FailureAlwaysRestores`
  adds `FilesInv`, what has been written and what put back at each step of a
  transaction. `ArtifactsImplementLifecycle` shows that every step is one of
  `Lifecycle` or a stutter; by `AtMostOneAhead` a running command has moved its
  own lesson one legal step beyond the tree it may fall back to, or has created
  drafts, and no other lesson. `Publication` takes `Inv` along and adds that the
  index is sound between the staged validation and the commit, and where the
  index stands at each step (`IndexOK`). `CommitsAlwaysSnapshots` follows for
  any edits and errors.
- `AutonomyProofs` has the two modules of autonomy, which share no state (the
  names every module uses carry the prefix `Episodes` in one of them).
  `Episodes`, for sessions of any length: `EpisodesInv` says of each episode
  that its facts and its start lie in the rows read, that its grant came last
  and that a revoked one is not open (`Sane`); that the open one is the last;
  that a claim since it began was made in it (`ClaimsPlaced`); and that what the
  human withdrew since it began is among its facts (`WithdrawalNoted`).
  `SupportIsCurrent` needs the last two. Rows fall into three kinds, those under
  which every episode `Continues`, those that end the open one and those that
  open another, with a lemma for each kind; the lemmas about one episode
  (`MarkedContinues`, `AnsweredContinues`, `ClosedEnds`, ...) hold the wording
  rules. `Adjudication` has one invariant per property. `Projected`: between
  reconcile and refresh the decisions are the journals' last ones.
  `HistoryKept`: what is committed is a prefix of the journals and of what the
  running review would put back. `CommitInv`, without a kill or a review that
  could not be undone: the revision of a decision is at most the length of the
  committed journal, of the one in the tree and of the one a review would
  restore. `ReadableInv`, under the same condition, says at each step of a
  review, forward or back, which files of the tree are the old ones and which
  the new.
- `CorpusProofs`. A rank walks the rule files one by one, and `IndexCorpus` is
  the table at the end of such a run; what the end has follows from a least step
  that would lack it (`IndexedForOne`, `IndexedForAll`). By `CoverMentions` a
  covering path has a row, and the content of the row mentions the cluster.
- `ReadersProofs`, for transcripts of any length through either parser. Each
  record is first reduced to a `View`: what it does to interactions, calls, runs
  and the flag; the invariants are proved of views, which both parsers share.
  `RunsInv` with `PendInv`: what pends is the line of a call after which nothing
  with its id came, so the result that comes next is its first, and the call is
  reported then and not before. `FlagInv`: the flag is set exactly if since some
  stop nobody has acted or spoken. `QuestionInv`: the open question of a thread
  has no answer, and nothing closed it since. `ReplyInv`: the trailing reply of
  a thread is the final one that no record has ended, and every other reply is
  in the state the records gave it.

The assumptions are those the modules name (`...Assumption`): bounds are
numbers, sets are finite where they are counted, special values are apart from
the rest. `TypeOK` of each module, `MetadataNamesHolder`, `CursorMonotone`,
`GuardsAreWritten`, `DraftedIsWritten` and `FailureUnstages` are proved and no
longer part of a run.

Only model-checked: the liveness properties `EventuallyCaughtUp`,
`TornTailAlarms` and `EveryoneEnds`, as the prover handles neither fairness nor
ENABLED. Every safety property of the runs that pass is also proved, under the
hypotheses named above: the commits, the refinement and the observations of
ingest only where the races they exclude do not happen.

## Not modelled

- Schema and migrations: all statements and the version stamp are one
  transaction, so a kill leaves the old schema whole; what can go wrong is in
  the statements, which a state machine does not show.
- Redaction, text matching of rules, wording rules of episodes: regular
  expressions and full-text queries without state. They enter as classes or
  given relations.
- Measurement mirrors, their merge with the rows and the arithmetic of the
  windows; impact and intervention files of `twill_autonomy_impact.py`; digests
  in the manifest. `Artifacts` has what `measure` does to lessons and manifest.
- Digest, brief, change points, status and doctor's checks: they read and
  render, or replace one file under the lock.
- Scores and order of the ranking; prompt, answer and backtest of `explain`;
  `escalate` and `retire`, which no command calls.
- Within ingest's transaction: the parse_shape counts and the retention cutoff
  of the fallback observations; after it the performance budget and
  `record_stage`. The interactions, episodes and rule reads it writes are in
  modules of their own, as functions of the rows, and expire nowhere here.
- Within the readers: usage sums, several content blocks in one record, and
  results that come in another thread than their call. Within the episodes: the
  cap on the interactions of a session (`twill_episodes.py:312-318`), which can
  only make contexts unknown; whether a claim is proved, except for offers.
- Within the detectors: a catalog of D-10 that changes is only one that matches
  nothing of before or cannot be read; D-11 over reports of other hosts. One
  `Norm` stands for two orders of cutting and redacting a key
  (`twill_detectors.py:363`, `:1816`).
- Within adjudication: `Refresh` joins the transactions of five detectors
  (`twill_app.py:2757`), which read the same tables and write apart; the
  temporary files of the manifests' writes and of restores, and an error while
  the review unlinks its own.
- Within explain: a candidate is read as open (`twill_explainer.py:741`) and
  written under the same lock, so that `Explain` and `Draft` only know open ones
  where the guard at line 1364 would also take drafted ones.
- Configuration: one file, loaded and validated. Deployment: the timer is the
  fairness of ingest.

One state directory per artifacts tree is assumed, so that one lock covers both.

## What remains

`Measure` would be the next module: staged mirrors against rows through a kill,
and `restore_measurements` after a rebuild. After it a composition of `Clusters`
with `Artifacts`, which share the cluster states and model them separately, each
with what its own properties need of the other.
