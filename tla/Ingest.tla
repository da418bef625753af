------------------------------- MODULE Ingest -------------------------------
(***************************************************************************)
(* `twill ingest` over a tree of transcripts: twill_cursor's per-file       *)
(* bookkeeping, Store.ingest_path's read-plan-scan-commit sequence, the run *)
(* that drives it file by file, and `doctor --rebuild`, which replays it on *)
(* an empty database.  Producers write the files while the run reads them.  *)
(*                                                                          *)
(* The state lock (module StateLock) admits one mutating verb at a time, so *)
(* the database has a single writer and a row read early in a pass is still *)
(* current when the pass commits.  The transcripts have no such protection. *)
(***************************************************************************)
EXTENDS Transcript

CONSTANTS
    File,              \* transcript paths
    NoFile,            \* no file is being ingested
    NoRow,             \* the cursor table has no row for the file
    Stem,              \* path.stem, the fallback session id of each file
    Kind,              \* "reader" (Claude, Codex) or "generic" per file
    PrefixBytes,       \* IDENTITY_PREFIX_BYTES, 4096 in the code
    AlarmRuns,         \* the streak doctor alarms at, 3 in the code
    MaxObservations,   \* MAX_OBSERVATIONS_PER_SESSION, 1000 in the code
    Limit,             \* --limit, the sessions one run may process
    Priced,            \* records that carry token counts
    InitialTree,       \* what the files may hold when the first run starts
    Chunk,             \* what a producer may append in one write
    Rewrite,           \* what a file may be rewritten to
    AppendRacesScan,   \* may an append land between fstat and the last read
    ReplaceRacesVisit, \* may a file be rewritten in the middle of its visit
    MaxLength,         \* bound: bytes in one file
    MaxWrites,         \* bound: changes to the tree
    MaxOps             \* bound: operator commands plus crashes

ASSUME IngestAssumption ==
    /\ PrefixBytes \in Nat \ {0}
    /\ AlarmRuns \in Nat \ {0}
    /\ MaxObservations \in Nat
    /\ Limit \in Nat \ {0}
    /\ {MaxLength, MaxWrites, MaxOps} \subseteq Nat
    /\ {AppendRacesScan, ReplaceRacesVisit} \subseteq BOOLEAN
    /\ Chunk \cup Rewrite \subseteq Seq(Byte)
    /\ InitialTree \subseteq [File -> Seq(Byte)]
    /\ Priced \subseteq Record
    /\ NoFile \notin File

VARIABLES
    \* the transcript tree
    content,    \* bytes of each file (of an absent file, the last it had)
    present,    \* the files that exist
    mtime,      \* st_mtime_ns of each file, in writes to the tree
    fresh,      \* files younger than the settle window
    clock,      \* writes to the tree so far
    \* the state database
    cursor,     \* cursor row of each file, or NoRow
    events,     \* transcript_event rows of each file
    obs,        \* observation rows
    usage,      \* session ids with a session_usage row
    \* the running command
    pc,         \* the next step of the run
    mode,       \* "source" (the timer), "file" (--file) or "rebuild"
    phase,      \* "skip" in skip_unchanged_path, "ingest" in ingest_path
    todo,       \* <<mtime, file>> of the enumerated files not yet visited
    cur,        \* the file being visited
    done,       \* sessions this run has processed
    facts,      \* FileFacts of the visit
    plan,       \* IngestPlan of the visit
    scan,       \* LineScan and what parse_scan made of it
    ops         \* operator commands and crashes so far

tree == <<content, present, mtime, fresh, clock>>
db == <<cursor, events, obs, usage>>
visit == <<phase, cur, facts, plan, scan>>
vars == <<tree, db, pc, mode, todo, done, visit, ops>>

Session == {SessionOf[r] : r \in Record} \cup {Stem[f] : f \in File}

NoFacts == [size |-> 0, mtime |-> 0, sha |-> <<>>]
NoPlan == [action |-> "none", start |-> 0, replace |-> FALSE]
NoScan == [size |-> 0, new |-> 0, tail |-> FALSE, found |-> FALSE,
           errors |-> 0, events |-> {}, sid |-> NoSession, norm |-> {}]

CursorRow ==
    [sid : Session, sha : Seq(Byte), size : Nat, mtime : Nat, off : Int,
     errors : Nat, errorRuns : 0 .. AlarmRuns, missing : BOOLEAN]

ASSUME NoRowAssumption == NoRow \notin CursorRow

Event == [line : Nat, rec : Record]
Observation == [sid : Session, path : File, line : Nat, rec : Record]

TypeOK ==
    /\ content \in [File -> Seq(Byte)]
    /\ present \subseteq File
    /\ mtime \in [File -> Nat]
    /\ fresh \subseteq File
    /\ clock \in Nat
    /\ cursor \in [File -> CursorRow \cup {NoRow}]
    /\ events \in [File -> SUBSET Event]
    /\ obs \subseteq Observation
    /\ usage \subseteq Session
    /\ pc \in {"idle", "discard", "sweep", "pick", "stat", "hash", "plan",
               "open", "read", "parse", "persist"}
    /\ mode \in {"source", "file", "rebuild"}
    /\ phase \in {"skip", "ingest"}
    /\ todo \subseteq Nat \X File
    /\ cur \in File \cup {NoFile}
    /\ done \in Nat
    /\ facts \in [size : Nat, mtime : Nat, sha : Seq(Byte)]
    /\ plan \in [action : {"none", "parse", "resume", "reparse"},
                 start : Int, replace : BOOLEAN]
    /\ scan \in [size : Nat, new : Int, tail : BOOLEAN, found : BOOLEAN,
                 errors : Nat, events : SUBSET Event,
                 sid : Session \cup {NoSession}, norm : SUBSET Event]
    /\ ops \in Nat

Init ==
    /\ content \in InitialTree
    /\ present = File
    /\ mtime = [f \in File |-> 0]
    /\ fresh = {}
    /\ clock = 0
    /\ cursor = [f \in File |-> NoRow]
    /\ events = [f \in File |-> {}]
    /\ obs = {}
    /\ usage = {}
    /\ pc = "idle"
    /\ mode = "source"
    /\ phase = "skip"
    /\ todo = {}
    /\ cur = NoFile
    /\ done = 0
    /\ facts = NoFacts
    /\ plan = NoPlan
    /\ scan = NoScan
    /\ ops = 0

-----------------------------------------------------------------------------
(***************************************************************************)
(* The producers.  Every write moves the mtime and restarts the settle      *)
(* window.  A rewrite that keeps the hashed prefix cannot be told from an    *)
(* append, a limit twill_cursor's header accepts; Visible keeps producers    *)
(* within it: a write that leaves the cursor row covering the file leaves    *)
(* the bytes already consumed alone, and a write that leaves the digest a    *)
(* visit has just taken true only appends.                                   *)
(***************************************************************************)
\* plan_ingest can only resume `row` on a file that holds c if this is true.
Covers(row, c) == row # NoRow /\ row.off <= Len(c) /\ HasPrefix(c, row.sha)

\* The bytes before the offset and, where an append during the scan made it
\* stop within a line, the rest of that line, whose event is stored too.
Consumed(c, off) ==
    {i \in DOMAIN c : i <= off \/ (off > 0 /\ \A j \in off .. i - 1 : c[j] # NL)}

Hashed == pc \in {"plan", "open", "read", "parse", "persist"}

Visible(f, c) ==
    /\ Covers(cursor[f], c) =>
         /\ Covers(cursor[f], content[f])
         /\ \A i \in Consumed(content[f], cursor[f].off) :
                i \in DOMAIN c /\ c[i] = content[f][i]
    /\ cur = f /\ Hashed /\ HasPrefix(c, facts.sha) =>
         HasPrefix(content[f], facts.sha) /\ HasPrefix(c, content[f])

Write(f, c) ==
    /\ clock < MaxWrites
    /\ Len(c) <= MaxLength
    /\ Visible(f, c)
    /\ cur = f /\ pc = "read" /\ HasPrefix(c, content[f]) => AppendRacesScan
    /\ content' = [content EXCEPT ![f] = c]
    /\ clock' = clock + 1
    /\ mtime' = [mtime EXCEPT ![f] = clock + 1]
    /\ fresh' = fresh \cup {f}

Extend(f) ==
    /\ f \in present
    /\ \E b \in Chunk : Write(f, content[f] \o b)
    /\ UNCHANGED <<present, db, pc, mode, todo, done, visit, ops>>

\* A rewrite in place, a truncation, or a new file under an old name.
Replace(f) ==
    /\ cur = f => ReplaceRacesVisit
    /\ \E c \in Rewrite \cup {SubSeq(content[f], 1, n) : n \in 0 .. Len(content[f]) - 1} :
          c # content[f] /\ Write(f, c)
    /\ present' = present \cup {f}
    /\ UNCHANGED <<db, pc, mode, todo, done, visit, ops>>

\* Upstream cleanup, at any moment; and the file coming back as it was.
Remove(f) ==
    /\ f \in present
    /\ clock < MaxWrites
    /\ present' = present \ {f}
    /\ clock' = clock + 1
    /\ UNCHANGED <<content, mtime, fresh, db, pc, mode, todo, done, visit, ops>>

Restore(f) ==
    /\ f \notin present
    /\ present' = present \cup {f}
    /\ UNCHANGED <<content, mtime, fresh, clock, db, pc, mode, todo, done, visit, ops>>

\* The settle window passes over a file nobody writes to.
Settle(f) ==
    /\ f \in fresh
    /\ fresh' = fresh \ {f}
    /\ UNCHANGED <<content, present, mtime, clock, db, pc, mode, todo, done, visit, ops>>

-----------------------------------------------------------------------------
(***************************************************************************)
(* Starting a run.                                                          *)
(***************************************************************************)
\* settled_files: the files older than the window, to be taken newest first.
Settled(S) == {<<mtime[f], f>> : f \in (S \cap present) \ fresh}

StartSource ==
    /\ pc = "idle"
    /\ mode' = "source"
    /\ todo' = Settled(File)
    /\ pc' = "sweep"
    /\ UNCHANGED <<tree, db, done, visit, ops>>

\* `--file F`: one named file, which crosses the same settle gate.
StartFile(f) ==
    /\ pc = "idle"
    /\ ops < MaxOps
    /\ f \in present
    /\ mode' = "file"
    /\ todo' = Settled({f})
    /\ pc' = "sweep"
    /\ ops' = ops + 1
    /\ UNCHANGED <<tree, db, done, visit>>

\* rebuild_state_database: enumeration precedes the discard, and a tree with
\* files but nothing settled is refused while the old database still exists.
StartRebuild ==
    /\ pc = "idle"
    /\ ops < MaxOps
    /\ present \subseteq fresh => present = {}
    /\ mode' = "rebuild"
    /\ todo' = Settled(File)
    /\ pc' = "discard"
    /\ ops' = ops + 1
    /\ UNCHANGED <<tree, db, done, visit>>

\* _discard_state_database, then the schema of an empty database.
Discard ==
    /\ pc = "discard"
    /\ cursor' = [f \in File |-> NoRow]
    /\ events' = [f \in File |-> {}]
    /\ obs' = {}
    /\ usage' = {}
    /\ pc' = "pick"
    /\ UNCHANGED <<tree, mode, todo, done, visit, ops>>

\* mark_missing: only the flag moves, for every stored path, whatever files
\* were enumerated.  A run with nothing to visit ends at the next Pick.
MarkMissing ==
    /\ pc = "sweep"
    /\ cursor' = [f \in File |->
            IF cursor[f] = NoRow THEN NoRow
            ELSE [cursor[f] EXCEPT !.missing = f \notin present]]
    /\ pc' = "pick"
    /\ UNCHANGED <<tree, events, obs, usage, mode, todo, done, visit, ops>>

-----------------------------------------------------------------------------
(***************************************************************************)
(* One visit: stat, hash, plan, open, read, parse, persist.  An exception   *)
(* leaves the run (Abort); the visits before it stay committed.             *)
(***************************************************************************)
EndVisit == /\ phase' = "skip"
            /\ cur' = NoFile
            /\ facts' = NoFacts
            /\ plan' = NoPlan
            /\ scan' = NoScan

Newest(e) == e \in todo /\ \A d \in todo : d[1] <= e[1]

\* The loop of ingest_command: the next settled file, unless the limit is
\* reached.  --file and rebuild go straight to ingest_path, as does a file
\* without a row, and rebuild has no limit.
Pick ==
    /\ pc = "pick"
    /\ todo # {} /\ (done < Limit \/ mode = "rebuild")
    /\ \E e \in todo :
          /\ Newest(e)
          /\ cur' = e[2]
          /\ todo' = todo \ {e}
    /\ phase' = IF mode = "source" /\ cursor[cur'] # NoRow THEN "skip" ELSE "ingest"
    /\ pc' = "stat"
    /\ UNCHANGED <<tree, db, mode, done, facts, plan, scan, ops>>

EndRun ==
    /\ pc = "pick"
    /\ todo = {} \/ (done >= Limit /\ mode # "rebuild")
    /\ todo' = {}
    /\ done' = 0
    /\ pc' = "idle"
    /\ UNCHANGED <<tree, db, mode, visit, ops>>

\* The command ends here: an exception, or the process is killed.
Stop ==
    /\ EndVisit
    /\ todo' = {}
    /\ done' = 0
    /\ pc' = "idle"
    /\ UNCHANGED <<tree, db, mode>>

Crash ==
    /\ pc # "idle"
    /\ ops < MaxOps
    /\ ops' = ops + 1
    /\ Stop

\* min(IDENTITY_PREFIX_BYTES, size), the bytes a digest of a file covers.
Compared(size) == IF size < PrefixBytes THEN size ELSE PrefixBytes

\* plan_ingest opens the file again for a digest over a shorter span.
Rehashed(row, fs) ==
    row # NoRow /\ fs.size >= row.off /\ Compared(row.size) # Compared(fs.size)

\* The file is there, or the plan needs nothing more of it.
Plannable == cur \in present \/ ~Rehashed(cursor[cur], facts)

\* The visited file is gone when it is next stat-ed or opened.
Vanished ==
    /\ pc \in {"stat", "hash", "plan", "open", "parse"}
    /\ cur \notin present
    /\ pc = "plan" => ~Plannable
    /\ Stop
    /\ UNCHANGED ops

\* file_facts: the stat comes first, the digest of the prefix second.
Stat ==
    /\ pc = "stat"
    /\ cur \in present
    /\ facts' = [facts EXCEPT !.size = Len(content[cur]), !.mtime = mtime[cur]]
    /\ pc' = "hash"
    /\ UNCHANGED <<tree, db, mode, todo, done, phase, cur, plan, scan, ops>>

Hash ==
    /\ pc = "hash"
    /\ cur \in present
    /\ facts' = [facts EXCEPT !.sha = IdentityHash(content[cur], PrefixBytes)]
    /\ pc' = "plan"
    /\ UNCHANGED <<tree, db, mode, todo, done, phase, cur, plan, scan, ops>>

\* Mutant: only a shrink is noticed, not a rewrite.
PlanBySizeOnly(row, fs, c) ==
    IF row = NoRow
    THEN [action |-> "parse", start |-> 0, replace |-> FALSE]
    ELSE IF fs.size < row.off
    THEN [action |-> "reparse", start |-> 0, replace |-> TRUE]
    ELSE [action |-> "resume", start |-> row.off, replace |-> FALSE]

\* plan_ingest; c is the file as it is when the shorter span is re-hashed.
PlanIngest(row, fs, c) ==
    LET current == IF Compared(row.size) = Compared(fs.size)
                   THEN fs.sha
                   ELSE IdentityHash(c, Compared(row.size))
    IN  IF row = NoRow
        THEN [action |-> "parse", start |-> 0, replace |-> FALSE]
        ELSE IF fs.size < row.off \/ current # row.sha
        THEN [action |-> "reparse", start |-> 0, replace |-> TRUE]
        ELSE [action |-> "resume", start |-> row.off, replace |-> FALSE]

\* _next_parse_error_runs, counted up to the streak doctor alarms at.
NextErrorRuns(row, errors) ==
    LET previous == IF row = NoRow THEN 0 ELSE row.errorRuns
    IN  IF errors = 0 THEN 0
        ELSE IF previous < AlarmRuns THEN previous + 1
        ELSE AlarmRuns

\* Mutant: no file is skipped, so the newest ones take the limit every run.
NeverUnchanged(row, fs, p) == FALSE

\* skip_unchanged_path: nothing about the file has moved since its row.
Unchanged(row, fs, p) ==
    /\ p.action = "resume"
    /\ fs.size = row.size
    /\ fs.mtime = row.mtime

\* Mutant: a skipped file does not count as a run.
IdleKeepsRow(row) == row

\* An idle pass with errors on record is one more run of the streak.
Idle(row) ==
    LET errors == IF row.off < row.size THEN 1 ELSE row.errors
    IN  IF row.errors = 0 THEN row
        ELSE [row EXCEPT !.errors = errors,
                         !.errorRuns = NextErrorRuns(row, errors)]

Skip ==
    /\ pc = "plan" /\ phase = "skip"
    /\ Plannable
    /\ cursor[cur] # NoRow
    /\ Unchanged(cursor[cur], facts, PlanIngest(cursor[cur], facts, content[cur]))
    /\ cursor' = [cursor EXCEPT ![cur] = Idle(@)]
    /\ EndVisit
    /\ pc' = "pick"
    /\ UNCHANGED <<tree, events, obs, usage, mode, todo, done, ops>>

\* Something moved: ingest_path starts over with facts of its own.
DoNotSkip ==
    /\ pc = "plan" /\ phase = "skip"
    /\ Plannable
    /\ cursor[cur] # NoRow =>
         ~Unchanged(cursor[cur], facts, PlanIngest(cursor[cur], facts, content[cur]))
    /\ phase' = "ingest"
    /\ pc' = "stat"
    /\ UNCHANGED <<tree, db, mode, todo, done, cur, facts, plan, scan, ops>>

Plan ==
    /\ pc = "plan" /\ phase = "ingest"
    /\ Plannable
    /\ plan' = PlanIngest(cursor[cur], facts, content[cur])
    /\ pc' = "open"
    /\ UNCHANGED <<tree, db, mode, todo, done, phase, cur, facts, scan, ops>>

\* scan_lines opens the file and takes its size; a start past it is refused,
\* and so is a negative one, by seek.
Open ==
    /\ pc = "open"
    /\ cur \in present
    /\ plan.start \in 0 .. Len(content[cur])
    /\ scan' = [scan EXCEPT !.size = Len(content[cur])]
    /\ pc' = "read"
    /\ UNCHANGED <<tree, db, mode, todo, done, phase, cur, facts, plan, ops>>

StartRefused ==
    /\ pc = "open"
    /\ cur \in present
    /\ plan.start \notin 0 .. Len(content[cur])
    /\ Stop
    /\ UNCHANGED ops

\* Mutant: the tail is consumed with the lines before it.
OffsetPastTail(size, tail) == size

\* LineScan.new_offset, from the size at open and the tail found at the end.
NewOffset(size, tail) == size - tail

\* The rest of scan_lines, up to whatever is then the end of the file, and
\* parse_scan over the lines found.  The handle is open: the file is read
\* even if its name is gone by now.
Read ==
    /\ pc = "read"
    /\ LET c == content[cur]
           fallback == IF plan.action = "resume" THEN cursor[cur].sid ELSE Stem[cur]
           tail == TailLength(c, plan.start)
       IN  scan' = [scan EXCEPT
                !.new = NewOffset(scan.size, tail),
                !.tail = tail > 0,
                !.found = LineEnds(c, plan.start) # {},
                !.errors = InvalidLines(c, plan.start),
                !.events = Events(c, plan.start, Len(c)),
                !.sid = SessionId(c, plan.start, fallback)]
    /\ pc' = IF plan.action = "resume" /\ ~scan'.found THEN "persist" ELSE "parse"
    /\ UNCHANGED <<tree, db, mode, todo, done, phase, cur, facts, plan, ops>>

\* _extract_usage reads the file once more, from its start to new_offset, for
\* the normalized events the observations are made from.
Parse ==
    /\ pc = "parse"
    /\ cur \in present
    /\ scan' = [scan EXCEPT !.norm =
            IF Kind[cur] = "reader" THEN Events(content[cur], 0, scan.new) ELSE {}]
    /\ pc' = "persist"
    /\ UNCHANGED <<tree, db, mode, todo, done, phase, cur, facts, plan, ops>>

-----------------------------------------------------------------------------
(***************************************************************************)
(* The commit: rows and cursor in one transaction.                          *)
(***************************************************************************)
\* upsert_cursor: the facts the pass began with, and the file is there again.
Upsert(row, sid, new, errors) ==
    [sid |-> sid, sha |-> facts.sha, size |-> facts.size, mtime |-> facts.mtime,
     off |-> new, errors |-> errors, errorRuns |-> NextErrorRuns(row, errors),
     missing |-> FALSE]

\* A resume that found no complete line: only the cursor row is refreshed.
NothingNew == plan.action = "resume" /\ ~scan.found

\* LineScan.region_empty: nothing at all beyond the cursor.
RegionEmpty == scan.new = plan.start /\ ~scan.tail

Refresh ==
    /\ pc = "persist"
    /\ NothingNew
    /\ LET row == cursor[cur]
       IN  cursor' = [cursor EXCEPT ![cur] =
                Upsert(row, row.sid, scan.new, IF RegionEmpty THEN row.errors ELSE 1)]
    /\ EndVisit
    /\ done' = done + 1
    /\ pc' = "pick"
    /\ UNCHANGED <<tree, events, obs, usage, mode, todo, ops>>

\* Mutant: a resume deletes the base events as well.
EventsAlwaysDeleted == {}

\* _persist: what a reparse deletes before it inserts.
KeptEvents == IF plan.replace THEN {} ELSE events[cur]

StaleSessions(row) == IF row = NoRow THEN {} ELSE {row.sid}

DeletedSessions(row) ==
    IF plan.replace THEN StaleSessions(row) \cup {scan.sid} ELSE {scan.sid}

\* Mutant: only a reparse follows a session id that changed.
UsageOfReparseOnly(row) ==
    IF plan.replace THEN usage \ (StaleSessions(row) \cup {scan.sid}) ELSE usage

\* _persist_usage also follows a session id that changed on a resume.
KeptUsage(row) ==
    IF plan.replace \/ scan.sid \notin StaleSessions(row)
    THEN usage \ (StaleSessions(row) \cup {scan.sid})
    ELSE usage

\* _coerce_session_usage: the file, read from its start, holds token counts.
\* A file that holds none gets no session_usage row.
Measured == IF \E e \in scan.norm : e.rec \in Priced THEN {scan.sid} ELSE {}

\* EC-16: the earliest observations of a session, in transcript order.
Capped(es) ==
    {e \in es : Cardinality({d \in es : d.line < e.line}) < MaxObservations}

\* Mutant: observations of the new span only, for every kind of file.
DerivedIncrementally == Capped(scan.events)

\* Re-derived from the whole file each time: from the readers' normalized
\* events, or from the stored events where the readers recognise nothing.
Derived == Capped(IF scan.norm # {} THEN scan.norm ELSE KeptEvents \cup scan.events)

\* UNIQUE(session_key, source_line, event_index) refuses an insert.
KeyClash == {e.line : e \in KeptEvents} \cap {e.line : e \in scan.events} # {}

Persist ==
    /\ pc = "persist"
    /\ ~NothingNew
    /\ ~KeyClash
    /\ LET row == cursor[cur]
       IN  /\ events' = [events EXCEPT ![cur] = KeptEvents \cup scan.events]
           /\ obs' = {o \in obs : o.sid \notin DeletedSessions(row)} \cup
                     {[sid |-> scan.sid, path |-> cur, line |-> e.line, rec |-> e.rec] :
                        e \in Derived}
           /\ usage' = KeptUsage(row) \cup Measured
           /\ cursor' = [cursor EXCEPT ![cur] =
                 Upsert(row, scan.sid, scan.new,
                        scan.errors + IF scan.tail THEN 1 ELSE 0)]
    /\ EndVisit
    /\ done' = done + 1
    /\ pc' = "pick"
    /\ UNCHANGED <<tree, mode, todo, ops>>

\* sqlite3.IntegrityError rolls the transaction back and leaves the run.
PersistFails ==
    /\ pc = "persist"
    /\ ~NothingNew
    /\ KeyClash
    /\ Stop
    /\ UNCHANGED ops

-----------------------------------------------------------------------------
Producer == \E f \in File :
    Extend(f) \/ Replace(f) \/ Remove(f) \/ Restore(f) \/ Settle(f)

\* The steps of a run once it has started.
Step == \/ Discard \/ MarkMissing \/ Pick \/ EndRun
        \/ Stat \/ Hash \/ Skip \/ DoNotSkip \/ Plan \/ Open \/ Read \/ Parse
        \/ Refresh \/ Persist
        \/ Vanished \/ StartRefused \/ PersistFails

Operator == (\E f \in File : StartFile(f)) \/ StartRebuild \/ Crash

Next == Producer \/ StartSource \/ Step \/ Operator

Spec == Init /\ [][Next]_vars

(***************************************************************************)
(* The timer fires for ever, a started run goes on, and the settle window    *)
(* of a file nobody writes passes.  Producers, operator and crashes owe       *)
(* nothing.                                                                  *)
(***************************************************************************)
Fairness == /\ WF_vars(StartSource)
            /\ WF_vars(Step)
            /\ \A f \in File : WF_vars(Settle(f))

FairSpec == Spec /\ Fairness

-----------------------------------------------------------------------------
(***************************************************************************)
(* Properties.                                                              *)
(***************************************************************************)
\* Plan section 8.3 and docs/notes/cursor-semantics.md: where ingest may
\* resume, the stored offset is immediately after a newline.
CursorOnLineBoundary ==
    \A f \in File : Covers(cursor[f], content[f]) =>
        Boundary(content[f], cursor[f].off)

\* Where ingest may resume, the stored events are those of the complete
\* lines before the offset: none lost, none twice, none from older bytes.
\* A crash, a vanished file, an append between two reads or a rewrite the
\* last run did not see leaves this true.
EventsAreCommittedLines ==
    \A f \in File : Covers(cursor[f], content[f]) =>
        events[f] = Events(content[f], 0, cursor[f].off)

\* A weaker promise, kept also when producers write to a file in the middle
\* of its visit: where ingest may resume, no complete line before the offset
\* is missing from the stored events.
NoLineLost ==
    \A f \in File : Covers(cursor[f], content[f]) =>
        Events(content[f], 0, cursor[f].off) \subseteq events[f]

\* No complete line of the file is waiting beyond its cursor.
CaughtUp(f) ==
    /\ Covers(cursor[f], content[f])
    /\ LineEnds(content[f], cursor[f].off) = {}

ObservationsOf(f) == {o \in obs : o.path = f}

ObservationsExpected(f) ==
    {[sid |-> cursor[f].sid, path |-> f, line |-> e.line, rec |-> e.rec] :
        e \in Capped(Events(content[f], 0, cursor[f].off))}

\* The observations of a file are those a from-scratch ingest of the same
\* bytes derives, under the session its cursor row names.
ObservationsAsFromScratch ==
    \A f \in File : Covers(cursor[f], content[f]) =>
        ObservationsOf(f) = ObservationsExpected(f)

\* Plan section 8.3: a cursor's offset never exceeds the last complete line
\* whose observations are committed, as far as EC-16 keeps observations.  TLC
\* refutes it where two files name one session (README).
CommittedLinesObserved ==
    \A f \in File : Covers(cursor[f], content[f]) =>
        \A e \in Capped(Events(content[f], 0, cursor[f].off)) :
            \E o \in obs : o.path = f /\ o.line = e.line

\* A session_usage row belongs to the session some cursor row names, also
\* after a transcript changes its session id between two spans.
UsageFollowsSession ==
    \A s \in usage : \E f \in File : cursor[f] # NoRow /\ cursor[f].sid = s

\* Plan section 13: a cursor never moves backwards except when the file
\* shrank or changed its identity, or the database is rebuilt.
CursorMonotone ==
    [][\A f \in File :
        cursor[f] # NoRow /\ cursor'[f] # NoRow /\ cursor'[f].off < cursor[f].off
            => ~Covers(cursor[f], content[f])]_vars

\* The steps of the passes add up to the store that module Evidence describes,
\* a file being intact while its cursor row covers it.
Promise == INSTANCE Evidence WITH
    store <- events, intact <- {f \in File : Covers(cursor[f], content[f])}
ImplementsEvidence == Promise!Spec

\* A file that exists from some time on is ingested up to its last newline in
\* the end, although every run takes the newest files first and stops at its
\* limit: a newer file that stays as it is, corrupt or with an unfinished tail,
\* does not take the place of the older ones for ever.  The writes are bounded,
\* so producers rest in the end.
EventuallyCaughtUp == \A f \in File : (<>[](f \in present)) => <>[]CaughtUp(f)

\* EC-04: a tail that is never finished raises doctor's alarm.
Torn(f) == f \in present /\ TailLength(content[f], 0) > 0

TornTailAlarms ==
    \A f \in File :
        (<>[]Torn(f)) => <>[](cursor[f] # NoRow /\ cursor[f].errorRuns = AlarmRuns)
=============================================================================
