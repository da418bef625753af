------------------------------ MODULE Clusters ------------------------------
(***************************************************************************)
(* The clusters in the state database: run_detectors in twill_detectors.py  *)
(* as detect, rank and prune call it, the weekly cells and their waste in   *)
(* twill_trend.py, dismissal in twill_review.py, and the weekly call of     *)
(* twill_explainer.py.                                                      *)
(*                                                                          *)
(* What a detector's queries read is a set of hits: a key, a session and    *)
(* the week the session hit the key.  Detectors.tla gives the queries       *)
(* themselves.  The state lock admits one command at a time; a command runs *)
(* its detectors one transaction each, and may fail or be killed between    *)
(* any two of them.                                                         *)
(***************************************************************************)
EXTENDS Naturals, FiniteSets

CONSTANTS
    Detectors,      \* the registry
    Place,          \* their order in it
    External,       \* detectors that need another program's input: D-04 its log
                    \* of denials, D-10 its catalog
    Replayed,       \* detectors without session-hit and weekly queries: D-09, D-10
    Autonomy,       \* detectors that rank refreshes on its own
    Keys, Sessions,
    Loud,           \* keys of each detector that sessions hit
    Quiet,          \* keys of each detector whose findings count no session:
                    \* the silent hosts of D-08, the documents of D-09
    Windows,        \* windows an operator may ask for, in weeks; the code takes
                    \* longer ones than the series, the model does not
    DefaultWindow,
    History,        \* weeks the weekly series looks back
    Shas,           \* semantics of a detector: how many sessions make a finding
    FirstSha,
    Reasons,        \* why a cluster is dismissed
    NoRow,
    Redeployed,     \* bound: detectors whose code changes
    Reviewed,       \* bound: clusters that a person dismisses
    MaxWeek, MaxHits, MaxVersion, MaxRuns,
    MaxIncidents    \* bounds; incidents are errors, kills, deployments and rebuilds

Weeks == 1..MaxWeek
Versions == 1..MaxVersion

ASSUME ClustersAssumption ==
    /\ Place \in [Detectors -> Nat]
    /\ \A d, e \in Detectors : Place[d] = Place[e] => d = e
    /\ External \subseteq Detectors /\ Autonomy \subseteq Detectors
    /\ Replayed \subseteq Detectors
    /\ Loud \subseteq Detectors \X Keys /\ Quiet \subseteq Detectors \X Keys
    /\ Loud \cap Quiet = {}
    /\ IsFiniteSet(Detectors) /\ IsFiniteSet(Sessions) /\ IsFiniteSet(Keys)
    /\ History \in Nat \ {0}
    /\ Windows \subseteq 1..History /\ DefaultWindow \in Windows
    /\ Shas \subseteq Nat \ {0} /\ FirstSha \in Shas
    /\ {MaxWeek, MaxHits, MaxVersion, MaxRuns, MaxIncidents} \subseteq Nat
    /\ MaxVersion # 0 /\ MaxWeek # 0

Hit == [d : Detectors, k : Keys, s : Sessions, w : Weeks]
Code == [version : Versions, sha : Shas]
Row == [state : {"open", "drafted", "dismissed"}, sessions : Nat, window : Windows,
        reason : Reasons \cup {NoRow}]
Record == [sha : Shas, window : Windows, status : {"ok", "error", "refused"}]
Cell == Detectors \X Keys \X Weeks

ASSUME NoRowAssumption == NoRow \notin Row \cup Record \cup Reasons

VARIABLES
    now,        \* the current week
    log,        \* what the input of an external detector would give: the log of
                \* D-04, the observations that D-10's catalog matches
    registered, \* version and semantics of each detector in the code
    hits,       \* hits in the state database
    costs,      \* sessions whose cost is known
    cluster, member, record,   \* tables cluster, cluster_session, detector_run
    cells, share,   \* table cluster_week: its keys, and into how many cells
                    \* each session's cost was split for it
    quota,      \* week in meta of the last Explain invocation, 0 if none
    calls,      \* invocations of the model this week
    rebuilt,    \* rebuilds of the database this week
    pc,         \* what the running command does next
    verb, todo, window, skips, scope,   \* its locals
    runs, incidents   \* counters

world == <<now, log, registered>>
ingested == <<hits, costs>>
tables == <<cluster, member, record>>
weekly == <<cells, share>>
explained == <<quota, calls, rebuilt>>
process == <<pc, verb, todo, window, skips, scope>>
counters == <<runs, incidents>>
vars == <<world, ingested, tables, weekly, explained, process, counters>>

TypeOK ==
    /\ now \in Weeks /\ log \in SUBSET Hit
    /\ registered \in [Detectors -> Code]
    /\ hits \in SUBSET Hit /\ costs \in SUBSET Sessions
    /\ cluster \in [Detectors \X Keys -> Row \cup {NoRow}]
    /\ member \in SUBSET (Detectors \X Keys \X Sessions)
    /\ record \in [Detectors \X Versions -> Record \cup {NoRow}]
    /\ cells \in SUBSET Cell /\ share \in [Cell \X Sessions -> Nat]
    /\ quota \in Weeks \cup {0} /\ calls \in Nat /\ rebuilt \in Nat
    /\ pc \in {"idle", "run", "asked"}
    /\ verb \in {"none", "detect", "rank", "prune", "explain"}
    /\ todo \in SUBSET Detectors /\ skips \in SUBSET Detectors /\ scope \in SUBSET Detectors
    /\ window \in [Detectors -> Windows]
    /\ runs \in Nat /\ incidents \in Nat

NoProcess ==
    /\ pc = "idle" /\ verb = "none" /\ todo = {} /\ skips = {} /\ scope = {}
    /\ window = [d \in Detectors |-> DefaultWindow]

NoClusters == [c \in Detectors \X Keys |-> NoRow]

NoRecords == [r \in Detectors \X Versions |-> NoRow]

NoShares == [x \in Cell \X Sessions |-> 0]

Init ==
    /\ now = 1 /\ log = {}
    /\ registered = [d \in Detectors |-> [version |-> 1, sha |-> FirstSha]]
    /\ hits = {} /\ costs = {}
    /\ cluster = NoClusters /\ member = {} /\ record = NoRecords
    /\ cells = {} /\ share = NoShares
    /\ quota = 0 /\ calls = 0 /\ rebuilt = 0
    /\ NoProcess
    /\ runs = 0 /\ incidents = 0

-----------------------------------------------------------------------------
(* What the queries return *)

\* The first week of a window that ends now.
Since(weeks) == IF now > weeks THEN now - weeks + 1 ELSE 1

SessionsOf(d, k, from) == {s \in Sessions : \E w \in from..now : [d |-> d, k |-> k, s |-> s, w |-> w] \in hits}

\* Keys whose sessions the cluster query counts, and with them the sessions
\* the session-hit query returns.
Emitted(d, weeks) ==
    {k \in Keys : Cardinality(SessionsOf(d, k, Since(weeks))) >= registered[d].sha}

\* Findings without a session, for the rule documents there are and the hosts
\* that are silent when the query runs.
QuietFindings(d) == SUBSET {k \in Keys : <<d, k>> \in Quiet}

\* Sessions that share a cell: the session-hit query over one week, whose
\* threshold is the cluster query's alone.
Contributors(c) == {s \in Sessions : [d |-> c[1], k |-> c[2], s |-> s, w |-> c[3]] \in hits}

\* Cells the weekly query counts, the threshold being over the whole history;
\* of a detector without one, cells in which the cluster query, run over that
\* week alone, counts a session (_replay_by_week).
Counted(d) ==
    {c \in {d} \X Emitted(d, History) \X (Since(History)..now) :
        /\ Contributors(c) # {}
        /\ d \in Replayed => Cardinality(Contributors(c)) >= registered[d].sha}

-----------------------------------------------------------------------------
(* One run of the detectors *)

\* The command is over; its locals are gone.
Ended ==
    /\ pc' = "idle" /\ verb' = "none" /\ todo' = {} /\ skips' = {} /\ scope' = {}
    /\ window' = [d \in Detectors |-> DefaultWindow]

StartRun(v, active, selected, ws, without) ==
    /\ pc = "idle" /\ runs < MaxRuns
    /\ runs' = runs + 1
    /\ pc' = "run" /\ verb' = v /\ todo' = active /\ scope' = selected
    /\ window' = ws /\ skips' = without

\* detect_command reads the catalog first and matches it against the window,
\* whatever detectors are asked for, then the log if its detector is, and
\* skips the detectors whose input is absent or cannot be read.
Detect(only, weeks, readable) ==
    /\ StartRun("detect", only, Detectors, [d \in Detectors |-> weeks], (External \cap only) \ readable)
    /\ LET copied == readable \cap (only \cup Replayed)
       IN hits' = {h \in hits : h.d \notin copied}
                     \cup {h \in log : h.d \in copied /\ (h.d \in Replayed => h.w >= Since(weeks))}
    /\ UNCHANGED <<world, costs, tables, weekly, explained, incidents>>

\* rank_command and the review verb of autonomy_command pass a registry of
\* their own, which the waste pass takes for the whole.
Rank ==
    /\ StartRun("rank", Autonomy, Autonomy, [d \in Detectors |-> DefaultWindow], {})
    /\ UNCHANGED <<world, ingested, tables, weekly, explained, incidents>>

\* prune keeps the window of a detector's last run.
PriorWindow(d) ==
    LET last == record[<<d, registered[d].version>>]
        old == {cluster[<<d, k>>].window : k \in {key \in Keys : cluster[<<d, key>>] # NoRow}}
    IN IF last # NoRow THEN last.window
       ELSE IF old # {} THEN CHOOSE w \in old : \A x \in old : w >= x
       ELSE DefaultWindow

\* Hits that are rows copied from a log, not observations.
Copied(h) == h.d \in External \ Replayed

\* The deletion is a transaction of its own; hits copied from a log stay.
Prune(cutoff) ==
    /\ StartRun("prune", Detectors, Detectors, [d \in Detectors |-> PriorWindow(d)], {})
    /\ hits' = {h \in hits : h.w >= cutoff \/ Copied(h)}
    /\ log' = {h \in log : h.w >= cutoff \/ Copied(h)}
    /\ UNCHANGED <<now, registered, costs, tables, weekly, explained, incidents>>

IsNext(d) ==
    /\ pc = "run" /\ d \in todo
    /\ \A e \in todo : Place[d] <= Place[e]

Done(d) ==
    /\ todo' = todo \ {d}
    /\ UNCHANGED <<world, ingested, explained, pc, verb, window, skips, scope, runs>>

Entry(d) == <<d, registered[d].version>>

\* Mutant: recorded semantics are not compared.
DriftIgnored(d) == FALSE

Drifted(d) == record[Entry(d)] # NoRow /\ record[Entry(d)].sha # registered[d].sha

\* A failure is noted only where the version has succeeded before.
NoteFailure(d, status) ==
    record' = IF record[Entry(d)] = NoRow THEN record
              ELSE [record EXCEPT ![Entry(d)].status = status]

Skip(d) ==
    /\ IsNext(d) /\ d \in skips
    /\ Done(d)
    /\ UNCHANGED <<tables, weekly, incidents>>

Refuse(d) ==
    /\ IsNext(d) /\ d \notin skips /\ Drifted(d)
    /\ NoteFailure(d, "refused")
    /\ Done(d)
    /\ UNCHANGED <<cluster, member, weekly, incidents>>

Fails(d) ==
    /\ IsNext(d) /\ d \notin skips /\ ~Drifted(d)
    /\ incidents < MaxIncidents /\ incidents' = incidents + 1
    /\ NoteFailure(d, "error")
    /\ Done(d)
    /\ UNCHANGED <<cluster, member, weekly>>

\* Mutant: the upsert opens every emitted row.
UpsertOpens(d, quiet) ==
    [c \in Detectors \X Keys |->
       IF c[1] # d THEN cluster[c]
       ELSE IF c[2] \in Emitted(d, window[d]) \cup quiet
       THEN [state |-> "open", window |-> window[d], reason |-> NoRow,
             sessions |-> Cardinality(SessionsOf(d, c[2], Since(window[d])))]
       ELSE IF cluster[c] # NoRow /\ cluster[c].state = "open" THEN NoRow ELSE cluster[c]]

\* The upsert leaves state and reason of a row alone; an open row whose key
\* is not emitted any more is deleted.
Upsert(d, quiet) ==
    LET emitted == Emitted(d, window[d]) \cup quiet
        Refreshed(k) ==
            LET old == cluster[<<d, k>>]
                n == Cardinality(SessionsOf(d, k, Since(window[d])))
            IN IF k \in emitted
               THEN IF old = NoRow
                    THEN [state |-> "open", sessions |-> n, window |-> window[d], reason |-> NoRow]
                    ELSE [old EXCEPT !.sessions = n, !.window = window[d]]
               ELSE IF old # NoRow /\ old.state = "open" THEN NoRow ELSE old
    IN [c \in Detectors \X Keys |-> IF c[1] = d THEN Refreshed(c[2]) ELSE cluster[c]]

\* Mutant: sessions are added, none is removed.
MembersAdded(d) ==
    member \cup {m \in ({d} \ Replayed) \X Emitted(d, window[d]) \X Sessions :
                    m[3] \in SessionsOf(d, m[2], Since(window[d]))}

\* The rows are deleted for every detector and inserted for one with a
\* session-hit query.
Members(d) ==
    {m \in member : m[1] # d}
        \cup {m \in ({d} \ Replayed) \X Emitted(d, window[d]) \X Sessions :
                m[3] \in SessionsOf(d, m[2], Since(window[d]))}

\* _run_one: clusters, members, run record and weekly counts in one transaction.
Run(d, quiet) ==
    /\ IsNext(d) /\ d \notin skips /\ ~Drifted(d)
    /\ cluster' = Upsert(d, quiet)
    /\ member' = Members(d)
    /\ record' = [record EXCEPT ![Entry(d)] =
                    [sha |-> registered[d].sha, window |-> window[d], status |-> "ok"]]
    /\ cells' = cells \cup Counted(d)
    /\ Done(d)
    /\ UNCHANGED <<share, incidents>>

\* Mutant: each week splits the cost among its own cells.
SplitByWeek(attributed) ==
    LET touched == {c \in cells : c[1] \in attributed \ Replayed /\ c[3] >= Since(History)}
        Denominator(w, s) == Cardinality({c \in touched : c[3] = w /\ s \in Contributors(c)})
    IN [x \in Cell \X Sessions |->
          IF x[1] \notin touched THEN share[x]
          ELSE IF x[2] \in Contributors(x[1]) /\ Contributors(x[1]) \subseteq costs
          THEN Denominator(x[1][3], x[2]) ELSE 0]

\* attribute_weekly_waste over the detectors of one registry that have a
\* session-hit query, without those whose query fails.
Split(attributed) ==
    LET touched == {c \in cells : c[1] \in attributed \ Replayed /\ c[3] >= Since(History)}
        Denominator(s) == Cardinality({c \in touched : s \in Contributors(c)})
        Value(c, s) == IF s \in Contributors(c) /\ Contributors(c) \subseteq costs
                       THEN Denominator(s) ELSE 0
    IN [x \in Cell \X Sessions |-> IF x[1] \in touched THEN Value(x[1], x[2]) ELSE share[x]]

Attribute(broken) ==
    /\ pc = "run" /\ todo = {}
    /\ incidents + Cardinality(broken) <= MaxIncidents
    /\ incidents' = incidents + Cardinality(broken)
    /\ share' = Split(scope \ broken)
    /\ Ended
    /\ UNCHANGED <<world, ingested, tables, cells, explained, runs>>

Crash ==
    /\ pc # "idle"
    /\ incidents < MaxIncidents /\ incidents' = incidents + 1
    /\ Ended
    /\ UNCHANGED <<world, ingested, tables, weekly, explained, runs>>

-----------------------------------------------------------------------------
(* Review, the weekly call, and a rebuild *)

\* A second dismissal keeps the first reason.
Dismiss(c, reason) ==
    /\ pc = "idle" /\ c \in Reviewed /\ cluster[c] # NoRow
    /\ cluster' = IF cluster[c].state = "dismissed" THEN cluster
                  ELSE [cluster EXCEPT ![c].state = "dismissed", ![c].reason = reason]
    /\ UNCHANGED <<world, ingested, member, record, weekly, explained, process, counters>>

\* reserve_explain_invocation commits before the model is called, also when no
\* cluster is a candidate.
Reserve ==
    /\ pc = "idle" /\ quota # now
    /\ quota' = now
    /\ calls' = calls + 1
    /\ pc' = "asked" /\ verb' = "explain"
    /\ UNCHANGED <<world, ingested, tables, weekly, rebuilt, todo, window, skips, scope, counters>>

\* The answer is about the candidates: open clusters, none of D-09 or D-10.
Draft(chosen) ==
    /\ pc = "asked"
    /\ \A c \in chosen : c[1] \notin Replayed /\ cluster[c] # NoRow /\ cluster[c].state = "open"
    /\ cluster' = [c \in Detectors \X Keys |->
                     IF c \in chosen THEN [cluster[c] EXCEPT !.state = "drafted"] ELSE cluster[c]]
    /\ Ended
    /\ UNCHANGED <<world, ingested, member, record, weekly, explained, counters>>

\* Mutant: without an answer the week is given back.
NoAnswerFreesWeek ==
    /\ pc = "asked"
    /\ quota' = 0
    /\ Ended
    /\ UNCHANGED <<world, ingested, tables, weekly, calls, rebuilt, counters>>

\* No answer, or one that does not validate.
NoAnswer ==
    /\ pc = "asked"
    /\ Ended
    /\ UNCHANGED <<world, ingested, tables, weekly, explained, counters>>

\* doctor --rebuild: a new database, filled again from the transcripts.
Rebuild ==
    /\ pc = "idle" /\ incidents < MaxIncidents
    /\ incidents' = incidents + 1 /\ rebuilt' = rebuilt + 1
    /\ hits' = {h \in hits : h.d \notin External}
    /\ cluster' = NoClusters /\ member' = {} /\ record' = NoRecords
    /\ cells' = {} /\ share' = NoShares /\ quota' = 0
    /\ UNCHANGED <<world, costs, calls, process, runs>>

-----------------------------------------------------------------------------
(* Ingest, other programs, time and deployments.  A command reads the logs  *)
(* and the clock once, when it begins.                                      *)

\* One ingest stores an observation and, if it was given, what the session used.
Observe(d, k, s) ==
    /\ pc = "idle" /\ d \notin External /\ <<d, k>> \in Loud
    /\ Cardinality(hits \cup log) < MaxHits
    /\ hits' = hits \cup {[d |-> d, k |-> k, s |-> s, w |-> now]}
    /\ costs' \in {costs, costs \cup {s}}
    /\ UNCHANGED <<world, tables, weekly, explained, process, counters>>

\* The hook denies a call; a command runs that the catalog matches.
Deny(d, k, s) ==
    /\ pc = "idle" /\ d \in External /\ <<d, k>> \in Loud
    /\ Cardinality(hits \cup log) < MaxHits
    /\ log' = log \cup {[d |-> d, k |-> k, s |-> s, w |-> now]}
    /\ UNCHANGED <<now, registered, ingested, tables, weekly, explained, process, counters>>

\* The hook rotates its log, or a catalog arrives that matches nothing of what
\* the last one did.
Rotate(d) ==
    /\ pc = "idle" /\ d \in External
    /\ log' = {h \in log : h.d # d \/ (d \notin Replayed /\ h.w = now)}
    /\ UNCHANGED <<now, registered, ingested, tables, weekly, explained, process, counters>>

NextWeek ==
    /\ pc = "idle" /\ now < MaxWeek
    /\ now' = now + 1 /\ calls' = 0 /\ rebuilt' = 0
    /\ UNCHANGED <<log, registered, ingested, tables, weekly, quota, process, counters>>

\* Other code is deployed: other semantics, another version, newer or older,
\* or both.
Upgrade(d, code) ==
    /\ pc = "idle" /\ d \in Redeployed /\ code # registered[d]
    /\ incidents < MaxIncidents /\ incidents' = incidents + 1
    /\ registered' = [registered EXCEPT ![d] = code]
    /\ UNCHANGED <<now, log, ingested, tables, weekly, explained, process, runs>>

Next ==
    \/ \E only \in {Detectors} \cup {{d} : d \in Detectors}, w \in Windows :
          \E readable \in SUBSET External : Detect(only, w, readable)
    \/ Rank
    \/ \E cutoff \in Weeks : Prune(cutoff)
    \/ \E d \in Detectors : Skip(d)
    \/ \E d \in Detectors : Refuse(d)
    \/ \E d \in Detectors : Fails(d)
    \/ \E d \in Detectors : \E quiet \in QuietFindings(d) : Run(d, quiet)
    \/ \E broken \in SUBSET Detectors : Attribute(broken)
    \/ Crash
    \/ \E c \in Detectors \X Keys, reason \in Reasons : Dismiss(c, reason)
    \/ Reserve
    \/ \E chosen \in SUBSET (Detectors \X Keys) : Draft(chosen)
    \/ NoAnswer
    \/ Rebuild
    \/ \E d \in Detectors, k \in Keys, s \in Sessions : Observe(d, k, s)
    \/ \E d \in Detectors, k \in Keys, s \in Sessions : Deny(d, k, s)
    \/ \E d \in Detectors : Rotate(d)
    \/ NextWeek
    \/ \E d \in Detectors, code \in Code : Upgrade(d, code)

Spec == Init /\ [][Next]_vars

-----------------------------------------------------------------------------
(* Properties *)

MembersOf(d, k) == {s \in Sessions : <<d, k, s>> \in member}

\* Of a detector with a session-hit query, a row counts as many sessions as the
\* table cluster_session lists for it, and a reviewed row whose key is not
\* emitted any more lists none.  Of one without, the table lists nothing.
RowFitsMembers(d, k) ==
    LET row == cluster[<<d, k>>]
        n == Cardinality(MembersOf(d, k))
    IN /\ MembersOf(d, k) # {} => d \notin Replayed /\ row # NoRow /\ row.sessions = n
       /\ d \notin Replayed /\ row # NoRow /\ row.state = "open" => row.sessions = n

\* A row is the output of a recorded run; if it counts a session and its
\* detector has a weekly query, a week of it is in the series.
RowHasRun(d, k) ==
    LET row == cluster[<<d, k>>]
    IN row # NoRow =>
          /\ \E v \in Versions : record[<<d, v>>] # NoRow
          /\ d \notin Replayed /\ row.sessions # 0 => \E w \in Weeks : <<d, k, w>> \in cells

\* Whatever fails between two detectors, is refused or is killed, the four
\* tables of a detector speak of the same run: _run_one is one transaction.
\* D-09 and D-10 have no session-hit and no weekly query, and the silent hosts
\* of D-08 count no session; of these only the rows and the records agree.
TablesAgree == \A d \in Detectors, k \in Keys : RowFitsMembers(d, k) /\ RowHasRun(d, k)

\* What a person or the weekly call decided about a cluster outlives every
\* refresh, also that of a detector that no longer finds it; only a rebuild
\* forgets it.  A second dismissal does not replace the first one's reason.
ReviewOutlivesRefresh ==
    [][rebuilt' <= rebuilt =>
         \A c \in Detectors \X Keys :
            cluster[c] # NoRow /\ cluster[c].state # "open" =>
                /\ cluster'[c] # NoRow /\ cluster'[c].state # "open"
                /\ cluster[c].state = "dismissed" =>
                      cluster'[c].state = "dismissed" /\ cluster'[c].reason = cluster[c].reason]_vars

\* EC-12: under one version a detector means one thing.  No run commits other
\* semantics under a recorded version, in whatever order code is deployed.
SemanticsAreKept ==
    [][rebuilt' <= rebuilt =>
         \A r \in Detectors \X Versions :
            record[r] # NoRow => record'[r] # NoRow /\ record'[r].sha = record[r].sha]_vars

\* One invocation of the model a week, whatever fails and however often the
\* command is repeated; a rebuild forgets the week.
OneCallPerWeek == calls <= 1 + rebuilt

\* A session's cost goes to cells in equal parts or smaller ones: none is larger
\* than the cells that have one allow, so the parts add up to the cost at most.
SplitOnce(s, cs, parts) ==
    \A c \in cs : parts[<<c, s>>] # 0 =>
        Cardinality({b \in cs : parts[<<b, s>>] # 0}) <= parts[<<c, s>>]

\* Cells of the trailing weeks that a pass over all detectors attributes.
Recent == {c \in cells : c[1] \notin Replayed /\ c[3] >= Since(History)}

\* A pass over all detectors in which no query fails splits the cost of each
\* session at most once among the cells of the trailing weeks, of the
\* detectors that have a session-hit query (attribute_weekly_waste).
CompletePassSplitsOnce ==
    [][pc = "run" /\ todo = {} /\ scope = Detectors /\ incidents' = incidents =>
         \A s \in Sessions : SplitOnce(s, Recent, share')]_vars

\* Twelfths of its cost that a session contributes to cells, of which a small
\* instance has at most four.
Twelfths(s) ==
    LET In(n) == Cardinality({c \in cells : share[<<c, s>>] = n})
    IN 12 * In(1) + 6 * In(2) + 4 * In(3) + 3 * In(4)

\* "the sums across a session's cells never exceed its usage"
\* (attribute_weekly_waste): TLC refutes it, a rank splits the cost anew among
\* the cells of its own detectors (README).
WasteWithinUsage == \A s \in Sessions : Twelfths(s) <= 12

\* "its clusters survive untouched until the input returns" (detect_command),
\* of a run that does not read the input: TLC refutes it, prune runs that
\* detector without it (README).
ClustersAwaitInput ==
    [][verb = "prune" =>
         \A d \in External, k \in Keys :
            cluster[<<d, k>>] # NoRow => cluster'[<<d, k>>] # NoRow]_vars

=============================================================================
