----------------------------- MODULE Detectors -----------------------------
(***************************************************************************)
(* The queries of the detectors in twill_detectors.py, and what the runner  *)
(* makes of their rows.                                                     *)
(*                                                                          *)
(* Every detector is four queries over the same rows, written one by one:   *)
(* the clusters of a window, the sessions that share each cluster, the      *)
(* weeks a cluster was seen in, and the weekly counts of the trend.  A      *)
(* query is a set of pairs of a key and the observation counted for it.     *)
(* Ingest appends observations, whose timestamps need not be in order, and  *)
(* prune deletes the old ones.                                              *)
(***************************************************************************)
EXTENDS Naturals, FiniteSets, FiniteSetsExt

CONSTANTS
    Suites,         \* kinds of input explored together: sets of Contents
    Contents,       \* an observation without its place: kind and columns
    Sessions,
    NotFound,       \* signatures that say "command not found"
    Named,          \* pairs of a program or host and a live rule that names it
    Short,          \* keys that redaction or truncation changes, and into what
    Null,
    MaxDay, DaysPerWeek,
    MaxObs          \* rows ingested, for each suite

Days == 1..MaxDay
WeekOf(day) == (day - 1) \div DaysPerWeek

Families == {"D-01", "D-02", "D-03", "D-04", "D-05", "D-06", "D-07", "D-08", "D-10"}

\* Detectors without session-hit and weekly queries.
Unattributed == {"D-10"}

ASSUME DetectorsAssumption ==
    /\ \A suite \in Suites : suite \subseteq Contents
    /\ {MaxDay, DaysPerWeek} \subseteq Nat \ {0}
    /\ MaxObs \in [Suites -> Nat]

VARIABLES
    obs,        \* table observation with hook_denial and gate_gap
    last,       \* the last obs_id
    suite       \* the inputs of this behaviour

vars == <<obs, last, suite>>

Init == obs = {} /\ last = 0 /\ suite \in Suites

\* A row: its content, and where it stands.
Row(c, s, day, id) == [content |-> c, session |-> s, day |-> day, id |-> id]

Ingest(c, s, day) ==
    /\ last < MaxObs[suite]
    /\ last' = last + 1
    /\ obs' = obs \cup {Row(c, s, day, last')}
    /\ UNCHANGED suite

\* Mutant: the day of the cutoff goes too.
ExpiredThrough(cutoff) == {o \in obs : o.day <= cutoff /\ o.content.kind # "denied"}

\* The denials are in a table of their own that nothing prunes.
Expired(cutoff) == {o \in obs : o.day < cutoff /\ o.content.kind # "denied"}

\* prune_observations: rows older than the retention window.
Prune(cutoff) ==
    /\ Expired(cutoff) # {}
    /\ obs' = obs \ Expired(cutoff)
    /\ UNCHANGED <<last, suite>>

Next ==
    \/ \E c \in suite, s \in Sessions, day \in Days : Ingest(c, s, day)
    \/ \E cutoff \in Days : Prune(cutoff)

Spec == Init /\ [][Next]_vars

-----------------------------------------------------------------------------
(* The rows of a window *)

Forever == MaxDay + 1

\* Rows of some kinds in a window, with a value in the column the query needs.
Rows(kinds, column, from, to) ==
    {o \in obs : /\ from <= o.day /\ o.day < to
                 /\ o.content.kind \in kinds /\ o.content[column] # Null}

\* _emitted_key: redacted, and cut to 240 characters.
Norm(k) == IF k \in DOMAIN Short THEN Short[k] ELSE k

SessionsOf(pairs, k) == {x[2].session : x \in {y \in pairs : y[1] = k}}

KeysOf(pairs) == {x[1] : x \in pairs}

\* HAVING count(DISTINCT session_id) >= 2
Recurring(pairs) == {x \in pairs : Cardinality(SessionsOf(pairs, x[1])) >= 2}

-----------------------------------------------------------------------------
(* D-01, D-02, D-04 and D-08: the same thing in two sessions *)

MissingBinary(from, to) ==
    {<<o.content.program, o>> :
        o \in {x \in Rows({"run_failed"}, "program", from, to) : x.content.signature \in NotFound}}

ErrorSignature(from, to) ==
    {<<o.content.signature, o>> : o \in Rows({"run_failed", "tool_error"}, "signature", from, to)}

HookDenial(from, to) ==
    {<<o.content.rule, o>> : o \in Rows({"denied"}, "rule", from, to)}

\* A live rule names a program that keeps being not found.
StaleBinary(from, to) ==
    UNION {{<<n, x[2]>> : x \in {y \in Recurring(MissingBinary(from, to)) : y[1] = n[1]}} : n \in Named}

\* A live rule names a host that was seen before the window and not in it.
SilentHosts(from) ==
    LET hosts(rows) == {o.content.host : o \in rows} \ {Null}
    IN  hosts({o \in obs : o.day < from}) \ hosts({o \in obs : o.day >= from})

StaleHosts(from) == {n \in Named : n[1] \in SilentHosts(from)}

(* D-03: a command fails three times in one session and is given up *)

Failed(from, to) == Rows({"run_failed"}, "command", from, to)

\* A success of the command after it, by time and then by place.
Recovered(o, from, to) ==
    \E x \in Rows({"run_succeeded"}, "command", from, to) :
        /\ x.session = o.session /\ x.content.command = o.content.command
        /\ x.day > o.day \/ (x.day = o.day /\ x.id > o.id)

Unrecovered(from, to) == {o \in Failed(from, to) : ~Recovered(o, from, to)}

\* Pairs of a session and a command given up in it.
Abandoned(from, to) ==
    {p \in {<<o.session, o.content.command>> : o \in Unrecovered(from, to)} :
        Cardinality({o \in Unrecovered(from, to) : <<o.session, o.content.command>> = p}) >= 3}

\* The failures counted: all that no success followed, in the cluster query,
\* and every failure of the session, in the weekly one.
RetryLoop(failures, from, to) ==
    {<<o.content.command, o>> :
        o \in {x \in failures : <<x.session, x.content.command>> \in Abandoned(from, to)}}

(* D-05 and D-06: a stop, and a correction right after it *)

Between(r, c) == {o \in obs : o.session = r.session /\ r.id < o.id /\ o.id < c.id}

Corrected(kind, column, from, to) ==
    {p \in Rows({kind}, column, from, to) \X Rows({"correction"}, "excerpt", from, to) :
        p[1].session = p[2].session /\ p[1].id < p[2].id /\ Between(p[1], p[2]) = {}}

Rejection(from, to) ==
    {<<Norm(<<p[1].content.tool, p[2].content.excerpt>>), p[1]>> :
        p \in Corrected("tool_rejected", "tool", from, to)}

Interruption(from, to) ==
    {<<Norm(p[2].content.excerpt), p[1]>> : p \in Corrected("interrupt", "kind", from, to)}

(* D-07: what two sessions had to find out again *)

\* Reads of files that nothing in the window changed.
UnchangedReads(from, to) ==
    {<<o.content.path, o>> : o \in {x \in Rows({"file_read"}, "path", from, to) :
        \A e \in Rows({"file_changed"}, "path", from, to) : e.content.path # x.content.path}}

DaysOf(pairs, k) == {x[2].day : x \in {y \in pairs : y[1] = k}}

Rediscovery(from, to) ==
    {x \in Recurring(UnchangedReads(from, to)) :
        Cardinality(DaysOf(UnchangedReads(from, to), x[1])) >= 2}
    \cup Recurring({<<o.content.command, o>> :
            o \in Rows({"run_succeeded", "run_failed"}, "command", from, to)})

(* D-10: events the gate never should have let through, by its catalog *)

GateGap(from, to) == {<<o.content.gap, o>> : o \in Rows({"run_succeeded", "run_failed"}, "gap", from, to)}

-----------------------------------------------------------------------------
(* The four queries *)

\* Pairs the cluster query counts.
ClusterPairs(f, from) ==
    CASE f = "D-01" -> Recurring(MissingBinary(from, Forever))
      [] f = "D-02" -> Recurring(ErrorSignature(from, Forever))
      [] f = "D-03" -> RetryLoop(Unrecovered(from, Forever), from, Forever)
      [] f = "D-04" -> Recurring(HookDenial(from, Forever))
      [] f = "D-05" -> Rejection(from, Forever)
      [] f = "D-06" -> Interruption(from, Forever)
      [] f = "D-07" -> Rediscovery(from, Forever)
      [] f = "D-08" -> StaleBinary(from, Forever)
      [] f = "D-10" -> GateGap(from, Forever)

\* Keys it emits; a silent host has a cluster without a session.
ClusterKeys(f, from) ==
    KeysOf(ClusterPairs(f, from)) \cup (IF f = "D-08" THEN StaleHosts(from) ELSE {})

\* Mutant: the sessions of every failure, given up or not.
HitPairsOfFailures(f, from) ==
    CASE f = "D-03" -> {<<o.content.command, o>> : o \in Failed(from, Forever)}
      [] OTHER -> ClusterPairs(f, from)

\* Pairs the session-hit query groups; three of them have no threshold.
HitPairs(f, from) ==
    CASE f = "D-01" -> MissingBinary(from, Forever)
      [] f = "D-02" -> ErrorSignature(from, Forever)
      [] f = "D-04" -> HookDenial(from, Forever)
      [] OTHER -> ClusterPairs(f, from)

\* Mutant: the weekly query has no threshold either.
WeeklyPairsOfOneSession(f, from, to) ==
    CASE f = "D-01" -> MissingBinary(from, to)
      [] OTHER -> ClusterPairs(f, from)

\* Pairs the weekly query counts.
WeeklyPairs(f, from, to) ==
    CASE f = "D-01" -> Recurring(MissingBinary(from, to))
      [] f = "D-02" -> Recurring(ErrorSignature(from, to))
      [] f = "D-03" -> RetryLoop(Failed(from, to), from, to)
      [] f = "D-04" -> Recurring(HookDenial(from, to))
      [] f = "D-05" -> Rejection(from, to)
      [] f = "D-06" -> Interruption(from, to)
      [] f = "D-07" -> Rediscovery(from, to)
      [] f = "D-08" -> StaleBinary(from, to)
      [] f = "D-10" -> {}

-----------------------------------------------------------------------------
(* The runner *)

\* A row of the cluster query.
Counts(pairs, k) ==
    LET days == DaysOf(pairs, k)
    IN  [sessions |-> Cardinality(SessionsOf(pairs, k)),
         events |-> Cardinality({x \in pairs : x[1] = k}),
         first |-> IF days = {} THEN 0 ELSE Min(days),
         last |-> IF days = {} THEN 0 ELSE Max(days)]

\* _collect_clusters refuses two rows with one key.
Collides(f, from) ==
    \E j, k \in ClusterKeys(f, from) : j # k /\ Norm(j) = Norm(k)

NormalizedHits(f, from) == {<<Norm(x[1]), x[2].session>> : x \in HitPairs(f, from)}

HitSessions(f, from, k) == {h[2] : h \in {x \in NormalizedHits(f, from) : x[1] = Norm(k)}}

\* _collect_session_hits refuses a cluster whose sessions it cannot name.
Unaccounted(f, from) ==
    \E k \in ClusterKeys(f, from) :
        Cardinality(HitSessions(f, from, k)) # Counts(ClusterPairs(f, from), k).sessions

\* A detector that raises DetectorContractError keeps its clusters as they are.
Refused(f, from) == Collides(f, from) \/ (f \notin Unattributed /\ Unaccounted(f, from))

\* The clusters of a run.
Findings(f, from) ==
    {<<Norm(k), Counts(ClusterPairs(f, from), k)>> : k \in ClusterKeys(f, from)}

\* read_weekly_counts
WeeklyCounts(f, k, week, from, to) ==
    LET hits == {x \in WeeklyPairs(f, from, to) : Norm(x[1]) = Norm(k) /\ WeekOf(x[2].day) = week}
    IN  [sessions |-> Cardinality({x[2].session : x \in hits}), events |-> Cardinality(hits)]

\* read_cluster_weeks
WeeksSeen(f, k, from) ==
    {WeekOf(x[2].day) : x \in {y \in WeeklyPairs(f, from, Forever) : Norm(y[1]) = Norm(k)}}

-----------------------------------------------------------------------------
(* Properties *)

\* As long as no two keys of a query are cut to the same one, the runner
\* refuses no detector of the registry: the session-hit query, which mostly
\* repeats no threshold, names exactly the sessions its cluster query counts.
HitsNameEverySession ==
    \A f \in Families, from \in Days :
        (\A j, k \in ClusterKeys(f, from) \cup KeysOf(HitPairs(f, from)) : j # k => Norm(j) # Norm(k))
            => ~Refused(f, from)

Weeks == {WeekOf(day) : day \in Days}

\* The weekly query has the keys of the clusters.
WeeklyKeysAgree(f, from) ==
    {Norm(k) : k \in KeysOf(WeeklyPairs(f, from, Forever))} =
        {Norm(k) : k \in KeysOf(ClusterPairs(f, from))}

\* No week has more sessions of a key than its cluster, and the weeks a cluster
\* was seen in are those with events.
WeeksAgree(f, from, k) ==
    LET counts(w) == WeeklyCounts(f, k, w, from, Forever)
    IN  /\ \A w \in Weeks :
            counts(w).sessions <= Counts(ClusterPairs(f, from), k).sessions
        /\ WeeksSeen(f, k, from) = {w \in Weeks : counts(w).events > 0}

\* Summed over the weeks of the window they give the events of the cluster.
\* D-03 counts all failures of a session that gave up, also those before a
\* success.
EventsAddUp(f, from, k) ==
    LET events == [w \in Weeks |-> WeeklyCounts(f, k, w, from, Forever).events]
        total == MapThenSumSet(LAMBDA w : events[w], Weeks)
        row == Counts(ClusterPairs(f, from), k)
    IN  total >= row.events /\ (f # "D-03" => total = row.events)

\* The trend's weekly counts are about the clusters: they give the events of
\* each, in no week more sessions than it has, and have no key of their own
\* (read_weekly_counts against the cluster query).
WeeklyAddsUp ==
    \A f \in Families \ Unattributed, from \in Days :
        ~Refused(f, from) =>
            /\ WeeklyKeysAgree(f, from)
            /\ \A k \in ClusterKeys(f, from) : WeeksAgree(f, from, k) /\ EventsAddUp(f, from, k)

\* Rows arrive in the order of their timestamps.
InOrder == \A o, p \in obs : o.session = p.session /\ o.id < p.id => o.day <= p.day

\* Prune takes nothing from a window that begins at its cutoff or later: all
\* findings stay, with their counts and dates.  Two things reach behind a
\* window: D-08 remembers hosts only from rows before it, and D-05 and D-06
\* look at what came between by place, so rows out of order count there.
PruneKeepsFindings ==
    [][\A cutoff \in Days : Prune(cutoff) =>
        \A f \in Families \ {"D-08"}, from \in cutoff..MaxDay :
            (f \in {"D-05", "D-06"} => InOrder) => Findings(f, from)' = Findings(f, from)]_vars

=============================================================================
