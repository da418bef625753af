------------------------------- MODULE Corpus -------------------------------
(***************************************************************************)
(* The rule corpus and coverage: twill_rulecorpus.py, twill_ranker.py and   *)
(* the reads of rule_doc in twill_detectors.py, twill_rules.py,             *)
(* twill_digest.py, twill_measure.py and twill_doctor.py.                   *)
(*                                                                          *)
(* A rule file is a content at a path; its digest stands for the content.   *)
(* Operators move, copy, edit and delete files and change the globs at any  *)
(* time; rank looks at them once, in one transaction, and what it stored    *)
(* about a path may by then be about another content.                       *)
(***************************************************************************)
EXTENDS Naturals, FiniteSets

CONSTANTS
    N,              \* paths, in the order discovery sorts them
    Contents,
    Keys,           \* keys of the clusters
    Mentions,       \* keys whose phrase a content holds
    Layers,
    None, NoRow,
    MaxTime, MaxReads, MaxEdits

Paths == 1..N
Times == 1..MaxTime

ASSUME CorpusAssumption ==
    /\ N \in Nat \ {0}
    /\ Mentions \in [Contents -> SUBSET Keys]
    /\ Layers # {}
    /\ None \notin Contents \cup Layers
    /\ {MaxTime, MaxReads, MaxEdits} \subseteq Nat

\* A row of rule_doc with its text in rule_fts; read is 0 for never.
Row == [layer : Layers, sha : Contents, stale : BOOLEAN, read : Times \cup {0}]

ASSUME RowAssumption == NoRow \notin Row

VARIABLES
    file,       \* content of each path, or None
    layer,      \* layer of the first glob that finds a path; None when no
                \* glob does, or the file cannot be read or is too large
    doc,        \* table rule_doc
    reads,      \* file_read observations: path, time and an id of their own
    covered,    \* covered_by of each cluster
    edits       \* counter

vars == <<file, layer, doc, reads, covered, edits>>

Observation == [path : Paths, time : Times, id : 1..MaxReads]

TypeOK ==
    /\ file \in [Paths -> Contents \cup {None}]
    /\ layer \in [Paths -> Layers \cup {None}]
    /\ doc \in [Paths -> Row \cup {NoRow}]
    /\ reads \in SUBSET Observation
    /\ covered \in [Keys -> Paths \cup {None}]
    /\ edits \in 0..MaxEdits

Init ==
    /\ \E c \in Contents : file = [p \in Paths |-> IF p = 1 THEN c ELSE None]
    /\ \E l \in Layers : layer = [p \in Paths |-> l]
    /\ doc = [p \in Paths |-> NoRow]
    /\ reads = {}
    /\ covered = [k \in Keys |-> None]
    /\ edits = 0

-----------------------------------------------------------------------------
(* The operator *)

Edited == edits < MaxEdits /\ edits' = edits + 1 /\ UNCHANGED <<doc, reads, covered>>

Move(p, q) ==
    /\ p # q /\ file[p] # None
    /\ file' = [file EXCEPT ![q] = file[p], ![p] = None]
    /\ Edited /\ UNCHANGED layer

\* A file is written, overwritten or copied.
Write(p, c) ==
    /\ file[p] # c
    /\ file' = [file EXCEPT ![p] = c]
    /\ Edited /\ UNCHANGED layer

Delete(p) ==
    /\ file[p] # None
    /\ file' = [file EXCEPT ![p] = None]
    /\ Edited /\ UNCHANGED layer

\* The globs no longer find a path, find it again, or claim it for a layer.
Reglob(p, l) ==
    /\ layer[p] # l
    /\ layer' = [layer EXCEPT ![p] = l]
    /\ Edited /\ UNCHANGED file

-----------------------------------------------------------------------------
(* Read markers *)

Max0(times) == IF times = {} THEN 0 ELSE CHOOSE t \in times : \A u \in times : u <= t

RowsOf(table, h) == {p \in Paths : table[p] # NoRow /\ table[p].sha = h}

\* _last_read_by_sha
LastRead(table, h) == Max0({table[p].read : p \in RowsOf(table, h)})

\* The content an observed path stands for: that of its row, else that of the
\* file if some row has it; None otherwise.
ContentRead(table, p) ==
    IF table[p] # NoRow THEN table[p].sha
    ELSE IF file[p] # None /\ RowsOf(table, file[p]) # {} THEN file[p]
    ELSE None

\* Mutant: the newest observation replaces the marker, even an older one.
MarkedByLatest(table, observed) ==
    [p \in Paths |->
        IF table[p] = NoRow THEN NoRow
        ELSE LET times == {o.time : o \in {x \in observed : ContentRead(table, x.path) = table[p].sha}}
             IN  [table[p] EXCEPT !.read = IF times = {} THEN @ ELSE Max0(times)]]

\* ingest_rule_reads
Marked(table, observed) ==
    [p \in Paths |->
        IF table[p] = NoRow THEN NoRow
        ELSE [table[p] EXCEPT !.read = Max0({@} \cup
                {o.time : o \in {x \in observed : ContentRead(table, x.path) = table[p].sha}})]]

\* Ingest persists the reads of a transcript, old or new, with its events,
\* and marks the rules they name.
Ingest(p, t) ==
    \E i \in 1..MaxReads :
        /\ \A o \in reads : o.id # i
        /\ reads' = reads \cup {[path |-> p, time |-> t, id |-> i]}
        /\ doc' = Marked(doc, reads')
        /\ UNCHANGED <<file, layer, covered, edits>>

\* Prune, or a shadow of a re-parsed transcript, drops observations.
Expire(t) ==
    /\ \E o \in reads : o.time <= t
    /\ reads' = {o \in reads : o.time > t}
    /\ UNCHANGED <<file, layer, doc, covered, edits>>

-----------------------------------------------------------------------------
(* rank *)

\* discover_docs
Discovered == {p \in Paths : file[p] # None /\ layer[p] # None}

\* Mutant: a new path starts with no history.
UnreadRow(table, p) == [layer |-> layer[p], sha |-> file[p], stale |-> FALSE, read |-> 0]

\* A path seen for the first time adopts the history of its content.
NewRow(table, p) ==
    [layer |-> layer[p], sha |-> file[p], stale |-> FALSE, read |-> LastRead(table, file[p])]

\* One document of index_corpus, against the table its predecessors left.
IndexDoc(table, p) ==
    LET row == table[p]
    IN  IF row = NoRow THEN NewRow(table, p)
        ELSE IF row.sha # file[p]
        THEN [row EXCEPT !.sha = file[p], !.layer = layer[p], !.stale = FALSE]
        ELSE IF row.layer # layer[p] THEN [row EXCEPT !.layer = layer[p]]
        ELSE [row EXCEPT !.stale = FALSE]

IndexPath(table, p) ==
    IF p \in Discovered THEN [table EXCEPT ![p] = IndexDoc(table, p)] ELSE table

\* The documents in path order, in one transaction: the table after n paths.
IndexedTo[n \in 0..N] == IF n = 0 THEN doc ELSE IndexPath(IndexedTo[n - 1], n)

Indexed == IndexedTo[N]

\* Mutant: a path the globs no longer find counts as vanished.
SweptByDiscovery(table) ==
    [p \in Paths |-> IF table[p] = NoRow \/ p \in Discovered THEN table[p]
                     ELSE [table[p] EXCEPT !.stale = TRUE]]

\* The EC-11 sweep: a stored path is stale when its file is gone.
Swept(table) ==
    [p \in Paths |-> IF table[p] = NoRow \/ p \in Discovered \/ file[p] # None
                     THEN table[p]
                     ELSE [table[p] EXCEPT !.stale = TRUE]]

IndexCorpus == Marked(Swept(Indexed), reads)

Candidates(table, k) == {p \in Paths : table[p] # NoRow /\ k \in Mentions[table[p].sha]}

\* The order of _candidates: live before stale, then by path.
First(table, ps) ==
    LET live == {p \in ps : ~table[p].stale}
        best == IF live # {} THEN live ELSE ps
    IN  IF ps = {} THEN None ELSE CHOOSE p \in best : \A q \in best : p <= q

\* match_rule; h is the content the cluster's rule had, None if unknown.
MatchRule(table, k, p, h) ==
    LET candidates == Candidates(table, k)
        moved == {q \in candidates : ~table[q].stale /\ table[q].sha = h}
    IN  IF h # None /\ moved # {} THEN First(table, moved)
        ELSE IF h # None /\ p \in candidates THEN p
        ELSE First(table, candidates)

\* Mutant: the hashes of the covering rules are read after the index.
CoveredHashLate(k) ==
    LET p == covered[k]
    IN  IF p = None \/ IndexCorpus[p] = NoRow THEN None ELSE IndexCorpus[p].sha

\* _covered_rule_hashes, read before the index replaces them.
CoveredHash(k) ==
    LET p == covered[k] IN IF p = None \/ doc[p] = NoRow THEN None ELSE doc[p].sha

\* run_rank: index, coverage and scores in one transaction, or nothing.
Rank ==
    /\ UNCHANGED <<file, layer, reads, edits>>
    /\ LET table == IndexCorpus
       IN  /\ doc' = table
           /\ covered' = [k \in Keys |-> MatchRule(table, k, covered[k], CoveredHash(k))]

\* A detector run without the cluster deletes its row; the next one starts
\* an uncovered one.
Recluster(k) ==
    /\ covered[k] # None
    /\ covered' = [covered EXCEPT ![k] = None]
    /\ UNCHANGED <<file, layer, doc, reads, edits>>

Next ==
    \/ \E p, q \in Paths : Move(p, q)
    \/ \E p \in Paths, c \in Contents : Write(p, c)
    \/ \E p \in Paths : Delete(p)
    \/ \E p \in Paths, l \in Layers \cup {None} : Reglob(p, l)
    \/ \E p \in Paths, t \in Times : Ingest(p, t)
    \/ \E t \in Times : Expire(t)
    \/ Rank
    \/ \E k \in Keys : Recluster(k)

Spec == Init /\ [][Next]_vars

-----------------------------------------------------------------------------
(* What the readers of the tables make of them *)

Live == {p \in Paths : doc[p] # NoRow /\ ~doc[p].stale}

\* The escalation lane of rank, digest and measure: covered by a live rule.
Escalated == {k \in Keys : covered[k] # None /\ covered[k] \in Live}

\* _last_reads_by_sha of the rules report.
ReportedRead(h) ==
    Max0({LastRead(doc, h)} \cup {o.time : o \in {x \in reads : doc[x.path] # NoRow /\ doc[x.path].sha = h}})

\* deletion_candidate of the rules report, and of D-09: unread since then.
Unread(since) == {p \in Live : ReportedRead(doc[p].sha) < since}

\* Mutant: the report forgets the clusters a rule covers.
UnreadAlone(since) == Unread(since)

DeletionCandidates(since) == {p \in Unread(since) : \A k \in Keys : covered[k] # p}

\* _check_rule_corpus of doctor: what it calls vanished or changed.
DoctorComplains == {p \in Paths : doc[p] # NoRow /\ (doc[p].stale \/ file[p] # doc[p].sha)}

-----------------------------------------------------------------------------
(* Properties *)

\* Coverage follows the content of a rule: when rank runs and the content
\* that covered a cluster is live anywhere, under any path and whatever now
\* stands at the old one, the cluster is covered by that content, not by
\* another rule that happens to mention it.
CoverageFollowsMoves ==
    [][Rank => \A k \in Keys :
        LET h == CoveredHash(k)
            kept == {p \in Paths : doc'[p] # NoRow /\ ~doc'[p].stale /\ doc'[p].sha = h}
        IN  h # None /\ kept # {} => covered'[k] \in kept]_vars

\* A rule that moved keeps its read history, even when the observations that
\* gave it are gone, as long as its old path was not given other content
\* before rank saw the move.
MovesKeepHistory ==
    [][Rank => \A p, q \in Paths :
        /\ doc[p] # NoRow /\ file[p] \in {None, doc[p].sha}
        /\ q \in Discovered /\ doc[q] = NoRow /\ file[q] = doc[p].sha
        => doc'[q].read >= doc[p].read]_vars

\* The marker of a row never goes back, though observations expire, arrive
\* out of order, and name paths whose content has changed since.
MarkersOnlyAdvance ==
    [][\A p \in Paths : doc[p] # NoRow => doc'[p] # NoRow /\ doc'[p].read >= doc[p].read]_vars

\* After rank a row is live only if its file is there, and it is stale only
\* if the file is gone, the globs no longer find it, or they gave it another
\* layer in this very run: what the escalation lane rests on.
StaleMeansGone ==
    [][Rank => \A p \in Paths : doc'[p] # NoRow =>
        /\ ~doc'[p].stale => file[p] # None
        /\ doc'[p].stale => \/ file[p] = None
                            \/ layer[p] = None /\ doc[p].stale
                            \/ doc[p].stale /\ doc[p].layer # layer[p]]_vars

\* The rules report offers a rule for deletion when nothing has read its
\* content and it covers no cluster.  While doctor finds the corpus fresh,
\* deleting one never takes the last rule from a cluster that is escalated
\* because a live rule covers it.
DeletionsAreSafe ==
    DoctorComplains = {} =>
        \A since \in Times : \A p \in DeletionCandidates(since) : \A k \in Escalated :
            \E q \in Live \ {p} : file[q] # None /\ k \in Mentions[file[q]]

\* match_rule in twill_ranker.py says: "Candidate paths are ordered live
\* before stale and then by path."  A stale rule covers a cluster only where
\* no live rule mentions it: TLC refutes it (README).
LiveRuleCovers ==
    [][Rank => \A k \in Keys :
        covered'[k] # None /\ doc'[covered'[k]].stale =>
            \A p \in Paths : doc'[p] # NoRow /\ k \in Mentions[doc'[p].sha] => doc'[p].stale]_vars
=============================================================================
