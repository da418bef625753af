---------------------------- MODULE CorpusProofs ----------------------------
(***************************************************************************)
(* Proofs about Corpus, for any paths, contents, layers, clusters and       *)
(* edits: coverage and history follow content, markers only advance, stale  *)
(* means gone, and the proposed deletions are safe.                         *)
(***************************************************************************)
EXTENDS Corpus, WellFoundedInduction, TLAPS

-----------------------------------------------------------------------------
(* Sets of numbers *)

\* The least number principle: the prover's form of induction over data.
LEMMA LeastNumber ==
    ASSUME NEW S, S \subseteq Nat, S # {}
    PROVE  \E n \in S : \A m \in S : n <= m
<1> DEFINE Less == OpToRel(<, Nat)
<1>1. IsWellFoundedOn(Less, Nat)
  BY NatLessThanWellFounded
<1>2. PICK n \in S : \A m \in S : ~ (<<m, n>> \in Less)
  <2> HIDE DEF Less
  <2>1. QED BY <1>1, WFMin
<1>3. \A m \in S : ~ (m < n)
  BY <1>2 DEF OpToRel
<1>4. QED BY <1>3

LEMMA GreatestNumber ==
    ASSUME NEW S, NEW b \in Nat, S \subseteq 0..b, S # {}
    PROVE  \E n \in S : \A m \in S : m <= n
<1> DEFINE Left == {n \in Nat : b - n \in S}
<1>1. PICK s \in S : TRUE
  OBVIOUS
<1>2. b - s \in Left
  <2>1. b - s \in Nat /\ b - (b - s) = s
    BY <1>1
  <2>2. QED BY <2>1
<1>3. PICK n \in Left : \A m \in Left : n <= m
  BY <1>2, LeastNumber
<1>4. \A m \in S : m <= b - n
  <2> TAKE m \in S
  <2>1. b - m \in Nat /\ b - (b - m) = m
    OBVIOUS
  <2>2. b - m \in Left
    BY <2>1
  <2>3. n <= b - m
    BY <1>3, <2>2
  <2>4. QED BY <1>3, <2>3
<1>5. QED BY <1>3, <1>4

\* The largest time, 0 for none.
LEMMA Max0Bounds ==
    ASSUME NEW times, times \subseteq Times \cup {0}
    PROVE  /\ Max0(times) \in Times \cup {0}
           /\ \A t \in times : t <= Max0(times)
<1>1. MaxTime \in Nat
  BY CorpusAssumption
<1>2. CASE times = {}
  BY <1>2 DEF Max0
<1>3. CASE times # {}
  <2>1. times \subseteq 0..MaxTime
    BY <1>1 DEF Times
  <2>2. \E t \in times : \A u \in times : u <= t
    BY <1>1, <1>3, <2>1, GreatestNumber
  <2>3. QED BY <1>3, <2>2 DEF Max0
<1>4. QED BY <1>2, <1>3

-----------------------------------------------------------------------------
(* The tables *)

Tables == [Paths -> Row \cup {NoRow}]

LEMMA RowFields ==
    ASSUME NEW r \in Row
    PROVE  /\ r.layer \in Layers /\ r.sha \in Contents /\ r.stale \in BOOLEAN
           /\ r.read \in Times \cup {0} /\ r # NoRow
BY RowAssumption DEF Row

\* A read gives each row the latest time known of its content, and no more.
LEMMA MarkedRow ==
    ASSUME NEW table \in Tables, NEW observed \in SUBSET Observation
    PROVE  /\ Marked(table, observed) \in Tables
           /\ \A p \in Paths :
                IF table[p] = NoRow THEN Marked(table, observed)[p] = NoRow
                ELSE LET row == Marked(table, observed)[p] IN
                     /\ row # NoRow /\ row.sha = table[p].sha
                     /\ row.stale = table[p].stale /\ row.layer = table[p].layer
                     /\ row.read >= table[p].read
<1> DEFINE times(p) == {table[p].read} \cup
                {o.time : o \in {x \in observed : ContentRead(table, x.path) = table[p].sha}}
<1>1. ASSUME NEW p \in Paths, table[p] # NoRow
      PROVE  LET row == Marked(table, observed)[p] IN
             /\ row \in Row /\ row # NoRow /\ row.sha = table[p].sha
             /\ row.stale = table[p].stale /\ row.layer = table[p].layer
             /\ row.read >= table[p].read
  <2>1. table[p] \in Row
    BY <1>1 DEF Tables
  <2>2. times(p) \subseteq Times \cup {0} /\ table[p].read \in times(p)
    BY <2>1, RowFields DEF Observation
  <2>3. Marked(table, observed)[p] = [table[p] EXCEPT !.read = Max0(times(p))]
    BY <1>1, <2>1 DEF Marked, Row
  <2> HIDE DEF times
  <2>4. Max0(times(p)) \in Times \cup {0} /\ Max0(times(p)) >= table[p].read
    BY <2>2, Max0Bounds DEF Times
  <2>5. QED BY <2>1, <2>3, <2>4, RowAssumption DEF Row
<1>2. \A p \in Paths : table[p] = NoRow => Marked(table, observed)[p] = NoRow
  BY DEF Marked
<1>3. Marked(table, observed) \in Tables
  <2>1. \A p \in Paths : Marked(table, observed)[p] \in Row \cup {NoRow}
    BY <1>1, <1>2
  <2>2. Marked(table, observed) = [p \in Paths |-> Marked(table, observed)[p]]
    BY DEF Marked
  <2>3. QED BY <2>1, <2>2 DEF Tables
<1>4. QED BY <1>1, <1>2, <1>3

LEMMA LastReadBounds ==
    ASSUME NEW table \in Tables, NEW h
    PROVE  /\ LastRead(table, h) \in Times \cup {0}
           /\ \A p \in Paths : table[p] # NoRow /\ table[p].sha = h => table[p].read <= LastRead(table, h)
<1> DEFINE times == {table[p].read : p \in RowsOf(table, h)}
<1>1. times \subseteq Times \cup {0}
  BY RowFields DEF RowsOf, Tables
<1>2. \A p \in Paths : table[p] # NoRow /\ table[p].sha = h => table[p].read \in times
  BY DEF RowsOf
<1>3. LastRead(table, h) = Max0(times)
  BY DEF LastRead
<1> HIDE DEF times
<1>4. QED BY <1>1, <1>2, <1>3, Max0Bounds

-----------------------------------------------------------------------------
(* Indexing path after path *)

\* The first n tables of an index run.
Run(after, n) ==
    after = [m \in 0..n |-> IF m = 0 THEN doc ELSE IndexPath(after[m - 1], m)]

LEMMA RunExtends ==
    ASSUME NEW n \in Nat, NEW after, Run(after, n)
    PROVE  \E longer : Run(longer, n + 1)
<1> DEFINE longer == [m \in 0..(n + 1) |-> IF m = n + 1 THEN IndexPath(after[n], n + 1) ELSE after[m]]
<1>1. \A m \in 0..n : longer[m] = after[m]
  OBVIOUS
<1>2. longer[n + 1] = IndexPath(longer[n], n + 1)
  OBVIOUS
<1>3. \A m \in 0..n : longer[m] = IF m = 0 THEN doc ELSE IndexPath(longer[m - 1], m)
  <2> TAKE m \in 0..n
  <2>1. after[m] = IF m = 0 THEN doc ELSE IndexPath(after[m - 1], m)
    BY DEF Run
  <2>2. m # 0 => m - 1 \in 0..n
    OBVIOUS
  <2> HIDE DEF longer
  <2>3. QED BY <1>1, <2>1, <2>2
<1>4. \A m \in 0..(n + 1) : longer[m] = IF m = 0 THEN doc ELSE IndexPath(longer[m - 1], m)
  <2> HIDE DEF longer
  <2> TAKE m \in 0..(n + 1)
  <2>1. CASE m = n + 1
    <3>1. n + 1 # 0 /\ (n + 1) - 1 = n
      OBVIOUS
    <3>2. QED BY <1>2, <2>1, <3>1
  <2>2. CASE m # n + 1
    BY <1>3, <2>2
  <2>3. QED BY <2>1, <2>2
<1>5. longer = [m \in 0..(n + 1) |-> longer[m]]
  OBVIOUS
<1> HIDE DEF longer
<1>6. Run(longer, n + 1)
  BY <1>4, <1>5 DEF Run
<1>7. QED BY <1>6

\* The recursive definition has a function it defines.
LEMMA RunExists ==
    ASSUME NEW n \in Nat
    PROVE  \E after : Run(after, n)
<1> DEFINE Missing == {m \in Nat : ~ \E after : Run(after, m)}
<1>1. Missing = {}
  <2> SUFFICES ASSUME Missing # {} PROVE FALSE
    OBVIOUS
  <2>1. PICK m \in Missing : \A k \in Missing : m <= k
    <3> HIDE DEF Missing
    <3>1. Missing \subseteq Nat
      BY DEF Missing
    <3>2. QED BY <3>1, LeastNumber
  <2>2. CASE m = 0
    <3>1. Run([k \in 0..0 |-> doc], 0)
      BY DEF Run
    <3>2. QED BY <2>1, <2>2, <3>1
  <2>3. CASE m # 0
    <3>1. m - 1 \in Nat /\ m - 1 \notin Missing /\ (m - 1) + 1 = m
      BY <2>1, <2>3
    <3>2. PICK after : Run(after, m - 1)
      BY <3>1
    <3>3. \E longer : Run(longer, m)
      BY <3>1, <3>2, RunExtends
    <3>4. QED BY <2>1, <3>3
  <2>4. QED BY <2>2, <2>3
<1>2. QED BY <1>1

LEMMA IndexedToSteps ==
    \A n \in 0..N : IndexedTo[n] = IF n = 0 THEN doc ELSE IndexPath(IndexedTo[n - 1], n)
<1>1. \E after : Run(after, N)
  BY RunExists, CorpusAssumption
<1>2. Run(IndexedTo, N)
  BY <1>1 DEF IndexedTo, Run
<1>3. IndexedTo = [n \in 0..N |-> IF n = 0 THEN doc ELSE IndexPath(IndexedTo[n - 1], n)]
  BY <1>2 DEF Run
<1>4. QED BY <1>3

LEMMA DiscoveredType ==
    ASSUME TypeOK, NEW p \in Discovered
    PROVE  p \in Paths /\ file[p] \in Contents /\ layer[p] \in Layers
BY DEF TypeOK, Discovered

LEMMA IndexDocRow ==
    ASSUME TypeOK, NEW table \in Tables, NEW p \in Discovered
    PROVE  LET row == IndexDoc(table, p) IN
           /\ row \in Row /\ row.sha = file[p]
           /\ table[p] # NoRow => row.read = table[p].read
           /\ table[p] = NoRow => row.read = LastRead(table, file[p])
           /\ row.stale => table[p] # NoRow /\ table[p].stale /\ table[p].layer # layer[p]
<1>1. p \in Paths /\ file[p] \in Contents /\ layer[p] \in Layers
  BY DiscoveredType
<1>2. CASE table[p] = NoRow
  <2>1. LastRead(table, file[p]) \in Times \cup {0}
    BY LastReadBounds
  <2>2. QED BY <1>1, <1>2, <2>1 DEF IndexDoc, NewRow, Row
<1>3. CASE table[p] # NoRow
  <2>1. table[p] \in Row
    BY <1>1, <1>3 DEF Tables
  <2>2. QED BY <1>1, <1>3, <2>1 DEF IndexDoc, Row
<1>4. QED BY <1>2, <1>3

\* What n paths of an index run leave: the rows of those, each as of the table
\* before it, and the old rows of the rest.
IndexedFor(n) ==
    /\ IndexedTo[n] \in Tables
    /\ \A p \in Paths :
         IndexedTo[n][p] = IF p <= n /\ p \in Discovered THEN IndexDoc(IndexedTo[p - 1], p) ELSE doc[p]

LEMMA IndexedForOne ==
    ASSUME TypeOK, NEW n \in Nat, n + 1 \in Paths, IndexedFor(n)
    PROVE  IndexedFor(n + 1)
<1> DEFINE old == IndexedTo[n]
           new == IndexedTo[n + 1]
<1>1. n + 1 \in 0..N /\ n + 1 # 0 /\ (n + 1) - 1 = n
  BY CorpusAssumption DEF Paths
<1>2. new = IndexPath(old, n + 1)
  BY <1>1, IndexedToSteps
<1>3. old \in Tables
  BY DEF IndexedFor
<1>4. new \in Tables
  BY <1>2, <1>3, IndexDocRow DEF IndexPath, Tables
<1>5. ASSUME NEW p \in Paths
      PROVE  new[p] = IF p <= n + 1 /\ p \in Discovered THEN IndexDoc(IndexedTo[p - 1], p) ELSE doc[p]
  <2>0. p \in Nat /\ old[p] = IF p <= n /\ p \in Discovered THEN IndexDoc(IndexedTo[p - 1], p) ELSE doc[p]
    BY CorpusAssumption DEF IndexedFor, Paths
  <2>1. CASE p = n + 1 /\ p \in Discovered
    BY <1>1, <1>2, <1>3, <2>1 DEF IndexPath, Tables
  <2>2. CASE p # n + 1 \/ p \notin Discovered
    <3>1. new[p] = old[p]
      BY <1>2, <1>3, <2>2 DEF IndexPath, Tables
    <3>2. p <= n + 1 /\ p \in Discovered <=> p <= n /\ p \in Discovered
      BY <2>0, <2>2
    <3>3. QED BY <2>0, <3>1, <3>2
  <2>3. QED BY <2>1, <2>2
<1>6. QED BY <1>4, <1>5 DEF IndexedFor

LEMMA IndexedForAll ==
    ASSUME TypeOK, NEW n \in 0..N
    PROVE  IndexedFor(n)
<1> DEFINE Wrong == {m \in 0..N : ~ IndexedFor(m)}
<1>1. N \in Nat
  BY CorpusAssumption
<1>2. IndexedFor(0)
  <2>1. IndexedTo[0] = doc
    BY <1>1, IndexedToSteps
  <2>2. doc \in Tables
    BY DEF TypeOK, Tables
  <2>3. \A p \in Paths : ~ (p <= 0)
    BY <1>1 DEF Paths
  <2>4. QED BY <2>1, <2>2, <2>3 DEF IndexedFor
<1>3. Wrong = {}
  <2> SUFFICES ASSUME Wrong # {} PROVE FALSE
    OBVIOUS
  <2>1. Wrong \subseteq Nat
    BY <1>1
  <2>2. PICK m \in Wrong : \A k \in Wrong : m <= k
    <3> HIDE DEF Wrong
    <3>1. QED BY <2>1, LeastNumber
  <2>3. m # 0 /\ m \in 0..N
    BY <1>2, <2>2
  <2>4. m - 1 \in 0..N /\ m - 1 \notin Wrong /\ (m - 1) + 1 = m /\ m \in Paths
    BY <1>1, <2>2, <2>3 DEF Paths
  <2>5. IndexedFor(m - 1)
    BY <2>4
  <2>6. IndexedFor(m)
    BY <2>4, <2>5, IndexedForOne
  <2>7. QED BY <2>2, <2>6
<1>4. QED BY <1>3

\* One row after the index and the sweep of a rank run.
LEMMA SweptRow ==
    ASSUME TypeOK
    PROVE  /\ Swept(Indexed) \in Tables
           /\ \A p \in Paths : LET row == Swept(Indexed)[p] IN
                /\ p \in Discovered =>
                     /\ row = IndexDoc(IndexedTo[p - 1], p)
                     /\ IndexedTo[p - 1] \in Tables /\ IndexedTo[p - 1][p] = doc[p]
                /\ p \notin Discovered /\ (doc[p] = NoRow \/ file[p] # None) => row = doc[p]
                /\ p \notin Discovered /\ doc[p] # NoRow /\ file[p] = None =>
                     row = [doc[p] EXCEPT !.stale = TRUE] /\ row \in Row
<1>1. N \in Nat /\ N \in 0..N
  BY CorpusAssumption
<1>2. Indexed \in Tables
      /\ \A p \in Paths : Indexed[p] = IF p \in Discovered THEN IndexDoc(IndexedTo[p - 1], p) ELSE doc[p]
  <2>1. IndexedFor(N)
    BY <1>1, IndexedForAll
  <2>2. \A p \in Paths : p <= N
    BY <1>1 DEF Paths
  <2>3. QED BY <2>1, <2>2 DEF IndexedFor, Indexed
<1>3. doc \in Tables
  BY DEF TypeOK, Tables
<1>4. \A r \in Row : [r EXCEPT !.stale = TRUE] \in Row
  BY DEF Row
<1>5. ASSUME NEW p \in Paths, p \in Discovered
      PROVE  /\ Swept(Indexed)[p] = IndexDoc(IndexedTo[p - 1], p)
             /\ IndexedTo[p - 1] \in Tables /\ IndexedTo[p - 1][p] = doc[p]
  <2>1. p - 1 \in 0..N /\ ~ (p <= p - 1)
    BY <1>1 DEF Paths
  <2>2. IndexedFor(p - 1)
    BY <2>1, IndexedForAll
  <2>3. Swept(Indexed)[p] = Indexed[p]
    BY <1>5 DEF Swept
  <2>4. QED BY <1>2, <1>5, <2>1, <2>2, <2>3 DEF IndexedFor
<1>6. ASSUME NEW p \in Paths, p \notin Discovered
      PROVE  Swept(Indexed)[p] = IF doc[p] = NoRow \/ file[p] # None THEN doc[p]
                                 ELSE [doc[p] EXCEPT !.stale = TRUE]
  BY <1>2, <1>6 DEF Swept
<1>7. \A p \in Paths : doc[p] # NoRow => [doc[p] EXCEPT !.stale = TRUE] \in Row
  BY <1>3, <1>4 DEF Tables
<1>8. Swept(Indexed) \in Tables
  <2>1. \A p \in Paths : Indexed[p] # NoRow => [Indexed[p] EXCEPT !.stale = TRUE] \in Row
    BY <1>2, <1>4 DEF Tables
  <2>2. QED BY <1>2, <2>1 DEF Swept, Tables
<1>9. QED BY <1>5, <1>6, <1>7, <1>8

\* One row that rank writes.
LEMMA RankedRow ==
    ASSUME TypeOK
    PROVE  /\ IndexCorpus \in Tables
           /\ \A p \in Paths : LET row == IndexCorpus[p]
                                   swept == Swept(Indexed)[p] IN
                IF swept = NoRow THEN row = NoRow
                ELSE /\ row # NoRow /\ row.sha = swept.sha /\ row.stale = swept.stale
                     /\ row.read >= swept.read
<1>1. reads \in SUBSET Observation
  BY DEF TypeOK
<1>2. QED BY <1>1, SweptRow, MarkedRow DEF IndexCorpus

\* What rank makes of each path.
LEMMA RankedPath ==
    ASSUME TypeOK, NEW p \in Paths
    PROVE  LET row == IndexCorpus[p] IN
           /\ doc[p] # NoRow => row # NoRow /\ row.read >= doc[p].read
           /\ p \in Discovered =>
                /\ row # NoRow /\ row.sha = file[p]
                /\ row.stale => doc[p] # NoRow /\ doc[p].stale /\ doc[p].layer # layer[p]
                /\ doc[p] = NoRow => row.read >= LastRead(IndexedTo[p - 1], file[p])
           /\ p \notin Discovered /\ doc[p] = NoRow => row = NoRow
           /\ p \notin Discovered /\ doc[p] # NoRow =>
                /\ row.sha = doc[p].sha
                /\ row.stale => file[p] = None \/ doc[p].stale
                /\ ~row.stale => file[p] # None
<1> DEFINE row == IndexCorpus[p]
           swept == Swept(Indexed)[p]
<1>1. IF swept = NoRow THEN row = NoRow
      ELSE /\ row # NoRow /\ row.sha = swept.sha /\ row.stale = swept.stale
           /\ row.read >= swept.read
  BY RankedRow
<1>2. doc[p] \in Row \cup {NoRow} /\ (row # NoRow => row \in Row)
  BY RankedRow DEF TypeOK, Tables
<1>3. CASE p \in Discovered
  <2> DEFINE before == IndexedTo[p - 1]
  <2>1. swept = IndexDoc(before, p) /\ before \in Tables /\ before[p] = doc[p]
    BY <1>3, SweptRow
  <2>2. /\ swept \in Row /\ swept.sha = file[p]
        /\ doc[p] # NoRow => swept.read = doc[p].read
        /\ doc[p] = NoRow => swept.read = LastRead(before, file[p])
        /\ swept.stale => doc[p] # NoRow /\ doc[p].stale /\ doc[p].layer # layer[p]
    <3> HIDE DEF before, swept
    <3>1. QED BY <1>3, <2>1, IndexDocRow
  <2>3. swept # NoRow
    BY <2>2, RowFields
  <2> HIDE DEF before, swept, row
  <2>4. QED BY <1>1, <1>3, <2>2, <2>3 DEF row, before
<1>4. CASE p \notin Discovered /\ doc[p] = NoRow
  <2>1. swept = NoRow
    BY <1>4, SweptRow
  <2>2. QED BY <1>1, <1>4, <2>1
<1>5. CASE p \notin Discovered /\ doc[p] # NoRow
  <2>1. swept = IF file[p] # None THEN doc[p] ELSE [doc[p] EXCEPT !.stale = TRUE]
    BY <1>5, SweptRow
  <2>2. swept \in Row /\ swept # NoRow /\ swept.sha = doc[p].sha /\ swept.read = doc[p].read
        /\ swept.stale = (file[p] = None \/ doc[p].stale)
    <3>1. doc[p] \in Row
      BY <1>2, <1>5
    <3>2. CASE file[p] # None
      BY <2>1, <3>1, <3>2, RowFields
    <3>3. CASE file[p] = None
      <4>1. swept = [doc[p] EXCEPT !.stale = TRUE]
        BY <2>1, <3>3
      <4> HIDE DEF swept
      <4>2. swept \in Row /\ swept.sha = doc[p].sha /\ swept.read = doc[p].read /\ swept.stale = TRUE
        BY <3>1, <4>1 DEF Row
      <4>3. QED BY <3>3, <4>2, RowFields
    <3>4. QED BY <3>2, <3>3
  <2> HIDE DEF swept, row
  <2>3. QED BY <1>1, <1>5, <2>2 DEF row
<1>6. QED BY <1>3, <1>4, <1>5

-----------------------------------------------------------------------------
(* Choosing a rule *)

LEMMA FirstOf ==
    ASSUME NEW table, NEW ps \in SUBSET Paths, ps # {}
    PROVE  First(table, ps) \in ps
<1> DEFINE live == {p \in ps : ~table[p].stale}
           best == IF live # {} THEN live ELSE ps
<1>0. ps \subseteq Nat
  BY CorpusAssumption DEF Paths
<1>1. best \subseteq Nat /\ best # {} /\ best \subseteq ps
  BY <1>0
<1>2. First(table, ps) = CHOOSE p \in best : \A q \in best : p <= q
  BY DEF First
<1> HIDE DEF best
<1>3. \E p \in best : \A q \in best : p <= q
  BY <1>1, LeastNumber
<1>4. QED BY <1>1, <1>2, <1>3

\* A cluster is matched to a rule that mentions it, or to none.
LEMMA MatchedMentions ==
    ASSUME NEW table, NEW k \in Keys, NEW p, NEW h, MatchRule(table, k, p, h) # None
    PROVE  MatchRule(table, k, p, h) \in Candidates(table, k)
<1> DEFINE candidates == Candidates(table, k)
           moved == {q \in candidates : ~table[q].stale /\ table[q].sha = h}
<1>1. candidates \in SUBSET Paths /\ moved \in SUBSET Paths /\ moved \subseteq candidates
  BY DEF Candidates
<1>2. MatchRule(table, k, p, h) = IF h # None /\ moved # {} THEN First(table, moved)
                                  ELSE IF h # None /\ p \in candidates THEN p
                                  ELSE First(table, candidates)
  BY DEF MatchRule
<1> HIDE DEF candidates, moved
<1>3. moved # {} => First(table, moved) \in candidates
  BY <1>1, FirstOf
<1>4. candidates # {} => First(table, candidates) \in candidates
  BY <1>1, FirstOf
<1>5. candidates = {} => First(table, candidates) = None
  BY DEF First
<1>6. MatchRule(table, k, p, h) \in candidates
  BY <1>2, <1>3, <1>4, <1>5
<1>7. QED BY <1>6 DEF candidates

-----------------------------------------------------------------------------
(* The invariant *)

\* A covering rule has a row, and the content the row has mentions the cluster.
CoverMentions ==
    \A k \in Keys : covered[k] # None =>
        doc[covered[k]] # NoRow /\ k \in Mentions[doc[covered[k]].sha]

IInv == TypeOK /\ CoverMentions

LEMMA RankType ==
    ASSUME TypeOK, Rank
    PROVE  TypeOK'
<1>1. doc' \in Tables
  BY RankedRow DEF Rank
<1>2. \A k \in Keys : covered'[k] \in Paths \cup {None}
  <2> TAKE k \in Keys
  <2>1. covered'[k] = MatchRule(IndexCorpus, k, covered[k], CoveredHash(k))
    BY DEF Rank
  <2>2. QED BY <2>1, MatchedMentions DEF Candidates
<1>3. covered' \in [Keys -> Paths \cup {None}]
  BY <1>2 DEF Rank
<1>4. QED BY <1>1, <1>3 DEF TypeOK, Rank, Tables

LEMMA RankCovers ==
    ASSUME TypeOK, Rank
    PROVE  CoverMentions'
<1> SUFFICES ASSUME NEW k \in Keys, covered'[k] # None
             PROVE  doc'[covered'[k]] # NoRow /\ k \in Mentions[doc'[covered'[k]].sha]
  BY DEF CoverMentions
<1>1. covered'[k] = MatchRule(IndexCorpus, k, covered[k], CoveredHash(k)) /\ doc' = IndexCorpus
  BY DEF Rank
<1>2. QED BY <1>1, MatchedMentions DEF Candidates

\* Rows keep their content while reads arrive.
LEMMA IngestRows ==
    ASSUME TypeOK, NEW p \in Paths, NEW t \in Times, Ingest(p, t)
    PROVE  /\ TypeOK'
           /\ \A q \in Paths : doc[q] # NoRow =>
                doc'[q] # NoRow /\ doc'[q].sha = doc[q].sha /\ doc'[q].read >= doc[q].read
<1>1. doc \in Tables
  BY DEF TypeOK, Tables
<1>2. reads' \in SUBSET Observation
  BY DEF TypeOK, Ingest, Observation
<1>3. doc' = Marked(doc, reads')
  BY DEF Ingest
<1>4. doc' \in Tables
      /\ \A q \in Paths : doc[q] # NoRow =>
            doc'[q] # NoRow /\ doc'[q].sha = doc[q].sha /\ doc'[q].read >= doc[q].read
  BY <1>1, <1>2, <1>3, MarkedRow
<1>5. QED BY <1>2, <1>4 DEF TypeOK, Ingest, Tables

LEMMA InitInv ==
    ASSUME Init
    PROVE  IInv
<1>1. 1 \in Paths /\ 0 \in 0..MaxEdits
  BY CorpusAssumption DEF Paths
<1>2. QED BY <1>1 DEF Init, IInv, TypeOK, CoverMentions

LEMMA NextInv ==
    ASSUME IInv, [Next]_vars
    PROVE  IInv'
<1> USE DEF IInv
<1>0. edits < MaxEdits => edits + 1 \in 0..MaxEdits
  BY CorpusAssumption DEF TypeOK
<1>1. ASSUME NEW p \in Paths, NEW q \in Paths, Move(p, q) PROVE IInv'
  BY <1>0, <1>1 DEF Move, Edited, TypeOK, CoverMentions
<1>2. ASSUME NEW p \in Paths, NEW c \in Contents, Write(p, c) PROVE IInv'
  BY <1>0, <1>2 DEF Write, Edited, TypeOK, CoverMentions
<1>3. ASSUME NEW p \in Paths, Delete(p) PROVE IInv'
  BY <1>0, <1>3 DEF Delete, Edited, TypeOK, CoverMentions
<1>4. ASSUME NEW p \in Paths, NEW l \in Layers \cup {None}, Reglob(p, l) PROVE IInv'
  BY <1>0, <1>4 DEF Reglob, Edited, TypeOK, CoverMentions
<1>5. ASSUME NEW p \in Paths, NEW t \in Times, Ingest(p, t) PROVE IInv'
  <2>1. covered' = covered
    BY <1>5 DEF Ingest
  <2>2. \A k \in Keys : covered[k] # None => covered[k] \in Paths
    BY DEF TypeOK
  <2>3. QED BY <1>5, <2>1, <2>2, IngestRows DEF CoverMentions
<1>6. ASSUME NEW t \in Times, Expire(t) PROVE IInv'
  BY <1>6 DEF Expire, TypeOK, CoverMentions
<1>7. CASE Rank
  BY <1>7, RankType, RankCovers
<1>8. ASSUME NEW k \in Keys, Recluster(k) PROVE IInv'
  BY <1>8 DEF Recluster, TypeOK, CoverMentions
<1>9. CASE UNCHANGED vars
  BY <1>9 DEF vars, TypeOK, CoverMentions
<1>10. QED BY <1>1, <1>2, <1>3, <1>4, <1>5, <1>6, <1>7, <1>8, <1>9 DEF Next

\* Every table holds rows of the shape its columns allow, and a cluster points
\* to a path that discovery knows or to nothing.
THEOREM CorpusTypeOK == Spec => []TypeOK
<1>1. Init => IInv
  BY InitInv
<1>2. IInv /\ [Next]_vars => IInv'
  BY NextInv
<1>3. IInv => TypeOK
  BY DEF IInv
<1>4. QED BY <1>1, <1>2, <1>3, PTL DEF Spec

\* Whatever the operators and rank did, a covering rule mentions its cluster:
\* so a rule that covers none is safe to delete while doctor finds the corpus
\* fresh, however long ago it was read.
THEOREM DeletionsAlwaysSafe == Spec => []DeletionsAreSafe
<1>1. IInv => DeletionsAreSafe
  <2> SUFFICES ASSUME IInv, DoctorComplains = {}, NEW since \in Times,
                      NEW p \in DeletionCandidates(since), NEW k \in Escalated
               PROVE  \E q \in Live \ {p} : file[q] # None /\ k \in Mentions[file[q]]
    BY DEF DeletionsAreSafe
  <2> DEFINE q == covered[k]
  <2>1. k \in Keys /\ q # None /\ q \in Live /\ q \in Paths /\ q # p
    BY DEF Escalated, DeletionCandidates, Live
  <2>2. doc[q] # NoRow /\ k \in Mentions[doc[q].sha]
    BY <2>1 DEF IInv, CoverMentions
  <2>3. doc[q] \in Row
    BY <2>1, <2>2 DEF IInv, TypeOK
  <2>4. file[q] = doc[q].sha /\ doc[q].sha \in Contents
    BY <2>1, <2>2, <2>3, RowFields DEF DoctorComplains
  <2>5. file[q] # None
    BY <2>4, CorpusAssumption
  <2>6. QED BY <2>1, <2>2, <2>4, <2>5
<1>2. Init => IInv
  BY InitInv
<1>3. IInv /\ [Next]_vars => IInv'
  BY NextInv
<1>4. QED BY <1>1, <1>2, <1>3, PTL DEF Spec

-----------------------------------------------------------------------------
(* The steps *)

LEMMA MarkersAdvance ==
    ASSUME TypeOK, [Next]_vars, NEW p \in Paths, doc[p] # NoRow
    PROVE  doc'[p] # NoRow /\ doc'[p].read >= doc[p].read
<1>1. doc[p] \in Row /\ doc[p].read \in Nat
  BY RowFields, CorpusAssumption DEF TypeOK, Times
<1>2. CASE doc' = doc
  BY <1>1, <1>2
<1>3. CASE Rank
  BY <1>3, RankedPath DEF Rank
<1>4. ASSUME NEW q \in Paths, NEW t \in Times, Ingest(q, t)
      PROVE  doc'[p] # NoRow /\ doc'[p].read >= doc[p].read
  BY <1>4, IngestRows
<1>5. \/ doc' = doc \/ Rank \/ \E q \in Paths, t \in Times : Ingest(q, t)
  BY DEF Next, vars, Edited, Move, Write, Delete, Reglob, Expire, Recluster
<1>6. QED BY <1>2, <1>3, <1>4, <1>5

\* However observations expire or arrive and paths move, the time a rule was
\* last read never goes back, and its row never disappears.
THEOREM MarkersAlwaysAdvance == Spec => MarkersOnlyAdvance
<1>1. TypeOK /\ [Next]_vars => [\A p \in Paths : doc[p] # NoRow => doc'[p] # NoRow /\ doc'[p].read >= doc[p].read]_vars
  BY MarkersAdvance
<1>2. QED BY <1>1, CorpusTypeOK, PTL DEF Spec, MarkersOnlyAdvance

LEMMA StaleRows ==
    ASSUME TypeOK, Rank, NEW p \in Paths, doc'[p] # NoRow
    PROVE  /\ ~doc'[p].stale => file[p] # None
           /\ doc'[p].stale => \/ file[p] = None
                               \/ layer[p] = None /\ doc[p].stale
                               \/ doc[p].stale /\ doc[p].layer # layer[p]
<1>1. doc'[p] = IndexCorpus[p]
  BY DEF Rank
<1>2. p \in Discovered <=> file[p] # None /\ layer[p] # None
  BY DEF Discovered
<1>3. QED BY <1>1, <1>2, RankedPath

\* After every rank run the escalation lane rests on files that are there,
\* and only a vanished, unlisted or relayered rule is stale.
THEOREM StaleAlwaysMeansGone == Spec => StaleMeansGone
<1>1. TypeOK /\ [Next]_vars =>
        [Rank => \A p \in Paths : doc'[p] # NoRow =>
            /\ ~doc'[p].stale => file[p] # None
            /\ doc'[p].stale => \/ file[p] = None
                                \/ layer[p] = None /\ doc[p].stale
                                \/ doc[p].stale /\ doc[p].layer # layer[p]]_vars
  BY StaleRows
<1>2. QED BY <1>1, CorpusTypeOK, PTL DEF Spec, StaleMeansGone

\* When q is indexed, the row of p still stands for the content p had.
LEMMA MovedHistory ==
    ASSUME TypeOK, Rank, NEW p \in Paths, NEW q \in Paths,
           doc[p] # NoRow, file[p] \in {None, doc[p].sha},
           q \in Discovered, doc[q] = NoRow, file[q] = doc[p].sha
    PROVE  doc'[q].read >= doc[p].read
<1> DEFINE before == IndexedTo[q - 1]
<1>1. N \in Nat /\ q - 1 \in 0..N /\ p \in Nat
  BY CorpusAssumption DEF Paths
<1>2. IndexedFor(q - 1)
  BY <1>1, IndexedForAll
<1>3. before \in Tables
  BY <1>2 DEF IndexedFor
<1>4. doc[p] \in Row
  BY DEF TypeOK
<1>5. before[p] # NoRow /\ before[p].sha = doc[p].sha /\ before[p].read = doc[p].read
  <2>1. CASE p <= q - 1 /\ p \in Discovered
    <3>1. before[p] = IndexDoc(IndexedTo[p - 1], p)
      BY <1>2, <2>1 DEF IndexedFor
    <3>2. IndexedTo[p - 1] \in Tables /\ IndexedTo[p - 1][p] = doc[p]
      BY <2>1, SweptRow
    <3>3. file[p] = doc[p].sha
      BY <2>1 DEF Discovered
    <3>4. before[p] \in Row /\ before[p].sha = file[p] /\ before[p].read = doc[p].read
      <4> HIDE DEF before
      <4>1. QED BY <2>1, <3>1, <3>2, IndexDocRow
    <3>5. QED BY <3>3, <3>4, RowFields
  <2>2. CASE ~ (p <= q - 1 /\ p \in Discovered)
    <3>1. before[p] = doc[p]
      BY <1>2, <2>2 DEF IndexedFor
    <3>2. QED BY <3>1
  <2>3. QED BY <2>1, <2>2
<1>6. doc[p].read <= LastRead(before, file[q]) /\ LastRead(before, file[q]) \in Nat
  <2> HIDE DEF before
  <2>1. before[p].read <= LastRead(before, file[q]) /\ LastRead(before, file[q]) \in Times \cup {0}
    BY <1>3, <1>5, LastReadBounds
  <2>2. QED BY <1>5, <2>1, CorpusAssumption DEF Times
<1>7. doc'[q].read >= LastRead(before, file[q]) /\ doc'[q].read \in Nat
  <2>1. doc' = IndexCorpus
    BY DEF Rank
  <2>2. doc'[q] # NoRow /\ doc'[q].read >= LastRead(before, file[q])
    BY <2>1, RankedPath
  <2>3. doc'[q] \in Row
    BY <2>1, <2>2, RankedRow DEF Tables
  <2>4. doc'[q].read \in Nat
    BY <2>3, RowFields, CorpusAssumption DEF Times
  <2>5. QED BY <2>2, <2>4
<1>8. doc[p].read \in Nat
  BY <1>4, RowFields, CorpusAssumption DEF Times
<1> HIDE DEF before
<1>9. QED BY <1>6, <1>7, <1>8

\* A rule keeps its history when it moves, whatever else the same run of rank
\* indexes before it and whether its observations are still there.
THEOREM MovesAlwaysKeepHistory == Spec => MovesKeepHistory
<1>1. TypeOK /\ [Next]_vars =>
        [Rank => \A p, q \in Paths :
            /\ doc[p] # NoRow /\ file[p] \in {None, doc[p].sha}
            /\ q \in Discovered /\ doc[q] = NoRow /\ file[q] = doc[p].sha
            => doc'[q].read >= doc[p].read]_vars
  BY MovedHistory
<1>2. QED BY <1>1, CorpusTypeOK, PTL DEF Spec, MovesKeepHistory

LEMMA CoverFollows ==
    ASSUME IInv, Rank, NEW k \in Keys
    PROVE  LET h == CoveredHash(k)
               kept == {p \in Paths : doc'[p] # NoRow /\ ~doc'[p].stale /\ doc'[p].sha = h}
           IN  h # None /\ kept # {} => covered'[k] \in kept
<1> DEFINE h == CoveredHash(k)
           kept == {p \in Paths : doc'[p] # NoRow /\ ~doc'[p].stale /\ doc'[p].sha = h}
           moved == {q \in Candidates(IndexCorpus, k) : ~IndexCorpus[q].stale /\ IndexCorpus[q].sha = h}
<1> SUFFICES ASSUME h # None, kept # {} PROVE covered'[k] \in kept
  OBVIOUS
<1>1. doc' = IndexCorpus /\ covered'[k] = MatchRule(IndexCorpus, k, covered[k], h)
  BY DEF Rank
<1>2. k \in Mentions[h]
  <2>1. covered[k] # None /\ h = doc[covered[k]].sha
    BY DEF CoveredHash
  <2>2. QED BY <2>1 DEF IInv, CoverMentions
<1> HIDE DEF h
<1>3. moved = kept
  BY <1>1, <1>2 DEF Candidates
<1>4. covered'[k] = First(IndexCorpus, moved)
  BY <1>1, <1>3 DEF MatchRule
<1>5. moved \in SUBSET Paths
  BY DEF Candidates
<1> HIDE DEF moved, kept
<1>6. First(IndexCorpus, moved) \in moved
  BY <1>3, <1>5, FirstOf
<1>7. QED BY <1>3, <1>4, <1>6

\* A cluster stays with the content that covered it as long as that content
\* is live under any path, although the covering path is all that is stored.
THEOREM CoverageAlwaysFollowsMoves == Spec => CoverageFollowsMoves
<1>1. IInv /\ [Next]_vars =>
        [Rank => \A k \in Keys :
            LET h == CoveredHash(k)
                kept == {p \in Paths : doc'[p] # NoRow /\ ~doc'[p].stale /\ doc'[p].sha = h}
            IN  h # None /\ kept # {} => covered'[k] \in kept]_vars
  BY CoverFollows
<1>2. Init => IInv
  BY InitInv
<1>3. IInv /\ [Next]_vars => IInv'
  BY NextInv
<1>4. QED BY <1>1, <1>2, <1>3, PTL DEF Spec, CoverageFollowsMoves
=============================================================================
