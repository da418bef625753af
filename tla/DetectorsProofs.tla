--------------------------- MODULE DetectorsProofs --------------------------
(***************************************************************************)
(* Proofs about Detectors, for any rows, days, sessions and keys: the hit   *)
(* query names the sessions of every cluster, the weekly counts add up to   *)
(* the clusters, and a prune leaves a later window alone.                   *)
(***************************************************************************)
EXTENDS Detectors, FiniteSetTheorems, WellFoundedInduction, TLAPS

-----------------------------------------------------------------------------
(* The hit query *)

\* Under a key that recurs, a threshold takes no session away.
LEMMA ThresholdKeepsSessions ==
    ASSUME NEW pairs, NEW k \in KeysOf(Recurring(pairs))
    PROVE  SessionsOf(Recurring(pairs), k) = SessionsOf(pairs, k)
<1>1. Cardinality(SessionsOf(pairs, k)) >= 2
  BY DEF KeysOf, Recurring
<1>2. {y \in Recurring(pairs) : y[1] = k} = {y \in pairs : y[1] = k}
  BY <1>1 DEF Recurring
<1>3. QED BY <1>2 DEF SessionsOf

\* The session-hit query has the sessions of every cluster, and no other.
LEMMA HitsHaveTheSessions ==
    ASSUME NEW f \in Families \ Unattributed, NEW from,
           NEW k \in ClusterKeys(f, from)
    PROVE  SessionsOf(HitPairs(f, from), k) =
               SessionsOf(ClusterPairs(f, from), k)
<1>1. CASE f = "D-01"
  <2>1. k \in KeysOf(Recurring(MissingBinary(from, Forever)))
    BY <1>1 DEF ClusterKeys, ClusterPairs
  <2>2. QED BY <1>1, <2>1, ThresholdKeepsSessions DEF HitPairs, ClusterPairs
<1>2. CASE f = "D-02"
  <2>1. k \in KeysOf(Recurring(ErrorSignature(from, Forever)))
    BY <1>2 DEF ClusterKeys, ClusterPairs
  <2>2. QED BY <1>2, <2>1, ThresholdKeepsSessions DEF HitPairs, ClusterPairs
<1>3. CASE f = "D-04"
  <2>1. k \in KeysOf(Recurring(HookDenial(from, Forever)))
    BY <1>3 DEF ClusterKeys, ClusterPairs
  <2>2. QED BY <1>3, <2>1, ThresholdKeepsSessions DEF HitPairs, ClusterPairs
<1>4. CASE f \notin {"D-01", "D-02", "D-04"}
  BY <1>4 DEF HitPairs
<1>5. QED BY <1>1, <1>2, <1>3, <1>4

\* Normalization that keeps keys apart keeps their sessions apart.
LEMMA NormalizedHitsAreHits ==
    ASSUME NEW f, NEW from, NEW k \in ClusterKeys(f, from),
           \A i, j \in ClusterKeys(f, from) \cup KeysOf(HitPairs(f, from)) :
               i # j => Norm(i) # Norm(j)
    PROVE  HitSessions(f, from, k) = SessionsOf(HitPairs(f, from), k)
<1> DEFINE pairs == HitPairs(f, from)
<1>1. \A x \in pairs : Norm(x[1]) = Norm(k) <=> x[1] = k
  BY DEF KeysOf
<1>2. HitSessions(f, from, k) =
          {x[2].session : x \in {y \in pairs : Norm(y[1]) = Norm(k)}}
  <2>1. ASSUME NEW s
        PROVE  s \in HitSessions(f, from, k) <=>
                 \E y \in pairs : Norm(y[1]) = Norm(k) /\ s = y[2].session
    <3>1. s \in HitSessions(f, from, k) <=>
             \E h \in NormalizedHits(f, from) : h[1] = Norm(k) /\ s = h[2]
      BY DEF HitSessions
    <3>2. \A h : h \in NormalizedHits(f, from) <=>
               \E y \in pairs : h = <<Norm(y[1]), y[2].session>>
      BY DEF NormalizedHits
    <3> HIDE DEF pairs
    <3>3. ASSUME NEW y \in pairs, Norm(y[1]) = Norm(k), s = y[2].session
          PROVE  s \in HitSessions(f, from, k)
      <4>1. <<Norm(y[1]), y[2].session>> \in NormalizedHits(f, from)
        BY <3>2
      <4>2. QED BY <3>1, <3>3, <4>1
    <3>4. ASSUME s \in HitSessions(f, from, k)
          PROVE  \E y \in pairs : Norm(y[1]) = Norm(k) /\ s = y[2].session
      <4>1. PICK h \in NormalizedHits(f, from) : h[1] = Norm(k) /\ s = h[2]
        BY <3>1, <3>4
      <4>2. PICK y \in pairs : h = <<Norm(y[1]), y[2].session>>
        BY <3>2
      <4>3. QED BY <4>1, <4>2
    <3>5. QED BY <3>3, <3>4
  <2> HIDE DEF pairs
  <2>2. QED BY <2>1
<1>3. {y \in pairs : Norm(y[1]) = Norm(k)} = {y \in pairs : y[1] = k}
  BY <1>1
<1>4. QED BY <1>2, <1>3 DEF SessionsOf

LEMMA HitsName == HitsNameEverySession
<1> SUFFICES ASSUME NEW f \in Families, NEW from \in Days,
                    \A j, k \in ClusterKeys(f, from)
                                  \cup KeysOf(HitPairs(f, from)) :
                        j # k => Norm(j) # Norm(k)
             PROVE  ~Refused(f, from)
  BY DEF HitsNameEverySession
<1>1. ~Collides(f, from)
  BY DEF Collides
<1>2. ASSUME f \notin Unattributed PROVE ~Unaccounted(f, from)
  <2>1. \A k \in ClusterKeys(f, from) :
           HitSessions(f, from, k) = SessionsOf(ClusterPairs(f, from), k)
    BY <1>2, NormalizedHitsAreHits, HitsHaveTheSessions
  <2>2. QED BY <2>1 DEF Unaccounted, Counts
<1>3. QED BY <1>1, <1>2 DEF Refused

THEOREM HitsAlwaysNameEverySession == Spec => []HitsNameEverySession
<1>1. QED BY HitsName, PTL

-----------------------------------------------------------------------------
(* What a prune takes from the queries *)

\* Every row has a day.
DaysInv == \A o \in obs : o.day \in Days

LEMMA EveryRowHasADay == Spec => []DaysInv
<1>1. Init => DaysInv
  BY DEF Init, DaysInv
<1>2. DaysInv /\ [Next]_vars => DaysInv'
  <2> SUFFICES ASSUME DaysInv, [Next]_vars PROVE DaysInv'
    OBVIOUS
  <2>1. ASSUME NEW c \in suite, NEW s \in Sessions, NEW day \in Days, Ingest(c, s, day)
        PROVE  DaysInv'
    BY <2>1 DEF Ingest, Row, DaysInv, Days
  <2>2. ASSUME NEW cutoff \in Days, Prune(cutoff) PROVE DaysInv'
    BY <2>2 DEF Prune, DaysInv, Days
  <2>3. CASE UNCHANGED vars
    BY <2>3 DEF vars, DaysInv, Days
  <2>4. QED BY <2>1, <2>2, <2>3 DEF Next
<1>3. QED BY <1>1, <1>2, PTL DEF Spec

\* The rows of a window that begins at the cutoff or later stay.
LEMMA WindowKeepsRows ==
    ASSUME NEW cutoff \in Days, Prune(cutoff),
           NEW from \in cutoff .. MaxDay, NEW to, DaysInv,
           NEW kinds, NEW column
    PROVE  Rows(kinds, column, from, to)' = Rows(kinds, column, from, to)
BY DEF Prune, Expired, Rows, DaysInv, Days

\* So do, in order, the rows between two of them.
LEMMA WindowKeepsBetween ==
    ASSUME NEW cutoff \in Days, Prune(cutoff),
           NEW from \in cutoff .. MaxDay, DaysInv, InOrder,
           NEW r \in obs, NEW c, from <= r.day
    PROVE  Between(r, c)' = Between(r, c)
<1>1. ASSUME NEW o \in Between(r, c) PROVE o \in obs'
  <2>1. r.day <= o.day /\ o \in obs
    BY DEF Between, InOrder
  <2>2. ~(o.day < cutoff)
    BY <2>1 DEF DaysInv, Days
  <2>3. QED BY <2>1, <2>2 DEF Prune, Expired
<1>2. obs' \subseteq obs
  BY DEF Prune
<1>3. QED BY <1>1, <1>2 DEF Between

\* A window that a prune leaves alone, and rows in order where a detector
\* looks at what came between.
Spared(f, from, cutoff) ==
    /\ Prune(cutoff) /\ from \in cutoff .. MaxDay
    /\ DaysInv
    /\ f \in {"D-05", "D-06"} => InOrder

\* Pairs of a stop and its correction stay.
LEMMA PruneKeepsCorrected ==
    ASSUME NEW f \in {"D-05", "D-06"}, NEW cutoff \in Days, NEW from,
           Spared(f, from, cutoff), NEW to, NEW kind, NEW column
    PROVE  Corrected(kind, column, from, to)' = Corrected(kind, column, from, to)
<1>1. /\ Rows({kind}, column, from, to)' = Rows({kind}, column, from, to)
      /\ Rows({"correction"}, "excerpt", from, to)' =
             Rows({"correction"}, "excerpt", from, to)
  BY WindowKeepsRows DEF Spared
<1>2. \A r \in Rows({kind}, column, from, to) : \A c :
         Between(r, c)' = Between(r, c)
  BY WindowKeepsBetween DEF Spared, Rows
<1>3. QED BY <1>1, <1>2 DEF Corrected

\* So do the commands given up.
LEMMA PruneKeepsRetries ==
    ASSUME NEW f, NEW cutoff \in Days, NEW from, Spared(f, from, cutoff), NEW to
    PROVE  RetryLoop(Unrecovered(from, to), from, to)' =
               RetryLoop(Unrecovered(from, to), from, to)
<1>1. \A kinds, column :
         Rows(kinds, column, from, to)' = Rows(kinds, column, from, to)
  BY WindowKeepsRows DEF Spared
<1>2. Unrecovered(from, to)' = Unrecovered(from, to)
  BY <1>1 DEF Unrecovered, Failed, Recovered
<1>3. Abandoned(from, to)' = Abandoned(from, to)
  BY <1>2 DEF Abandoned
<1>4. QED BY <1>2, <1>3 DEF RetryLoop

\* And what two sessions found out.
LEMMA PruneKeepsRediscovery ==
    ASSUME NEW f, NEW cutoff \in Days, NEW from, Spared(f, from, cutoff), NEW to
    PROVE  Rediscovery(from, to)' = Rediscovery(from, to)
<1>1. \A kinds, column :
         Rows(kinds, column, from, to)' = Rows(kinds, column, from, to)
  BY WindowKeepsRows DEF Spared
<1>2. UnchangedReads(from, to)' = UnchangedReads(from, to)
  BY <1>1 DEF UnchangedReads
<1> DEFINE commands == {<<o.content.command, o>> :
              o \in Rows({"run_succeeded", "run_failed"}, "command", from, to)}
<1>3. commands' = commands
  BY <1>1
<1> HIDE DEF commands
<1>4. Recurring(commands)' = Recurring(commands)
  BY <1>3 DEF Recurring, SessionsOf
<1>5. QED BY <1>2, <1>4 DEF Rediscovery, Recurring, SessionsOf,
                            DaysOf, commands

LEMMA PruneKeepsPairs ==
    ASSUME NEW f \in Families \ {"D-08"}, NEW cutoff \in Days, NEW from,
           Spared(f, from, cutoff)
    PROVE  ClusterPairs(f, from)' = ClusterPairs(f, from)
<1> DEFINE end == Forever
<1>1. \A kinds, column :
         Rows(kinds, column, from, end)' = Rows(kinds, column, from, end)
  BY WindowKeepsRows DEF Spared
<1>2. /\ MissingBinary(from, end)' = MissingBinary(from, end)
      /\ ErrorSignature(from, end)' = ErrorSignature(from, end)
      /\ HookDenial(from, end)' = HookDenial(from, end)
      /\ GateGap(from, end)' = GateGap(from, end)
  BY <1>1 DEF MissingBinary, ErrorSignature, HookDenial, GateGap
<1>3. CASE f \in {"D-01", "D-02", "D-04", "D-10"}
  BY <1>2, <1>3 DEF ClusterPairs, Recurring, SessionsOf
<1>4. CASE f = "D-03"
  BY <1>4, PruneKeepsRetries DEF ClusterPairs
<1>5. CASE f \in {"D-05", "D-06"}
  <2>1. \A kind, column :
           Corrected(kind, column, from, end)' = Corrected(kind, column, from, end)
    BY <1>5, PruneKeepsCorrected
  <2>2. /\ Rejection(from, end)' = Rejection(from, end)
        /\ Interruption(from, end)' = Interruption(from, end)
    BY <2>1 DEF Rejection, Interruption, Norm
  <2>3. QED BY <1>5, <2>2 DEF ClusterPairs
<1>6. CASE f = "D-07"
  BY <1>6, PruneKeepsRediscovery DEF ClusterPairs
<1>7. QED BY <1>3, <1>4, <1>5, <1>6 DEF Families

\* A prune takes no finding, count or date from a window that begins at its
\* cutoff or later (prune_observations), apart from what reaches behind it.
THEOREM PruneAlwaysKeepsFindings == Spec => PruneKeepsFindings
<1>1. ASSUME DaysInv, NEW cutoff \in Days, Prune(cutoff),
             NEW f \in Families \ {"D-08"}, NEW from \in cutoff .. MaxDay,
             f \in {"D-05", "D-06"} => InOrder
      PROVE  Findings(f, from)' = Findings(f, from)
  <2>1. ClusterPairs(f, from)' = ClusterPairs(f, from)
    BY <1>1, PruneKeepsPairs DEF Spared
  <2>2. ClusterKeys(f, from)' = ClusterKeys(f, from)
    BY <2>1 DEF ClusterKeys, KeysOf
  <2>3. \A k : Counts(ClusterPairs(f, from), k)' =
                  Counts(ClusterPairs(f, from), k)
    BY <2>1 DEF Counts, DaysOf, SessionsOf
  <2>4. QED BY <2>2, <2>3 DEF Findings, Norm
<1>2. DaysInv /\ [Next]_vars =>
        [\A cutoff \in Days : Prune(cutoff) =>
           \A f \in Families \ {"D-08"}, from \in cutoff .. MaxDay :
              (f \in {"D-05", "D-06"} => InOrder) =>
                  Findings(f, from)' = Findings(f, from)]_vars
  BY <1>1
<1>3. QED BY <1>2, EveryRowHasADay, PTL DEF Spec, PruneKeepsFindings

-----------------------------------------------------------------------------
(* The weekly query *)

\* The table is finite.
ObsFinite == IsFiniteSet(obs)

LEMMA TableIsFinite == Spec => []ObsFinite
<1>1. Init => ObsFinite
  BY FS_EmptySet DEF Init, ObsFinite
<1>2. ObsFinite /\ [Next]_vars => ObsFinite'
  <2> SUFFICES ASSUME ObsFinite, [Next]_vars PROVE ObsFinite'
    OBVIOUS
  <2>1. ASSUME NEW c, NEW s, NEW day, Ingest(c, s, day) PROVE ObsFinite'
    BY <2>1, FS_AddElement DEF Ingest, ObsFinite
  <2>2. ASSUME NEW cutoff, Prune(cutoff) PROVE ObsFinite'
    BY <2>2, FS_Subset DEF Prune, ObsFinite
  <2>3. QED BY <2>1, <2>2 DEF Next, vars, ObsFinite
<1>3. QED BY <1>1, <1>2, PTL DEF Spec

\* Sets of pairs of a key and a row.
Keyed(pairs) == \A x \in pairs : \E k : \E o \in obs : x = <<k, o>>

LEMMA WeeklyIsKeyed ==
    ASSUME NEW f \in Families, NEW from, NEW to
    PROVE  Keyed(WeeklyPairs(f, from, to))
<1>1. \A kinds, column : Rows(kinds, column, from, to) \subseteq obs
  BY DEF Rows
<1>2. \A kind, column : Corrected(kind, column, from, to) \subseteq obs \X obs
  BY <1>1 DEF Corrected
<1>3. ASSUME NEW pairs, Keyed(pairs) PROVE Keyed(Recurring(pairs))
  BY <1>3 DEF Keyed, Recurring
<1>4. /\ Keyed(MissingBinary(from, to))
      /\ Keyed(ErrorSignature(from, to))
      /\ Keyed(HookDenial(from, to))
      /\ Keyed(UnchangedReads(from, to))
  BY <1>1 DEF Keyed, MissingBinary, ErrorSignature, HookDenial,
              UnchangedReads
<1>5. Keyed(RetryLoop(Failed(from, to), from, to))
  BY <1>1 DEF Keyed, RetryLoop, Failed
<1>6. Keyed(Rejection(from, to)) /\ Keyed(Interruption(from, to))
  <2>1. \A x \in Rejection(from, to) :
           \E k : \E p \in Corrected("tool_rejected", "tool", from, to) : x = <<k, p[1]>>
    BY DEF Rejection
  <2>2. \A x \in Interruption(from, to) :
           \E k : \E p \in Corrected("interrupt", "kind", from, to) : x = <<k, p[1]>>
    BY DEF Interruption
  <2>3. \A kind, column : \A p \in Corrected(kind, column, from, to) : p[1] \in obs
    BY <1>2
  <2>4. QED BY <2>1, <2>2, <2>3 DEF Keyed
<1>7. Keyed(Rediscovery(from, to))
  <2> DEFINE commands == {<<o.content.command, o>> :
                o \in Rows({"run_succeeded", "run_failed"}, "command", from, to)}
  <2>1. Keyed(commands)
    BY <1>1 DEF Keyed
  <2>2. Keyed(Recurring(commands))
    BY <1>3, <2>1
  <2>3. QED BY <1>3, <1>4, <2>2 DEF Rediscovery, Keyed
<1>8. Keyed(StaleBinary(from, to))
  <2>1. ASSUME NEW n \in Named
        PROVE  Keyed({<<n, x[2]>> : x \in {y \in Recurring(MissingBinary(from, to)) :
                                              y[1] = n[1]}})
    BY <1>3, <1>4 DEF Keyed
  <2>2. QED BY <2>1 DEF Keyed, StaleBinary
<1>9. QED BY <1>3, <1>4, <1>5, <1>6, <1>7, <1>8
      DEF WeeklyPairs, Families, Keyed

\* D-03 counts other failures in a week, of the same commands and sessions.
LEMMA WeeklyRetriesAreRetries ==
    ASSUME NEW from, NEW to
    PROVE  /\ \A x \in RetryLoop(Failed(from, to), from, to) :
                 \E y \in RetryLoop(Unrecovered(from, to), from, to) :
                     y[1] = x[1] /\ y[2].session = x[2].session
           /\ RetryLoop(Unrecovered(from, to), from, to) \subseteq
                 RetryLoop(Failed(from, to), from, to)
<1>1. ASSUME NEW x \in RetryLoop(Failed(from, to), from, to)
      PROVE  \E y \in RetryLoop(Unrecovered(from, to), from, to) :
                 y[1] = x[1] /\ y[2].session = x[2].session
  <2>1. PICK o : x = <<o.content.command, o>>
                 /\ <<o.session, o.content.command>> \in Abandoned(from, to)
    BY DEF RetryLoop
  <2>2. PICK u \in Unrecovered(from, to) :
             <<u.session, u.content.command>> = <<o.session, o.content.command>>
    BY <2>1 DEF Abandoned
  <2>3. <<u.content.command, u>> \in
            RetryLoop(Unrecovered(from, to), from, to)
    BY <2>1, <2>2 DEF RetryLoop
  <2>4. QED BY <2>1, <2>2, <2>3
<1>2. Unrecovered(from, to) \subseteq Failed(from, to)
  BY DEF Unrecovered
<1>3. QED BY <1>1, <1>2 DEF RetryLoop

\* The weekly query finds the keys and the sessions of the clusters.
LEMMA WeeklyFindsTheClusters ==
    ASSUME NEW f \in Families \ Unattributed, NEW from
    PROVE  /\ \A x \in WeeklyPairs(f, from, Forever) :
                 \E y \in ClusterPairs(f, from) :
                     y[1] = x[1] /\ y[2].session = x[2].session
           /\ ClusterPairs(f, from) \subseteq WeeklyPairs(f, from, Forever)
           /\ f # "D-03" =>
                 WeeklyPairs(f, from, Forever) = ClusterPairs(f, from)
<1>1. CASE f = "D-03"
  BY <1>1, WeeklyRetriesAreRetries DEF WeeklyPairs, ClusterPairs
<1>2. CASE f # "D-03"
  <2>1. WeeklyPairs(f, from, Forever) = ClusterPairs(f, from)
    BY <1>2 DEF WeeklyPairs, ClusterPairs, Families, Unattributed
  <2>2. QED BY <2>1
<1>3. QED BY <1>1, <1>2

LEMMA ImageIsFinite ==
    ASSUME NEW S, IsFiniteSet(S), NEW g
    PROVE  IsFiniteSet({g[x] : x \in S})
<1> DEFINE T == {g[x] : x \in S}
           h == [x \in S |-> g[x]]
<1>1. h \in Surjection(S, T)
  BY DEF Surjection
<1>2. IsFiniteSet(T)
  <2> HIDE DEF T, h
  <2> QED BY <1>1, FS_Surjection
<1>3. QED BY <1>2

LEMMA LeastNumber ==
    ASSUME NEW S, S \subseteq Nat, S # {}
    PROVE  \E n \in S : \A m \in S : n <= m
<1> DEFINE Less == OpToRel(<, Nat)
<1>1. IsWellFoundedOn(Less, Nat)
  BY NatLessThanWellFounded
<1>2. PICK n \in S : \A m \in S : ~ (<<m, n>> \in Less)
  <2> HIDE DEF Less
  <2>1. QED BY <1>1, WFMin
<1>3. \A m \in S : ~ (m < n)
  BY <1>2 DEF OpToRel
<1>4. QED BY <1>3

SumOver(g, W) == MapThenSumSet(LAMBDA w : g[w], W)

\* Numbers added over the members of a finite set that count disjoint sets
\* count their union.
LEMMA CountsAddUp ==
    ASSUME NEW W, IsFiniteSet(W), NEW h, NEW g,
           \A w \in W : IsFiniteSet(h[w]) /\ g[w] = Cardinality(h[w]),
           \A v, w \in W : v # w => h[v] \cap h[w] = {}
    PROVE  SumOver(g, W) = Cardinality(UNION {h[w] : w \in W})
<1> DEFINE pick(s) == CHOOSE x \in s : TRUE
           all(s) == UNION {h[w] : w \in s}
           after(iter) == [s \in SUBSET W |-> IF s = {} THEN 0
                                               ELSE g[pick(s)] + iter[s \ {pick(s)}]]
           sums == [s \in SUBSET W |-> Cardinality(all(s))]
           Sum == CHOOSE iter : iter = after(iter)
<1>1. SumOver(g, W) = Sum[W]
  BY DEF SumOver, MapThenSumSet, MapThenFoldSet
<1>2. \A s \in SUBSET W : s # {} => pick(s) \in s /\ s \ {pick(s)} \in SUBSET W
  OBVIOUS
<1>3. ASSUME NEW s \in SUBSET W PROVE IsFiniteSet(all(s))
  <2> DEFINE parts == {h[w] : w \in s}
  <2>1. IsFiniteSet(s)
    BY FS_Subset
  <2>2. IsFiniteSet(parts)
    BY <2>1, ImageIsFinite
  <2>3. \A T \in parts : IsFiniteSet(T)
    OBVIOUS
  <2> HIDE DEF parts
  <2>4. IsFiniteSet(UNION parts)
    BY <2>2, <2>3, FS_UNION
  <2>5. QED BY <2>4 DEF parts
<1>4. ASSUME NEW s \in SUBSET W, s # {}
      PROVE  Cardinality(all(s)) = g[pick(s)] + Cardinality(all(s \ {pick(s)}))
  <2> DEFINE x == pick(s)
             rest == all(s \ {x})
  <2>1. x \in s /\ s \ {x} \in SUBSET W
    BY <1>2, <1>4
  <2> HIDE DEF x
  <2>2. IsFiniteSet(rest) /\ IsFiniteSet(h[x])
    BY <1>3, <2>1
  <2>3. all(s) = h[x] \cup rest
    BY <2>1
  <2>4. h[x] \cap rest = {}
    BY <2>1
  <2> HIDE DEF rest, all
  <2>5. Cardinality(h[x] \cup rest) = Cardinality(h[x]) + Cardinality(rest) - Cardinality(h[x] \cap rest)
    BY <2>2, FS_Union
  <2>6. /\ Cardinality(h[x]) \in Nat /\ Cardinality(rest) \in Nat
        /\ Cardinality(h[x] \cap rest) = 0
    BY <2>2, <2>4, FS_EmptySet, FS_CardinalityType
  <2>7. g[x] = Cardinality(h[x])
    BY <2>1
  <2>8. QED BY <2>3, <2>5, <2>6, <2>7 DEF rest, x
<1> HIDE DEF all, pick
<1>5. sums = after(sums)
  <2>1. all({}) = {}
    BY DEF all
  <2>2. ASSUME NEW s \in SUBSET W PROVE sums[s] = after(sums)[s]
    <3>1. CASE s = {}
      BY <2>1, <3>1, FS_EmptySet
    <3>2. CASE s # {}
      BY <1>2, <1>4, <3>2
    <3>3. QED BY <3>1, <3>2
  <2>3. QED BY <2>2
<1>6. \E iter : iter = after(iter)
  <2> HIDE DEF sums, after
  <2>1. QED BY <1>5
<1>7. Sum = after(Sum)
  <2> HIDE DEF after
  <2>1. QED BY <1>6
<1> HIDE DEF Sum
<1>8. \A s \in SUBSET W : Sum[s] = sums[s]
  <2> DEFINE bad == {n \in Nat : \E s \in SUBSET W : Cardinality(s) = n /\ Sum[s] # sums[s]}
  <2>1. bad = {}
    <3> SUFFICES ASSUME bad # {} PROVE FALSE
      OBVIOUS
    <3>1. PICK n \in bad : \A m \in bad : n <= m
      <4>1. bad \subseteq Nat
        OBVIOUS
      <4> HIDE DEF bad
      <4>2. QED BY <4>1, LeastNumber
    <3>2. PICK s \in SUBSET W : Cardinality(s) = n /\ Sum[s] # sums[s]
      OBVIOUS
    <3>3. Sum[s] = after(Sum)[s] /\ sums[s] = after(sums)[s]
      <4> HIDE DEF after, sums
      <4>1. QED BY <1>5, <1>7
    <3>4. s # {}
      BY <3>2, <3>3
    <3>5. Sum[s \ {pick(s)}] # sums[s \ {pick(s)}] /\ s \ {pick(s)} \in SUBSET W /\ pick(s) \in s
      <4> HIDE DEF sums
      <4>1. QED BY <1>2, <3>2, <3>3, <3>4
    <3>6. Cardinality(s \ {pick(s)}) = n - 1 /\ Cardinality(s \ {pick(s)}) \in Nat
      <4>1. IsFiniteSet(s)
        BY FS_Subset
      <4>2. QED BY <3>2, <3>5, <4>1, FS_RemoveElement, FS_CardinalityType
    <3>7. n - 1 \in bad
      <4> HIDE DEF sums
      <4>1. QED BY <3>5, <3>6
    <3>8. n \in Nat
      OBVIOUS
    <3> HIDE DEF bad
    <3>9. QED BY <3>1, <3>7, <3>8
  <2>2. \A s \in SUBSET W : Cardinality(s) \in Nat
    BY FS_Subset, FS_CardinalityType
  <2> HIDE DEF sums
  <2>3. QED BY <2>1, <2>2
<1>9. QED BY <1>1, <1>8 DEF all

LEMMA SessionsOfAKey ==
    ASSUME NEW pairs, NEW k, Keyed(pairs), ObsFinite
    PROVE  /\ IsFiniteSet({x \in pairs : x[1] = k})
           /\ IsFiniteSet(SessionsOf(pairs, k))
<1> DEFINE mine == {x \in pairs : x[1] = k}
           pair == [o \in obs |-> <<k, o>>]
           session == [x \in mine |-> x[2].session]
<1>1. IsFiniteSet({pair[o] : o \in obs})
  BY ImageIsFinite DEF ObsFinite
<1>2. mine \subseteq {pair[o] : o \in obs}
  BY DEF Keyed
<1>3. IsFiniteSet(mine)
  <2> HIDE DEF mine, pair
  <2> QED BY <1>1, <1>2, FS_Subset
<1>4. IsFiniteSet({session[x] : x \in mine})
  <2> HIDE DEF mine, session
  <2> QED BY <1>3, ImageIsFinite
<1>5. SessionsOf(pairs, k) = {session[x] : x \in mine}
  BY DEF SessionsOf
<1>6. QED BY <1>3, <1>4, <1>5

LEMMA WeeksAreFinite ==
    ASSUME DetectorsAssumption
    PROVE  IsFiniteSet(Weeks)
<1> DEFINE week == [day \in Days |-> WeekOf(day)]
<1>1. IsFiniteSet(Days)
  BY FS_Interval DEF DetectorsAssumption, Days
<1>2. IsFiniteSet({week[day] : day \in Days})
  <2> HIDE DEF week
  <2>1. QED BY <1>1, ImageIsFinite
<1>3. QED BY <1>2 DEF Weeks

\* The weekly counts fit, in any finite table whose rows have days.
LEMMA FiniteTableAddsUp ==
    ASSUME DetectorsAssumption, ObsFinite, DaysInv
    PROVE  WeeklyAddsUp
<1> SUFFICES ASSUME NEW f \in Families \ Unattributed, NEW from \in Days,
                    ~Refused(f, from)
             PROVE  /\ WeeklyKeysAgree(f, from)
                    /\ \A k \in ClusterKeys(f, from) :
                         WeeksAgree(f, from, k) /\ EventsAddUp(f, from, k)
  BY DEF WeeklyAddsUp
<1> DEFINE seen == WeeklyPairs(f, from, Forever)
           found == ClusterPairs(f, from)
<1>1. /\ \A x \in seen : \E y \in found : y[1] = x[1] /\ y[2].session = x[2].session
      /\ found \subseteq seen
      /\ f # "D-03" => seen = found
  BY WeeklyFindsTheClusters
<1>2. WeeklyKeysAgree(f, from)
  BY <1>1 DEF WeeklyKeysAgree, KeysOf
<1>3. \A x \in seen : x[1] \in ClusterKeys(f, from)
  BY <1>1 DEF ClusterKeys, KeysOf
<1>4. \A j, k \in ClusterKeys(f, from) : Norm(j) = Norm(k) => j = k
  BY DEF Refused, Collides
<1>5. Keyed(seen) /\ Keyed(found)
  BY <1>1, WeeklyIsKeyed DEF Keyed
<1>6. ASSUME NEW k \in ClusterKeys(f, from)
      PROVE  WeeksAgree(f, from, k) /\ EventsAddUp(f, from, k)
  <2> DEFINE counted(w) == {x \in seen : Norm(x[1]) = Norm(k)
                                         /\ WeekOf(x[2].day) = w}
             sessions(w) == {x[2].session : x \in counted(w)}
  <2>1. \A w : counted(w) = {x \in seen : x[1] = k /\ WeekOf(x[2].day) = w}
    BY <1>3, <1>4
  <2>2. \A w : sessions(w) \subseteq SessionsOf(found, k)
    <3>1. ASSUME NEW w, NEW x \in counted(w)
          PROVE  x[2].session \in SessionsOf(found, k)
      <4>1. x \in seen /\ x[1] = k
        BY <2>1
      <4>2. PICK y \in found : y[1] = k /\ y[2].session = x[2].session
        BY <1>1, <4>1
      <4>3. QED BY <4>2 DEF SessionsOf
    <3> HIDE DEF counted, found
    <3>2. QED BY <3>1
  <2>3. \A w : IsFiniteSet(counted(w))
    <3>1. IsFiniteSet({x \in seen : x[1] = k})
      BY <1>5, SessionsOfAKey
    <3>2. \A w : counted(w) \subseteq {x \in seen : x[1] = k}
      BY <2>1
    <3> HIDE DEF counted, seen
    <3>3. QED BY <3>1, <3>2, FS_Subset
  <2>4. \A w : Cardinality(sessions(w)) <= Cardinality(SessionsOf(found, k))
    <3>1. IsFiniteSet(SessionsOf(found, k))
      BY <1>5, SessionsOfAKey
    <3> HIDE DEF sessions, found
    <3>2. QED BY <2>2, <3>1, FS_Subset
  <2>5. \A w : Cardinality(counted(w)) > 0 <=> counted(w) # {}
    <3> HIDE DEF counted
    <3>1. \A w : Cardinality(counted(w)) \in Nat /\ (Cardinality(counted(w)) = 0 <=> counted(w) = {})
      BY <2>3, FS_EmptySet, FS_CardinalityType
    <3>2. QED BY <3>1
  <2>6. \A w : /\ WeeklyCounts(f, k, w, from, Forever).sessions =
                      Cardinality(sessions(w))
               /\ WeeklyCounts(f, k, w, from, Forever).events =
                      Cardinality(counted(w))
    BY DEF WeeklyCounts
  <2>7. Counts(found, k).sessions = Cardinality(SessionsOf(found, k))
    BY DEF Counts
  <2>8. \A x \in seen : WeekOf(x[2].day) \in Weeks
    <3>1. \A x \in seen : x[2].day \in Days
      BY <1>5 DEF Keyed, DaysInv
    <3>2. QED BY <3>1 DEF Weeks
  <2>9. WeeksSeen(f, k, from) = {w \in Weeks : counted(w) # {}}
    BY <2>8 DEF WeeksSeen
  <2>10. WeeksAgree(f, from, k)
    <3> HIDE DEF counted, sessions, found
    <3>1. QED BY <2>4, <2>5, <2>6, <2>7, <2>9 DEF WeeksAgree, found
  <2> DEFINE inWeek == [w \in Weeks |-> counted(w)]
             events == [w \in Weeks |->
                          WeeklyCounts(f, k, w, from, Forever).events]
             total == MapThenSumSet(LAMBDA w : events[w], Weeks)
             mine == {x \in seen : x[1] = k}
  <2>11. total = Cardinality(mine)
    <3>1. UNION {inWeek[w] : w \in Weeks} = mine
      BY <2>1, <2>8
    <3>2. \A v, w \in Weeks : v # w => inWeek[v] \cap inWeek[w] = {}
      BY <2>1
    <3>3. \A w \in Weeks : IsFiniteSet(inWeek[w]) /\ events[w] = Cardinality(inWeek[w])
      <4> HIDE DEF counted
      <4>1. QED BY <2>3, <2>6
    <3> HIDE DEF inWeek, events, mine
    <3>4. SumOver(events, Weeks) = Cardinality(UNION {inWeek[w] : w \in Weeks})
      BY <3>2, <3>3, WeeksAreFinite, CountsAddUp
    <3>5. QED BY <3>1, <3>4 DEF SumOver
  <2>12. Counts(found, k).events = Cardinality({x \in found : x[1] = k})
    BY DEF Counts
  <2>13. /\ IsFiniteSet(mine) /\ Cardinality(mine) \in Nat
         /\ Cardinality({x \in found : x[1] = k}) \in Nat
         /\ Cardinality({x \in found : x[1] = k}) <= Cardinality(mine)
    <3>1. IsFiniteSet(mine)
      BY <1>5, SessionsOfAKey
    <3>2. {x \in found : x[1] = k} \subseteq mine
      BY <1>1
    <3> HIDE DEF mine, found
    <3>3. QED BY <3>1, <3>2, FS_Subset, FS_CardinalityType
  <2>14. f # "D-03" => mine = {x \in found : x[1] = k}
    BY <1>1
  <2>15. EventsAddUp(f, from, k)
    <3> HIDE DEF total, mine, found
    <3>1. total >= Counts(found, k).events
          /\ (f # "D-03" => total = Counts(found, k).events)
      BY <2>11, <2>12, <2>13, <2>14
    <3>2. QED BY <3>1 DEF EventsAddUp, total, found
  <2>16. QED BY <2>10, <2>15
<1>7. QED BY <1>2, <1>6

\* The weekly counts are about the clusters (read_weekly_counts against the
\* cluster query): no key of their own, in no week more sessions than the
\* cluster, and summed over the weeks its events.
THEOREM WeeklyAlwaysAddsUp ==
    ASSUME DetectorsAssumption
    PROVE  Spec => []WeeklyAddsUp
<1>1. ObsFinite /\ DaysInv => WeeklyAddsUp
  BY FiniteTableAddsUp
<1>2. QED BY <1>1, TableIsFinite, EveryRowHasADay, PTL

=============================================================================
