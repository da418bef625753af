--------------------------- MODULE ClustersProofs ---------------------------
(***************************************************************************)
(* Proofs about Clusters, for any detectors, keys, sessions, windows,       *)
(* semantics and bounds.                                                    *)
(***************************************************************************)
EXTENDS Clusters, FiniteSetTheorems, WellFoundedInduction, TLAPS

-----------------------------------------------------------------------------
(* What the queries return *)

LEMMA SinceBounds ==
    ASSUME TypeOK, NEW weeks \in Nat
    PROVE  Since(weeks) \in Nat /\ Since(weeks) >= 1
BY ClustersAssumption DEF TypeOK, Weeks, Since

\* A longer window begins no later.
LEMMA SinceAntitone ==
    ASSUME TypeOK, NEW a \in Nat, NEW b \in Nat, a <= b
    PROVE  Since(b) <= Since(a)
BY ClustersAssumption DEF TypeOK, Weeks, Since

LEMMA SessionsCounted ==
    ASSUME NEW d, NEW k, NEW from
    PROVE  /\ IsFiniteSet(SessionsOf(d, k, from))
           /\ Cardinality(SessionsOf(d, k, from)) \in Nat
<1>1. SessionsOf(d, k, from) \in SUBSET Sessions
  BY DEF SessionsOf
<1>2. IsFiniteSet(SessionsOf(d, k, from))
  BY <1>1, FS_Subset, ClustersAssumption
<1>3. QED BY <1>2, FS_CardinalityType

\* A key of the window's query is one of the history's, and it has a hit in a
\* week the weekly query counts.
LEMMA EmittedIsCounted ==
    ASSUME TypeOK, NEW d \in Detectors \ Replayed, NEW w \in Windows, NEW k \in Emitted(d, w)
    PROVE  \E week \in Weeks : <<d, k, week>> \in Counted(d)
<1>1. w \in Nat /\ History \in Nat /\ w <= History
  BY ClustersAssumption
<1>2. Since(History) <= Since(w) /\ Since(History) \in Nat /\ Since(w) \in Nat /\ Since(w) >= 1
  BY <1>1, SinceAntitone, SinceBounds
<1>3. now \in Nat /\ now <= MaxWeek
  BY ClustersAssumption DEF TypeOK, Weeks
<1>4. SessionsOf(d, k, Since(w)) \subseteq SessionsOf(d, k, Since(History))
  BY <1>2, <1>3 DEF SessionsOf
<1>5. registered[d].sha \in Nat /\ registered[d].sha >= 1
  <2>1. registered[d].sha \in Shas
    BY DEF TypeOK, Code
  <2>2. \A x \in Shas : x \in Nat /\ x # 0
    BY ClustersAssumption
  <2>3. registered[d].sha \in Nat /\ registered[d].sha # 0
    BY <2>1, <2>2
  <2>4. QED BY <2>3
<1>6. k \in Keys /\ Cardinality(SessionsOf(d, k, Since(w))) >= registered[d].sha
  BY DEF Emitted
<1>7. Cardinality(SessionsOf(d, k, Since(w))) <= Cardinality(SessionsOf(d, k, Since(History)))
  BY <1>4, SessionsCounted, FS_Subset
<1>8. k \in Emitted(d, History)
  <2>1. /\ Cardinality(SessionsOf(d, k, Since(w))) \in Nat
        /\ Cardinality(SessionsOf(d, k, Since(History))) \in Nat
    BY SessionsCounted
  <2>2. QED BY <1>5, <1>6, <1>7, <2>1 DEF Emitted
<1>9. PICK s \in Sessions : s \in SessionsOf(d, k, Since(w))
  <2>1. Cardinality(SessionsOf(d, k, Since(w))) # 0
    BY <1>5, <1>6, SessionsCounted
  <2>2. SessionsOf(d, k, Since(w)) # {}
    BY <2>1, FS_EmptySet
  <2>3. QED BY <2>2 DEF SessionsOf
<1>10. PICK week \in Since(w)..now : [d |-> d, k |-> k, s |-> s, w |-> week] \in hits
  BY <1>9 DEF SessionsOf
<1>11. week \in Since(History)..now /\ week \in Weeks
  BY <1>2, <1>3, <1>10, ClustersAssumption DEF Weeks
<1>12. <<d, k, week>> \in Counted(d)
  BY <1>8, <1>9, <1>10, <1>11 DEF Counted, Contributors
<1>13. QED BY <1>11, <1>12

\* A nonempty set of windows has a longest one.
LEMMA LongestWindow ==
    ASSUME NEW W, W \subseteq Windows, W # {}
    PROVE  \E w \in W : \A x \in W : w >= x
<1> DEFINE Left == {n \in Nat : History - n \in W}
           Less == OpToRel(<, Nat)
<1>1. History \in Nat /\ \A w \in W : w \in Nat /\ w <= History
  BY ClustersAssumption
<1>2. Left \subseteq Nat
  OBVIOUS
<1>3. Left # {}
  <2>1. PICK w \in W : TRUE
    OBVIOUS
  <2>2. History - w \in Nat /\ History - (History - w) = w
    BY <1>1, <2>1
  <2>3. QED BY <2>1, <2>2
<1>4. IsWellFoundedOn(Less, Nat)
  BY NatLessThanWellFounded
<1>5. \E n \in Left : \A m \in Left : ~ (<<m, n>> \in Less)
  <2> HIDE DEF Left, Less
  <2>1. QED BY <1>2, <1>3, <1>4, WFMin
<1>6. PICK n \in Left : \A m \in Left : ~ (<<m, n>> \in Less)
  BY <1>5
<1>7. \A m \in Left : ~ (m < n)
  BY <1>6 DEF OpToRel
<1>8. \A x \in W : History - n >= x
  <2> TAKE x \in W
  <2>1. History - x \in Left
    BY <1>1
  <2>2. QED BY <1>1, <1>7, <2>1
<1>9. QED BY <1>6, <1>8

LEMMA PriorWindowType ==
    ASSUME TypeOK, NEW d \in Detectors
    PROVE  PriorWindow(d) \in Windows
<1> DEFINE last == record[<<d, registered[d].version>>]
           old == {cluster[<<d, k>>].window : k \in {key \in Keys : cluster[<<d, key>>] # NoRow}}
<1>1. registered[d].version \in Versions
  BY DEF TypeOK, Code
<1>2. last # NoRow => last.window \in Windows
  BY <1>1 DEF TypeOK, Record
<1>3. \A k \in Keys : cluster[<<d, k>>] # NoRow => cluster[<<d, k>>].window \in Windows
  BY DEF TypeOK, Row
<1>4. old \subseteq Windows
  BY <1>3
<1>5. old # {} => (CHOOSE w \in old : \A x \in old : w >= x) \in old
  <2>1. old # {} => \E w \in old : \A x \in old : w >= x
    BY <1>4, LongestWindow
  <2> HIDE DEF old
  <2>2. QED BY <2>1
<1>6. DefaultWindow \in Windows
  BY ClustersAssumption
<1> HIDE DEF last, old
<1>7. (IF last # NoRow THEN last.window
       ELSE IF old # {} THEN CHOOSE w \in old : \A x \in old : w >= x ELSE DefaultWindow) \in Windows
  BY <1>2, <1>4, <1>5, <1>6
<1>8. QED BY <1>7 DEF PriorWindow, last, old

-----------------------------------------------------------------------------
(* Every step keeps the types *)

LEMMA CellsFinite == IsFiniteSet(Cell)
<1> DEFINE Pairs == (Detectors \X Keys) \X Weeks
           f == [x \in Pairs |-> <<x[1][1], x[1][2], x[2]>>]
<1>1. IsFiniteSet(Weeks)
  BY FS_Interval, ClustersAssumption DEF Weeks
<1>2. IsFiniteSet(Pairs)
  BY <1>1, FS_Product, ClustersAssumption
<1>3. f \in [Pairs -> Cell]
  BY DEF Cell
<1>4. \A c \in Cell : \E x \in Pairs : f[x] = c
  <2> TAKE c \in Cell
  <2>1. PICK d \in Detectors, k \in Keys, w \in Weeks : c = <<d, k, w>>
    BY DEF Cell
  <2>2. <<<<d, k>>, w>> \in Pairs
    OBVIOUS
  <2>3. f[<<<<d, k>>, w>>] = c
    BY <2>1, <2>2
  <2>4. QED BY <2>2, <2>3
<1> HIDE DEF Pairs, f
<1>5. f \in Surjection(Pairs, Cell)
  BY <1>3, <1>4 DEF Surjection
<1>6. QED BY <1>2, <1>5, FS_Surjection

LEMMA UpsertType ==
    ASSUME TypeOK, NEW d \in Detectors, NEW quiet
    PROVE  Upsert(d, quiet) \in [Detectors \X Keys -> Row \cup {NoRow}]
<1> DEFINE n(k) == Cardinality(SessionsOf(d, k, Since(window[d])))
<1>1. \A k \in Keys : n(k) \in Nat
  BY SessionsCounted
<1>2. window[d] \in Windows
  BY DEF TypeOK
<1>3. \A k \in Keys :
        [state |-> "open", sessions |-> n(k), window |-> window[d], reason |-> NoRow] \in Row
  BY <1>1, <1>2 DEF Row
<1>4. \A k \in Keys : cluster[<<d, k>>] # NoRow =>
        [cluster[<<d, k>>] EXCEPT !.sessions = n(k), !.window = window[d]] \in Row
  BY <1>1, <1>2 DEF TypeOK, Row
<1>5. \A c \in Detectors \X Keys : cluster[c] \in Row \cup {NoRow} /\ c = <<c[1], c[2]>> /\ c[2] \in Keys
  BY DEF TypeOK
<1> HIDE DEF n
<1>6. QED BY <1>3, <1>4, <1>5 DEF Upsert, n

LEMMA SplitType ==
    ASSUME TypeOK, NEW attributed
    PROVE  Split(attributed) \in [Cell \X Sessions -> Nat]
<1> DEFINE touched == {c \in cells : c[1] \in attributed \ Replayed /\ c[3] >= Since(History)}
           Denominator(s) == Cardinality({c \in touched : s \in Contributors(c)})
<1>1. ASSUME NEW s PROVE Denominator(s) \in Nat
  <2>1. {c \in touched : s \in Contributors(c)} \in SUBSET Cell
    BY DEF TypeOK
  <2>2. IsFiniteSet({c \in touched : s \in Contributors(c)})
    BY <2>1, CellsFinite, FS_Subset
  <2>3. QED BY <2>2, FS_CardinalityType
<1>2. \A x \in Cell \X Sessions : share[x] \in Nat
  BY DEF TypeOK
<1> HIDE DEF touched, Denominator
<1>3. \A c, s : (IF s \in Contributors(c) /\ Contributors(c) \subseteq costs
                 THEN Denominator(s) ELSE 0) \in Nat
  BY <1>1
<1>4. QED BY <1>2, <1>3 DEF Split, touched, Denominator

LEMMA InitTypeOK == Init => TypeOK
<1>1. NoRow \in Row \cup {NoRow} /\ 1 \in Weeks /\ 1 \in Versions
  BY ClustersAssumption DEF Weeks, Versions
<1>2. [version |-> 1, sha |-> FirstSha] \in Code
  BY <1>1, ClustersAssumption DEF Code
<1>3. QED
  BY <1>1, <1>2, ClustersAssumption DEF Init, NoProcess, NoClusters, NoRecords, NoShares, TypeOK

LEMMA StartRunType ==
    ASSUME TypeOK, NEW v \in {"detect", "rank", "prune"},
           NEW active \in SUBSET Detectors, NEW selected \in SUBSET Detectors,
           NEW ws \in [Detectors -> Windows], NEW without \in SUBSET Detectors,
           StartRun(v, active, selected, ws, without)
    PROVE  /\ pc' \in {"idle", "run", "asked"}
           /\ verb' \in {"none", "detect", "rank", "prune", "explain"}
           /\ todo' \in SUBSET Detectors /\ skips' \in SUBSET Detectors
           /\ scope' \in SUBSET Detectors
           /\ window' \in [Detectors -> Windows] /\ runs' \in Nat
BY DEF StartRun, TypeOK

LEMMA EndedType ==
    ASSUME Ended
    PROVE  /\ pc' \in {"idle", "run", "asked"}
           /\ verb' \in {"none", "detect", "rank", "prune", "explain"}
           /\ todo' \in SUBSET Detectors /\ skips' \in SUBSET Detectors
           /\ scope' \in SUBSET Detectors
           /\ window' \in [Detectors -> Windows]
BY ClustersAssumption DEF Ended

LEMMA NextTypeOK == TypeOK /\ [Next]_vars => TypeOK'
<1> SUFFICES ASSUME TypeOK, [Next]_vars PROVE TypeOK'
  OBVIOUS
<1> USE DEF world, ingested, tables, weekly, explained, process, counters
<1>1. ASSUME UNCHANGED vars PROVE TypeOK'
  BY <1>1 DEF vars, TypeOK
<1>2. ASSUME NEW only \in {Detectors} \cup {{d} : d \in Detectors}, NEW w \in Windows,
             NEW readable \in SUBSET External, Detect(only, w, readable)
      PROVE  TypeOK'
  <2> DEFINE ws == [d \in Detectors |-> w]
  <2>1. only \in SUBSET Detectors /\ ws \in [Detectors -> Windows] /\ Detectors \in SUBSET Detectors
    OBVIOUS
  <2>2. StartRun("detect", only, Detectors, ws, (External \cap only) \ readable)
    BY <1>2 DEF Detect
  <2>3. hits' \in SUBSET Hit
    BY <1>2 DEF Detect, TypeOK
  <2>4. (External \cap only) \ readable \in SUBSET Detectors
    BY <2>1
  <2> HIDE DEF ws
  <2>5. QED BY <1>2, <2>1, <2>2, <2>3, <2>4, StartRunType DEF Detect, TypeOK
<1>3. ASSUME Rank PROVE TypeOK'
  <2> DEFINE ws == [d \in Detectors |-> DefaultWindow]
  <2>1. Autonomy \in SUBSET Detectors /\ ws \in [Detectors -> Windows] /\ {} \in SUBSET Detectors
    BY ClustersAssumption
  <2>2. StartRun("rank", Autonomy, Autonomy, ws, {})
    BY <1>3 DEF Rank
  <2> HIDE DEF ws
  <2>3. QED BY <1>3, <2>1, <2>2, StartRunType DEF Rank, TypeOK
<1>4. ASSUME NEW cutoff \in Weeks, Prune(cutoff) PROVE TypeOK'
  <2> DEFINE ws == [d \in Detectors |-> PriorWindow(d)]
  <2>1. Detectors \in SUBSET Detectors /\ ws \in [Detectors -> Windows] /\ {} \in SUBSET Detectors
    BY PriorWindowType
  <2>2. StartRun("prune", Detectors, Detectors, ws, {})
    BY <1>4 DEF Prune
  <2>3. hits' \in SUBSET Hit
    BY <1>4 DEF Prune, TypeOK
  <2> HIDE DEF ws
  <2>4. QED BY <1>4, <2>1, <2>2, <2>3, StartRunType DEF Prune, TypeOK
<1>5. ASSUME NEW d \in Detectors, Skip(d) PROVE TypeOK'
  BY <1>5 DEF Skip, Done, TypeOK
<1>6. ASSUME NEW d \in Detectors, NEW status \in {"error", "refused"}, NoteFailure(d, status)
      PROVE  record' \in [Detectors \X Versions -> Record \cup {NoRow}]
  <2>1. Entry(d) \in Detectors \X Versions
    BY DEF TypeOK, Entry, Code
  <2>2. record[Entry(d)] # NoRow => [record[Entry(d)] EXCEPT !.status = status] \in Record
    BY <2>1 DEF TypeOK, Record
  <2>3. QED BY <1>6, <2>1, <2>2 DEF NoteFailure, TypeOK
<1>7. ASSUME NEW d \in Detectors, Refuse(d) PROVE TypeOK'
  BY <1>6, <1>7 DEF Refuse, Done, TypeOK
<1>8. ASSUME NEW d \in Detectors, Fails(d) PROVE TypeOK'
  BY <1>6, <1>8 DEF Fails, Done, TypeOK
<1>9. ASSUME NEW d \in Detectors, NEW quiet \in QuietFindings(d), Run(d, quiet) PROVE TypeOK'
  <2>1. cluster' \in [Detectors \X Keys -> Row \cup {NoRow}]
    BY <1>9, UpsertType DEF Run
  <2>2. member' \in SUBSET (Detectors \X Keys \X Sessions)
    BY <1>9 DEF Run, Members, Emitted, TypeOK
  <2>3. record' \in [Detectors \X Versions -> Record \cup {NoRow}]
    <3>1. Entry(d) \in Detectors \X Versions /\ registered[d].sha \in Shas /\ window[d] \in Windows
      BY DEF TypeOK, Entry, Code
    <3>2. [sha |-> registered[d].sha, window |-> window[d], status |-> "ok"] \in Record
      BY <3>1 DEF Record
    <3>3. QED BY <1>9, <3>1, <3>2 DEF Run, TypeOK
  <2>4. cells' \in SUBSET Cell
    <3>1. now \in Nat /\ now <= MaxWeek /\ Since(History) \in Nat /\ Since(History) >= 1
      BY SinceBounds, ClustersAssumption DEF TypeOK, Weeks
    <3>2. Since(History)..now \subseteq Weeks
      BY <3>1, ClustersAssumption DEF Weeks
    <3>3. Counted(d) \subseteq Cell
      BY <3>2 DEF Counted, Emitted, Cell
    <3>4. QED BY <1>9, <3>3 DEF Run, TypeOK
  <2>5. QED BY <1>9, <2>1, <2>2, <2>3, <2>4 DEF Run, Done, TypeOK
<1>10. ASSUME NEW broken \in SUBSET Detectors, Attribute(broken) PROVE TypeOK'
  <2>1. Cardinality(broken) \in Nat
    BY FS_Subset, FS_CardinalityType, ClustersAssumption
  <2>2. share' \in [Cell \X Sessions -> Nat]
    BY <1>10, SplitType DEF Attribute
  <2>3. incidents' \in Nat
    BY <1>10, <2>1 DEF Attribute, TypeOK
  <2>4. Ended /\ UNCHANGED <<world, ingested, tables, cells, explained, runs>>
    BY <1>10 DEF Attribute
  <2>5. QED BY <2>2, <2>3, <2>4, EndedType DEF TypeOK
<1>11. ASSUME Crash PROVE TypeOK'
  BY <1>11, EndedType DEF Crash, TypeOK
<1>12. ASSUME NEW c \in Detectors \X Keys, NEW reason \in Reasons, Dismiss(c, reason) PROVE TypeOK'
  <2>1. cluster[c] \in Row
    BY <1>12 DEF Dismiss, TypeOK
  <2>2. [cluster[c] EXCEPT !.state = "dismissed", !.reason = reason] \in Row
    BY <2>1 DEF Row
  <2>3. cluster' \in [Detectors \X Keys -> Row \cup {NoRow}]
    BY <1>12, <2>2 DEF Dismiss, TypeOK
  <2>4. QED BY <1>12, <2>3 DEF Dismiss, TypeOK
<1>13. ASSUME Reserve PROVE TypeOK'
  BY <1>13 DEF Reserve, TypeOK
<1>14. ASSUME NEW chosen \in SUBSET (Detectors \X Keys), Draft(chosen) PROVE TypeOK'
  <2>1. \A c \in chosen : [cluster[c] EXCEPT !.state = "drafted"] \in Row
    BY <1>14 DEF Draft, TypeOK, Row
  <2>2. cluster' \in [Detectors \X Keys -> Row \cup {NoRow}]
    BY <1>14, <2>1 DEF Draft, TypeOK
  <2>3. QED BY <1>14, <2>2, EndedType DEF Draft, TypeOK
<1>15. ASSUME NoAnswer PROVE TypeOK'
  BY <1>15, EndedType DEF NoAnswer, TypeOK
<1>16. ASSUME Rebuild PROVE TypeOK'
  BY <1>16 DEF Rebuild, NoClusters, NoRecords, NoShares, TypeOK
<1>17. ASSUME NEW d \in Detectors, NEW k \in Keys, NEW s \in Sessions, Observe(d, k, s) PROVE TypeOK'
  <2>1. [d |-> d, k |-> k, s |-> s, w |-> now] \in Hit
    BY DEF TypeOK, Hit
  <2>2. QED BY <1>17, <2>1 DEF Observe, TypeOK
<1>19. ASSUME NEW d \in Detectors, NEW k \in Keys, NEW s \in Sessions, Deny(d, k, s) PROVE TypeOK'
  <2>1. [d |-> d, k |-> k, s |-> s, w |-> now] \in Hit
    BY DEF TypeOK, Hit
  <2>2. QED BY <1>19, <2>1 DEF Deny, TypeOK
<1>20. ASSUME NEW d \in Detectors, Rotate(d) PROVE TypeOK'
  BY <1>20 DEF Rotate, TypeOK
<1>22. ASSUME NextWeek PROVE TypeOK'
  BY <1>22, ClustersAssumption DEF NextWeek, TypeOK, Weeks
<1>23. ASSUME NEW d \in Detectors, NEW code \in Code, Upgrade(d, code) PROVE TypeOK'
  BY <1>23 DEF Upgrade, TypeOK
<1>24. QED
  BY <1>1, <1>2, <1>3, <1>4, <1>5, <1>7, <1>8, <1>9, <1>10, <1>11, <1>12, <1>13, <1>14,
     <1>15, <1>16, <1>17, <1>19, <1>20, <1>22, <1>23
  DEF Next

\* Every variable of the clusters model stays in its type.
THEOREM ClustersTypeOK == Spec => []TypeOK
BY InitTypeOK, NextTypeOK, PTL DEF Spec

-----------------------------------------------------------------------------
(* The tables of a detector *)

RowsFit == \A d \in Detectors, k \in Keys : RowFitsMembers(d, k)

RowsHaveRun == \A d \in Detectors, k \in Keys : RowHasRun(d, k)

LEMMA InitTables == Init => RowsFit /\ RowsHaveRun
<1> SUFFICES ASSUME Init PROVE RowsFit /\ RowsHaveRun
  OBVIOUS
<1>1. \A d \in Detectors, k \in Keys : cluster[<<d, k>>] = NoRow /\ MembersOf(d, k) = {}
  BY DEF Init, NoClusters, MembersOf
<1>2. NoRow \notin Row
  BY NoRowAssumption
<1>3. QED BY <1>1 DEF RowsFit, RowsHaveRun, RowFitsMembers, RowHasRun

\* After a run a key has the members its query returned, or none.
LEMMA RunMembers ==
    ASSUME TypeOK, NEW d \in Detectors, NEW quiet \in QuietFindings(d), Run(d, quiet), NEW k \in Keys
    PROVE  MembersOf(d, k)' =
             IF d \notin Replayed /\ k \in Emitted(d, window[d]) THEN SessionsOf(d, k, Since(window[d])) ELSE {}
<1>1. member' = Members(d)
  BY DEF Run
<1>2. \A s \in Sessions : <<d, k, s>> \in member' <=>
        d \notin Replayed /\ k \in Emitted(d, window[d]) /\ s \in SessionsOf(d, k, Since(window[d]))
  BY <1>1 DEF Members
<1>3. SessionsOf(d, k, Since(window[d])) \subseteq Sessions
  BY DEF SessionsOf
<1>4. MembersOf(d, k)' = {s \in Sessions : <<d, k, s>> \in member'}
  BY DEF MembersOf
<1>5. QED BY <1>2, <1>3, <1>4

\* Only keys that sessions hit have hits, so that a quiet finding counts none.
HitsLoud == \A h \in hits \cup log : <<h.d, h.k>> \in Loud

LEMMA InitLoud == Init => HitsLoud
BY DEF Init, HitsLoud

LEMMA NextLoud == HitsLoud /\ [Next]_vars => HitsLoud'
<1> SUFFICES ASSUME HitsLoud, [Next]_vars PROVE HitsLoud'
  OBVIOUS
<1> USE DEF world, ingested, tables, weekly, explained, process, counters
<1>1. ASSUME UNCHANGED <<hits, log>> PROVE HitsLoud'
  BY <1>1 DEF HitsLoud
<1>2. CASE UNCHANGED vars
  BY <1>1, <1>2 DEF vars
<1>3. ASSUME NEW only, NEW w, NEW readable, Detect(only, w, readable) PROVE HitsLoud'
  BY <1>3 DEF Detect, HitsLoud
<1>4. CASE Rank \/ Reserve \/ NoAnswer \/ NextWeek \/ Crash
  BY <1>1, <1>4 DEF Rank, Reserve, NoAnswer, NextWeek, Crash
<1>5. ASSUME NEW cutoff, Prune(cutoff) PROVE HitsLoud'
  BY <1>5 DEF Prune, HitsLoud
<1>6. CASE \E d \in Detectors : \/ Skip(d) \/ Refuse(d) \/ Fails(d)
                                \/ \E quiet \in QuietFindings(d) : Run(d, quiet)
  BY <1>1, <1>6 DEF Skip, Refuse, Fails, Run, Done
<1>7. CASE \E broken \in SUBSET Detectors : Attribute(broken)
  BY <1>1, <1>7 DEF Attribute
<1>8. CASE \/ \E c \in Detectors \X Keys, reason \in Reasons : Dismiss(c, reason)
           \/ \E chosen \in SUBSET (Detectors \X Keys) : Draft(chosen)
  BY <1>1, <1>8 DEF Dismiss, Draft
<1>9. CASE Rebuild
  BY <1>9 DEF Rebuild, HitsLoud
<1>10. ASSUME NEW d, NEW k, NEW s, Observe(d, k, s) PROVE HitsLoud'
  <2>1. /\ \A h \in hits' : h \in hits \/ (h.d = d /\ h.k = k)
        /\ log' = log /\ <<d, k>> \in Loud
    BY <1>10 DEF Observe
  <2>2. QED BY <2>1 DEF HitsLoud
<1>11. ASSUME NEW d, NEW k, NEW s, Deny(d, k, s) PROVE HitsLoud'
  <2>1. /\ \A h \in log' : h \in log \/ (h.d = d /\ h.k = k)
        /\ hits' = hits /\ <<d, k>> \in Loud
    BY <1>11 DEF Deny
  <2>2. QED BY <2>1 DEF HitsLoud
<1>12. ASSUME NEW d, Rotate(d) PROVE HitsLoud'
  BY <1>12 DEF Rotate, HitsLoud
<1>13. CASE \E d \in Detectors, code \in Code : Upgrade(d, code)
  BY <1>1, <1>13 DEF Upgrade
<1>14. QED
  BY <1>2, <1>3, <1>4, <1>5, <1>6, <1>7, <1>8, <1>9, <1>10, <1>11, <1>12, <1>13 DEF Next

LEMMA QuietCountsNone ==
    ASSUME HitsLoud, NEW d, NEW quiet \in QuietFindings(d), NEW k \in quiet, NEW from
    PROVE  Cardinality(SessionsOf(d, k, from)) = 0
<1>1. <<d, k>> \in Quiet /\ <<d, k>> \notin Loud
  BY ClustersAssumption DEF QuietFindings
<1>2. \A s, w : [d |-> d, k |-> k, s |-> s, w |-> w] \notin hits
  BY <1>1 DEF HitsLoud
<1>3. SessionsOf(d, k, from) = {}
  BY <1>2 DEF SessionsOf
<1>4. QED BY <1>3, FS_EmptySet

\* What a run makes of a row: an emitted one has the count of its sessions, any
\* other is as it was or is gone.
LEMMA RunRows ==
    ASSUME TypeOK, HitsLoud, NEW d \in Detectors, NEW quiet \in QuietFindings(d), Run(d, quiet),
           NEW k \in Keys
    PROVE  LET n == Cardinality(SessionsOf(d, k, Since(window[d])))
               old == cluster[<<d, k>>]
               new == cluster'[<<d, k>>]
           IN /\ k \in Emitted(d, window[d]) \cup quiet => new \in Row /\ new.sessions = n
              /\ k \in quiet => n = 0
              /\ k \notin Emitted(d, window[d]) \cup quiet =>
                    /\ new = NoRow \/ new = old
                    /\ new # NoRow => new.state # "open"
<1> DEFINE n == Cardinality(SessionsOf(d, k, Since(window[d])))
           old == cluster[<<d, k>>]
           new == cluster'[<<d, k>>]
           emitted == Emitted(d, window[d]) \cup quiet
<1>1. new = IF k \in emitted
            THEN IF old = NoRow
                 THEN [state |-> "open", sessions |-> n, window |-> window[d], reason |-> NoRow]
                 ELSE [old EXCEPT !.sessions = n, !.window = window[d]]
            ELSE IF old # NoRow /\ old.state = "open" THEN NoRow ELSE old
  <2>1. cluster' = Upsert(d, quiet)
    BY DEF Run
  <2>2. QED BY <2>1 DEF Upsert
<1>2. old \in Row \cup {NoRow} /\ n \in Nat /\ window[d] \in Windows
  BY SessionsCounted DEF TypeOK
<1>3. k \in quiet => n = 0
  BY QuietCountsNone
<1> HIDE DEF n, old, new, emitted
<1>4. ASSUME k \in emitted PROVE new \in Row /\ new.sessions = n
  <2>1. [state |-> "open", sessions |-> n, window |-> window[d], reason |-> NoRow] \in Row
    BY <1>2 DEF Row
  <2>2. old \in Row =>
          /\ [old EXCEPT !.sessions = n, !.window = window[d]] \in Row
          /\ [old EXCEPT !.sessions = n, !.window = window[d]].sessions = n
    BY <1>2 DEF Row
  <2>3. QED BY <1>1, <1>2, <1>4, <2>1, <2>2
<1>5. ASSUME k \notin emitted
      PROVE  (new = NoRow \/ new = old) /\ (new # NoRow => new.state # "open")
  BY <1>1, <1>5
<1>6. QED BY <1>3, <1>4, <1>5 DEF n, old, new, emitted

LEMMA RunFits ==
    ASSUME TypeOK, HitsLoud, RowsFit, NEW d \in Detectors, NEW quiet \in QuietFindings(d), Run(d, quiet)
    PROVE  RowsFit'
<1> SUFFICES ASSUME NEW e \in Detectors, NEW k \in Keys PROVE RowFitsMembers(e, k)'
  BY DEF RowsFit
<1>1. cluster' = Upsert(d, quiet)
  BY DEF Run
<1>2. CASE e # d
  <2>1. cluster'[<<e, k>>] = cluster[<<e, k>>]
    BY <1>1, <1>2 DEF Upsert
  <2>2. MembersOf(e, k)' = MembersOf(e, k)
    BY <1>2 DEF Run, Members, MembersOf
  <2>3. RowFitsMembers(e, k)
    BY DEF RowsFit
  <2>4. QED BY <2>1, <2>2, <2>3 DEF RowFitsMembers
<1>3. CASE e = d
  <2> DEFINE n == Cardinality(SessionsOf(d, k, Since(window[d])))
             new == cluster'[<<d, k>>]
  <2>1. /\ k \in Emitted(d, window[d]) \cup quiet => new \in Row /\ new.sessions = n
        /\ k \in quiet => n = 0
        /\ k \notin Emitted(d, window[d]) \cup quiet /\ new # NoRow => new.state # "open"
    BY RunRows
  <2>2. MembersOf(d, k)' =
          IF d \notin Replayed /\ k \in Emitted(d, window[d])
          THEN SessionsOf(d, k, Since(window[d])) ELSE {}
    BY RunMembers
  <2> HIDE DEF new
  <2>3. CASE d \in Replayed
    BY <1>3, <2>2, <2>3 DEF RowFitsMembers, new
  <2>4. CASE d \notin Replayed /\ k \in Emitted(d, window[d])
    <3>1. Cardinality(MembersOf(d, k)') = n
      BY <2>2, <2>4
    <3>2. new \in Row /\ new.sessions = n /\ new # NoRow
      BY <2>1, <2>4, NoRowAssumption
    <3> HIDE DEF n
    <3>3. QED BY <1>3, <2>4, <3>1, <3>2 DEF RowFitsMembers, new
  <2>5. CASE d \notin Replayed /\ k \notin Emitted(d, window[d])
    <3>1. MembersOf(d, k)' = {} /\ Cardinality(MembersOf(d, k)') = 0
      BY <2>2, <2>5, FS_EmptySet
    <3>2. new # NoRow /\ new.state = "open" => new.sessions = 0
      BY <2>1, <2>5
    <3>3. QED BY <1>3, <3>1, <3>2 DEF RowFitsMembers, new
  <2>6. QED BY <2>3, <2>4, <2>5
<1>4. QED BY <1>2, <1>3

LEMMA RunRecords ==
    ASSUME TypeOK, HitsLoud, RowsHaveRun, NEW d \in Detectors, NEW quiet \in QuietFindings(d),
           Run(d, quiet)
    PROVE  RowsHaveRun'
<1> SUFFICES ASSUME NEW e \in Detectors, NEW k \in Keys, cluster'[<<e, k>>] # NoRow
             PROVE  /\ \E v \in Versions : record'[<<e, v>>] # NoRow
                    /\ e \notin Replayed /\ cluster'[<<e, k>>].sessions # 0 =>
                          \E w \in Weeks : <<e, k, w>> \in cells'
  BY DEF RowsHaveRun, RowHasRun
<1>1. registered[d].version \in Versions /\ registered[d].sha \in Shas /\ window[d] \in Windows
  BY DEF TypeOK, Code
<1>2. [sha |-> registered[d].sha, window |-> window[d], status |-> "ok"] \in Record
  BY <1>1 DEF Record
<1>3. record'[<<d, registered[d].version>>] # NoRow
  BY <1>1, <1>2, NoRowAssumption DEF Run, Entry, TypeOK
<1>4. \A r \in Detectors \X Versions : record[r] # NoRow => record'[r] # NoRow
  BY <1>1, <1>2, NoRowAssumption DEF Run, Entry, TypeOK
<1>5. cells' = cells \cup Counted(d)
  BY DEF Run
<1>6. CASE cluster'[<<e, k>>] = cluster[<<e, k>>]
  <2>1. RowHasRun(e, k)
    BY DEF RowsHaveRun
  <2>2. PICK v \in Versions : record[<<e, v>>] # NoRow
    BY <1>6, <2>1 DEF RowHasRun
  <2>3. record'[<<e, v>>] # NoRow
    BY <1>4, <2>2
  <2>4. e \notin Replayed /\ cluster'[<<e, k>>].sessions # 0 => \E w \in Weeks : <<e, k, w>> \in cells
    BY <1>6, <2>1 DEF RowHasRun
  <2>5. QED BY <1>5, <2>3, <2>4
<1>7. CASE cluster'[<<e, k>>] # cluster[<<e, k>>]
  <2>1. cluster' = Upsert(d, quiet)
    BY DEF Run
  <2>2. e = d
    BY <1>7, <2>1 DEF Upsert
  <2>3. cluster'[<<d, k>>].sessions # 0 => k \in Emitted(d, window[d])
    BY <1>7, <2>2, RunRows
  <2>4. d \notin Replayed /\ k \in Emitted(d, window[d]) => \E w \in Weeks : <<d, k, w>> \in Counted(d)
    BY <1>1, EmittedIsCounted
  <2>5. QED BY <1>1, <1>3, <1>5, <2>2, <2>3, <2>4
<1>8. QED BY <1>6, <1>7

\* A person or the weekly call changes the state and the reason of a row and
\* nothing else of it.
LEMMA ReviewKeepsTables ==
    ASSUME RowsFit, RowsHaveRun, UNCHANGED <<member, record, cells>>,
           \A c \in Detectors \X Keys :
              /\ cluster'[c] = NoRow <=> cluster[c] = NoRow
              /\ cluster[c] # NoRow =>
                    /\ cluster'[c].sessions = cluster[c].sessions
                    /\ cluster'[c].state = "open" => cluster[c].state = "open"
    PROVE  RowsFit' /\ RowsHaveRun'
<1>1. ASSUME NEW d \in Detectors, NEW k \in Keys
      PROVE  RowFitsMembers(d, k)' /\ RowHasRun(d, k)'
  <2>1. MembersOf(d, k)' = MembersOf(d, k)
    BY DEF MembersOf
  <2>2. RowFitsMembers(d, k) /\ RowHasRun(d, k)
    BY DEF RowsFit, RowsHaveRun
  <2>3. <<d, k>> \in Detectors \X Keys
    OBVIOUS
  <2>4. RowFitsMembers(d, k)'
    BY <2>1, <2>2, <2>3 DEF RowFitsMembers
  <2>5. RowHasRun(d, k)'
    BY <2>2, <2>3 DEF RowHasRun
  <2>6. QED BY <2>4, <2>5
<1>2. QED BY <1>1 DEF RowsFit, RowsHaveRun

\* The rest of the steps leave the tables alone, or note a failure.
LEMMA OthersKeepTables ==
    ASSUME RowsFit, RowsHaveRun, UNCHANGED <<cluster, member, cells>>,
           \A r \in Detectors \X Versions : record[r] # NoRow => record'[r] # NoRow
    PROVE  RowsFit' /\ RowsHaveRun'
<1>1. ASSUME NEW d \in Detectors, NEW k \in Keys
      PROVE  RowFitsMembers(d, k)' /\ RowHasRun(d, k)'
  <2>1. RowFitsMembers(d, k) /\ RowHasRun(d, k)
    BY DEF RowsFit, RowsHaveRun
  <2>2. RowFitsMembers(d, k)'
    BY <2>1 DEF RowFitsMembers, MembersOf
  <2>3. RowHasRun(d, k)'
    BY <2>1 DEF RowHasRun
  <2>4. QED BY <2>2, <2>3
<1>2. QED BY <1>1 DEF RowsFit, RowsHaveRun

LEMMA NoteKeepsRecords ==
    ASSUME TypeOK, NEW d \in Detectors, NEW status, NoteFailure(d, status)
    PROVE  \A r \in Detectors \X Versions :
             record[r] # NoRow => record'[r].sha = record[r].sha
                                  /\ (status \in {"error", "refused"} => record'[r] # NoRow)
<1>1. Entry(d) \in Detectors \X Versions
  BY DEF TypeOK, Entry, Code
<1>2. \A r \in Detectors \X Versions : record[r] \in Record \cup {NoRow}
  BY DEF TypeOK
<1>3. record[Entry(d)] # NoRow /\ status \in {"error", "refused"} =>
        [record[Entry(d)] EXCEPT !.status = status] \in Record
  BY <1>1, <1>2 DEF Record
<1>4. record[Entry(d)] # NoRow => [record[Entry(d)] EXCEPT !.status = status].sha = record[Entry(d)].sha
  BY <1>1, <1>2 DEF Record
<1>5. QED BY <1>1, <1>3, <1>4, NoRowAssumption DEF NoteFailure, TypeOK

LEMMA NextTables == TypeOK /\ HitsLoud /\ RowsFit /\ RowsHaveRun /\ [Next]_vars => RowsFit' /\ RowsHaveRun'
<1> SUFFICES ASSUME TypeOK, HitsLoud, RowsFit, RowsHaveRun, [Next]_vars PROVE RowsFit' /\ RowsHaveRun'
  OBVIOUS
<1> USE DEF world, ingested, tables, weekly, explained, process, counters
<1>1. ASSUME UNCHANGED <<cluster, member, cells, record>> PROVE RowsFit' /\ RowsHaveRun'
  BY <1>1, OthersKeepTables
<1>2. CASE UNCHANGED vars
  BY <1>1, <1>2 DEF vars
<1>3. CASE \E only \in {Detectors} \cup {{d} : d \in Detectors}, w \in Windows :
             \E readable \in SUBSET External : Detect(only, w, readable)
  BY <1>1, <1>3 DEF Detect
<1>4. CASE Rank
  BY <1>1, <1>4 DEF Rank
<1>5. CASE \E cutoff \in Weeks : Prune(cutoff)
  BY <1>1, <1>5 DEF Prune
<1>6. CASE \E d \in Detectors : Skip(d)
  BY <1>1, <1>6 DEF Skip
<1>7. ASSUME NEW d \in Detectors, Refuse(d) PROVE RowsFit' /\ RowsHaveRun'
  BY <1>7, NoteKeepsRecords, OthersKeepTables DEF Refuse
<1>8. ASSUME NEW d \in Detectors, Fails(d) PROVE RowsFit' /\ RowsHaveRun'
  BY <1>8, NoteKeepsRecords, OthersKeepTables DEF Fails
<1>9. ASSUME NEW d \in Detectors, NEW quiet \in QuietFindings(d), Run(d, quiet) PROVE RowsFit' /\ RowsHaveRun'
  BY <1>9, RunFits, RunRecords
<1>10. CASE \E broken \in SUBSET Detectors : Attribute(broken)
  BY <1>1, <1>10 DEF Attribute
<1>11. CASE Crash
  BY <1>1, <1>11 DEF Crash
<1>12. ASSUME NEW c \in Detectors \X Keys, NEW reason \in Reasons, Dismiss(c, reason)
       PROVE  RowsFit' /\ RowsHaveRun'
  <2>1. cluster[c] \in Row /\ cluster \in [Detectors \X Keys -> Row \cup {NoRow}]
    BY <1>12 DEF Dismiss, TypeOK
  <2>2. [cluster[c] EXCEPT !.state = "dismissed", !.reason = reason] \in Row
    BY <2>1 DEF Row
  <2>3. cluster'[c] = cluster[c] \/ cluster'[c] = [cluster[c] EXCEPT !.state = "dismissed", !.reason = reason]
    BY <1>12, <2>1 DEF Dismiss
  <2>4. \A x \in Detectors \X Keys : x # c => cluster'[x] = cluster[x]
    BY <1>12, <2>1 DEF Dismiss
  <2>5. /\ cluster'[c] # NoRow /\ cluster[c] # NoRow
        /\ cluster'[c].sessions = cluster[c].sessions
        /\ cluster'[c].state = "open" => cluster[c].state = "open"
    BY <2>1, <2>2, <2>3, NoRowAssumption DEF Row
  <2>6. QED BY <1>12, <2>4, <2>5, ReviewKeepsTables DEF Dismiss
<1>13. CASE Reserve
  BY <1>1, <1>13 DEF Reserve
<1>14. ASSUME NEW chosen \in SUBSET (Detectors \X Keys), Draft(chosen) PROVE RowsFit' /\ RowsHaveRun'
  <2>1. \A c \in chosen : cluster[c] \in Row /\ cluster[c].state = "open"
    BY <1>14 DEF Draft, TypeOK
  <2>2. \A c \in chosen : [cluster[c] EXCEPT !.state = "drafted"] \in Row
    BY <2>1 DEF Row
  <2>3. \A x \in Detectors \X Keys :
          cluster'[x] = IF x \in chosen THEN [cluster[x] EXCEPT !.state = "drafted"] ELSE cluster[x]
    BY <1>14 DEF Draft
  <2>4. \A x \in chosen :
          /\ cluster'[x] # NoRow /\ cluster[x] # NoRow
          /\ cluster'[x].sessions = cluster[x].sessions
    <3> TAKE x \in chosen
    <3>1. cluster[x] \in Row /\ cluster'[x] = [cluster[x] EXCEPT !.state = "drafted"]
      BY <2>1, <2>3
    <3>2. cluster'[x] \in Row
      BY <2>2, <3>1
    <3>3. cluster'[x].sessions = cluster[x].sessions
      BY <3>1 DEF Row
    <3>4. QED BY <3>1, <3>2, <3>3, NoRowAssumption
  <2>5. \A x \in Detectors \X Keys :
          /\ cluster'[x] = NoRow <=> cluster[x] = NoRow
          /\ cluster[x] # NoRow =>
                /\ cluster'[x].sessions = cluster[x].sessions
                /\ cluster'[x].state = "open" => cluster[x].state = "open"
    BY <2>1, <2>3, <2>4
  <2>6. UNCHANGED <<member, record, cells>>
    BY <1>14 DEF Draft
  <2>7. QED BY <2>5, <2>6, ReviewKeepsTables
<1>15. CASE NoAnswer
  BY <1>1, <1>15 DEF NoAnswer
<1>16. CASE Rebuild
  <2>1. \A d \in Detectors, k \in Keys : cluster'[<<d, k>>] = NoRow
    BY <1>16 DEF Rebuild, NoClusters
  <2>2. \A d \in Detectors, k \in Keys : MembersOf(d, k)' = {}
    BY <1>16 DEF Rebuild, MembersOf
  <2>3. QED BY <2>1, <2>2 DEF RowsFit, RowsHaveRun, RowFitsMembers, RowHasRun
<1>17. CASE \E d \in Detectors, k \in Keys, s \in Sessions : Observe(d, k, s)
  BY <1>1, <1>17 DEF Observe
<1>19. CASE \E d \in Detectors, k \in Keys, s \in Sessions : Deny(d, k, s)
  BY <1>1, <1>19 DEF Deny
<1>20. CASE \E d \in Detectors : Rotate(d)
  BY <1>1, <1>20 DEF Rotate
<1>22. CASE NextWeek
  BY <1>1, <1>22 DEF NextWeek
<1>23. CASE \E d \in Detectors, code \in Code : Upgrade(d, code)
  BY <1>1, <1>23 DEF Upgrade
<1>24. QED
  BY <1>2, <1>3, <1>4, <1>5, <1>6, <1>7, <1>8, <1>9, <1>10, <1>11, <1>12, <1>13, <1>14,
     <1>15, <1>16, <1>17, <1>19, <1>20, <1>22, <1>23
  DEF Next

\* Whatever fails between two detectors, the tables of a detector speak of
\* one run.
THEOREM TablesAlwaysAgree == Spec => []TablesAgree
<1>1. TypeOK /\ RowsFit /\ RowsHaveRun => TablesAgree
  BY DEF RowsFit, RowsHaveRun, TablesAgree
<1>2. QED BY <1>1, InitTypeOK, NextTypeOK, InitLoud, NextLoud, InitTables, NextTables, PTL DEF Spec

-----------------------------------------------------------------------------
(* The weekly call *)

\* A week whose call is still allowed has had one only before a rebuild.
CallsInv ==
    /\ calls <= 1 + rebuilt
    /\ quota # now => calls <= rebuilt
    /\ quota <= now

LEMMA InitCalls == Init => CallsInv
BY DEF Init, CallsInv

LEMMA NextCalls == TypeOK /\ CallsInv /\ [Next]_vars => CallsInv'
<1> SUFFICES ASSUME TypeOK, CallsInv, [Next]_vars PROVE CallsInv'
  OBVIOUS
<1> USE DEF world, ingested, tables, weekly, explained, process, counters
<1>1. calls \in Nat /\ rebuilt \in Nat /\ quota \in Nat /\ now \in Nat /\ now >= 1
  BY ClustersAssumption DEF TypeOK, Weeks
<1>2. ASSUME UNCHANGED <<calls, rebuilt, quota, now>> PROVE CallsInv'
  BY <1>2 DEF CallsInv
<1>3. CASE Reserve
  BY <1>1, <1>3 DEF Reserve, CallsInv
<1>4. CASE Rebuild
  BY <1>1, <1>4 DEF Rebuild, CallsInv
<1>5. CASE NextWeek
  BY <1>1, <1>5 DEF NextWeek, CallsInv
<1>6. CASE UNCHANGED vars
  BY <1>2, <1>6 DEF vars
<1>7. CASE \E only \in {Detectors} \cup {{d} : d \in Detectors}, w \in Windows :
             \E readable \in SUBSET External : Detect(only, w, readable)
  BY <1>2, <1>7 DEF Detect
<1>8. CASE Rank \/ \E cutoff \in Weeks : Prune(cutoff)
  BY <1>2, <1>8 DEF Rank, Prune
<1>9. CASE \E d \in Detectors : \/ Skip(d) \/ Refuse(d) \/ Fails(d)
                                \/ \E quiet \in QuietFindings(d) : Run(d, quiet)
  BY <1>2, <1>9 DEF Skip, Refuse, Fails, Run, Done
<1>10. CASE Crash \/ \E broken \in SUBSET Detectors : Attribute(broken)
  BY <1>2, <1>10 DEF Attribute, Crash
<1>11. CASE \E c \in Detectors \X Keys, reason \in Reasons : Dismiss(c, reason)
  BY <1>2, <1>11 DEF Dismiss
<1>12. CASE NoAnswer \/ \E chosen \in SUBSET (Detectors \X Keys) : Draft(chosen)
  BY <1>2, <1>12 DEF Draft, NoAnswer
<1>13. CASE \E d \in Detectors, k \in Keys, s \in Sessions : Observe(d, k, s) \/ Deny(d, k, s)
  BY <1>2, <1>13 DEF Observe, Deny
<1>14. CASE \/ \E d \in Detectors : Rotate(d)
            \/ \E d \in Detectors, code \in Code : Upgrade(d, code)
  BY <1>2, <1>14 DEF Rotate, Upgrade
<1>15. QED
  BY <1>3, <1>4, <1>5, <1>6, <1>7, <1>8, <1>9, <1>10, <1>11, <1>12, <1>13, <1>14 DEF Next

\* However often the command is repeated and whatever fails, the model is
\* called once a week, and once more for each rebuild that forgets the week.
THEOREM CallsAlwaysOncePerWeek == Spec => []OneCallPerWeek
<1>1. CallsInv => OneCallPerWeek
  BY DEF CallsInv, OneCallPerWeek
<1>2. QED BY <1>1, InitTypeOK, NextTypeOK, InitCalls, NextCalls, PTL DEF Spec

-----------------------------------------------------------------------------
(* What a step may not do *)

\* A reviewed row stays, stays reviewed, and keeps the reason it has.
Kept(c) ==
    cluster[c] # NoRow /\ cluster[c].state # "open" =>
        /\ cluster'[c] # NoRow /\ cluster'[c].state # "open"
        /\ cluster[c].state = "dismissed" =>
              cluster'[c].state = "dismissed" /\ cluster'[c].reason = cluster[c].reason

LEMMA RunKeeps ==
    ASSUME TypeOK, NEW d \in Detectors, NEW quiet \in QuietFindings(d), Run(d, quiet), NEW c \in Detectors \X Keys
    PROVE  Kept(c)
<1> SUFFICES ASSUME cluster[c] # NoRow, cluster[c].state # "open"
             PROVE  /\ cluster'[c] # NoRow /\ cluster'[c].state = cluster[c].state
                    /\ cluster'[c].reason = cluster[c].reason
  BY DEF Kept
<1> DEFINE n == Cardinality(SessionsOf(d, c[2], Since(window[d])))
<1>1. cluster' = Upsert(d, quiet)
  BY DEF Run
<1>2. cluster[c] \in Row /\ c = <<c[1], c[2]>>
  BY DEF TypeOK
<1>3. n \in Nat /\ window[d] \in Windows
  BY SessionsCounted DEF TypeOK
<1>4. cluster'[c] \in {cluster[c], [cluster[c] EXCEPT !.sessions = n, !.window = window[d]]}
  BY <1>1, <1>2 DEF Upsert
<1> HIDE DEF n
<1>5. [cluster[c] EXCEPT !.sessions = n, !.window = window[d]] \in Row
  BY <1>2, <1>3 DEF Row
<1>6. QED BY <1>2, <1>4, <1>5, NoRowAssumption DEF Row

LEMMA DismissKeeps ==
    ASSUME TypeOK, NEW x \in Detectors \X Keys, NEW reason \in Reasons, Dismiss(x, reason),
           NEW c \in Detectors \X Keys
    PROVE  Kept(c)
<1>1. cluster[x] \in Row /\ cluster \in [Detectors \X Keys -> Row \cup {NoRow}]
  BY DEF Dismiss, TypeOK
<1>2. [cluster[x] EXCEPT !.state = "dismissed", !.reason = reason] \in Row
  BY <1>1 DEF Row
<1>3. cluster'[x] = IF cluster[x].state = "dismissed" THEN cluster[x]
                    ELSE [cluster[x] EXCEPT !.state = "dismissed", !.reason = reason]
  BY <1>1 DEF Dismiss
<1>4. c # x => cluster'[c] = cluster[c]
  BY <1>1 DEF Dismiss
<1>5. QED BY <1>1, <1>2, <1>3, <1>4, NoRowAssumption DEF Kept, Row

LEMMA NextKeeps ==
    ASSUME TypeOK, Next, rebuilt' <= rebuilt, NEW c \in Detectors \X Keys
    PROVE  Kept(c)
<1> USE DEF world, ingested, tables, weekly, explained, process, counters
<1>1. ASSUME UNCHANGED cluster PROVE Kept(c)
  BY <1>1 DEF Kept
<1>2. CASE \E d \in Detectors : \E quiet \in QuietFindings(d) : Run(d, quiet)
  BY <1>2, RunKeeps
<1>3. CASE \E x \in Detectors \X Keys, reason \in Reasons : Dismiss(x, reason)
  BY <1>3, DismissKeeps
<1>4. CASE \E chosen \in SUBSET (Detectors \X Keys) : Draft(chosen)
  BY <1>4 DEF Draft, Kept
<1>5. CASE Rebuild
  <2>1. rebuilt \in Nat /\ rebuilt' = rebuilt + 1
    BY <1>5 DEF Rebuild, TypeOK
  <2>2. QED BY <2>1
<1>6. CASE \E only \in {Detectors} \cup {{d} : d \in Detectors}, w \in Windows :
             \E readable \in SUBSET External : Detect(only, w, readable)
  BY <1>1, <1>6 DEF Detect
<1>7. CASE Rank \/ \E cutoff \in Weeks : Prune(cutoff)
  BY <1>1, <1>7 DEF Rank, Prune
<1>8. CASE \E d \in Detectors : Skip(d) \/ Refuse(d) \/ Fails(d)
  BY <1>1, <1>8 DEF Skip, Refuse, Fails
<1>9. CASE Crash \/ \E broken \in SUBSET Detectors : Attribute(broken)
  BY <1>1, <1>9 DEF Attribute, Crash
<1>10. CASE Reserve \/ NoAnswer \/ NextWeek
  BY <1>1, <1>10 DEF Reserve, NoAnswer, NextWeek
<1>11. CASE \E d \in Detectors, k \in Keys, s \in Sessions : Observe(d, k, s) \/ Deny(d, k, s)
  BY <1>1, <1>11 DEF Observe, Deny
<1>12. CASE \/ \E d \in Detectors : Rotate(d)
            \/ \E d \in Detectors, code \in Code : Upgrade(d, code)
  BY <1>1, <1>12 DEF Rotate, Upgrade
<1>13. QED
  BY <1>2, <1>3, <1>4, <1>5, <1>6, <1>7, <1>8, <1>9, <1>10, <1>11, <1>12 DEF Next

\* A decision about a cluster outlives every refresh.
THEOREM ReviewAlwaysOutlivesRefresh == Spec => ReviewOutlivesRefresh
<1>1. TypeOK /\ [Next]_vars =>
        [rebuilt' <= rebuilt =>
           \A c \in Detectors \X Keys :
              cluster[c] # NoRow /\ cluster[c].state # "open" =>
                  /\ cluster'[c] # NoRow /\ cluster'[c].state # "open"
                  /\ cluster[c].state = "dismissed" =>
                        cluster'[c].state = "dismissed" /\ cluster'[c].reason = cluster[c].reason]_vars
  BY NextKeeps DEF Kept
<1>2. QED BY <1>1, InitTypeOK, NextTypeOK, PTL DEF Spec, ReviewOutlivesRefresh

\* A record stays, with the semantics it has.
SameSemantics(r) == record[r] # NoRow => record'[r] # NoRow /\ record'[r].sha = record[r].sha

LEMMA NextSemantics ==
    ASSUME TypeOK, Next, rebuilt' <= rebuilt, NEW r \in Detectors \X Versions
    PROVE  SameSemantics(r)
<1> USE DEF world, ingested, tables, weekly, explained, process, counters
<1>1. ASSUME UNCHANGED record PROVE SameSemantics(r)
  BY <1>1 DEF SameSemantics
<1>2. ASSUME NEW d \in Detectors, NEW quiet \in QuietFindings(d), Run(d, quiet) PROVE SameSemantics(r)
  <2>1. Entry(d) \in Detectors \X Versions /\ registered[d].sha \in Shas /\ window[d] \in Windows
    BY DEF TypeOK, Entry, Code
  <2>2. [sha |-> registered[d].sha, window |-> window[d], status |-> "ok"] \in Record
    BY <2>1 DEF Record
  <2>3. record[Entry(d)] # NoRow => record[Entry(d)].sha = registered[d].sha
    BY <1>2 DEF Run, Drifted
  <2>4. record' = [record EXCEPT ![Entry(d)] =
                     [sha |-> registered[d].sha, window |-> window[d], status |-> "ok"]]
    BY <1>2 DEF Run
  <2>5. QED BY <2>1, <2>2, <2>3, <2>4, NoRowAssumption DEF SameSemantics, TypeOK
<1>3. CASE \E d \in Detectors : Refuse(d) \/ Fails(d)
  BY <1>3, NoteKeepsRecords DEF Refuse, Fails, SameSemantics
<1>4. CASE Rebuild
  <2>1. rebuilt \in Nat /\ rebuilt' = rebuilt + 1
    BY <1>4 DEF Rebuild, TypeOK
  <2>2. QED BY <2>1
<1>5. CASE \E only \in {Detectors} \cup {{d} : d \in Detectors}, w \in Windows :
             \E readable \in SUBSET External : Detect(only, w, readable)
  BY <1>1, <1>5 DEF Detect
<1>6. CASE Rank \/ \E cutoff \in Weeks : Prune(cutoff)
  BY <1>1, <1>6 DEF Rank, Prune
<1>7. CASE \E d \in Detectors : Skip(d)
  BY <1>1, <1>7 DEF Skip
<1>8. CASE Crash \/ \E broken \in SUBSET Detectors : Attribute(broken)
  BY <1>1, <1>8 DEF Attribute, Crash
<1>9. CASE \/ Reserve \/ NoAnswer \/ NextWeek
           \/ \E c \in Detectors \X Keys, reason \in Reasons : Dismiss(c, reason)
           \/ \E chosen \in SUBSET (Detectors \X Keys) : Draft(chosen)
  BY <1>1, <1>9 DEF Reserve, NoAnswer, NextWeek, Dismiss, Draft
<1>10. CASE \E d \in Detectors, k \in Keys, s \in Sessions : Observe(d, k, s) \/ Deny(d, k, s)
  BY <1>1, <1>10 DEF Observe, Deny
<1>11. CASE \/ \E d \in Detectors : Rotate(d)
            \/ \E d \in Detectors, code \in Code : Upgrade(d, code)
  BY <1>1, <1>11 DEF Rotate, Upgrade
<1>12. QED
  BY <1>2, <1>3, <1>4, <1>5, <1>6, <1>7, <1>8, <1>9, <1>10, <1>11 DEF Next

\* EC-12: no sequence of deployments, failures and runs commits two semantics
\* under one version.
THEOREM SemanticsAlwaysKept == Spec => SemanticsAreKept
<1>1. TypeOK /\ [Next]_vars =>
        [rebuilt' <= rebuilt =>
           \A r \in Detectors \X Versions :
              record[r] # NoRow => record'[r] # NoRow /\ record'[r].sha = record[r].sha]_vars
  BY NextSemantics DEF SameSemantics
<1>2. QED BY <1>1, InitTypeOK, NextTypeOK, PTL DEF Spec, SemanticsAreKept

-----------------------------------------------------------------------------
(* The split of a cost *)

\* A pass over all detectors gives each cell of a session the same part.
LEMMA PassSplitsOnce ==
    ASSUME TypeOK, share' = Split(Detectors), NEW s \in Sessions
    PROVE  SplitOnce(s, Recent, share')
<1> DEFINE touched == {c \in cells : c[1] \notin Replayed /\ c[3] >= Since(History)}
           mine == {c \in touched : s \in Contributors(c)}
           n == Cardinality(mine)
           part(c) == IF s \in Contributors(c) /\ Contributors(c) \subseteq costs THEN n ELSE 0
<1>1. touched \subseteq Cell /\ mine \subseteq Cell /\ mine \subseteq touched
  BY DEF TypeOK
<1>2. \A c \in Cell : c[1] \in Detectors
  BY DEF Cell
<1>3. touched = {c \in cells : c[1] \in Detectors \ Replayed /\ c[3] >= Since(History)}
  BY <1>1, <1>2 DEF TypeOK
<1>4. \A c \in touched : share'[<<c, s>>] = part(c)
  <2> TAKE c \in touched
  <2>1. <<c, s>> \in Cell \X Sessions /\ <<c, s>>[1] = c /\ <<c, s>>[2] = s
    BY <1>1
  <2>2. share' = [x \in Cell \X Sessions |->
                    IF x[1] \in touched
                    THEN IF x[2] \in Contributors(x[1]) /\ Contributors(x[1]) \subseteq costs
                         THEN Cardinality({b \in touched : x[2] \in Contributors(b)}) ELSE 0
                    ELSE share[x]]
    BY <1>3 DEF Split
  <2> HIDE DEF touched
  <2>3. QED BY <2>1, <2>2
<1>5. IsFiniteSet(mine) /\ n \in Nat
  BY <1>1, CellsFinite, FS_Subset, FS_CardinalityType
<1> DEFINE having == {b \in touched : share'[<<b, s>>] # 0}
<1>6. having \subseteq mine
  <2> HIDE DEF n
  <2> QED BY <1>4
<1>7. Cardinality(having) <= n
  <2> HIDE DEF having, mine
  <2> QED BY <1>5, <1>6, FS_Subset
<1>8. \A c \in touched : share'[<<c, s>>] # 0 => share'[<<c, s>>] = n
  BY <1>4
<1> HIDE DEF n
<1> QED BY <1>7, <1>8 DEF SplitOnce, Recent

\* Only the waste pass runs between the last detector and the end of a command.
LEMMA PassIsAttribute ==
    ASSUME TypeOK, Next, pc = "run", todo = {}, incidents' = incidents
    PROVE  share' = Split(scope)
<1>1. /\ incidents \in Nat /\ incidents + 1 # incidents
  BY DEF TypeOK
<1>2. ASSUME NEW broken \in SUBSET Detectors, Attribute(broken) PROVE share' = Split(scope)
  <2>1. IsFiniteSet(broken) /\ Cardinality(broken) \in Nat
    BY ClustersAssumption, FS_Subset, FS_CardinalityType
  <2>2. Cardinality(broken) = 0
    BY <1>1, <1>2, <2>1 DEF Attribute
  <2>3. broken = {}
    BY <2>1, <2>2, FS_EmptySet
  <2>4. scope \ broken = scope
    BY <2>3
  <2> QED BY <1>2, <2>4 DEF Attribute
<1>3. ~Crash /\ \A d \in Detectors : /\ ~(Skip(d) \/ Refuse(d) \/ Fails(d))
                                      /\ \A quiet : ~Run(d, quiet)
  BY <1>1 DEF Crash, Skip, Refuse, Fails, Run, IsNext
<1>4. /\ \A only, w, readable : ~Detect(only, w, readable)
      /\ ~Rank /\ \A cutoff : ~Prune(cutoff)
      /\ \A c, reason : ~Dismiss(c, reason)
      /\ ~Reserve /\ ~NoAnswer /\ ~Rebuild /\ ~NextWeek
      /\ \A chosen : ~Draft(chosen)
  BY DEF Detect, Rank, Prune, StartRun, Dismiss, Reserve, NoAnswer, Rebuild, NextWeek, Draft
<1>5. /\ \A d, k, s : ~Observe(d, k, s) /\ ~Deny(d, k, s)
      /\ \A d : ~Rotate(d)
      /\ \A d, code : ~Upgrade(d, code)
  BY DEF Observe, Deny, Rotate, Upgrade
<1> QED BY <1>2, <1>3, <1>4, <1>5 DEF Next

\* A pass over all detectors splits the cost of a session at most once among
\* the cells of the trailing weeks (attribute_weekly_waste).
THEOREM PassAlwaysSplitsOnce == Spec => CompletePassSplitsOnce
<1>1. TypeOK /\ [Next]_vars =>
        [pc = "run" /\ todo = {} /\ scope = Detectors /\ incidents' = incidents =>
           \A s \in Sessions :
              SplitOnce(s, Recent, share')]_vars
  BY PassIsAttribute, PassSplitsOnce
<1>2. QED BY <1>1, InitTypeOK, NextTypeOK, PTL DEF Spec, CompletePassSplitsOnce

=============================================================================
