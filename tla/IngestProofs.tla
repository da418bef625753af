---------------------------- MODULE IngestProofs ----------------------------
(***************************************************************************)
(* Proofs about Ingest, for any files, records, contents and bounds: first  *)
(* lemmas about the operators of Transcript (what an append leaves alone,   *)
(* where a scan may stop, that two adjoining spans make one), then types.   *)
(*                                                                          *)
(* What the commits of ingest add up to: where ingest may resume, the       *)
(* cursor is on a line boundary and the stored events are those of the      *)
(* lines before it.  Proved for any number of files, records and sessions,  *)
(* any contents, and rewrites at any moment, provided that no append lands  *)
(* between scan_lines' fstat and its last read (AppendRacesScan = FALSE;    *)
(* the run MCIngestScanRace shows what happens otherwise).                  *)
(***************************************************************************)
EXTENDS Ingest, FiniteSetTheorems, WellFoundedInduction, TLAPS

-----------------------------------------------------------------------------
\* A nonempty set of naturals has a least element, and one that is bounded
\* has a largest.
LEMMA LeastNatural ==
    ASSUME NEW T, T \subseteq Nat, T # {}
    PROVE  \E t \in T : \A y \in T : t <= y
<1> DEFINE R == OpToRel(<, Nat)
<1>1. IsWellFoundedOn(R, Nat)
  BY NatLessThanWellFounded, Zenon
<1>2. PICK t \in T : \A y \in T : ~(<<y, t>> \in R)
  <2> HIDE DEF R
  <2> QED BY <1>1, WFMin
<1>3. \A y \in T : ~(y < t)
  BY <1>2, Zenon DEF OpToRel
<1> HIDE DEF R
<1>4. QED BY <1>3

LEMMA LargestNatural ==
    ASSUME NEW n \in Nat, NEW S, S \subseteq 0 .. n, S # {}
    PROVE  \E i \in S : \A j \in S : j <= i
<1> DEFINE T == {n - i : i \in S}
<1>1. T \subseteq Nat
  <2>1. \A i \in S : n - i \in Nat
    OBVIOUS
  <2>2. QED BY <2>1
<1>2. T # {}
  <2>1. PICK i \in S : TRUE
    OBVIOUS
  <2>2. n - i \in T
    OBVIOUS
  <2>3. QED BY <2>2
<1>3. PICK t \in T : \A y \in T : t <= y
  <2> HIDE DEF T
  <2> QED BY <1>1, <1>2, LeastNatural
<1>4. PICK i \in S : t = n - i
  BY <1>3
<1>5. ASSUME NEW j \in S PROVE j <= i
  <2>1. n - j \in T
    OBVIOUS
  <2>2. n - i <= n - j
    BY <2>1, <1>3, <1>4
  <2>3. QED BY <2>2
<1>6. QED BY <1>5

-----------------------------------------------------------------------------
\* An append leaves the lines of the old bytes as they are.
LEMMA ExtendKeepsLine ==
    ASSUME NEW c \in Seq(Byte), NEW d \in Seq(Byte), HasPrefix(d, c),
           NEW i \in 0 .. Len(c), NEW from \in Nat
    PROVE  /\ i \in Newlines(d) <=> i \in Newlines(c)
           /\ RecordEndsAt(d, from, i) <=> RecordEndsAt(c, from, i)
           /\ LineNumber(d, i) = LineNumber(c, i)
           /\ i > 0 => d[i] = c[i]
           /\ Boundary(d, i) <=> Boundary(c, i)
<1>1. Len(c) <= Len(d) /\ \A j \in 1 .. Len(c) : d[j] = c[j]
  BY DEF HasPrefix
<1>2. \A j \in 0 .. Len(c) : j \in Newlines(d) <=> j \in Newlines(c)
  BY <1>1 DEF Newlines
<1>3. RecordEndsAt(d, from, i) <=> RecordEndsAt(c, from, i)
  <2>1. CASE i \in Newlines(c) /\ i - 3 >= from
    <3>1. i - 1 \in 1 .. Len(c) /\ i - 2 \in 1 .. Len(c)
      BY <2>1
    <3>2. i - 3 = from \/ i - 3 \in 1 .. Len(c)
      BY <2>1
    <3>3. d[i - 1] = c[i - 1] /\ d[i - 2] = c[i - 2]
      BY <3>1, <1>1
    <3>4. i - 3 = from \/ d[i - 3] = c[i - 3]
      BY <3>2, <1>1
    <3>5. QED BY <2>1, <1>2, <3>3, <3>4 DEF RecordEndsAt
  <2>2. CASE ~(i \in Newlines(c) /\ i - 3 >= from)
    BY <2>2, <1>2 DEF RecordEndsAt
  <2>3. QED BY <2>1, <2>2
<1>4. LineNumber(d, i) = LineNumber(c, i)
  <2>1. {j \in Newlines(d) : j <= i} = {j \in Newlines(c) : j <= i}
    BY <1>2, <1>1 DEF Newlines
  <2>2. QED BY <2>1 DEF LineNumber
<1>5. Boundary(d, i) <=> Boundary(c, i)
  BY <1>1 DEF Boundary
<1>6. QED BY <1>1, <1>2, <1>3, <1>4, <1>5

LEMMA ExtendKeepsEvents ==
    ASSUME NEW c \in Seq(Byte), NEW d \in Seq(Byte), HasPrefix(d, c),
           NEW n \in 0 .. Len(c), NEW from \in Nat
    PROVE  Events(d, from, n) = Events(c, from, n)
<1> DEFINE Ends(s) == {j \in LineEnds(s, from) : j <= n /\ RecordEndsAt(s, from, j)}
<1>1. Len(c) <= Len(d)
  BY DEF HasPrefix
<1>2. Newlines(c) \subseteq 1 .. Len(c) /\ Newlines(d) \subseteq 1 .. Len(d)
  BY DEF Newlines
<1>3. \A j \in 0 .. n : j \in Ends(d) <=> j \in Ends(c)
  BY ExtendKeepsLine DEF LineEnds
<1>4. Ends(c) \subseteq 1 .. n /\ Ends(d) \subseteq 1 .. n
  BY <1>2 DEF LineEnds
<1>5. Ends(d) = Ends(c)
  BY <1>3, <1>4
<1>6. \A i \in Ends(c) : /\ LineNumber(d, i) = LineNumber(c, i)
                         /\ d[i - 1] = c[i - 1]
  <2>1. SUFFICES ASSUME NEW i \in Ends(c)
                 PROVE  LineNumber(d, i) = LineNumber(c, i) /\ d[i - 1] = c[i - 1]
    OBVIOUS
  <2>2. i \in 1 .. n /\ i - 3 >= from
    BY <1>4 DEF RecordEndsAt
  <2>3. i - 1 \in 1 .. Len(c) /\ i \in 0 .. Len(c)
    BY <2>2
  <2>4. QED BY <2>3, ExtendKeepsLine
<1>7. QED BY <1>5, <1>6 DEF Events

-----------------------------------------------------------------------------
\* A resumed scan that starts on a line boundary finds, beyond it, the lines a
\* scan from the file's start finds: the two spans make one.
LEMMA SplitEvents ==
    ASSUME NEW c \in Seq(Byte), NEW m \in 0 .. Len(c), NEW n \in m .. Len(c),
           Boundary(c, m), NLAssumption
    PROVE  Events(c, 0, n) = Events(c, 0, m) \cup Events(c, m, n)
<1> DEFINE Ends(from, upTo) ==
        {j \in LineEnds(c, from) : j <= upTo /\ RecordEndsAt(c, from, j)}
<1>1. Newlines(c) \subseteq 1 .. Len(c)
  BY DEF Newlines
<1>2. \A i \in Newlines(c) : i > m => (RecordEndsAt(c, 0, i) <=> RecordEndsAt(c, m, i))
  <2>1. SUFFICES ASSUME NEW i \in Newlines(c), i > m
                 PROVE  RecordEndsAt(c, 0, i) <=> RecordEndsAt(c, m, i)
    OBVIOUS
  <2>2. m > 0 => c[m] \notin Record
    BY NLAssumption DEF Boundary, NLAssumption
  <2>3. ASSUME RecordEndsAt(c, 0, i) PROVE RecordEndsAt(c, m, i)
    <3>1. i \in 1 .. Len(c) /\ i - 3 >= 0 /\ c[i - 2] \in Record /\ c[i - 1] = c[i - 2]
      BY <2>3, <1>1 DEF RecordEndsAt
    <3>2. m # i - 1 /\ m # i - 2
      BY <3>1, <2>2
    <3>3. i - 3 >= m
      BY <3>1, <3>2, <2>1
    <3>4. i - 3 = m \/ c[i - 3] = NL
      BY <2>3, <3>3 DEF RecordEndsAt
    <3>5. QED BY <2>3, <3>3, <3>4 DEF RecordEndsAt
  <2>4. ASSUME RecordEndsAt(c, m, i) PROVE RecordEndsAt(c, 0, i)
    <3>1. i \in 1 .. Len(c) /\ i - 3 >= 0
      BY <2>4, <1>1 DEF RecordEndsAt
    <3>2. i - 3 = 0 \/ c[i - 3] = NL
      BY <2>4, <3>1 DEF RecordEndsAt, Boundary
    <3>3. QED BY <2>4, <3>1, <3>2 DEF RecordEndsAt
  <2>5. QED BY <2>3, <2>4
<1>3. Ends(0, n) = Ends(0, m) \cup Ends(m, n)
  BY <1>1, <1>2 DEF LineEnds
<1>4. QED BY <1>3 DEF Events

\* Where a scan from a boundary stops: on a boundary, with no complete line
\* left beyond it.
LEMMA TailStartsAtBoundary ==
    ASSUME NEW c \in Seq(Byte), NEW from \in 0 .. Len(c), Boundary(c, from)
    PROVE  LET n == Len(c) - TailLength(c, from)
           IN  /\ n \in from .. Len(c)
               /\ Boundary(c, n)
               /\ \A i \in LineEnds(c, from) : i <= n
               /\ TailLength(c, from) \in Nat
<1>1. CASE LineEnds(c, from) = {}
  <2>1. TailLength(c, from) = Len(c) - from
    BY <1>1 DEF TailLength
  <2>2. QED BY <2>1, <1>1
<1>2. CASE LineEnds(c, from) # {}
  <2>1. LineEnds(c, from) \subseteq 0 .. Len(c)
    BY DEF LineEnds, Newlines
  <2>2. PICK i \in LineEnds(c, from) : \A j \in LineEnds(c, from) : j <= i
    <3>1. Len(c) \in Nat
      OBVIOUS
    <3>2. QED BY <1>2, <2>1, <3>1, LargestNatural
  <2>3. DEFINE Rest(t) == /\ Len(c) - t \in LineEnds(c, from)
                          /\ \A j \in LineEnds(c, from) : j <= Len(c) - t
  <2>4. \E t \in 0 .. Len(c) : Rest(t)
    <3>1. Len(c) - i \in 0 .. Len(c) /\ Len(c) - (Len(c) - i) = i
      BY <2>1, <2>2
    <3>2. QED BY <3>1, <2>2
  <2>5. TailLength(c, from) = CHOOSE t \in 0 .. Len(c) : Rest(t)
    BY <1>2 DEF TailLength
  <2>6. TailLength(c, from) \in 0 .. Len(c) /\ Rest(TailLength(c, from))
    <3> HIDE DEF Rest
    <3> QED BY <2>4, <2>5
  <2>7. QED BY <2>6, <2>1 DEF LineEnds, Newlines, Boundary
<1>3. QED BY <1>1, <1>2

-----------------------------------------------------------------------------
\* The types of what a scan yields.
LEMMA SubsetOfNewlines ==
    ASSUME NEW c \in Seq(Byte), NEW S, S \subseteq Newlines(c)
    PROVE  Cardinality(S) \in Nat
<1>1. IsFiniteSet(1 .. Len(c))
  BY FS_Interval
<1>2. S \subseteq 1 .. Len(c)
  BY DEF Newlines
<1>3. QED BY <1>1, <1>2, FS_Subset, FS_CardinalityType

LEMMA EventsType ==
    ASSUME NEW c \in Seq(Byte), NEW from \in Int, NEW upTo \in Int
    PROVE  \A e \in Events(c, from, upTo) :
              e \in [line : Nat, rec : Record]
<1>1. \A i \in Newlines(c) : LineNumber(c, i) \in Nat
  <2>1. SUFFICES ASSUME NEW i \in Newlines(c) PROVE LineNumber(c, i) \in Nat
    OBVIOUS
  <2>2. {j \in Newlines(c) : j <= i} \subseteq Newlines(c)
    OBVIOUS
  <2>3. QED BY <2>2, SubsetOfNewlines DEF LineNumber
<1>2. \A i \in LineEnds(c, from) : RecordEndsAt(c, from, i) => c[i - 1] \in Record
  BY DEF RecordEndsAt
<1>3. QED BY <1>1, <1>2 DEF Events, LineEnds

LEMMA InvalidLinesType ==
    ASSUME NEW c \in Seq(Byte), NEW from \in Int
    PROVE  InvalidLines(c, from) \in Nat
<1>1. {i \in LineEnds(c, from) :
         ~RecordEndsAt(c, from, i) /\ ~BlankEndsAt(c, from, i)} \subseteq Newlines(c)
  BY DEF LineEnds
<1>2. QED BY <1>1, SubsetOfNewlines DEF InvalidLines

LEMMA TailLengthType ==
    ASSUME NEW c \in Seq(Byte), NEW from \in Int
    PROVE  TailLength(c, from) \in Nat
<1>1. CASE LineEnds(c, from) = {}
  BY <1>1 DEF TailLength
<1>2. CASE LineEnds(c, from) # {}
  <2>1. LineEnds(c, from) \subseteq 0 .. Len(c)
    BY DEF LineEnds, Newlines
  <2>2. PICK i \in LineEnds(c, from) : \A j \in LineEnds(c, from) : j <= i
    <3>1. Len(c) \in Nat
      OBVIOUS
    <3>2. QED BY <1>2, <2>1, <3>1, LargestNatural
  <2>3. DEFINE Rest(t) == /\ Len(c) - t \in LineEnds(c, from)
                          /\ \A j \in LineEnds(c, from) : j <= Len(c) - t
  <2>4. \E t \in 0 .. Len(c) : Rest(t)
    <3>1. Len(c) - i \in 0 .. Len(c) /\ Len(c) - (Len(c) - i) = i
      BY <2>1, <2>2
    <3>2. QED BY <3>1, <2>2
  <2>5. TailLength(c, from) = CHOOSE t \in 0 .. Len(c) : Rest(t)
    BY <1>2 DEF TailLength
  <2>6. TailLength(c, from) \in 0 .. Len(c)
    <3> HIDE DEF Rest
    <3> QED BY <2>4, <2>5
  <2>7. QED BY <2>6
<1>3. QED BY <1>1, <1>2

LEMMA SessionIdType ==
    ASSUME NEW c \in Seq(Byte), NEW from \in Int, NEW fallback
    PROVE  SessionId(c, from, fallback) \in {SessionOf[r] : r \in Record} \cup {fallback}
<1> DEFINE named == {i \in LineEnds(c, from) :
                        /\ RecordEndsAt(c, from, i)
                        /\ SessionOf[c[i - 1]] # NoSession}
<1>1. CASE named = {}
  BY <1>1 DEF SessionId
<1>2. CASE named # {}
  <2>1. named \subseteq 0 .. Len(c)
    BY DEF LineEnds, Newlines
  <2>2. \E i \in named : \A j \in named : j <= i
    <3>1. Len(c) \in Nat
      OBVIOUS
    <3>2. HIDE DEF named
    <3>3. QED BY <1>2, <2>1, <3>1, LargestNatural
  <2>3. DEFINE last == CHOOSE i \in named : \A j \in named : j <= i
  <2>4. last \in named
    BY <2>2
  <2>5. c[last - 1] \in Record
    BY <2>4 DEF RecordEndsAt
  <2>6. SessionId(c, from, fallback) = SessionOf[c[last - 1]]
    BY <1>2 DEF SessionId
  <2>7. QED BY <2>5, <2>6
<1>3. QED BY <1>1, <1>2

-----------------------------------------------------------------------------
(* Types *)

Visiting == pc \in {"stat", "hash", "plan", "open", "read", "parse", "persist"}
Planned == pc \in {"open", "read", "parse", "persist"}

Scanned == pc \in {"parse", "persist"}

\* A visit is of some file, a resume has a row to resume from, and a scan
\* has found a session.
VisitTyped ==
    /\ Visiting => cur \in File
    /\ Planned /\ plan.action = "resume" => cursor[cur] # NoRow
    /\ Scanned => scan.sid \in Session

TypeInv == TypeOK /\ VisitTyped

\* TypeOK by the parts of the state that steps change together.
TreeTyped ==
    /\ content \in [File -> Seq(Byte)]
    /\ present \subseteq File
    /\ mtime \in [File -> Nat]
    /\ fresh \subseteq File
    /\ clock \in Nat

StoreTyped ==
    /\ cursor \in [File -> CursorRow \cup {NoRow}]
    /\ events \in [File -> SUBSET Event]
    /\ obs \subseteq Observation
    /\ usage \subseteq Session

ControlTyped ==
    /\ pc \in {"idle", "discard", "sweep", "pick", "stat", "hash", "plan",
               "open", "read", "parse", "persist"}
    /\ mode \in {"source", "file", "rebuild"}
    /\ phase \in {"skip", "ingest"}
    /\ todo \subseteq Nat \X File
    /\ cur \in File \cup {NoFile}
    /\ done \in Nat
    /\ ops \in Nat

VisitDataTyped ==
    /\ facts \in [size : Nat, mtime : Nat, sha : Seq(Byte)]
    /\ plan \in [action : {"none", "parse", "resume", "reparse"},
                 start : Int, replace : BOOLEAN]
    /\ scan \in [size : Nat, new : Int, tail : BOOLEAN, found : BOOLEAN,
                 errors : Nat, events : SUBSET Event,
                 sid : Session \cup {NoSession}, norm : SUBSET Event]

LEMMA TypeParts == TypeOK <=> TreeTyped /\ StoreTyped /\ ControlTyped /\ VisitDataTyped
BY DEF TypeOK, TreeTyped, StoreTyped, ControlTyped, VisitDataTyped

LEMMA TypePartsNext ==
    TypeOK' <=> TreeTyped' /\ StoreTyped' /\ ControlTyped' /\ VisitDataTyped'
BY DEF TypeOK, TreeTyped, StoreTyped, ControlTyped, VisitDataTyped

LEMMA Frames ==
    /\ TreeTyped /\ UNCHANGED tree => TreeTyped'
    /\ StoreTyped /\ UNCHANGED db => StoreTyped'
    /\ VisitDataTyped /\ UNCHANGED <<facts, plan, scan>> => VisitDataTyped'
BY DEF TreeTyped, StoreTyped, VisitDataTyped, tree, db

-----------------------------------------------------------------------------
(***************************************************************************)
(* Types of the helpers.                                                    *)
(***************************************************************************)
LEMMA IdentityHashType ==
    ASSUME NEW c \in Seq(Byte), NEW n \in Nat
    PROVE  /\ IdentityHash(c, n) \in Seq(Byte)
           /\ HasPrefix(c, IdentityHash(c, n))
<1>1. (IF n < Len(c) THEN n ELSE Len(c)) \in 0 .. Len(c)
  OBVIOUS
<1>2. PICK k \in 0 .. Len(c) : IdentityHash(c, n) = SubSeq(c, 1, k)
  BY <1>1 DEF IdentityHash
<1>3. /\ SubSeq(c, 1, k) \in Seq(Byte)
      /\ Len(SubSeq(c, 1, k)) = k
      /\ \A i \in 1 .. k : SubSeq(c, 1, k)[i] = c[i]
  BY <1>2
<1>4. QED BY <1>2, <1>3 DEF HasPrefix

LEMMA NextErrorRunsType ==
    ASSUME NEW row \in CursorRow \cup {NoRow}, NEW errors
    PROVE  NextErrorRuns(row, errors) \in 0 .. AlarmRuns
<1> USE IngestAssumption
<1>1. CASE row = NoRow
  BY <1>1 DEF NextErrorRuns
<1>2. CASE row # NoRow
  <2>1. row.errorRuns \in 0 .. AlarmRuns
    BY <1>2 DEF CursorRow
  <2>2. QED BY <1>2, <2>1 DEF NextErrorRuns
<1>3. QED BY <1>1, <1>2

LEMMA UpsertType ==
    ASSUME NEW row \in CursorRow \cup {NoRow}, NEW sid \in Session,
           NEW new \in Int, NEW errors \in Nat, TypeOK
    PROVE  Upsert(row, sid, new, errors) \in CursorRow
<1>1. NextErrorRuns(row, errors) \in 0 .. AlarmRuns
  BY NextErrorRunsType
<1>2. facts.sha \in Seq(Byte) /\ facts.size \in Nat /\ facts.mtime \in Nat
  BY DEF TypeOK
<1>3. QED BY <1>1, <1>2 DEF Upsert, CursorRow

LEMMA IdleType ==
    ASSUME NEW row \in CursorRow
    PROVE  /\ Idle(row) \in CursorRow
           /\ Idle(row).off = row.off
           /\ Idle(row).sha = row.sha
           /\ Idle(row).sid = row.sid
<1>1. \A errors : NextErrorRuns(row, errors) \in 0 .. AlarmRuns
  BY NextErrorRunsType
<1>2. (IF row.off < row.size THEN 1 ELSE row.errors) \in Nat
  BY DEF CursorRow
<1>3. QED BY <1>1, <1>2 DEF Idle, CursorRow

LEMMA PlanIngestType ==
    ASSUME NEW row \in CursorRow \cup {NoRow}, NEW fs, NEW c
    PROVE  LET p == PlanIngest(row, fs, c)
           IN  /\ p \in [action : {"none", "parse", "resume", "reparse"},
                         start : Int, replace : BOOLEAN]
               /\ p.action = "resume" => row # NoRow
<1>1. row # NoRow => row.off \in Int
  BY DEF CursorRow
<1>2. QED BY <1>1 DEF PlanIngest

\* A producer's write leaves a sequence of bytes.
LEMMA WriteType ==
    ASSUME NEW f \in File, NEW c \in Seq(Byte), Write(f, c), TreeTyped,
           present' \subseteq File
    PROVE  TreeTyped'
BY DEF Write, TreeTyped

LEMMA WrittenBytes ==
    ASSUME TreeTyped, NEW f \in File
    PROVE  /\ \A b \in Chunk : content[f] \o b \in Seq(Byte)
           /\ Rewrite \subseteq Seq(Byte)
           /\ \A n \in 0 .. Len(content[f]) - 1 : SubSeq(content[f], 1, n) \in Seq(Byte)
<1>1. content[f] \in Seq(Byte) /\ Chunk \subseteq Seq(Byte) /\ Rewrite \subseteq Seq(Byte)
  BY IngestAssumption DEF TreeTyped
<1>2. \A b \in Chunk : content[f] \o b \in Seq(Byte)
  BY <1>1
<1>3. \A n \in 0 .. Len(content[f]) - 1 : SubSeq(content[f], 1, n) \in Seq(Byte)
  BY <1>1
<1>4. QED BY <1>1, <1>2, <1>3

\* What a visit leaves behind when it ends.
LEMMA EndVisitType ==
    ASSUME EndVisit
    PROVE  VisitDataTyped' /\ phase' = "skip" /\ cur' = NoFile
BY DEF VisitDataTyped, EndVisit, NoFacts, NoPlan, NoScan

-----------------------------------------------------------------------------
(***************************************************************************)
(* Type correctness.                                                        *)
(***************************************************************************)
LEMMA InitTypeInv == Init => TypeInv
<1> SUFFICES ASSUME Init PROVE TypeInv
  OBVIOUS
<1>1. TreeTyped
  BY IngestAssumption DEF Init, TreeTyped
<1>2. StoreTyped
  BY DEF Init, StoreTyped
<1>3. ControlTyped /\ VisitTyped
  BY DEF Init, ControlTyped, VisitTyped, Visiting, Planned, Scanned
<1>4. VisitDataTyped
  BY DEF Init, VisitDataTyped, NoFacts, NoPlan, NoScan
<1>5. QED BY <1>1, <1>2, <1>3, <1>4, TypeParts DEF TypeInv

LEMMA ProducerTypeInv == TypeInv /\ Producer => TypeInv'
<1> SUFFICES ASSUME TypeInv, NEW f \in File,
                    Extend(f) \/ Replace(f) \/ Remove(f) \/ Restore(f) \/ Settle(f)
             PROVE  TypeInv'
  BY DEF Producer
<1>1. TreeTyped /\ StoreTyped /\ ControlTyped /\ VisitDataTyped /\ VisitTyped
  BY TypeParts DEF TypeInv
<1>2. TreeTyped'
  <2>1. CASE Extend(f)
    <3>1. PICK b \in Chunk : Write(f, content[f] \o b)
      BY <2>1 DEF Extend
    <3>2. content[f] \o b \in Seq(Byte)
      BY <1>1, WrittenBytes
    <3>3. present' \subseteq File
      BY <1>1, <2>1 DEF Extend, TreeTyped
    <3>4. QED BY <1>1, <3>1, <3>2, <3>3, WriteType
  <2>2. CASE Replace(f)
    <3>1. PICK c \in Rewrite \cup {SubSeq(content[f], 1, n) : n \in 0 .. Len(content[f]) - 1} :
             Write(f, c)
      BY <2>2 DEF Replace
    <3>2. c \in Seq(Byte)
      BY <1>1, WrittenBytes
    <3>3. present' \subseteq File
      BY <1>1, <2>2 DEF Replace, TreeTyped
    <3>4. QED BY <1>1, <3>1, <3>2, <3>3, WriteType
  <2>3. CASE Remove(f)
    BY <1>1, <2>3 DEF Remove, TreeTyped
  <2>4. CASE Restore(f)
    BY <1>1, <2>4 DEF Restore, TreeTyped
  <2>5. CASE Settle(f)
    BY <1>1, <2>5 DEF Settle, TreeTyped
  <2>6. QED BY <2>1, <2>2, <2>3, <2>4, <2>5
<1>3. UNCHANGED <<db, pc, mode, todo, done, visit, ops>>
  BY DEF Extend, Replace, Remove, Restore, Settle
<1>4. StoreTyped' /\ VisitDataTyped'
  BY <1>1, <1>3, Frames DEF visit
<1>5. ControlTyped' /\ VisitTyped'
  BY <1>1, <1>3 DEF ControlTyped, VisitTyped, Visiting, Planned, Scanned, visit, db
<1>6. QED BY <1>2, <1>4, <1>5, TypePartsNext DEF TypeInv

LEMMA StartTypeInv ==
    ASSUME TypeInv, StartSource \/ StartRebuild \/ \E f \in File : StartFile(f)
    PROVE  TypeInv'
<1>1. TreeTyped /\ StoreTyped /\ ControlTyped /\ VisitDataTyped
  BY TypeParts DEF TypeInv
<1>2. \A S \in SUBSET File : Settled(S) \subseteq Nat \X File
  BY <1>1 DEF Settled, TreeTyped
<1>3. /\ UNCHANGED <<tree, db, done, visit>>
      /\ todo' \subseteq Nat \X File
      /\ mode' \in {"source", "file", "rebuild"}
      /\ pc' \in {"sweep", "discard"}
      /\ ops' \in Nat
  <2>1. Settled(File) \subseteq Nat \X File /\ \A f \in File : Settled({f}) \subseteq Nat \X File
    BY <1>2
  <2>2. ops \in Nat
    BY <1>1 DEF ControlTyped
  <2>3. CASE StartSource
    BY <2>1, <2>2, <2>3 DEF StartSource
  <2>4. CASE StartRebuild
    BY <2>1, <2>2, <2>4 DEF StartRebuild
  <2>5. ASSUME NEW f \in File, StartFile(f) 
                 PROVE  /\ UNCHANGED <<tree, db, done, visit>>
                        /\ todo' \subseteq Nat \X File
                        /\ mode' \in {"source", "file", "rebuild"}
                        /\ pc' \in {"sweep", "discard"}
                        /\ ops' \in Nat
    BY <2>1, <2>2, <2>5 DEF StartFile
  <2>6. QED BY <2>3, <2>4, <2>5
<1>4. TreeTyped' /\ StoreTyped' /\ VisitDataTyped'
  BY <1>1, <1>3, Frames DEF visit
<1>5. ControlTyped' /\ VisitTyped'
  BY <1>1, <1>3 DEF ControlTyped, VisitTyped, Visiting, Planned, Scanned, visit
<1>6. QED BY <1>4, <1>5, TypePartsNext DEF TypeInv

\* The command ends, whatever the cause.
LEMMA StopTypeInv == TypeInv /\ Stop /\ ops' \in Nat => TypeInv'
<1> SUFFICES ASSUME TypeInv, Stop, ops' \in Nat PROVE TypeInv'
  OBVIOUS
<1>1. TreeTyped /\ StoreTyped /\ ControlTyped
  BY TypeParts DEF TypeInv
<1>2. TreeTyped' /\ StoreTyped'
  BY <1>1, Frames DEF Stop
<1>3. VisitDataTyped' /\ phase' = "skip" /\ cur' = NoFile
  BY EndVisitType DEF Stop
<1>4. ControlTyped' /\ VisitTyped'
  BY <1>1, <1>3 DEF Stop, ControlTyped, VisitTyped, Visiting, Planned, Scanned
<1>5. QED BY <1>2, <1>3, <1>4, TypePartsNext DEF TypeInv

LEMMA RunTypeInv ==
    ASSUME TypeInv, Discard \/ MarkMissing \/ Pick \/ EndRun
    PROVE  TypeInv'
<1>1. TreeTyped /\ StoreTyped /\ ControlTyped /\ VisitDataTyped
  BY TypeParts DEF TypeInv
<1>2. UNCHANGED <<tree, facts, plan, scan>>
  BY DEF Discard, MarkMissing, Pick, EndRun, visit
<1>3. TreeTyped' /\ VisitDataTyped'
  BY <1>1, <1>2, Frames
<1>4. StoreTyped'
  <2>1. CASE Discard
    BY <2>1 DEF Discard, StoreTyped
  <2>2. CASE MarkMissing
    <3>1. \A f \in File : cursor'[f] \in CursorRow \cup {NoRow}
      BY <1>1, <2>2 DEF MarkMissing, StoreTyped, CursorRow
    <3>2. cursor' \in [File -> CursorRow \cup {NoRow}]
      BY <2>2, <3>1 DEF MarkMissing
    <3>3. QED BY <1>1, <2>2, <3>2 DEF MarkMissing, StoreTyped
  <2>3. CASE Pick \/ EndRun
    BY <1>1, <2>3, Frames DEF Pick, EndRun
  <2>4. QED BY <2>1, <2>2, <2>3
<1>5. ControlTyped'
  BY <1>1 DEF Discard, MarkMissing, Pick, Newest, EndRun, ControlTyped, visit
<1>6. VisitTyped'
  BY <1>1 DEF Discard, MarkMissing, Pick, Newest, EndRun, ControlTyped, VisitTyped,
      Visiting, Planned, Scanned
<1>7. QED BY <1>3, <1>4, <1>5, <1>6, TypePartsNext DEF TypeInv

\* The steps of a visit up to its commit leave tree and database alone.
LEMMA LookTypeInv ==
    ASSUME TypeInv, Stat \/ Hash \/ DoNotSkip \/ Plan \/ Open
    PROVE  TypeInv'
<1>1. TreeTyped /\ StoreTyped /\ ControlTyped /\ VisitDataTyped
  BY TypeParts DEF TypeInv
<1>2. UNCHANGED <<tree, db, mode, todo, done, cur, ops>>
  BY DEF Stat, Hash, DoNotSkip, Plan, Open
<1>3. TreeTyped' /\ StoreTyped'
  BY <1>1, <1>2, Frames
<1>4. cur \in File
  BY DEF Stat, Hash, DoNotSkip, Plan, Open, TypeInv, VisitTyped, Visiting
<1>5. content[cur] \in Seq(Byte) /\ Len(content[cur]) \in Nat /\ mtime[cur] \in Nat
  <2>1. content[cur] \in Seq(Byte) /\ mtime[cur] \in Nat
    BY <1>1, <1>4 DEF TreeTyped
  <2>2. QED BY <2>1
<1>6. ControlTyped'
  BY <1>1, <1>2 DEF Stat, Hash, DoNotSkip, Plan, Open, ControlTyped
<1>7. VisitDataTyped' /\ VisitTyped'
  <2>1. CASE Stat
    <3>1. VisitDataTyped'
      BY <1>1, <1>5, <2>1 DEF Stat, VisitDataTyped
    <3>2. VisitTyped'
      BY <1>2, <1>4, <2>1 DEF Stat, VisitTyped, Visiting, Planned, Scanned
    <3>3. QED BY <3>1, <3>2
  <2>2. CASE Hash
    <3>1. IdentityHash(content[cur], PrefixBytes) \in Seq(Byte)
      BY <1>5, IngestAssumption, IdentityHashType
    <3>2. QED BY <1>1, <1>2, <1>4, <2>2, <3>1 DEF Hash, VisitDataTyped, VisitTyped, Visiting, Planned, Scanned
  <2>3. CASE DoNotSkip
    BY <1>1, <1>2, <1>4, <2>3 DEF DoNotSkip, VisitDataTyped, VisitTyped, Visiting, Planned, Scanned
  <2>4. CASE Plan
    <3>1. cursor[cur] \in CursorRow \cup {NoRow} /\ cursor' = cursor
      BY <1>1, <1>2, <1>4 DEF StoreTyped, db
    <3>2. /\ plan' \in [action : {"none", "parse", "resume", "reparse"},
                        start : Int, replace : BOOLEAN]
          /\ plan'.action = "resume" => cursor'[cur] # NoRow
      BY <2>4, <3>1, PlanIngestType DEF Plan
    <3>3. VisitDataTyped'
      BY <1>1, <2>4, <3>2 DEF Plan, VisitDataTyped
    <3>4. VisitTyped'
      BY <1>2, <1>4, <2>4, <3>2 DEF Plan, VisitTyped, Visiting, Planned, Scanned
    <3>5. QED BY <3>3, <3>4
  <2>5. CASE Open
    <3>1. VisitDataTyped'
      BY <1>1, <1>5, <2>5 DEF Open, VisitDataTyped
    <3>2. VisitTyped'
      BY <1>2, <1>4, <2>5 DEF Open, TypeInv, VisitTyped, Visiting, Planned, Scanned, db
    <3>3. QED BY <3>1, <3>2
  <2>6. QED BY <2>1, <2>2, <2>3, <2>4, <2>5
<1>8. QED BY <1>3, <1>6, <1>7, TypePartsNext DEF TypeInv

\* What one pass over the file yields.
LEMMA ReadTypeInv ==
    ASSUME TypeInv, Read
    PROVE  TypeInv'
<1> DEFINE c == content[cur]
           fallback == IF plan.action = "resume" THEN cursor[cur].sid ELSE Stem[cur]
           tail == TailLength(c, plan.start)
<1>1. TreeTyped /\ StoreTyped /\ ControlTyped /\ VisitDataTyped
  BY TypeParts DEF TypeInv
<1>2. cur \in File /\ (plan.action = "resume" => cursor[cur] # NoRow)
  BY DEF Read, TypeInv, VisitTyped, Visiting, Planned, Scanned
<1>3. c \in Seq(Byte) /\ plan.start \in Int /\ scan.size \in Nat
  BY <1>1, <1>2 DEF TreeTyped, VisitDataTyped
<1>4. tail \in Nat /\ NewOffset(scan.size, tail) \in Int
  <2>1. tail \in Nat
    BY <1>3, TailLengthType
  <2> HIDE DEF tail
  <2>2. QED BY <1>3, <2>1 DEF NewOffset
<1>5. InvalidLines(c, plan.start) \in Nat
  BY <1>3, InvalidLinesType
<1>6. Events(c, plan.start, Len(c)) \in SUBSET Event
  <2>1. \A e \in Events(c, plan.start, Len(c)) : e \in [line : Nat, rec : Record]
    BY <1>3, EventsType
  <2>2. QED BY <2>1 DEF Event
<1>7. SessionId(c, plan.start, fallback) \in Session
  <2>1. fallback \in Session
    BY <1>1, <1>2 DEF Session, StoreTyped, CursorRow
  <2>2. SessionId(c, plan.start, fallback) \in {SessionOf[r] : r \in Record} \cup {fallback}
    BY <1>3, SessionIdType
  <2>3. QED BY <2>1, <2>2 DEF Session
<1>8. scan' = [scan EXCEPT
                !.new = NewOffset(scan.size, tail),
                !.tail = tail > 0,
                !.found = LineEnds(c, plan.start) # {},
                !.errors = InvalidLines(c, plan.start),
                !.events = Events(c, plan.start, Len(c)),
                !.sid = SessionId(c, plan.start, fallback)]
  BY DEF Read
<1>9. (tail > 0) \in BOOLEAN /\ (LineEnds(c, plan.start) # {}) \in BOOLEAN
  OBVIOUS
<1> HIDE DEF c, fallback, tail
<1>10. VisitDataTyped'
  <2>1. scan \in [size : Nat, new : Int, tail : BOOLEAN, found : BOOLEAN,
                  errors : Nat, events : SUBSET Event,
                  sid : Session \cup {NoSession}, norm : SUBSET Event]
    BY <1>1 DEF VisitDataTyped
  <2>2. scan' \in [size : Nat, new : Int, tail : BOOLEAN, found : BOOLEAN,
                   errors : Nat, events : SUBSET Event,
                   sid : Session \cup {NoSession}, norm : SUBSET Event]
    BY <1>4, <1>5, <1>6, <1>7, <1>8, <1>9, <2>1
  <2>3. QED BY <1>1, <2>2 DEF Read, VisitDataTyped
<1>11. TreeTyped' /\ StoreTyped'
  BY <1>1, Frames DEF Read
<1>12. ControlTyped' /\ VisitTyped'
  <2>1. scan'.sid \in Session
    BY <1>1, <1>7, <1>8 DEF VisitDataTyped
  <2>2. QED BY <1>1, <1>2, <2>1
        DEF Read, ControlTyped, VisitTyped, Visiting, Planned, Scanned, db
<1>13. QED BY <1>10, <1>11, <1>12, TypePartsNext DEF TypeInv

LEMMA ParseTypeInv ==
    ASSUME TypeInv, Parse
    PROVE  TypeInv'
<1>1. TreeTyped /\ StoreTyped /\ ControlTyped /\ VisitDataTyped
  BY TypeParts DEF TypeInv
<1>2. cur \in File /\ (plan.action = "resume" => cursor[cur] # NoRow)
  BY DEF Parse, TypeInv, VisitTyped, Visiting, Planned, Scanned
<1>3. content[cur] \in Seq(Byte) /\ scan.new \in Int
  BY <1>1, <1>2 DEF TreeTyped, VisitDataTyped
<1>4. Events(content[cur], 0, scan.new) \in SUBSET Event
  <2>1. \A e \in Events(content[cur], 0, scan.new) : e \in [line : Nat, rec : Record]
    BY <1>3, EventsType
  <2>2. QED BY <2>1 DEF Event
<1>5. VisitDataTyped'
  BY <1>1, <1>4 DEF Parse, VisitDataTyped
<1>6. TreeTyped' /\ StoreTyped'
  BY <1>1, Frames DEF Parse
<1>7. ControlTyped' /\ VisitTyped'
  <2>1. scan'.sid = scan.sid /\ scan.sid \in Session
    BY <1>1 DEF Parse, VisitDataTyped, TypeInv, VisitTyped, Scanned
  <2>2. QED BY <1>1, <1>2, <2>1
        DEF Parse, ControlTyped, VisitTyped, Visiting, Planned, Scanned, db
<1>8. QED BY <1>5, <1>6, <1>7, TypePartsNext DEF TypeInv

\* The rows of a commit.
LEMMA PersistStoreType ==
    ASSUME TypeInv, Persist
    PROVE  StoreTyped'
<1>1. StoreTyped /\ VisitDataTyped
  BY TypeParts DEF TypeInv
<1>2. cur \in File /\ scan.sid \in Session
  BY DEF Persist, TypeInv, VisitTyped, Visiting, Scanned
<1>3. /\ cursor[cur] \in CursorRow \cup {NoRow}
      /\ scan.new \in Int /\ scan.errors \in Nat
      /\ scan.events \in SUBSET Event /\ scan.norm \in SUBSET Event
      /\ events[cur] \in SUBSET Event
  BY <1>1, <1>2 DEF StoreTyped, VisitDataTyped
<1>4. cursor' \in [File -> CursorRow \cup {NoRow}]
  <2>1. scan.errors + (IF scan.tail THEN 1 ELSE 0) \in Nat
    BY <1>3
  <2>2. Upsert(cursor[cur], scan.sid, scan.new,
               scan.errors + IF scan.tail THEN 1 ELSE 0) \in CursorRow
    BY <1>2, <1>3, <2>1, UpsertType DEF TypeInv
  <2>3. QED BY <1>1, <2>2 DEF Persist, StoreTyped
<1>5. KeptEvents \cup scan.events \in SUBSET Event
  BY <1>3 DEF KeptEvents
<1>6. events' \in [File -> SUBSET Event]
  BY <1>1, <1>5 DEF Persist, StoreTyped
<1>7. Derived \subseteq Event
  BY <1>3, <1>5 DEF Derived, Capped
<1>8. \A e \in Derived :
        [sid |-> scan.sid, path |-> cur, line |-> e.line, rec |-> e.rec] \in Observation
  BY <1>2, <1>7 DEF Event, Observation
<1>9. obs' \subseteq Observation
  BY <1>1, <1>8 DEF Persist, StoreTyped
<1>10. usage' \subseteq Session
  BY <1>1, <1>2 DEF Persist, KeptUsage, Measured, StoreTyped
<1>11. QED BY <1>4, <1>6, <1>9, <1>10 DEF StoreTyped

\* The steps that end a visit and move on to the next file.
LEMMA CommitTypeInv ==
    ASSUME TypeInv, Skip \/ Refresh \/ Persist
    PROVE  TypeInv'
<1>1. TreeTyped /\ StoreTyped /\ ControlTyped /\ VisitDataTyped
  BY TypeParts DEF TypeInv
<1>2. /\ UNCHANGED <<tree, mode, todo, ops>>
      /\ pc' = "pick"
      /\ EndVisit
      /\ done' \in Nat
  BY <1>1 DEF Skip, Refresh, Persist, ControlTyped
<1>3. cur \in File
  BY DEF Skip, Refresh, Persist, TypeInv, VisitTyped, Visiting
<1>4. cursor[cur] \in CursorRow \cup {NoRow} /\ scan.new \in Int
  BY <1>1, <1>3 DEF StoreTyped, VisitDataTyped
<1>5. StoreTyped'
  <2>1. CASE Skip
    <3>1. Idle(cursor[cur]) \in CursorRow
      BY <1>4, <2>1, IdleType DEF Skip
    <3>2. cursor' \in [File -> CursorRow \cup {NoRow}]
      BY <1>1, <1>3, <2>1, <3>1 DEF Skip, StoreTyped
    <3>3. QED BY <1>1, <2>1, <3>2 DEF Skip, StoreTyped
  <2>2. CASE Refresh
    <3>1. cursor[cur] # NoRow
      BY <2>2 DEF Refresh, NothingNew, TypeInv, VisitTyped, Planned
    <3>2. cursor[cur].sid \in Session /\ cursor[cur].errors \in Nat
      BY <1>4, <3>1 DEF CursorRow
    <3>3. (IF RegionEmpty THEN cursor[cur].errors ELSE 1) \in Nat
      BY <3>2
    <3>4. Upsert(cursor[cur], cursor[cur].sid, scan.new,
                 IF RegionEmpty THEN cursor[cur].errors ELSE 1) \in CursorRow
      BY <1>4, <3>2, <3>3, UpsertType DEF TypeInv
    <3>5. cursor' \in [File -> CursorRow \cup {NoRow}]
      BY <1>1, <1>3, <2>2, <3>4 DEF Refresh, StoreTyped
    <3>6. QED BY <1>1, <2>2, <3>5 DEF Refresh, StoreTyped
  <2>3. CASE Persist
    BY <2>3, PersistStoreType
  <2>4. QED BY <2>1, <2>2, <2>3
<1>6. VisitDataTyped' /\ phase' = "skip" /\ cur' = NoFile
  BY <1>2, EndVisitType
<1>7. TreeTyped'
  BY <1>1, <1>2, Frames
<1>8. ControlTyped' /\ VisitTyped'
  BY <1>1, <1>2, <1>6 DEF ControlTyped, VisitTyped, Visiting, Planned, Scanned
<1>9. QED BY <1>5, <1>6, <1>7, <1>8, TypePartsNext DEF TypeInv

LEMMA NextTypeInv == TypeInv /\ [Next]_vars => TypeInv'
<1> SUFFICES ASSUME TypeInv, [Next]_vars PROVE TypeInv'
  OBVIOUS
<1>1. ops \in Nat
  BY DEF TypeInv, TypeOK
<1>2. CASE UNCHANGED vars
  BY <1>2 DEF vars, tree, db, visit, TypeInv, TypeOK, VisitTyped, Visiting, Planned, Scanned
<1>3. CASE Producer
  BY <1>3, ProducerTypeInv
<1>4. CASE StartSource \/ StartRebuild \/ \E f \in File : StartFile(f)
  BY <1>4, StartTypeInv
<1>5. CASE Discard \/ MarkMissing \/ Pick \/ EndRun
  BY <1>5, RunTypeInv
<1>6. CASE Stat \/ Hash \/ DoNotSkip \/ Plan \/ Open
  BY <1>6, LookTypeInv
<1>7. CASE Read
  BY <1>7, ReadTypeInv
<1>8. CASE Parse
  BY <1>8, ParseTypeInv
<1>9. CASE Skip \/ Refresh \/ Persist
  BY <1>9, CommitTypeInv
<1>10. CASE Vanished \/ StartRefused \/ PersistFails \/ Crash
  <2>1. Stop /\ ops' \in Nat
    BY <1>1, <1>10 DEF Vanished, StartRefused, PersistFails, Crash
  <2>2. QED BY <2>1, StopTypeInv
<1>11. QED
  BY <1>2, <1>3, <1>4, <1>5, <1>6, <1>7, <1>8, <1>9, <1>10 DEF Next, Step, Operator

THEOREM IngestTypeInv == Spec => []TypeInv
BY InitTypeInv, NextTypeInv, PTL DEF Spec

\* Every variable of ingest stays in its type, whatever the producers, the
\* operator and crashes do.
THEOREM IngestTypeOK == Spec => []TypeOK
<1>1. TypeInv => TypeOK
  BY DEF TypeInv
<1>2. QED BY <1>1, IngestTypeInv, PTL

-----------------------------------------------------------------------------
(* The commits *)

\* A file without a row has no events.
NoRowNoEvents == \A f \in File : cursor[f] = NoRow => events[f] = {}

\* The digest the visit took is still that of the file.  If it is not, the
\* commit stores a row that does not cover the file, and promises nothing.
Live == HasPrefix(content[cur], facts.sha)

\* The plan in relation to the row it was made from.
PlanSound ==
    Planned =>
        /\ plan.action # "none"
        /\ plan.action = "parse" =>
             cursor[cur] = NoRow /\ plan.start = 0 /\ ~plan.replace
        /\ plan.action = "resume" =>
             plan.start = cursor[cur].off /\ ~plan.replace
        /\ plan.action = "reparse" => plan.start = 0 /\ plan.replace

\* A resume of a live file is a resume of the file its row describes.
ResumeSound ==
    Planned /\ Live /\ plan.action = "resume" =>
        /\ HasPrefix(content[cur], cursor[cur].sha)
        /\ pc # "open" => cursor[cur].off <= Len(content[cur])

\* The span of a live file ends where a scan of it would end, or earlier if
\* lines were appended since.
SpanSound ==
    /\ pc = "read" /\ Live =>
         plan.start \in 0 .. Len(content[cur]) /\ scan.size = Len(content[cur])
    /\ Scanned => (~scan.found => scan.events = {})
    /\ Scanned /\ Live =>
         /\ plan.start \in 0 .. Len(content[cur])
         /\ scan.new \in plan.start .. Len(content[cur])
         /\ Boundary(content[cur], scan.new)
         /\ scan.events = Events(content[cur], plan.start, scan.new)

VisitInv == PlanSound /\ ResumeSound /\ SpanSound

Committed == CursorOnLineBoundary /\ EventsAreCommittedLines

\* The inductive invariant.
CommitInv == TypeInv /\ NoRowNoEvents /\ Committed /\ VisitInv

-----------------------------------------------------------------------------
(***************************************************************************)
(* Sequences that agree up to an offset.                                    *)
(***************************************************************************)
LEMMA PrefixTransitive ==
    ASSUME NEW b \in Seq(Byte), NEW c \in Seq(Byte), NEW d \in Seq(Byte),
           HasPrefix(d, c), HasPrefix(c, b)
    PROVE  HasPrefix(d, b)
BY DEF HasPrefix

LEMMA SamePrefix ==
    ASSUME NEW c \in Seq(Byte), NEW d \in Seq(Byte), NEW n \in Nat,
           n <= Len(c), n <= Len(d), \A i \in 1 .. n : c[i] = d[i]
    PROVE  /\ Boundary(c, n) <=> Boundary(d, n)
           /\ Events(c, 0, n) = Events(d, 0, n)
<1> DEFINE p == SubSeq(d, 1, n)
<1>1. p \in Seq(Byte) /\ Len(p) = n /\ \A i \in 1 .. n : p[i] = d[i]
  OBVIOUS
<1> HIDE DEF p
<1>2. HasPrefix(c, p) /\ HasPrefix(d, p) /\ n \in 0 .. Len(p)
  BY <1>1 DEF HasPrefix
<1>3. (Boundary(c, n) <=> Boundary(p, n)) /\ (Boundary(d, n) <=> Boundary(p, n))
  BY <1>1, <1>2, ExtendKeepsLine
<1>4. Events(c, 0, n) = Events(p, 0, n) /\ Events(d, 0, n) = Events(p, 0, n)
  BY <1>1, <1>2, ExtendKeepsEvents
<1>5. QED BY <1>3, <1>4

\* An offset on a line boundary lies in the file.
LEMMA BoundaryInFile ==
    ASSUME NEW c \in Seq(Byte), NEW n \in Int, Boundary(c, n)
    PROVE  n \in 0 .. Len(c)
BY DEF Boundary

-----------------------------------------------------------------------------
(***************************************************************************)
(* The steps.                                                               *)
(***************************************************************************)
LEMMA InitCommitInv == Init => CommitInv
<1> SUFFICES ASSUME Init PROVE CommitInv
  OBVIOUS
<1>1. TypeInv
  BY InitTypeInv
<1>2. \A f \in File : cursor[f] = NoRow /\ events[f] = {}
  BY DEF Init
<1>3. NoRowNoEvents /\ Committed
  BY <1>2 DEF NoRowNoEvents, Committed, CursorOnLineBoundary, EventsAreCommittedLines, Covers
<1>4. VisitInv
  BY DEF Init, VisitInv, PlanSound, ResumeSound, SpanSound, Planned, Scanned
<1>5. QED BY <1>1, <1>3, <1>4 DEF CommitInv

LEMMA ConsumedBefore ==
    ASSUME NEW c \in Seq(Byte), NEW off \in Int, off <= Len(c)
    PROVE  1 .. off \subseteq Consumed(c, off)
BY DEF Consumed

\* A write leaves what is committed true of every file.
LEMMA WriteCommitted ==
    ASSUME CommitInv, NEW f \in File, NEW c \in Seq(Byte), Write(f, c), UNCHANGED db
    PROVE  NoRowNoEvents' /\ Committed'
<1>1. content \in [File -> Seq(Byte)] /\ content' = [content EXCEPT ![f] = c]
      /\ cursor' = cursor /\ events' = events
  BY DEF CommitInv, TypeInv, TypeOK, Write, db
<1>2. NoRowNoEvents'
  BY <1>1 DEF CommitInv, NoRowNoEvents
<1>3. SUFFICES ASSUME NEW g \in File, Covers(cursor[g], content'[g])
               PROVE  /\ Boundary(content'[g], cursor[g].off)
                      /\ events[g] = Events(content'[g], 0, cursor[g].off)
  BY <1>1, <1>2 DEF Committed, CursorOnLineBoundary, EventsAreCommittedLines
<1>4. CASE g # f
  <2>1. content'[g] = content[g]
    BY <1>1, <1>4
  <2>2. QED BY <1>3, <2>1 DEF CommitInv, Committed, CursorOnLineBoundary, EventsAreCommittedLines
<1>5. CASE g = f
  <2>1. content'[g] = c /\ content[g] \in Seq(Byte)
    BY <1>1, <1>5
  <2>2. Covers(cursor[g], content[g]) /\ \A i \in 1 .. cursor[g].off : c[i] = content[g][i]
    <3>1. /\ Covers(cursor[g], content[g])
          /\ \A i \in Consumed(content[g], cursor[g].off) : c[i] = content[g][i]
      BY <1>3, <1>5, <2>1 DEF Write, Visible
    <3>2. cursor[g].off \in Int /\ cursor[g].off <= Len(content[g])
      BY <3>1 DEF Covers, CommitInv, TypeInv, TypeOK, CursorRow
    <3>3. QED BY <2>1, <3>1, <3>2, ConsumedBefore
  <2>3. Boundary(content[g], cursor[g].off) /\ events[g] = Events(content[g], 0, cursor[g].off)
    BY <2>2 DEF CommitInv, Committed, CursorOnLineBoundary, EventsAreCommittedLines
  <2>4. cursor[g].off \in Int
    BY <2>2 DEF Covers, CommitInv, TypeInv, TypeOK, CursorRow
  <2>5. cursor[g].off \in 0 .. Len(content[g])
    BY <2>1, <2>3, <2>4, BoundaryInFile
  <2>6. cursor[g].off \in Nat /\ cursor[g].off <= Len(c) /\ cursor[g].off <= Len(content[g])
    BY <1>3, <2>1, <2>5 DEF Covers
  <2>7. /\ Boundary(c, cursor[g].off) <=> Boundary(content[g], cursor[g].off)
        /\ Events(c, 0, cursor[g].off) = Events(content[g], 0, cursor[g].off)
    BY <2>1, <2>2, <2>6, SamePrefix
  <2>8. QED BY <2>1, <2>3, <2>7
<1>6. QED BY <1>4, <1>5

\* A write during a visit is an append, or the visit is no longer live.
LEMMA WriteVisit ==
    ASSUME ~AppendRacesScan, CommitInv, NEW f \in File, NEW c \in Seq(Byte), Write(f, c),
           UNCHANGED <<db, pc, visit>>
    PROVE  VisitInv'
<1> DEFINE old == content[cur]
           now == content'[cur]
<1>1. /\ content \in [File -> Seq(Byte)] /\ content' = [content EXCEPT ![f] = c]
      /\ cursor' = cursor /\ pc' = pc /\ cur' = cur /\ facts' = facts
      /\ plan' = plan /\ scan' = scan
  BY DEF CommitInv, TypeInv, TypeOK, Write, db, visit
<1>2. PlanSound' /\ (Scanned => (~scan.found => scan.events = {}))
  BY <1>1 DEF CommitInv, VisitInv, PlanSound, SpanSound, Planned, Scanned
<1>3. SUFFICES ASSUME Planned, Live'
               PROVE  /\ plan.action = "resume" => HasPrefix(now, cursor[cur].sha)
                      /\ plan.action = "resume" /\ pc # "open" =>
                           cursor[cur].off <= Len(now)
                      /\ pc = "read" => plan.start \in 0 .. Len(now) /\ scan.size = Len(now)
                      /\ Scanned =>
                           /\ plan.start \in 0 .. Len(now)
                           /\ scan.new \in plan.start .. Len(now)
                           /\ Boundary(now, scan.new)
                           /\ scan.events = Events(now, plan.start, scan.new)
  BY <1>1, <1>2 DEF VisitInv, ResumeSound, SpanSound, Planned, Scanned, Live
<1>4. cur \in File
  BY <1>3 DEF CommitInv, TypeInv, VisitTyped, Visiting, Planned
<1>5. old \in Seq(Byte) /\ now \in Seq(Byte)
  BY <1>1, <1>4
<1>6. Live /\ HasPrefix(now, old) /\ (pc = "read" => now = old)
  <2>1. CASE cur = f
    <3>1. now = c
      BY <1>1, <1>4, <2>1
    <3>2. HasPrefix(c, facts.sha)
      BY <1>1, <1>3, <3>1 DEF Live
    <3>3. Live /\ HasPrefix(now, old)
      BY <1>3, <2>1, <3>1, <3>2 DEF Write, Visible, Hashed, Planned, Live
    <3>4. pc # "read"
      BY <2>1, <3>1, <3>3 DEF Write
    <3>5. QED BY <3>3, <3>4
  <2>2. CASE cur # f
    <3>1. now = old
      BY <1>1, <1>4, <2>2
    <3>2. QED BY <1>1, <1>3, <3>1 DEF Live, HasPrefix
  <2>3. QED BY <2>1, <2>2
<1>7. Len(old) \in Nat /\ Len(now) \in Nat /\ Len(old) <= Len(now)
  BY <1>5, <1>6 DEF HasPrefix
<1>8. ASSUME plan.action = "resume"
      PROVE  /\ HasPrefix(now, cursor[cur].sha)
             /\ pc # "open" => cursor[cur].off <= Len(now)
  <2>1. HasPrefix(old, cursor[cur].sha) /\ (pc # "open" => cursor[cur].off <= Len(old))
    BY <1>3, <1>6, <1>8 DEF CommitInv, VisitInv, ResumeSound
  <2>2. cursor[cur].sha \in Seq(Byte) /\ cursor[cur].off \in Int
    BY <1>3, <1>4, <1>8 DEF CommitInv, TypeInv, TypeOK, VisitTyped, CursorRow
  <2>3. HasPrefix(now, cursor[cur].sha)
    BY <1>5, <1>6, <2>1, <2>2, PrefixTransitive
  <2>4. QED BY <1>7, <2>1, <2>2, <2>3
<1>9. pc = "read" => plan.start \in 0 .. Len(now) /\ scan.size = Len(now)
  BY <1>6 DEF CommitInv, VisitInv, SpanSound
<1>10. ASSUME Scanned
       PROVE  /\ plan.start \in 0 .. Len(now)
              /\ scan.new \in plan.start .. Len(now)
              /\ Boundary(now, scan.new)
              /\ scan.events = Events(now, plan.start, scan.new)
  <2>1. /\ plan.start \in 0 .. Len(old)
        /\ scan.new \in plan.start .. Len(old)
        /\ Boundary(old, scan.new)
        /\ scan.events = Events(old, plan.start, scan.new)
    BY <1>6, <1>10 DEF CommitInv, VisitInv, SpanSound
  <2>2. plan.start \in Nat /\ scan.new \in 0 .. Len(old)
    BY <1>7, <2>1
  <2>3. Boundary(now, scan.new) /\ Events(now, plan.start, scan.new) = Events(old, plan.start, scan.new)
    BY <1>5, <1>6, <2>1, <2>2, ExtendKeepsLine, ExtendKeepsEvents
  <2>4. QED BY <1>7, <2>1, <2>3
<1>11. QED BY <1>8, <1>9, <1>10

\* A step that changes neither contents nor rows keeps what is committed.
LEMMA CommittedFrame ==
    ASSUME CommitInv, UNCHANGED <<content, cursor, events>>
    PROVE  NoRowNoEvents' /\ Committed'
BY DEF CommitInv, NoRowNoEvents, Committed, CursorOnLineBoundary, EventsAreCommittedLines

LEMMA ProducerCommitInv ==
    ASSUME ~AppendRacesScan, CommitInv, Producer
    PROVE  CommitInv'
<1>1. TypeInv'
  BY ProducerTypeInv DEF CommitInv
<1>2. PICK f \in File : Extend(f) \/ Replace(f) \/ Remove(f) \/ Restore(f) \/ Settle(f)
  BY DEF Producer
<1>3. TreeTyped /\ UNCHANGED <<db, pc, visit>>
  BY <1>2, TypeParts DEF Extend, Replace, Remove, Restore, Settle, CommitInv, TypeInv
<1>4. ASSUME NEW c \in Seq(Byte), Write(f, c)
      PROVE  NoRowNoEvents' /\ Committed' /\ VisitInv'
  BY <1>3, <1>4, WriteCommitted, WriteVisit
<1>5. CASE Extend(f)
  <2>1. PICK b \in Chunk : Write(f, content[f] \o b)
    BY <1>5 DEF Extend
  <2>2. QED BY <1>1, <1>3, <1>4, <2>1, WrittenBytes DEF CommitInv
<1>6. CASE Replace(f)
  <2>1. PICK c \in Rewrite \cup {SubSeq(content[f], 1, n) : n \in 0 .. Len(content[f]) - 1} :
           Write(f, c)
    BY <1>6 DEF Replace
  <2>2. c \in Seq(Byte)
    BY <1>3, WrittenBytes
  <2>3. QED BY <1>1, <1>4, <2>1, <2>2 DEF CommitInv
<1>7. CASE Remove(f) \/ Restore(f) \/ Settle(f)
  <2>1. UNCHANGED content
    BY <1>7 DEF Remove, Restore, Settle
  <2>2. NoRowNoEvents' /\ Committed'
    BY <1>3, <2>1, CommittedFrame DEF db
  <2>3. VisitInv'
    BY <1>3, <2>1 DEF CommitInv, VisitInv, PlanSound, ResumeSound, SpanSound, Planned,
       Scanned, Live, db, visit
  <2>4. QED BY <1>1, <2>2, <2>3 DEF CommitInv
<1>8. QED BY <1>2, <1>5, <1>6, <1>7

\* Outside a visit, VisitInv asks nothing.
LEMMA NoVisit == pc' \notin {"open", "read", "parse", "persist"} => VisitInv'
BY DEF VisitInv, PlanSound, ResumeSound, SpanSound, Planned, Scanned

\* Starting, ending and driving a run; a visit's stat and digest.
LEMMA RunCommitInv ==
    ASSUME CommitInv,
           \/ StartSource \/ StartRebuild \/ \E f \in File : StartFile(f)
           \/ Pick \/ EndRun \/ Stat \/ Hash \/ DoNotSkip
           \/ Stop
    PROVE  NoRowNoEvents' /\ Committed' /\ VisitInv'
<1>1. UNCHANGED <<content, cursor, events>>
  BY DEF StartSource, StartRebuild, StartFile, Pick, EndRun, Stat, Hash, DoNotSkip, Stop, tree, db
<1>2. pc' \notin {"open", "read", "parse", "persist"}
  BY DEF StartSource, StartRebuild, StartFile, Pick, EndRun, Stat, Hash, DoNotSkip, Stop
<1>3. QED BY <1>1, <1>2, CommittedFrame, NoVisit

\* The missing flag and an idle row's streak are not what the cursor covers.
LEMMA FlagKeepsRows ==
    ASSUME TypeInv, MarkMissing \/ Skip
    PROVE  /\ content' = content /\ events' = events
           /\ \A f \in File :
                /\ cursor[f] = NoRow <=> cursor'[f] = NoRow
                /\ cursor[f] # NoRow => /\ cursor'[f].off = cursor[f].off
                                        /\ cursor'[f].sha = cursor[f].sha
                                        /\ cursor'[f].sid = cursor[f].sid
                /\ Covers(cursor'[f], content[f]) => Covers(cursor[f], content[f])
<1>1. content' = content /\ events' = events
  BY DEF MarkMissing, Skip, tree
<1>2. \A f \in File : cursor[f] \in CursorRow \cup {NoRow}
  BY DEF TypeInv, TypeOK
<1>3. ASSUME NEW f \in File
      PROVE  /\ cursor[f] = NoRow <=> cursor'[f] = NoRow
             /\ cursor[f] # NoRow => /\ cursor'[f].off = cursor[f].off
                                     /\ cursor'[f].sha = cursor[f].sha
                                     /\ cursor'[f].sid = cursor[f].sid
  <2>1. CASE MarkMissing
    <3>1. CASE cursor[f] = NoRow
      BY <2>1, <3>1 DEF MarkMissing
    <3>2. CASE cursor[f] # NoRow
      <4>1. cursor[f] \in CursorRow
        BY <1>2, <3>2
      <4>2. cursor'[f] = [cursor[f] EXCEPT !.missing = f \notin present]
        BY <2>1, <3>2 DEF MarkMissing
      <4>3. /\ cursor'[f] \in CursorRow
            /\ cursor'[f].off = cursor[f].off /\ cursor'[f].sha = cursor[f].sha
            /\ cursor'[f].sid = cursor[f].sid
        BY <4>1, <4>2 DEF CursorRow
      <4>4. QED BY <3>2, <4>3, NoRowAssumption
    <3>3. QED BY <3>1, <3>2
  <2>2. CASE Skip
    <3>1. CASE f = cur
      <4>1. cursor[f] \in CursorRow /\ cursor'[f] = Idle(cursor[f])
        BY <1>2, <2>2, <3>1 DEF Skip, TypeInv, TypeOK
      <4>2. cursor[f] # NoRow /\ cursor'[f] # NoRow
        BY <4>1, IdleType, NoRowAssumption
      <4>3. QED BY <4>1, <4>2, IdleType
    <3>2. CASE f # cur
      BY <2>2, <3>2 DEF Skip, TypeInv, TypeOK
    <3>3. QED BY <3>1, <3>2
  <2>3. QED BY <2>1, <2>2
<1>4. \A f \in File : Covers(cursor'[f], content[f]) => Covers(cursor[f], content[f])
  BY <1>3 DEF Covers
<1>5. QED BY <1>1, <1>3, <1>4

LEMMA FlagCommitInv ==
    ASSUME CommitInv, Discard \/ MarkMissing \/ Skip
    PROVE  NoRowNoEvents' /\ Committed' /\ VisitInv'
<1>1. VisitInv'
  BY NoVisit DEF Discard, MarkMissing, Skip
<1>2. CASE Discard
  BY <1>1, <1>2 DEF Discard, NoRowNoEvents, Committed, CursorOnLineBoundary,
     EventsAreCommittedLines, Covers
<1>3. CASE MarkMissing \/ Skip
  <2>1. /\ content' = content /\ events' = events
        /\ \A f \in File : /\ cursor[f] = NoRow <=> cursor'[f] = NoRow
                           /\ Covers(cursor'[f], content[f]) =>
                                Covers(cursor[f], content[f]) /\ cursor'[f].off = cursor[f].off
    BY <1>3, FlagKeepsRows DEF CommitInv, Covers
  <2>2. NoRowNoEvents'
    BY <2>1 DEF CommitInv, NoRowNoEvents
  <2>3. Committed'
    BY <2>1 DEF CommitInv, Committed, CursorOnLineBoundary, EventsAreCommittedLines
  <2>4. QED BY <1>1, <2>2, <2>3
<1>4. QED BY <1>2, <1>3

\* plan_ingest resumes only on a file that still holds the digested bytes.
LEMMA PlanVisitInv ==
    ASSUME TypeInv, Plan
    PROVE  VisitInv'
<1> DEFINE row == cursor[cur]
           c == content[cur]
           current == IF Compared(row.size) = Compared(facts.size)
                      THEN facts.sha
                      ELSE IdentityHash(c, Compared(row.size))
<1>1. /\ cursor' = cursor /\ content' = content /\ cur' = cur /\ facts' = facts
      /\ pc' = "open" /\ plan' = PlanIngest(row, facts, c)
  BY DEF Plan, tree, db
<1>2. cur \in File
  BY DEF Plan, TypeInv, VisitTyped, Visiting
<1>3. row \in CursorRow \cup {NoRow} /\ c \in Seq(Byte)
  BY <1>2 DEF TypeInv, TypeOK
<1>4. plan' = IF row = NoRow
              THEN [action |-> "parse", start |-> 0, replace |-> FALSE]
              ELSE IF facts.size < row.off \/ current # row.sha
              THEN [action |-> "reparse", start |-> 0, replace |-> TRUE]
              ELSE [action |-> "resume", start |-> row.off, replace |-> FALSE]
  BY <1>1 DEF PlanIngest
<1>5. ASSUME row # NoRow, HasPrefix(c, facts.sha), current = row.sha
      PROVE  HasPrefix(c, row.sha)
  <2>1. CASE Compared(row.size) = Compared(facts.size)
    BY <1>5, <2>1
  <2>2. CASE Compared(row.size) # Compared(facts.size)
    <3>1. row.size \in Nat
      BY <1>3, <1>5 DEF CursorRow
    <3>2. Compared(row.size) \in Nat
      BY <3>1, IngestAssumption DEF Compared
    <3>3. HasPrefix(c, IdentityHash(c, Compared(row.size)))
      BY <1>3, <3>2, IdentityHashType
    <3>4. QED BY <1>5, <2>2, <3>3
  <2>3. QED BY <2>1, <2>2
<1> HIDE DEF row, c, current
<1>6. PlanSound'
  BY <1>1, <1>4 DEF PlanSound, Planned, row
<1>7. ResumeSound'
  <2>1. SUFFICES ASSUME Live', plan'.action = "resume"
                 PROVE  HasPrefix(c, row.sha)
    BY <1>1 DEF ResumeSound, row, c
  <2>2. row # NoRow /\ current = row.sha
    BY <1>4, <2>1
  <2>3. HasPrefix(c, facts.sha)
    BY <1>1, <2>1 DEF Live, c
  <2>4. QED BY <1>5, <2>2, <2>3
<1>8. SpanSound'
  BY <1>1 DEF SpanSound, Scanned
<1>9. QED BY <1>6, <1>7, <1>8 DEF VisitInv

LEMMA OpenVisitInv ==
    ASSUME CommitInv, Open
    PROVE  VisitInv'
<1>1. /\ UNCHANGED <<content, cursor, cur, facts, plan>>
      /\ pc = "open" /\ pc' = "read"
      /\ plan.start \in 0 .. Len(content[cur])
  BY DEF Open, tree, db
<1>2. PlanSound /\ ResumeSound
  BY DEF CommitInv, VisitInv
<1>3. scan'.size = Len(content[cur])
  BY DEF Open, CommitInv, TypeInv, TypeOK
<1>4. cur \in File
  BY <1>1 DEF CommitInv, TypeInv, VisitTyped, Visiting
<1>5. content[cur] \in Seq(Byte)
  BY <1>4 DEF CommitInv, TypeInv, TypeOK
<1>6. plan.start <= Len(content[cur])
  BY <1>1, <1>5
<1>7. PlanSound'
  BY <1>1, <1>2 DEF PlanSound, Planned
<1>8. ResumeSound'
  BY <1>1, <1>2, <1>6 DEF PlanSound, ResumeSound, Planned, Live
<1>9. SpanSound'
  BY <1>1, <1>3 DEF SpanSound, Scanned, Live
<1>10. QED BY <1>7, <1>8, <1>9 DEF VisitInv

\* A live visit starts its scan on a line boundary, with the events before it
\* stored if it resumes.
LEMMA StartIsCommitted ==
    ASSUME CommitInv, Planned, pc # "open", Live,
           plan.start \in 0 .. Len(content[cur])
    PROVE  /\ Boundary(content[cur], plan.start)
           /\ plan.action = "resume" =>
                events[cur] = Events(content[cur], 0, plan.start)
<1>1. cur \in File
  BY DEF CommitInv, TypeInv, VisitTyped, Visiting, Planned
<1>2. CASE plan.action = "resume"
  <2>1. Covers(cursor[cur], content[cur]) /\ plan.start = cursor[cur].off
    BY <1>2 DEF CommitInv, VisitInv, PlanSound, ResumeSound, TypeInv, VisitTyped, Covers
  <2>2. QED BY <1>1, <2>1 DEF CommitInv, Committed, CursorOnLineBoundary, EventsAreCommittedLines
<1>3. CASE plan.action # "resume"
  <2>1. plan.action \in {"none", "parse", "resume", "reparse"}
    BY DEF CommitInv, TypeInv, TypeOK
  <2>2. plan.start = 0
    BY <1>3, <2>1 DEF CommitInv, VisitInv, PlanSound
  <2>3. QED BY <1>3, <2>2 DEF Boundary
<1>4. QED BY <1>2, <1>3

LEMMA ReadVisitInv ==
    ASSUME CommitInv, Read
    PROVE  VisitInv'
<1> DEFINE c == content[cur]
           tail == TailLength(c, plan.start)
<1>1. /\ UNCHANGED <<content, cursor, cur, facts, plan>>
      /\ pc = "read" /\ pc' \in {"parse", "persist"}
  BY DEF Read, tree, db
<1>2. cur \in File
  BY <1>1 DEF CommitInv, TypeInv, VisitTyped, Visiting
<1>3. c \in Seq(Byte) /\ scan.size \in Nat
  BY <1>2 DEF CommitInv, TypeInv, TypeOK
<1>4. /\ scan'.new = scan.size - tail
      /\ scan'.found = (LineEnds(c, plan.start) # {})
      /\ scan'.events = Events(c, plan.start, Len(c))
  BY DEF Read, NewOffset, CommitInv, TypeInv, TypeOK
<1>5. LineEnds(c, plan.start) = {} => scan'.events = {}
  BY <1>4 DEF Events
<1>6. ASSUME Live
      PROVE  /\ plan.start \in 0 .. Len(c)
             /\ scan'.new \in plan.start .. Len(c)
             /\ Boundary(c, scan'.new)
             /\ scan'.events = Events(c, plan.start, scan'.new)
  <2>1. plan.start \in 0 .. Len(c) /\ scan.size = Len(c)
    BY <1>1, <1>6 DEF CommitInv, VisitInv, SpanSound
  <2>2. Boundary(c, plan.start)
    BY <1>1, <1>6, <2>1, StartIsCommitted DEF Planned
  <2> HIDE DEF c
  <2>3. LET n == Len(c) - tail
        IN  /\ n \in plan.start .. Len(c)
            /\ Boundary(c, n)
            /\ \A i \in LineEnds(c, plan.start) : i <= n
    BY <1>3, <2>1, <2>2, TailStartsAtBoundary
  <2>4. scan'.new = Len(c) - tail
    BY <1>4, <2>1
  <2> HIDE DEF tail
  <2>5. {j \in LineEnds(c, plan.start) : j <= Len(c) /\ RecordEndsAt(c, plan.start, j)}
          = {j \in LineEnds(c, plan.start) : j <= scan'.new /\ RecordEndsAt(c, plan.start, j)}
    <3>1. \A j \in LineEnds(c, plan.start) : j <= Len(c) /\ j <= scan'.new
      BY <1>3, <2>3, <2>4 DEF LineEnds, Newlines
    <3>2. QED BY <3>1
  <2>6. Events(c, plan.start, Len(c)) = Events(c, plan.start, scan'.new)
    BY <2>5 DEF Events
  <2>7. QED BY <1>4, <2>1, <2>3, <2>4, <2>6
<1> HIDE DEF c, tail
<1>7. PlanSound' /\ ResumeSound'
  <2>1. PlanSound /\ ResumeSound
    BY DEF CommitInv, VisitInv
  <2>2. QED BY <1>1, <2>1 DEF PlanSound, ResumeSound, Planned, Live
<1>8. SpanSound'
  BY <1>1, <1>4, <1>5, <1>6 DEF SpanSound, Scanned, Live, c
<1>9. QED BY <1>7, <1>8 DEF VisitInv

LEMMA ParseVisitInv ==
    ASSUME CommitInv, Parse
    PROVE  VisitInv'
<1>1. /\ UNCHANGED <<content, cursor, cur, facts, plan>>
      /\ pc = "parse" /\ pc' = "persist"
  BY DEF Parse, tree, db
<1>2. /\ scan'.found = scan.found /\ scan'.new = scan.new /\ scan'.events = scan.events
  BY DEF Parse, CommitInv, TypeInv, TypeOK
<1>3. PlanSound /\ ResumeSound /\ SpanSound
  BY DEF CommitInv, VisitInv
<1>4. QED BY <1>1, <1>2, <1>3
      DEF VisitInv, PlanSound, ResumeSound, SpanSound, Planned, Scanned, Live

\* What a commit of a live file has to make true of the row it writes.
LEMMA RowCommitted ==
    ASSUME CommitInv, cur \in File, NEW row, NEW es,
           content' = content,
           cursor' = [cursor EXCEPT ![cur] = row],
           events' = [events EXCEPT ![cur] = es],
           row \in CursorRow, row.sha = facts.sha,
           Live => /\ Boundary(content[cur], row.off)
                   /\ es = Events(content[cur], 0, row.off)
    PROVE  NoRowNoEvents' /\ Committed'
<1>1. cursor \in [File -> CursorRow \cup {NoRow}] /\ events \in [File -> SUBSET Event]
  BY DEF CommitInv, TypeInv, TypeOK
<1>2. row # NoRow
  BY NoRowAssumption
<1>3. NoRowNoEvents'
  BY <1>1, <1>2 DEF CommitInv, NoRowNoEvents
<1>4. ASSUME NEW f \in File, Covers(cursor'[f], content[f])
      PROVE  /\ Boundary(content[f], cursor'[f].off)
             /\ events'[f] = Events(content[f], 0, cursor'[f].off)
  <2>1. CASE f = cur
    <3>1. cursor'[f] = row /\ events'[f] = es
      BY <1>1, <2>1
    <3>2. Live
      BY <1>4, <2>1, <3>1 DEF Covers, Live
    <3>3. QED BY <2>1, <3>1, <3>2
  <2>2. CASE f # cur
    <3>1. cursor'[f] = cursor[f] /\ events'[f] = events[f]
      BY <1>1, <2>2
    <3>2. QED BY <1>4, <3>1 DEF CommitInv, Committed, CursorOnLineBoundary, EventsAreCommittedLines
  <2>3. QED BY <2>1, <2>2
<1>5. QED BY <1>3, <1>4 DEF Committed, CursorOnLineBoundary, EventsAreCommittedLines

\* The span of a live visit that starts at the cursor, joined to the events
\* stored before it.
LEMMA SpanJoins ==
    ASSUME CommitInv, Scanned, Live
    PROVE  /\ Boundary(content[cur], scan.new)
           /\ plan.action = "resume" =>
                Events(content[cur], 0, scan.new) = events[cur] \cup scan.events
           /\ plan.action # "resume" => Events(content[cur], 0, scan.new) = scan.events
<1>1. /\ plan.start \in 0 .. Len(content[cur])
      /\ scan.new \in plan.start .. Len(content[cur])
      /\ Boundary(content[cur], scan.new)
      /\ scan.events = Events(content[cur], plan.start, scan.new)
  BY DEF CommitInv, VisitInv, SpanSound
<1>2. Planned /\ pc # "open" /\ cur \in File
  BY DEF Scanned, Planned, CommitInv, TypeInv, VisitTyped, Visiting
<1>3. content[cur] \in Seq(Byte)
  BY <1>2 DEF CommitInv, TypeInv, TypeOK
<1>4. /\ Boundary(content[cur], plan.start)
      /\ plan.action = "resume" => events[cur] = Events(content[cur], 0, plan.start)
  BY <1>1, <1>2, StartIsCommitted
<1>5. Events(content[cur], 0, scan.new) =
        Events(content[cur], 0, plan.start) \cup Events(content[cur], plan.start, scan.new)
  BY <1>1, <1>3, <1>4, NLAssumption, SplitEvents
<1>6. plan.action # "resume" => plan.start = 0
  BY <1>2 DEF CommitInv, VisitInv, PlanSound, TypeInv, TypeOK
<1>7. QED BY <1>1, <1>4, <1>5, <1>6

LEMMA RefreshCommitInv ==
    ASSUME CommitInv, Refresh
    PROVE  NoRowNoEvents' /\ Committed' /\ VisitInv'
<1> DEFINE errors == IF RegionEmpty THEN cursor[cur].errors ELSE 1
           row == Upsert(cursor[cur], cursor[cur].sid, scan.new, errors)
<1>1. VisitInv'
  BY NoVisit DEF Refresh
<1>2. cur \in File /\ plan.action = "resume" /\ ~scan.found /\ cursor[cur] # NoRow
  BY DEF Refresh, NothingNew, CommitInv, TypeInv, VisitTyped, Visiting, Planned
<1>3. cursor[cur] \in CursorRow /\ scan.new \in Int /\ TypeOK
  BY <1>2 DEF CommitInv, TypeInv, TypeOK
<1>4. cursor[cur].sid \in Session /\ errors \in Nat
  BY <1>3 DEF CursorRow
<1>5. row \in CursorRow
  BY <1>3, <1>4, UpsertType
<1>6. row.sha = facts.sha /\ row.off = scan.new
  BY DEF Upsert
<1>7. ASSUME Live
      PROVE  /\ Boundary(content[cur], scan.new)
             /\ events[cur] = Events(content[cur], 0, scan.new)
  <2>1. Scanned /\ scan.events = {}
    BY <1>2 DEF Refresh, Scanned, CommitInv, VisitInv, SpanSound
  <2>2. QED BY <1>2, <1>7, <2>1, SpanJoins
<1>8. /\ content' = content
      /\ cursor' = [cursor EXCEPT ![cur] = row]
      /\ events' = [events EXCEPT ![cur] = events[cur]]
  BY <1>2 DEF Refresh, tree, CommitInv, TypeInv, TypeOK
<1> HIDE DEF row
<1>9. NoRowNoEvents' /\ Committed'
  BY <1>2, <1>5, <1>6, <1>7, <1>8, RowCommitted
<1>10. QED BY <1>1, <1>9

LEMMA PersistCommitInv ==
    ASSUME CommitInv, Persist
    PROVE  NoRowNoEvents' /\ Committed' /\ VisitInv'
<1> DEFINE errors == scan.errors + IF scan.tail THEN 1 ELSE 0
           row == Upsert(cursor[cur], scan.sid, scan.new, errors)
<1>1. VisitInv'
  BY NoVisit DEF Persist
<1>2. cur \in File /\ scan.sid \in Session /\ Scanned /\ Planned
  BY DEF Persist, CommitInv, TypeInv, VisitTyped, Visiting, Scanned, Planned
<1>3. cursor[cur] \in CursorRow \cup {NoRow} /\ scan.new \in Int /\ TypeOK
  BY <1>2 DEF CommitInv, TypeInv, TypeOK
<1>4. errors \in Nat
  BY <1>3 DEF TypeOK
<1>5. row \in CursorRow
  BY <1>2, <1>3, <1>4, UpsertType
<1>6. row.sha = facts.sha /\ row.off = scan.new
  BY DEF Upsert
<1>7. ASSUME Live
      PROVE  /\ Boundary(content[cur], scan.new)
             /\ KeptEvents \cup scan.events = Events(content[cur], 0, scan.new)
  <2>1. Boundary(content[cur], scan.new)
    BY <1>2, <1>7, SpanJoins
  <2>2. CASE plan.action = "resume"
    <3>1. KeptEvents = events[cur]
      BY <1>2, <2>2 DEF KeptEvents, CommitInv, VisitInv, PlanSound
    <3>2. QED BY <1>2, <1>7, <2>1, <2>2, <3>1, SpanJoins
  <2>3. CASE plan.action # "resume"
    <3>1. plan.action \in {"parse", "reparse"}
      BY <1>2, <1>3, <2>3 DEF CommitInv, VisitInv, PlanSound, TypeOK
    <3>2. KeptEvents = {}
      BY <1>2, <3>1 DEF KeptEvents, CommitInv, VisitInv, PlanSound, NoRowNoEvents
    <3>3. QED BY <1>2, <1>7, <2>1, <2>3, <3>2, SpanJoins
  <2>4. QED BY <2>2, <2>3
<1>8. /\ content' = content
      /\ cursor' = [cursor EXCEPT ![cur] = row]
      /\ events' = [events EXCEPT ![cur] = KeptEvents \cup scan.events]
  BY DEF Persist, tree
<1> HIDE DEF row
<1>9. NoRowNoEvents' /\ Committed'
  BY <1>2, <1>5, <1>6, <1>7, <1>8, RowCommitted
<1>10. QED BY <1>1, <1>9

-----------------------------------------------------------------------------
LEMMA NextCommitInv == ~AppendRacesScan /\ CommitInv /\ [Next]_vars => CommitInv'
<1> SUFFICES ASSUME ~AppendRacesScan, CommitInv, [Next]_vars PROVE CommitInv'
  OBVIOUS
<1>1. TypeInv'
  BY NextTypeInv DEF CommitInv
<1>2. CASE UNCHANGED vars
  BY <1>1, <1>2 DEF vars, tree, db, visit, CommitInv, NoRowNoEvents, Committed,
     CursorOnLineBoundary, EventsAreCommittedLines, VisitInv, PlanSound, ResumeSound,
     SpanSound, Planned, Scanned, Live
<1>3. CASE Producer
  BY <1>3, ProducerCommitInv
<1>4. CASE \/ StartSource \/ StartRebuild \/ \E f \in File : StartFile(f)
           \/ Pick \/ EndRun \/ Stat \/ Hash \/ DoNotSkip
  BY <1>1, <1>4, RunCommitInv DEF CommitInv
<1>5. CASE Vanished \/ StartRefused \/ PersistFails \/ Crash
  <2>1. Stop
    BY <1>5 DEF Vanished, StartRefused, PersistFails, Crash
  <2>2. QED BY <1>1, <2>1, RunCommitInv DEF CommitInv
<1>6. CASE Discard \/ MarkMissing \/ Skip
  BY <1>1, <1>6, FlagCommitInv DEF CommitInv
<1>7. CASE Plan \/ Open \/ Read \/ Parse
  <2>1. UNCHANGED <<content, cursor, events>>
    BY <1>7 DEF Plan, Open, Read, Parse, tree, db
  <2>2. QED BY <1>1, <1>7, <2>1, CommittedFrame, PlanVisitInv, OpenVisitInv, ReadVisitInv,
       ParseVisitInv DEF CommitInv
<1>8. CASE Refresh \/ Persist
  BY <1>1, <1>8, RefreshCommitInv, PersistCommitInv DEF CommitInv
<1>9. QED
  BY <1>2, <1>3, <1>4, <1>5, <1>6, <1>7, <1>8 DEF Next, Step, Operator

\* The inductive invariant holds in every reachable state, unless an append
\* lands in the middle of a scan.
THEOREM CommitInvariant ==
    ASSUME ~AppendRacesScan
    PROVE  Spec => []CommitInv
<1>1. CommitInv /\ [Next]_vars => CommitInv'
  BY NextCommitInv
<1>2. QED BY <1>1, InitCommitInv, PTL DEF Spec

\* Wherever ingest may resume, it resumes on a line boundary.
THEOREM ResumesOnLineBoundary ==
    ASSUME ~AppendRacesScan
    PROVE  Spec => []CursorOnLineBoundary
<1>1. CommitInv => CursorOnLineBoundary
  BY DEF CommitInv, Committed
<1>2. QED BY <1>1, CommitInvariant, PTL

\* Wherever ingest may resume, the stored events are those of the complete
\* lines before the cursor: nothing lost, doubled or left from older bytes.
THEOREM EventsAreTheLines ==
    ASSUME ~AppendRacesScan
    PROVE  Spec => []EventsAreCommittedLines
<1>1. CommitInv => EventsAreCommittedLines
  BY DEF CommitInv, Committed
<1>2. QED BY <1>1, CommitInvariant, PTL
-----------------------------------------------------------------------------
(***************************************************************************)
(* Ingest implements Evidence, and its cursors do not move backwards over   *)
(* bytes they still describe.  Beyond what the above assumes, a file is     *)
(* not rewritten in the middle of its own visit (ReplaceRacesVisit = FALSE): *)
(* rows committed from such a visit describe no single moment of the file,  *)
(* and are replaced by the next pass.                                       *)
(***************************************************************************)

\* The digest of a visit stays true while the visit lasts.
LiveVisit == Hashed => Live

\* A span read from a file that its row covers reaches the row's offset, also
\* when the file is read again from its start.
SpanReachesCursor ==
    Scanned /\ Covers(cursor[cur], content[cur]) => cursor[cur].off <= scan.new

PromiseInv == CommitInv /\ LiveVisit /\ SpanReachesCursor

\* The files whose cursor row covers them.
Intact == {f \in File : Covers(cursor[f], content[f])}

QuietProducers == ~AppendRacesScan /\ ~ReplaceRacesVisit

-----------------------------------------------------------------------------
LEMMA AppendHasPrefix ==
    ASSUME NEW c \in Seq(Byte), NEW b \in Seq(Byte)
    PROVE  HasPrefix(c \o b, c)
<1>1. Len(c \o b) = Len(c) + Len(b) /\ \A i \in 1 .. Len(c) : (c \o b)[i] = c[i]
  OBVIOUS
<1>2. Len(c) <= Len(c \o b)
  BY <1>1
<1>3. QED BY <1>1, <1>2 DEF HasPrefix

\* More of a file holds no fewer events.
LEMMA EventsGrow ==
    ASSUME NEW c \in Seq(Byte), NEW m \in Int, NEW n \in Int, m <= n
    PROVE  Events(c, 0, m) \subseteq Events(c, 0, n)
<1>1. \A j \in LineEnds(c, 0) : j \in Int
  BY DEF LineEnds, Newlines
<1>2. {j \in LineEnds(c, 0) : j <= m /\ RecordEndsAt(c, 0, j)}
        \subseteq {j \in LineEnds(c, 0) : j <= n /\ RecordEndsAt(c, 0, j)}
  BY <1>1
<1>3. QED BY <1>2 DEF Events

\* A cursor row covers an appended file as it covered the file before.
LEMMA CoversAppended ==
    ASSUME TypeInv, NEW f \in File, NEW d \in Seq(Byte), HasPrefix(d, content[f]),
           Covers(cursor[f], content[f])
    PROVE  Covers(cursor[f], d)
<1>1. content[f] \in Seq(Byte) /\ cursor[f] \in CursorRow
  BY DEF TypeInv, TypeOK, Covers
<1>2. cursor[f].sha \in Seq(Byte) /\ cursor[f].off \in Int
  BY <1>1 DEF CursorRow
<1>3. HasPrefix(d, cursor[f].sha)
  BY <1>1, <1>2, PrefixTransitive DEF Covers
<1>4. Len(content[f]) <= Len(d) /\ Len(content[f]) \in Nat /\ Len(d) \in Nat
  BY <1>1 DEF HasPrefix
<1>5. QED BY <1>2, <1>3, <1>4 DEF Covers

-----------------------------------------------------------------------------
(***************************************************************************)
(* The invariant.                                                           *)
(***************************************************************************)
LEMMA InitPromiseInv == Init => PromiseInv
BY InitCommitInv DEF Init, PromiseInv, LiveVisit, SpanReachesCursor, Hashed, Scanned

\* What a producer's step does to the content of one file, if anything.
LEMMA ProducerStep ==
    ASSUME QuietProducers, TypeInv, Producer
    PROVE  /\ UNCHANGED <<db, pc, visit>>
           /\ \/ UNCHANGED content
              \/ \E f \in File, c \in Seq(Byte) :
                    Write(f, c) /\ (cur = f => HasPrefix(c, content[f]))
<1>1. PICK f \in File : Extend(f) \/ Replace(f) \/ Remove(f) \/ Restore(f) \/ Settle(f)
  BY DEF Producer
<1>2. TreeTyped /\ UNCHANGED <<db, pc, visit>>
  BY <1>1, TypeParts DEF Extend, Replace, Remove, Restore, Settle, TypeInv
<1>3. CASE Extend(f)
  <2>1. PICK b \in Chunk : Write(f, content[f] \o b)
    BY <1>3 DEF Extend
  <2>2. content[f] \in Seq(Byte) /\ b \in Seq(Byte)
    BY <1>2, IngestAssumption DEF TreeTyped
  <2>3. content[f] \o b \in Seq(Byte) /\ HasPrefix(content[f] \o b, content[f])
    BY <2>2, AppendHasPrefix
  <2>4. QED BY <1>2, <2>1, <2>3
<1>4. CASE Replace(f)
  <2>1. PICK c \in Rewrite \cup {SubSeq(content[f], 1, n) : n \in 0 .. Len(content[f]) - 1} :
           Write(f, c)
    BY <1>4 DEF Replace
  <2>2. c \in Seq(Byte) /\ cur # f
    BY <1>2, <1>4, WrittenBytes DEF Replace, QuietProducers
  <2>3. QED BY <1>2, <2>1, <2>2
<1>5. CASE Remove(f) \/ Restore(f) \/ Settle(f)
  BY <1>2, <1>5 DEF Remove, Restore, Settle
<1>6. QED BY <1>1, <1>3, <1>4, <1>5

LEMMA ProducerPromiseInv ==
    ASSUME QuietProducers, PromiseInv, Producer
    PROVE  LiveVisit' /\ SpanReachesCursor'
<1>1. UNCHANGED <<cursor, pc, cur, facts, scan>>
  BY ProducerStep DEF PromiseInv, CommitInv, db, visit
<1>2. CASE UNCHANGED content
  BY <1>1, <1>2 DEF PromiseInv, LiveVisit, SpanReachesCursor, Live, Hashed, Scanned
<1>3. ASSUME NEW f \in File, NEW c \in Seq(Byte), Write(f, c),
             cur = f => HasPrefix(c, content[f])
      PROVE  LiveVisit' /\ SpanReachesCursor'
  <2>1. content \in [File -> Seq(Byte)] /\ content' = [content EXCEPT ![f] = c]
        /\ facts.sha \in Seq(Byte)
    BY <1>3 DEF PromiseInv, CommitInv, TypeInv, TypeOK, Write
  <2>2. CASE cur # f
    <3>1. Hashed => cur \in File
      BY DEF PromiseInv, CommitInv, TypeInv, VisitTyped, Visiting, Hashed
    <3>2. Scanned => cur \in File
      BY DEF PromiseInv, CommitInv, TypeInv, VisitTyped, Visiting, Scanned
    <3>3. cur \in File => content'[cur] = content[cur]
      BY <2>1, <2>2
    <3>4. QED BY <1>1, <3>1, <3>2, <3>3
          DEF PromiseInv, LiveVisit, SpanReachesCursor, Live, Hashed, Scanned
  <2>3. CASE cur = f
    <3>1. content'[cur] = c /\ HasPrefix(c, content[cur])
      BY <1>3, <2>1, <2>3
    <3>2. LiveVisit'
      BY <1>1, <1>3, <2>1, <2>3, <3>1, PrefixTransitive
      DEF PromiseInv, LiveVisit, Live, Hashed
    <3>3. Covers(cursor[cur], c) => Covers(cursor[cur], content[cur])
      BY <1>3, <2>3 DEF Write, Visible
    <3>4. SpanReachesCursor'
      BY <1>1, <3>1, <3>3 DEF PromiseInv, SpanReachesCursor, Scanned
    <3>5. QED BY <3>2, <3>4
  <2>4. QED BY <2>2, <2>3
<1>4. QED BY <1>2, <1>3, ProducerStep DEF PromiseInv, CommitInv

LEMMA ReadReachesCursor ==
    ASSUME PromiseInv, Read
    PROVE  SpanReachesCursor'
<1> DEFINE c == content[cur]
           off == cursor[cur].off
           n == Len(c) - TailLength(c, plan.start)
<1>1. UNCHANGED <<content, cursor, cur, facts, plan>> /\ pc = "read" /\ Live
  BY DEF Read, tree, db, PromiseInv, LiveVisit, Hashed
<1>2. cur \in File
  BY <1>1 DEF PromiseInv, CommitInv, TypeInv, VisitTyped, Visiting
<1>3. c \in Seq(Byte)
  BY <1>2 DEF PromiseInv, CommitInv, TypeInv, TypeOK
<1>4. plan.start \in 0 .. Len(c) /\ scan.size = Len(c)
  BY <1>1 DEF PromiseInv, CommitInv, VisitInv, SpanSound
<1>5. scan'.new = n
  BY <1>4 DEF Read, NewOffset, PromiseInv, CommitInv, TypeInv, TypeOK
<1>6. Boundary(c, plan.start)
  BY <1>1, <1>4, StartIsCommitted DEF PromiseInv, Planned
<1>7. SUFFICES ASSUME Covers(cursor[cur], c) PROVE off <= n
  BY <1>1, <1>5 DEF SpanReachesCursor
<1>8. Boundary(c, off) /\ off \in Int
  BY <1>2, <1>7 DEF PromiseInv, CommitInv, Committed, CursorOnLineBoundary, Covers,
     TypeInv, TypeOK, CursorRow
<1> HIDE DEF c, off
<1>9. n \in plan.start .. Len(c) /\ \A i \in LineEnds(c, plan.start) : i <= n
  BY <1>3, <1>4, <1>6, TailStartsAtBoundary
<1> HIDE DEF n
<1>10. CASE off <= plan.start
  BY <1>4, <1>8, <1>9, <1>10
<1>11. CASE off > plan.start
  <2>1. off \in LineEnds(c, plan.start)
    BY <1>3, <1>4, <1>8, <1>11 DEF Boundary, LineEnds, Newlines
  <2>2. QED BY <1>9, <2>1
<1>12. QED BY <1>4, <1>8, <1>10, <1>11

LEMMA NextPromiseInv == QuietProducers /\ PromiseInv /\ [Next]_vars => PromiseInv'
<1> SUFFICES ASSUME QuietProducers, PromiseInv, [Next]_vars PROVE PromiseInv'
  OBVIOUS
<1>1. CommitInv'
  BY NextCommitInv DEF PromiseInv, QuietProducers
<1>2. SUFFICES LiveVisit' /\ SpanReachesCursor'
  BY <1>1 DEF PromiseInv
<1>3. CASE UNCHANGED vars
  BY <1>3 DEF vars, tree, db, visit, PromiseInv, LiveVisit, SpanReachesCursor, Live, Hashed, Scanned
<1>4. CASE Producer
  BY <1>4, ProducerPromiseInv
<1>5. CASE \/ StartSource \/ StartRebuild \/ \E f \in File : StartFile(f)
           \/ Pick \/ EndRun \/ Stat \/ DoNotSkip \/ Discard \/ MarkMissing \/ Skip
           \/ Refresh \/ Persist
           \/ Vanished \/ StartRefused \/ PersistFails \/ Crash
  <2>1. pc' \notin {"plan", "open", "read", "parse", "persist"}
    BY <1>5 DEF StartSource, StartRebuild, StartFile, Pick, EndRun, Stat, DoNotSkip, Discard,
       MarkMissing, Skip, Refresh, Persist, Vanished, StartRefused, PersistFails, Crash, Stop
  <2>2. QED BY <2>1 DEF LiveVisit, SpanReachesCursor, Hashed, Scanned
<1>6. CASE Hash
  <2>1. cur \in File
    BY <1>6 DEF Hash, PromiseInv, CommitInv, TypeInv, VisitTyped, Visiting
  <2>2. content[cur] \in Seq(Byte)
    BY <2>1 DEF PromiseInv, CommitInv, TypeInv, TypeOK
  <2>3. HasPrefix(content[cur], IdentityHash(content[cur], PrefixBytes))
    BY <2>2, IngestAssumption, IdentityHashType
  <2>4. facts'.sha = IdentityHash(content[cur], PrefixBytes)
    BY <1>6 DEF Hash, PromiseInv, CommitInv, TypeInv, TypeOK
  <2>5. content' = content /\ cur' = cur /\ pc' = "plan"
    BY <1>6 DEF Hash, tree
  <2>6. QED BY <2>3, <2>4, <2>5 DEF LiveVisit, Live, SpanReachesCursor, Scanned
<1>7. CASE Plan \/ Open \/ Read \/ Parse
  <2>1. UNCHANGED <<content, cursor, cur, facts>> /\ Hashed
    BY <1>7 DEF Plan, Open, Read, Parse, tree, db, Hashed
  <2>2. LiveVisit'
    BY <2>1 DEF PromiseInv, LiveVisit, Live
  <2>3. CASE Plan \/ Open
    BY <2>2, <2>3 DEF Plan, Open, SpanReachesCursor, Scanned
  <2>4. CASE Read
    BY <2>2, <2>4, ReadReachesCursor
  <2>5. CASE Parse
    <3>1. Scanned /\ scan'.new = scan.new
      BY <2>5 DEF Parse, Scanned, PromiseInv, CommitInv, TypeInv, TypeOK
    <3>2. QED BY <2>1, <2>2, <3>1 DEF PromiseInv, SpanReachesCursor
  <2>6. QED BY <1>7, <2>3, <2>4, <2>5
<1>8. QED BY <1>3, <1>4, <1>5, <1>6, <1>7 DEF Next, Step, Operator

LEMMA PromiseInvariant ==
    ASSUME QuietProducers
    PROVE  Spec => []PromiseInv
<1>1. PromiseInv /\ [Next]_vars => PromiseInv'
  BY NextPromiseInv
<1>2. QED BY <1>1, InitPromiseInv, PTL DEF Spec

-----------------------------------------------------------------------------
(***************************************************************************)
(* The steps of ingest as steps of Evidence.                                *)
(***************************************************************************)
\* Evidence reads transcripts as Ingest does.
LEMMA SameOperators ==
    /\ Promise!Byte = Byte
    /\ \A c, d : Promise!HasPrefix(c, d) <=> HasPrefix(c, d)
    /\ \A c, i : Promise!Boundary(c, i) <=> Boundary(c, i)
    /\ \A c, from, upTo : Promise!Events(c, from, upTo) = Events(c, from, upTo)
<1>1. Promise!Byte = Byte
  BY Zenon DEF Promise!Byte, Byte
<1>2. \A c, d : Promise!HasPrefix(c, d) <=> HasPrefix(c, d)
  BY Zenon DEF Promise!HasPrefix, HasPrefix
<1>3. \A c, i : Promise!Boundary(c, i) <=> Boundary(c, i)
  BY Zenon DEF Promise!Boundary, Boundary
<1>4. \A S : Promise!Cardinality(S) = Cardinality(S)
  BY Zenon DEF Promise!Cardinality, Cardinality
<1>5. \A c, i : Promise!LineNumber(c, i) = LineNumber(c, i)
  BY <1>4, Zenon DEF Promise!LineNumber, LineNumber, Promise!Newlines, Newlines
<1>6. \A c, from, i : Promise!RecordEndsAt(c, from, i) <=> RecordEndsAt(c, from, i)
  BY Zenon DEF Promise!RecordEndsAt, RecordEndsAt, Promise!Newlines, Newlines
<1>7. \A c, from : Promise!LineEnds(c, from) = LineEnds(c, from)
  BY Zenon DEF Promise!LineEnds, LineEnds, Promise!Newlines, Newlines
<1>8. \A c, from, upTo : Promise!Events(c, from, upTo) = Events(c, from, upTo)
  BY <1>5, <1>6, <1>7 DEF Promise!Events, Events
<1>9. QED BY <1>1, <1>2, <1>3, <1>8

\* A row that keeps its digest and offset covers what it covered.
LEMMA SameRowsSameIntact ==
    ASSUME UNCHANGED <<content, cursor>>
    PROVE  Intact' = Intact
BY DEF Intact

LEMMA WriteIsChange ==
    ASSUME PromiseInv, CommitInv', NEW f \in File, NEW c \in Seq(Byte), Write(f, c), UNCHANGED db
    PROVE  Promise!Change(f)
<1>1. /\ content \in [File -> Seq(Byte)] /\ content' = [content EXCEPT ![f] = c]
      /\ cursor' = cursor /\ events' = events /\ TypeInv
  BY DEF PromiseInv, CommitInv, TypeInv, TypeOK, Write, db
<1>2. content'[f] = c /\ \A g \in File : g # f => content'[g] = content[g]
  BY <1>1
<1>3. \A g \in File : g # f => (g \in Intact' <=> g \in Intact)
  BY <1>1, <1>2 DEF Intact
<1>4. f \in Intact' => f \in Intact
  BY <1>1, <1>2 DEF Intact, Write, Visible
<1>5. HasPrefix(c, content[f]) => (f \in Intact => f \in Intact')
  BY <1>1, <1>2, CoversAppended DEF Intact
<1>6. Intact' \subseteq File /\ Intact \subseteq File
  BY DEF Intact
<1>7. (f \in Intact => f \in Intact') => Intact' = Intact
  <2>1. SUFFICES ASSUME f \in Intact => f \in Intact'
                 PROVE  \A g : g \in Intact' <=> g \in Intact
    BY Zenon
  <2>2. QED BY <1>3, <1>4, <1>6, <2>1
<1>8. (f \in Intact /\ f \notin Intact') => Intact' = Intact \ {f}
  <2>1. SUFFICES ASSUME f \in Intact, f \notin Intact'
                 PROVE  \A g : g \in Intact' <=> g \in Intact \ {f}
    BY Zenon
  <2>2. QED BY <1>3, <1>6, <2>1
<1>9. ASSUME f \in Intact' PROVE events[f] \subseteq Events(c, 0, Len(c))
  <2>1. Covers(cursor[f], c)
    BY <1>1, <1>2, <1>9 DEF Intact
  <2>2. events[f] = Events(c, 0, cursor[f].off)
    BY <1>1, <1>2, <2>1 DEF CommitInv, Committed, EventsAreCommittedLines
  <2>3. cursor[f].off \in Int /\ cursor[f].off <= Len(c)
    BY <1>1, <2>1 DEF Covers, TypeInv, TypeOK, CursorRow
  <2>4. QED BY <2>2, <2>3, EventsGrow
<1>10. Intact' \in {Intact, Intact \ {f}} /\ (HasPrefix(c, content[f]) => Intact' = Intact)
  BY <1>5, <1>7, <1>8
<1>11. content' = [content EXCEPT ![f] = content'[f]] /\ UNCHANGED events
  BY <1>1, <1>2
<1>12. content'[f] \in Seq(Byte)
  BY <1>2
<1>13. QED BY <1>2, <1>9, <1>10, <1>11, <1>12, SameOperators DEF Promise!Change, Intact

LEMMA PersistIsCommit ==
    ASSUME PromiseInv, CommitInv', Persist
    PROVE  Promise!Commit(cur)
<1>1. Scanned /\ Planned /\ Live /\ cur \in File
  BY DEF Persist, Scanned, Planned, PromiseInv, LiveVisit, Hashed, CommitInv, TypeInv,
     VisitTyped, Visiting
<1>2. /\ plan.start \in 0 .. Len(content[cur])
      /\ scan.new \in plan.start .. Len(content[cur])
      /\ content[cur] \in Seq(Byte)
  BY <1>1 DEF PromiseInv, CommitInv, VisitInv, SpanSound, TypeInv, TypeOK
<1>3. scan.new \in 0 .. Len(content[cur]) /\ Boundary(content[cur], scan.new)
  BY <1>1, <1>2 DEF PromiseInv, CommitInv, VisitInv, SpanSound
<1>4. /\ content' = content
      /\ events' = [events EXCEPT ![cur] = KeptEvents \cup scan.events]
      /\ events \in [File -> SUBSET Event] /\ cursor \in [File -> CursorRow \cup {NoRow}]
  BY DEF Persist, tree, PromiseInv, CommitInv, TypeInv, TypeOK
<1>5. /\ cursor'[cur] # NoRow
      /\ cursor'[cur].off = scan.new /\ cursor'[cur].sha = facts.sha
      /\ \A g \in File : g # cur => cursor'[g] = cursor[g]
  <2>1. cursor'[cur] \in CursorRow \cup {NoRow}
    BY <1>1 DEF CommitInv, TypeInv, TypeOK
  <2>2. cursor' = [cursor EXCEPT ![cur] =
            Upsert(cursor[cur], scan.sid, scan.new, scan.errors + IF scan.tail THEN 1 ELSE 0)]
    BY DEF Persist
  <2>3. cursor'[cur] =
            Upsert(cursor[cur], scan.sid, scan.new, scan.errors + IF scan.tail THEN 1 ELSE 0)
    BY <1>1, <1>4, <2>2
  <2>4. scan.sid \in Session /\ scan.new \in Int
        /\ scan.errors + (IF scan.tail THEN 1 ELSE 0) \in Nat /\ TypeOK
    <3>1. scan.sid \in Session /\ TypeOK
      BY <1>1 DEF PromiseInv, CommitInv, TypeInv, VisitTyped
    <3>2. scan.new \in Int /\ scan.errors \in Nat
      BY <3>1 DEF TypeOK
    <3>3. scan.errors + (IF scan.tail THEN 1 ELSE 0) \in Nat
      BY <3>2
    <3>4. QED BY <3>1, <3>2, <3>3
  <2>5. cursor[cur] \in CursorRow \cup {NoRow}
    BY <1>1, <1>4
  <2>6. cursor'[cur] \in CursorRow
    BY <2>3, <2>4, <2>5, UpsertType
  <2>7. QED BY <1>1, <1>4, <2>2, <2>3, <2>6, NoRowAssumption DEF Upsert
<1>6. Covers(cursor'[cur], content[cur])
  BY <1>1, <1>2, <1>3, <1>5 DEF Covers, Live
<1>7. Intact' = Intact \cup {cur}
  BY <1>1, <1>4, <1>5, <1>6 DEF Intact
<1>8. events'[cur] = Events(content[cur], 0, scan.new)
  BY <1>1, <1>4, <1>5, <1>6 DEF CommitInv, Committed, EventsAreCommittedLines
<1>9. ASSUME cur \in Intact PROVE events[cur] \subseteq events'[cur]
  <2>1. Covers(cursor[cur], content[cur])
    BY <1>9 DEF Intact
  <2>2. events[cur] = Events(content[cur], 0, cursor[cur].off) /\ cursor[cur].off <= scan.new
    BY <1>1, <2>1 DEF PromiseInv, SpanReachesCursor, CommitInv, Committed, EventsAreCommittedLines
  <2>3. cursor[cur].off \in Int /\ scan.new \in Int
    BY <1>1, <2>1 DEF PromiseInv, CommitInv, TypeInv, TypeOK, Covers, CursorRow
  <2>4. Events(content[cur], 0, cursor[cur].off) \subseteq Events(content[cur], 0, scan.new)
    BY <1>2, <2>2, <2>3, EventsGrow
  <2>5. QED BY <1>8, <2>2, <2>4
<1>10. events' = [events EXCEPT ![cur] = Events(content[cur], 0, scan.new)]
  BY <1>1, <1>4, <1>8
<1>11. \E i \in 0 .. Len(content[cur]) :
          /\ Promise!Boundary(content[cur], i)
          /\ events' = [events EXCEPT ![cur] = Promise!Events(content[cur], 0, i)]
  BY <1>3, <1>10, SameOperators
<1>12. QED BY <1>4, <1>7, <1>9, <1>11 DEF Promise!Commit, Intact

\* Refresh writes a row that covers the file as the old row did.
LEMMA RefreshIsStutter ==
    ASSUME PromiseInv, CommitInv', Refresh
    PROVE  UNCHANGED <<content, events>> /\ Intact' = Intact
<1> DEFINE errors == IF RegionEmpty THEN cursor[cur].errors ELSE 1
           row == Upsert(cursor[cur], cursor[cur].sid, scan.new, errors)
<1>1. Scanned /\ Planned /\ Live /\ cur \in File /\ plan.action = "resume"
      /\ cursor[cur] # NoRow /\ pc # "open"
  BY DEF Refresh, NothingNew, Scanned, Planned, PromiseInv, LiveVisit, Hashed, CommitInv,
     TypeInv, VisitTyped, Visiting
<1>2. /\ content' = content /\ events' = events
      /\ cursor' = [cursor EXCEPT ![cur] = row]
  BY DEF Refresh, tree
<1>3. /\ cursor \in [File -> CursorRow \cup {NoRow}] /\ content[cur] \in Seq(Byte)
      /\ scan.new \in Int /\ TypeOK
  BY <1>1 DEF PromiseInv, CommitInv, TypeInv, TypeOK
<1>4. cursor[cur] \in CursorRow /\ cursor[cur].sid \in Session /\ errors \in Nat
  BY <1>1, <1>3 DEF CursorRow
<1>5. row \in CursorRow /\ row.off = scan.new /\ row.sha = facts.sha
  BY <1>3, <1>4, UpsertType DEF Upsert
<1> HIDE DEF row
<1>6. Covers(cursor[cur], content[cur])
  BY <1>1 DEF PromiseInv, CommitInv, VisitInv, ResumeSound, Covers
<1>7. scan.new <= Len(content[cur])
  BY <1>1, <1>3 DEF PromiseInv, CommitInv, VisitInv, SpanSound
<1>8. Covers(row, content[cur])
  BY <1>1, <1>5, <1>7, NoRowAssumption DEF Covers, Live
<1>9. cursor'[cur] = row /\ \A f \in File : f # cur => cursor'[f] = cursor[f]
  BY <1>1, <1>2, <1>3
<1>10. \A f \in File : Covers(cursor'[f], content'[f]) <=> Covers(cursor[f], content[f])
  BY <1>2, <1>6, <1>8, <1>9
<1>11. QED BY <1>2, <1>10 DEF Intact

\* The flags a sweep or an idle pass writes are none of Evidence's business.
LEMMA FlagIsStutter ==
    ASSUME PromiseInv, MarkMissing \/ Skip
    PROVE  UNCHANGED <<content, events>> /\ Intact' = Intact
<1>1. content' = content /\ events' = events
  BY DEF MarkMissing, Skip, tree
<1>2. cursor \in [File -> CursorRow \cup {NoRow}]
  BY DEF PromiseInv, CommitInv, TypeInv, TypeOK
<1>3. ASSUME NEW f \in File
      PROVE  Covers(cursor'[f], content[f]) <=> Covers(cursor[f], content[f])
  <2>1. CASE MarkMissing /\ cursor[f] = NoRow
    BY <2>1 DEF MarkMissing
  <2>2. CASE MarkMissing /\ cursor[f] # NoRow
    <3>1. cursor[f] \in CursorRow
          /\ cursor'[f] = [cursor[f] EXCEPT !.missing = f \notin present]
      BY <1>2, <2>2 DEF MarkMissing
    <3>2. /\ cursor'[f] \in CursorRow
          /\ cursor'[f].off = cursor[f].off /\ cursor'[f].sha = cursor[f].sha
      BY <3>1 DEF CursorRow
    <3>3. QED BY <3>1, <3>2, NoRowAssumption DEF Covers
  <2>3. CASE Skip /\ f = cur
    <3>1. cursor[f] \in CursorRow /\ cursor'[f] = Idle(cursor[f])
      BY <1>2, <2>3 DEF Skip
    <3>2. QED BY <3>1, IdleType, NoRowAssumption DEF Covers
  <2>4. CASE Skip /\ f # cur
    BY <1>2, <2>4 DEF Skip
  <2>5. QED BY <2>1, <2>2, <2>3, <2>4
<1>4. QED BY <1>1, <1>3 DEF Intact

LEMMA InitIsInit == Init => Promise!Init
<1> SUFFICES ASSUME Init PROVE Promise!Init
  OBVIOUS
<1>1. \A f \in File : cursor[f] = NoRow
  BY DEF Init
<1>2. {f \in File : Covers(cursor[f], content[f])} = {}
  BY <1>1 DEF Covers
<1>3. QED BY <1>2 DEF Init, Promise!Init

LEMMA NextIsNext ==
    QuietProducers /\ PromiseInv /\ PromiseInv' /\ [Next]_vars =>
        [Promise!Next]_<<content, events, Intact>>
<1> SUFFICES ASSUME QuietProducers, PromiseInv, PromiseInv', [Next]_vars
             PROVE  Promise!Next \/ (UNCHANGED <<content, events>> /\ Intact' = Intact)
  OBVIOUS
<1>1. CommitInv /\ CommitInv' /\ TypeInv
  BY DEF PromiseInv, CommitInv
<1>2. CASE UNCHANGED vars
  BY <1>2, SameRowsSameIntact DEF vars, tree, db
<1>3. CASE Producer
  <2>1. UNCHANGED db
    BY <1>1, <1>3, ProducerStep
  <2>2. CASE UNCHANGED content
    BY <2>1, <2>2, SameRowsSameIntact DEF db
  <2>3. ASSUME NEW f \in File, NEW c \in Seq(Byte), Write(f, c)
        PROVE  Promise!Next
    <3>1. Promise!Change(f)
      BY <1>1, <2>1, <2>3, WriteIsChange
    <3>2. QED BY <3>1 DEF Promise!Next
  <2>4. QED BY <1>1, <1>3, <2>2, <2>3, ProducerStep
<1>4. CASE Discard
  <2>1. /\ content' = content
        /\ \A f \in File : cursor'[f] = NoRow
        /\ events' = [f \in File |-> {}]
    BY <1>4 DEF Discard, tree
  <2>2. {f \in File : Covers(cursor[f], content[f])}' = {}
    BY <2>1 DEF Covers
  <2>3. Promise!Discard
    BY <2>1, <2>2 DEF Promise!Discard
  <2>4. QED BY <2>3 DEF Promise!Next
<1>5. CASE \/ StartSource \/ StartRebuild \/ \E f \in File : StartFile(f)
           \/ Pick \/ EndRun \/ Stat \/ Hash \/ DoNotSkip \/ Plan \/ Open \/ Read \/ Parse
           \/ Vanished \/ StartRefused \/ PersistFails \/ Crash
  <2>1. UNCHANGED <<content, cursor, events>>
    BY <1>5 DEF StartSource, StartRebuild, StartFile, Pick, EndRun, Stat, Hash, DoNotSkip, Plan,
       Open, Read, Parse, Vanished, StartRefused, PersistFails, Crash, Stop, tree, db
  <2>2. QED BY <2>1, SameRowsSameIntact
<1>6. CASE MarkMissing \/ Skip
  BY <1>6, FlagIsStutter
<1>7. CASE Refresh
  BY <1>1, <1>7, RefreshIsStutter
<1>8. CASE Persist
  <2>1. Promise!Commit(cur) /\ cur \in File
    BY <1>1, <1>8, PersistIsCommit DEF Persist, TypeInv, VisitTyped, Visiting
  <2>2. QED BY <2>1 DEF Promise!Next
<1>9. QED BY <1>2, <1>3, <1>4, <1>5, <1>6, <1>7, <1>8 DEF Next, Step, Operator

\* The passes, their crashes and their races with appends add up to the store
\* that Evidence describes: for every transcript the records of its complete
\* lines up to some line, added to while the transcript only grows.
THEOREM IngestImplementsEvidence ==
    ASSUME QuietProducers
    PROVE  Spec => ImplementsEvidence
<1>1. Init => Promise!Init
  BY InitIsInit
<1>2. PromiseInv /\ PromiseInv' /\ [Next]_vars => [Promise!Next]_<<content, events, Intact>>
  BY NextIsNext
<1>3. Intact = {f \in File : Covers(cursor[f], content[f])}
  BY DEF Intact
<1>4. QED BY <1>1, <1>2, <1>3, PromiseInvariant, PTL DEF Spec, ImplementsEvidence, Promise!Spec, Intact

-----------------------------------------------------------------------------
\* The rows a step writes do not lie behind those they replace.
LEMMA RowsMoveOn ==
    ASSUME PromiseInv, PromiseInv', [Next]_vars, NEW f \in File,
           cursor'[f] # NoRow, Covers(cursor[f], content[f])
    PROVE  cursor[f].off <= cursor'[f].off
<1>1. /\ cursor \in [File -> CursorRow \cup {NoRow}]
      /\ cursor[f] \in CursorRow /\ cursor[f].off \in Int
  <2>1. cursor \in [File -> CursorRow \cup {NoRow}] /\ cursor[f] # NoRow
    BY DEF PromiseInv, CommitInv, TypeInv, TypeOK, Covers
  <2>2. QED BY <2>1 DEF CursorRow
<1>2. CASE cursor'[f] = cursor[f]
  BY <1>1, <1>2
<1>3. CASE Discard
  BY <1>3 DEF Discard
<1>4. CASE MarkMissing
  <2>1. cursor'[f] = [cursor[f] EXCEPT !.missing = f \notin present]
    BY <1>4 DEF MarkMissing, Covers
  <2>2. cursor'[f].off = cursor[f].off
    BY <1>1, <2>1 DEF CursorRow
  <2>3. QED BY <1>1, <2>2
<1>5. CASE Skip /\ f = cur
  <2>1. cursor'[f] = Idle(cursor[f])
    BY <1>1, <1>5 DEF Skip
  <2>2. QED BY <1>1, <2>1, IdleType
<1>6. CASE (Refresh \/ Persist) /\ f = cur
  <2>1. Scanned
    BY <1>6 DEF Refresh, Persist, Scanned
  <2>2. cursor[f].off <= scan.new
    BY <1>6, <2>1 DEF PromiseInv, SpanReachesCursor
  <2>3. cursor'[f].off = scan.new
    BY <1>1, <1>6 DEF Refresh, Persist, Upsert
  <2>4. QED BY <2>2, <2>3
<1>7. CASE (Skip \/ Refresh \/ Persist) /\ f # cur
  BY <1>1, <1>2, <1>7 DEF Skip, Refresh, Persist
<1>8. CASE UNCHANGED cursor
  BY <1>2, <1>8
<1>9. UNCHANGED cursor \/ Discard \/ MarkMissing \/ Skip \/ Refresh \/ Persist
  <2>1. CASE UNCHANGED vars
    BY <2>1 DEF vars, db
  <2>2. CASE Producer
    BY <2>2 DEF Producer, Extend, Replace, Remove, Restore, Settle, db
  <2>3. CASE StartSource \/ Step \/ Operator
    BY <2>3 DEF StartSource, Step, Operator, StartRebuild, StartFile, Pick, EndRun, Stat, Hash,
       DoNotSkip, Plan, Open, Read, Parse, Vanished, StartRefused, PersistFails, Crash, Stop, db
  <2>4. QED BY <2>1, <2>2, <2>3 DEF Next
<1>10. QED BY <1>3, <1>4, <1>5, <1>6, <1>7, <1>8, <1>9

\* A cursor moves backwards only when its row no longer covers the file, or
\* with the whole database: not after a crash, a torn tail or an unneeded
\* reparse.
THEOREM CursorNeverMovesBack ==
    ASSUME QuietProducers
    PROVE  Spec => CursorMonotone
<1> DEFINE Back == \A f \in File :
        cursor[f] # NoRow /\ cursor'[f] # NoRow /\ cursor'[f].off < cursor[f].off
            => ~Covers(cursor[f], content[f])
<1>1. ASSUME PromiseInv, PromiseInv', [Next]_vars PROVE Back
  <2>1. SUFFICES ASSUME NEW f \in File, cursor'[f] # NoRow, Covers(cursor[f], content[f]),
                        cursor'[f].off < cursor[f].off
                 PROVE  FALSE
    OBVIOUS
  <2>2. cursor[f].off <= cursor'[f].off
    BY <1>1, <2>1, RowsMoveOn
  <2>3. cursor[f].off \in Int /\ cursor'[f].off \in Int
    BY <1>1, <2>1 DEF PromiseInv, CommitInv, TypeInv, TypeOK, Covers, CursorRow
  <2>4. QED BY <2>1, <2>2, <2>3
<1>2. QED BY <1>1, PromiseInvariant, PTL DEF Spec, CursorMonotone

-----------------------------------------------------------------------------
(***************************************************************************)
(* No complete line is lost, whatever producers do while a visit goes on.   *)
(* An append between fstat and the last read may leave the cursor within a  *)
(* line, or before lines that are stored already. What stays true is that   *)
(* the events reach some line boundary at or beyond the cursor.             *)
(***************************************************************************)
Stored(c, off, es) ==
    \E e \in 0 .. Len(c) : off <= e /\ Boundary(c, e) /\ Events(c, 0, e) \subseteq es

RowsHold ==
    \A f \in File : Covers(cursor[f], content[f]) =>
        Stored(content[f], cursor[f].off, events[f])

\* The events the commit of a visit does not delete, if the visit resumes.
Earlier == IF plan.action = "resume" THEN events[cur] ELSE {}

HeldSound ==
    /\ pc = "read" /\ Live =>
         plan.start \in 0 .. Len(content[cur]) /\ scan.size <= Len(content[cur])
    /\ Scanned => (~scan.found => scan.events = {})
    /\ Scanned /\ Live => Stored(content[cur], scan.new, Earlier \cup scan.events)

HeldInv == TypeInv /\ RowsHold /\ PlanSound /\ ResumeSound /\ HeldSound

LEMMA EventsFromStart == \A c \in Seq(Byte) : \A n \in Int : n <= 0 => Events(c, 0, n) = {}
<1> SUFFICES ASSUME NEW c \in Seq(Byte), NEW n \in Int, n <= 0 PROVE Events(c, 0, n) = {}
  OBVIOUS
<1>1. \A j \in LineEnds(c, 0) : j \in Int /\ j > 0
  BY DEF LineEnds, Newlines
<1>2. {j \in LineEnds(c, 0) : j <= n /\ RecordEndsAt(c, 0, j)} = {}
  BY <1>1
<1>3. QED BY <1>2 DEF Events

\* What is stored of a file includes the lines before the cursor.
LEMMA StoredLines ==
    ASSUME NEW c \in Seq(Byte), NEW off \in Int, NEW es, Stored(c, off, es)
    PROVE  Events(c, 0, off) \subseteq es
<1>1. PICK e \in 0 .. Len(c) : off <= e /\ Events(c, 0, e) \subseteq es
  BY DEF Stored
<1>2. Events(c, 0, off) \subseteq Events(c, 0, e)
  BY <1>1, EventsGrow
<1>3. QED BY <1>1, <1>2

LEMMA StoredMore ==
    ASSUME NEW c \in Seq(Byte), NEW d \in Seq(Byte), HasPrefix(d, c),
           NEW off \in Int, NEW es, NEW more, es \subseteq more, Stored(c, off, es)
    PROVE  Stored(d, off, more)
<1>1. PICK e \in 0 .. Len(c) : off <= e /\ Boundary(c, e) /\ Events(c, 0, e) \subseteq es
  BY DEF Stored
<1>2. e \in 0 .. Len(d)
  BY DEF HasPrefix
<1>3. Boundary(d, e) /\ Events(d, 0, e) = Events(c, 0, e)
  <2>1. 0 \in Nat
    OBVIOUS
  <2>2. QED BY <1>1, <2>1, ExtendKeepsLine, ExtendKeepsEvents
<1>4. QED BY <1>1, <1>2, <1>3 DEF Stored

\* A write that leaves the consumed bytes alone leaves the stored lines alone.
LEMMA ConsumedStored ==
    ASSUME NEW c \in Seq(Byte), NEW d \in Seq(Byte), NEW off \in Int, NEW es,
           off <= Len(c), Stored(c, off, es),
           \A i \in Consumed(c, off) : i \in DOMAIN d /\ d[i] = c[i]
    PROVE  Stored(d, off, es)
<1>1. PICK e \in 0 .. Len(c) : off <= e /\ Boundary(c, e) /\ Events(c, 0, e) \subseteq es
  BY DEF Stored
<1>2. CASE off <= 0
  <2>1. 0 \in 0 .. Len(d) /\ off <= 0 /\ Boundary(d, 0)
    BY <1>2 DEF Boundary
  <2>2. Events(d, 0, 0) = {}
    BY EventsFromStart
  <2>3. QED BY <2>1, <2>2 DEF Stored
<1>3. CASE off > 0
  <2> DEFINE T == {j \in off .. e : c[j] = NL}
  <2>1. e \in T /\ T \subseteq Nat
    BY <1>1, <1>3 DEF Boundary
  <2>2. PICK n \in T : \A j \in T : n <= j
    <3> HIDE DEF T
    <3> QED BY <2>1, LeastNatural
  <2>3. /\ n \in Nat /\ off <= n /\ n <= e /\ c[n] = NL
        /\ \A j \in off .. n - 1 : c[j] # NL
    BY <1>1, <1>3, <2>2
  <2>4. 1 .. n \subseteq Consumed(c, off)
    <3>1. SUFFICES ASSUME NEW i \in 1 .. n PROVE i \in Consumed(c, off)
      OBVIOUS
    <3>2. i \in DOMAIN c /\ \A j \in off .. i - 1 : c[j] # NL
      BY <2>3
    <3>3. QED BY <1>3, <3>2 DEF Consumed
  <2>5. n \in 1 .. n /\ n <= Len(c)
    BY <1>3, <2>3
  <2>6. n \in DOMAIN d /\ \A i \in 1 .. n : d[i] = c[i]
    BY <2>4, <2>5
  <2>7. n <= Len(d) /\ n \in 0 .. Len(d) /\ n \in 1 .. Len(c)
    BY <2>5, <2>6
  <2>8. (Boundary(d, n) <=> Boundary(c, n)) /\ Events(d, 0, n) = Events(c, 0, n)
    BY <2>3, <2>5, <2>6, <2>7, SamePrefix
  <2>9. Boundary(c, n)
    BY <2>3, <2>7 DEF Boundary
  <2>10. Events(c, 0, n) \subseteq Events(c, 0, e)
    BY <2>3, EventsGrow
  <2>11. QED BY <1>1, <2>3, <2>7, <2>8, <2>9, <2>10 DEF Stored
<1>4. QED BY <1>2, <1>3

\* A scan takes up at least the lines beyond what was stored before it, also
\* one that starts within a line, and stops its offset at or before the last.
LEMMA ScanStored ==
    ASSUME NEW c \in Seq(Byte), NEW from \in 0 .. Len(c), NEW size \in Nat, size <= Len(c),
           NEW es, Stored(c, from, es), NLAssumption
    PROVE  Stored(c, size - TailLength(c, from), es \cup Events(c, from, Len(c)))
<1> DEFINE new == size - TailLength(c, from)
<1>1. PICK m \in 0 .. Len(c) : from <= m /\ Boundary(c, m) /\ Events(c, 0, m) \subseteq es
  BY DEF Stored
<1>2. TailLength(c, from) \in Nat /\ new \in Int
  BY TailLengthType
<1>3. CASE LineEnds(c, from) = {}
  <2>1. TailLength(c, from) = Len(c) - from
    BY <1>3 DEF TailLength
  <2>2. new <= m
    BY <1>1, <2>1
  <2> HIDE DEF new
  <2>3. QED BY <1>1, <2>2 DEF Stored, new
<1>4. CASE LineEnds(c, from) # {}
  <2>1. LineEnds(c, from) \subseteq 0 .. Len(c) /\ Len(c) \in Nat
    BY DEF LineEnds, Newlines
  <2>2. PICK n \in LineEnds(c, from) : \A j \in LineEnds(c, from) : j <= n
    BY <1>4, <2>1, LargestNatural
  <2>3. n \in 0 .. Len(c) /\ n > from /\ c[n] = NL /\ n \in 1 .. Len(c)
    BY <2>1, <2>2 DEF LineEnds, Newlines
  <2>4. m <= n
    <3>1. CASE m = from
      BY <2>3, <3>1
    <3>2. CASE m # from
      <4>1. m \in LineEnds(c, from)
        BY <1>1, <3>2 DEF LineEnds, Newlines, Boundary
      <4>2. QED BY <2>2, <4>1
    <3>3. QED BY <3>1, <3>2
  <2>5. new <= n
    <3>1. Len(c) - TailLength(c, from) \in LineEnds(c, from)
      <4> DEFINE Rest(t) == /\ Len(c) - t \in LineEnds(c, from)
                            /\ \A j \in LineEnds(c, from) : j <= Len(c) - t
      <4>1. \E t \in 0 .. Len(c) : Rest(t)
        <5>1. Len(c) - n \in 0 .. Len(c) /\ Len(c) - (Len(c) - n) = n
          BY <2>3
        <5>2. QED BY <2>2, <5>1
      <4>2. TailLength(c, from) = CHOOSE t \in 0 .. Len(c) : Rest(t)
        BY <1>4 DEF TailLength
      <4>3. Rest(TailLength(c, from))
        <5> HIDE DEF Rest
        <5> QED BY <4>1, <4>2
      <4>4. QED BY <4>3
    <3>2. Len(c) - TailLength(c, from) <= n
      BY <2>2, <3>1
    <3>3. QED BY <1>2, <2>1, <2>3, <3>2
  <2>6. Events(c, 0, n) = Events(c, 0, m) \cup Events(c, m, n)
    <3>1. n \in m .. Len(c)
      BY <2>3, <2>4
    <3>2. QED BY <1>1, <3>1, SplitEvents
  <2>7. Events(c, m, n) \subseteq Events(c, from, Len(c))
    <3>1. {j \in LineEnds(c, m) : j <= n /\ RecordEndsAt(c, m, j)}
            \subseteq {j \in LineEnds(c, from) : j <= Len(c) /\ RecordEndsAt(c, from, j)}
      <4>1. SUFFICES ASSUME NEW j \in LineEnds(c, m), j <= n, RecordEndsAt(c, m, j)
                     PROVE  j \in LineEnds(c, from) /\ j <= Len(c) /\ RecordEndsAt(c, from, j)
        OBVIOUS
      <4>2. j \in LineEnds(c, from) /\ j <= Len(c) /\ j \in Int
        BY <1>1, <2>1 DEF LineEnds, Newlines
      <4>3. j - 3 >= from /\ (j - 3 = from \/ c[j - 3] = NL)
        BY <1>1, <4>1, <4>2 DEF RecordEndsAt, Boundary
      <4>4. QED BY <4>1, <4>2, <4>3 DEF RecordEndsAt
    <3>2. QED BY <3>1 DEF Events
  <2>8. Boundary(c, n)
    BY <2>3 DEF Boundary
  <2> HIDE DEF new
  <2>9. QED BY <1>1, <2>3, <2>5, <2>6, <2>7, <2>8 DEF Stored, new
<1>5. QED BY <1>3, <1>4

-----------------------------------------------------------------------------
\* A write that lands in a live visit appends.
LEMMA WriteIsLive ==
    ASSUME TypeInv, NEW f \in File, NEW c \in Seq(Byte), Write(f, c),
           UNCHANGED <<db, pc, visit>>, Planned, Live'
    PROVE  Live /\ HasPrefix(content'[cur], content[cur])
<1>1. content \in [File -> Seq(Byte)] /\ content' = [content EXCEPT ![f] = c]
      /\ cur' = cur /\ facts' = facts
  BY DEF TypeInv, TypeOK, Write, visit
<1>2. cur \in File
  BY DEF TypeInv, VisitTyped, Visiting, Planned
<1>3. CASE cur = f
  <2>1. content'[cur] = c
    BY <1>1, <1>2, <1>3
  <2>2. HasPrefix(c, facts.sha)
    BY <1>1, <2>1 DEF Live
  <2>3. QED BY <1>3, <2>1, <2>2 DEF Write, Visible, Hashed, Planned, Live
<1>4. CASE cur # f
  <2>1. content'[cur] = content[cur]
    BY <1>1, <1>2, <1>4
  <2>2. QED BY <1>1, <1>2, <2>1 DEF Live, HasPrefix
<1>5. QED BY <1>3, <1>4

LEMMA WriteHeld ==
    ASSUME HeldInv, NEW f \in File, NEW c \in Seq(Byte), Write(f, c),
           UNCHANGED <<db, pc, visit>>
    PROVE  RowsHold' /\ PlanSound' /\ ResumeSound' /\ HeldSound'
<1> DEFINE old == content[cur]
           now == content'[cur]
<1>1. /\ content \in [File -> Seq(Byte)] /\ content' = [content EXCEPT ![f] = c]
      /\ cursor' = cursor /\ events' = events /\ pc' = pc /\ cur' = cur /\ facts' = facts
      /\ plan' = plan /\ scan' = scan /\ TypeInv
  BY DEF HeldInv, TypeInv, TypeOK, Write, db, visit
<1>2. RowsHold'
  <2>1. SUFFICES ASSUME NEW g \in File, Covers(cursor[g], content'[g])
                 PROVE  Stored(content'[g], cursor[g].off, events[g])
    BY <1>1 DEF RowsHold
  <2>2. CASE g # f
    BY <1>1, <2>1, <2>2 DEF HeldInv, RowsHold
  <2>3. CASE g = f
    <3>1. content'[g] = c /\ content[g] \in Seq(Byte)
      BY <1>1, <2>3
    <3>2. /\ Covers(cursor[g], content[g])
          /\ \A i \in Consumed(content[g], cursor[g].off) : i \in DOMAIN c /\ c[i] = content[g][i]
      BY <2>1, <2>3, <3>1 DEF Write, Visible
    <3>3. cursor[g].off \in Int /\ cursor[g].off <= Len(content[g])
      BY <3>2 DEF Covers, HeldInv, TypeInv, TypeOK, CursorRow
    <3>4. Stored(content[g], cursor[g].off, events[g])
      BY <3>2 DEF HeldInv, RowsHold
    <3>5. QED BY <3>1, <3>2, <3>3, <3>4, ConsumedStored
  <2>4. QED BY <2>2, <2>3
<1>3. PlanSound' /\ (Scanned => (~scan.found => scan.events = {}))
  BY <1>1 DEF HeldInv, PlanSound, HeldSound, Planned
<1>4. SUFFICES ASSUME Planned, Live'
               PROVE  /\ plan.action = "resume" => HasPrefix(now, cursor[cur].sha)
                      /\ plan.action = "resume" /\ pc # "open" => cursor[cur].off <= Len(now)
                      /\ pc = "read" => plan.start \in 0 .. Len(now) /\ scan.size <= Len(now)
                      /\ Scanned => Stored(now, scan.new, Earlier \cup scan.events)
  BY <1>1, <1>2, <1>3 DEF ResumeSound, HeldSound, Planned, Scanned, Live, Earlier
<1>5. cur \in File /\ old \in Seq(Byte) /\ now \in Seq(Byte)
  BY <1>1, <1>4 DEF TypeInv, VisitTyped, Visiting, Planned
<1>6. Live /\ HasPrefix(now, old)
  BY <1>1, <1>4, WriteIsLive
<1>7. Len(old) \in Nat /\ Len(now) \in Nat /\ Len(old) <= Len(now)
  BY <1>5, <1>6 DEF HasPrefix
<1>8. ASSUME plan.action = "resume"
      PROVE  /\ HasPrefix(now, cursor[cur].sha)
             /\ pc # "open" => cursor[cur].off <= Len(now)
  <2>1. HasPrefix(old, cursor[cur].sha) /\ (pc # "open" => cursor[cur].off <= Len(old))
    BY <1>4, <1>6, <1>8 DEF HeldInv, ResumeSound
  <2>2. cursor[cur].sha \in Seq(Byte) /\ cursor[cur].off \in Int
    BY <1>1, <1>4, <1>5, <1>8 DEF TypeInv, TypeOK, VisitTyped, CursorRow
  <2>3. HasPrefix(now, cursor[cur].sha)
    BY <1>5, <1>6, <2>1, <2>2, PrefixTransitive
  <2>4. QED BY <1>7, <2>1, <2>2, <2>3
<1>9. pc = "read" => plan.start \in 0 .. Len(now) /\ scan.size <= Len(now)
  <2>1. pc = "read" => plan.start \in 0 .. Len(old) /\ scan.size <= Len(old)
    BY <1>6 DEF HeldInv, HeldSound
  <2>2. scan.size \in Nat
    BY <1>1 DEF TypeInv, TypeOK
  <2>3. QED BY <1>7, <2>1, <2>2
<1>10. Scanned => Stored(now, scan.new, Earlier \cup scan.events)
  <2>1. Scanned => Stored(old, scan.new, Earlier \cup scan.events)
    BY <1>6 DEF HeldInv, HeldSound
  <2>2. scan.new \in Int
    BY <1>1 DEF TypeInv, TypeOK
  <2>3. QED BY <1>5, <1>6, <2>1, <2>2, StoredMore
<1>11. QED BY <1>8, <1>9, <1>10

\* A step of a run that writes nothing and plans nothing.
LEMMA QuietHeld ==
    ASSUME HeldInv, UNCHANGED <<content, cursor, events>>,
           pc' \notin {"open", "read", "parse", "persist"}
    PROVE  RowsHold' /\ PlanSound' /\ ResumeSound' /\ HeldSound'
<1>1. PlanSound' /\ ResumeSound' /\ HeldSound'
  BY DEF PlanSound, ResumeSound, HeldSound, Planned, Scanned
<1>2. RowsHold'
  BY DEF HeldInv, RowsHold
<1>3. QED BY <1>1, <1>2

LEMMA FlagHeld ==
    ASSUME HeldInv, Discard \/ MarkMissing \/ Skip
    PROVE  RowsHold' /\ PlanSound' /\ ResumeSound' /\ HeldSound'
<1>1. PlanSound' /\ ResumeSound' /\ HeldSound'
  BY DEF Discard, MarkMissing, Skip, PlanSound, ResumeSound, HeldSound, Planned, Scanned
<1>2. CASE Discard
  BY <1>1, <1>2 DEF Discard, RowsHold, Covers
<1>3. CASE MarkMissing \/ Skip
  <2>1. /\ content' = content /\ events' = events
        /\ \A f \in File : Covers(cursor'[f], content[f]) =>
             Covers(cursor[f], content[f]) /\ cursor'[f].off = cursor[f].off
    BY <1>3, FlagKeepsRows DEF HeldInv, Covers
  <2>2. RowsHold'
    BY <2>1 DEF HeldInv, RowsHold
  <2>3. QED BY <1>1, <2>2
<1>4. QED BY <1>2, <1>3

LEMMA LookHeld ==
    ASSUME HeldInv, Plan \/ Open \/ Read \/ Parse
    PROVE  RowsHold' /\ PlanSound' /\ ResumeSound' /\ HeldSound'
<1>1. UNCHANGED <<content, cursor, events>>
  BY DEF Plan, Open, Read, Parse, tree, db
<1>2. RowsHold' /\ TypeInv /\ RowsHold /\ PlanSound /\ ResumeSound /\ HeldSound
  BY <1>1 DEF HeldInv, RowsHold
<1>3. CASE Plan
  <2>1. HeldSound'
    BY <1>3 DEF Plan, HeldSound, Scanned
  <2>2. QED BY <1>2, <1>3, <2>1, PlanVisitInv DEF VisitInv
<1>4. cur \in File /\ content[cur] \in Seq(Byte) /\ Len(content[cur]) \in Nat
  <2>1. cur \in File \/ Plan
    BY DEF Open, Read, Parse, TypeInv, VisitTyped, Visiting, HeldInv
  <2>2. Plan => cur \in File
    BY DEF Plan, TypeInv, VisitTyped, Visiting, HeldInv
  <2>3. QED BY <2>1, <2>2 DEF HeldInv, TypeInv, TypeOK
<1>5. CASE Open
  <2>1. /\ UNCHANGED <<cur, facts, plan>> /\ pc = "open" /\ pc' = "read"
        /\ plan.start \in 0 .. Len(content[cur]) /\ scan'.size = Len(content[cur])
    BY <1>2, <1>5 DEF Open, TypeInv, TypeOK
  <2>2. PlanSound' /\ plan.start <= Len(content[cur])
    BY <1>1, <1>2, <1>4, <2>1 DEF PlanSound, Planned
  <2>3. ResumeSound'
    BY <1>1, <1>2, <2>1, <2>2 DEF PlanSound, ResumeSound, Planned, Live
  <2>4. HeldSound'
    BY <1>1, <1>4, <2>1 DEF HeldSound, Scanned, Live
  <2>5. QED BY <1>2, <2>2, <2>3, <2>4
<1>6. CASE Read
  <2> DEFINE c == content[cur]
  <2>1. /\ UNCHANGED <<cur, facts, plan>> /\ pc = "read" /\ pc' \in {"parse", "persist"}
        /\ scan'.new = scan.size - TailLength(c, plan.start)
        /\ scan'.found = (LineEnds(c, plan.start) # {})
        /\ scan'.events = Events(c, plan.start, Len(c))
        /\ scan.size \in Nat
    BY <1>2, <1>6 DEF Read, NewOffset, TypeInv, TypeOK
  <2>2. LineEnds(c, plan.start) = {} => scan'.events = {}
    BY <2>1 DEF Events
  <2>3. ASSUME Live PROVE Stored(c, scan'.new, Earlier \cup scan'.events)
    <3>1. plan.start \in 0 .. Len(c) /\ scan.size <= Len(c)
      BY <1>2, <2>1, <2>3 DEF HeldSound
    <3>2. Stored(c, plan.start, Earlier)
      <4>1. CASE plan.action = "resume"
        <5>1. Covers(cursor[cur], c) /\ plan.start = cursor[cur].off
          BY <1>2, <2>1, <2>3, <4>1 DEF PlanSound, ResumeSound, TypeInv, VisitTyped, Covers, Planned
        <5>2. QED BY <1>2, <1>4, <4>1, <5>1 DEF RowsHold, Earlier
      <4>2. CASE plan.action # "resume"
        <5>1. plan.action \in {"none", "parse", "resume", "reparse"}
          BY <1>2 DEF TypeInv, TypeOK
        <5>2. plan.start = 0
          BY <1>2, <2>1, <4>2, <5>1 DEF PlanSound, Planned
        <5>3. Events(c, 0, 0) = {} /\ Boundary(c, 0) /\ 0 \in 0 .. Len(c) /\ 0 <= 0
          BY <1>4, EventsFromStart DEF Boundary
        <5>4. QED BY <5>2, <5>3 DEF Stored
      <4>3. QED BY <4>1, <4>2
    <3> HIDE DEF c
    <3>3. Stored(c, scan.size - TailLength(c, plan.start), Earlier \cup Events(c, plan.start, Len(c)))
      BY <1>4, <2>1, <3>1, <3>2, NLAssumption, ScanStored DEF c
    <3>4. QED BY <2>1, <3>3
  <2> HIDE DEF c
  <2>4. PlanSound' /\ ResumeSound'
    BY <1>1, <1>2, <2>1 DEF PlanSound, ResumeSound, Planned, Live
  <2>5. HeldSound'
    BY <1>1, <2>1, <2>2, <2>3 DEF HeldSound, Scanned, Live, Earlier, c
  <2>6. QED BY <1>2, <2>4, <2>5
<1>7. CASE Parse
  <2>1. /\ UNCHANGED <<cur, facts, plan>> /\ pc = "parse" /\ pc' = "persist"
        /\ scan'.found = scan.found /\ scan'.new = scan.new /\ scan'.events = scan.events
    BY <1>2, <1>7 DEF Parse, TypeInv, TypeOK
  <2>2. QED
    BY <1>1, <1>2, <2>1 DEF PlanSound, ResumeSound, HeldSound, Planned, Scanned, Live, Earlier
<1>8. QED BY <1>3, <1>5, <1>6, <1>7

\* What a commit of a live file has to make true of the row it writes.
LEMMA RowHeld ==
    ASSUME HeldInv, cur \in File, NEW row \in CursorRow, NEW es,
           content' = content, cursor' = [cursor EXCEPT ![cur] = row],
           events' = [events EXCEPT ![cur] = es], row.sha = facts.sha,
           Live => Stored(content[cur], row.off, es)
    PROVE  RowsHold'
<1>1. cursor \in [File -> CursorRow \cup {NoRow}] /\ events \in [File -> SUBSET Event]
  BY DEF HeldInv, TypeInv, TypeOK
<1>2. SUFFICES ASSUME NEW f \in File, Covers(cursor'[f], content[f])
               PROVE  Stored(content[f], cursor'[f].off, events'[f])
  BY DEF RowsHold
<1>3. CASE f = cur
  <2>1. cursor'[f] = row /\ events'[f] = es
    BY <1>1, <1>3
  <2>2. Live
    BY <1>2, <1>3, <2>1 DEF Covers, Live
  <2>3. QED BY <1>3, <2>1, <2>2
<1>4. CASE f # cur
  <2>1. cursor'[f] = cursor[f] /\ events'[f] = events[f]
    BY <1>1, <1>4
  <2>2. QED BY <1>2, <2>1 DEF HeldInv, RowsHold
<1>5. QED BY <1>3, <1>4

LEMMA CommitHeld ==
    ASSUME HeldInv, Refresh \/ Persist
    PROVE  RowsHold' /\ PlanSound' /\ ResumeSound' /\ HeldSound'
<1>1. PlanSound' /\ ResumeSound' /\ HeldSound'
  BY DEF Refresh, Persist, PlanSound, ResumeSound, HeldSound, Planned, Scanned
<1>2. /\ pc = "persist" /\ cur \in File /\ scan.sid \in Session /\ scan.new \in Int /\ TypeOK
      /\ cursor[cur] \in CursorRow \cup {NoRow} /\ PlanSound
      /\ Live => Stored(content[cur], scan.new, Earlier \cup scan.events)
  BY DEF Refresh, Persist, HeldInv, TypeInv, TypeOK, VisitTyped, Visiting, Scanned, HeldSound
<1>3. CASE Refresh
  <2> DEFINE errors == IF RegionEmpty THEN cursor[cur].errors ELSE 1
             row == Upsert(cursor[cur], cursor[cur].sid, scan.new, errors)
  <2>1. plan.action = "resume" /\ ~scan.found /\ cursor[cur] \in CursorRow
    BY <1>2, <1>3 DEF Refresh, NothingNew, HeldInv, TypeInv, VisitTyped, Planned
  <2>2. cursor[cur].sid \in Session /\ errors \in Nat
    BY <2>1 DEF CursorRow
  <2>3. row \in CursorRow
    BY <1>2, <2>1, <2>2, UpsertType
  <2>4. row.sha = facts.sha /\ row.off = scan.new
    BY DEF Upsert
  <2>5. Earlier \cup scan.events = events[cur]
    BY <1>2, <2>1 DEF HeldInv, HeldSound, Scanned, Earlier
  <2>6. /\ content' = content /\ cursor' = [cursor EXCEPT ![cur] = row]
        /\ events' = [events EXCEPT ![cur] = events[cur]]
    BY <1>2, <1>3 DEF Refresh, tree, TypeOK
  <2> HIDE DEF row
  <2>7. QED BY <1>1, <1>2, <2>3, <2>4, <2>5, <2>6, RowHeld
<1>4. CASE Persist
  <2> DEFINE errors == scan.errors + IF scan.tail THEN 1 ELSE 0
             row == Upsert(cursor[cur], scan.sid, scan.new, errors)
  <2>1. errors \in Nat
    BY <1>2 DEF TypeOK
  <2>2. row \in CursorRow
    BY <1>2, <2>1, UpsertType
  <2>3. row.sha = facts.sha /\ row.off = scan.new
    BY DEF Upsert
  <2>4. Earlier \cup scan.events \subseteq KeptEvents \cup scan.events
    BY <1>2 DEF PlanSound, Planned, Earlier, KeptEvents
  <2>5. Live => Stored(content[cur], scan.new, KeptEvents \cup scan.events)
    <3>1. content[cur] \in Seq(Byte) /\ HasPrefix(content[cur], content[cur])
      BY <1>2 DEF TypeOK, HasPrefix
    <3>2. QED BY <1>2, <2>4, <3>1, StoredMore
  <2>6. /\ content' = content /\ cursor' = [cursor EXCEPT ![cur] = row]
        /\ events' = [events EXCEPT ![cur] = KeptEvents \cup scan.events]
    BY <1>4 DEF Persist, tree
  <2> HIDE DEF row
  <2>7. QED BY <1>1, <1>2, <2>2, <2>3, <2>5, <2>6, RowHeld
<1>5. QED BY <1>3, <1>4

LEMMA ProducerHeld ==
    ASSUME HeldInv, Producer
    PROVE  RowsHold' /\ PlanSound' /\ ResumeSound' /\ HeldSound'
<1>1. PICK f \in File : Extend(f) \/ Replace(f) \/ Remove(f) \/ Restore(f) \/ Settle(f)
  BY DEF Producer
<1>2. TreeTyped /\ UNCHANGED <<db, pc, visit>>
  BY <1>1, TypeParts DEF Extend, Replace, Remove, Restore, Settle, HeldInv, TypeInv
<1>3. CASE Extend(f)
  <2>1. PICK b \in Chunk : Write(f, content[f] \o b)
    BY <1>3 DEF Extend
  <2>2. QED BY <1>2, <2>1, WrittenBytes, WriteHeld
<1>4. CASE Replace(f)
  <2>1. PICK c \in Rewrite \cup {SubSeq(content[f], 1, n) : n \in 0 .. Len(content[f]) - 1} :
           Write(f, c)
    BY <1>4 DEF Replace
  <2>2. c \in Seq(Byte)
    BY <1>2, WrittenBytes
  <2>3. QED BY <1>2, <2>1, <2>2, WriteHeld
<1>5. CASE Remove(f) \/ Restore(f) \/ Settle(f)
  <2>1. UNCHANGED content
    BY <1>5 DEF Remove, Restore, Settle
  <2>2. RowsHold'
    BY <1>2, <2>1 DEF HeldInv, RowsHold, db
  <2>3. QED BY <1>2, <2>1, <2>2
        DEF HeldInv, PlanSound, ResumeSound, HeldSound, Planned, Scanned, Live, Earlier, db, visit
<1>6. QED BY <1>1, <1>3, <1>4, <1>5

LEMMA InitHeld == Init => HeldInv
<1> SUFFICES ASSUME Init PROVE HeldInv
  OBVIOUS
<1>1. TypeInv
  BY InitTypeInv
<1>2. QED BY <1>1 DEF Init, HeldInv, RowsHold, PlanSound, ResumeSound, HeldSound, Covers,
          Planned, Scanned

LEMMA NextHeld == HeldInv /\ [Next]_vars => HeldInv'
<1> SUFFICES ASSUME HeldInv, [Next]_vars PROVE HeldInv'
  OBVIOUS
<1>1. TypeInv'
  BY NextTypeInv DEF HeldInv
<1>2. SUFFICES RowsHold' /\ PlanSound' /\ ResumeSound' /\ HeldSound'
  BY <1>1 DEF HeldInv
<1>3. CASE UNCHANGED vars
  BY <1>3 DEF vars, tree, db, visit, HeldInv, RowsHold, PlanSound, ResumeSound, HeldSound,
     Planned, Scanned, Live, Earlier
<1>4. CASE Producer
  BY <1>4, ProducerHeld
<1>5. CASE \/ StartSource \/ StartRebuild \/ \E f \in File : StartFile(f)
           \/ Pick \/ EndRun \/ Stat \/ Hash \/ DoNotSkip \/ Stop
  <2>1. UNCHANGED <<content, cursor, events>> /\ pc' \notin {"open", "read", "parse", "persist"}
    BY <1>5 DEF StartSource, StartRebuild, StartFile, Pick, EndRun, Stat, Hash, DoNotSkip, Stop,
       tree, db
  <2>2. QED BY <2>1, QuietHeld
<1>6. CASE Discard \/ MarkMissing \/ Skip
  BY <1>6, FlagHeld
<1>7. CASE Plan \/ Open \/ Read \/ Parse
  BY <1>7, LookHeld
<1>8. CASE Refresh \/ Persist
  BY <1>8, CommitHeld
<1>9. CASE Vanished \/ StartRefused \/ PersistFails \/ Crash
  <2>1. Stop
    BY <1>9 DEF Vanished, StartRefused, PersistFails, Crash
  <2>2. QED BY <1>5, <2>1
<1>10. QED
  BY <1>3, <1>4, <1>5, <1>6, <1>7, <1>8, <1>9 DEF Next, Step, Operator

\* Where ingest may resume, every complete line before the offset has its event
\* stored, with appends and rewrites in the middle of a visit (scan_lines reads
\* past the size it took, and LineScan.new_offset is computed from that size).
THEOREM NothingIsLost == Spec => []NoLineLost
<1>1. HeldInv => NoLineLost
  <2>1. SUFFICES ASSUME HeldInv, NEW f \in File, Covers(cursor[f], content[f])
                 PROVE  Events(content[f], 0, cursor[f].off) \subseteq events[f]
    BY DEF NoLineLost
  <2>2. content[f] \in Seq(Byte) /\ cursor[f].off \in Int
    BY <2>1 DEF HeldInv, TypeInv, TypeOK, Covers, CursorRow
  <2>3. Stored(content[f], cursor[f].off, events[f])
    BY <2>1 DEF HeldInv, RowsHold
  <2>4. QED BY <2>2, <2>3, StoredLines
<1>2. QED BY <1>1, InitHeld, NextHeld, PTL DEF Spec

-----------------------------------------------------------------------------
(* Sessions *)

UsageInv == TypeInv /\ UsageFollowsSession

\* A commit adds the session of its row, and takes away the one the row named
\* before unless it is the same.
LEMMA UsageCommitted ==
    ASSUME UsageInv, Refresh \/ Persist
    PROVE  UsageFollowsSession'
<1>1. /\ cur \in File /\ scan.sid \in Session /\ scan.new \in Int /\ TypeOK
      /\ cursor[cur] \in CursorRow \cup {NoRow}
      /\ cursor \in [File -> CursorRow \cup {NoRow}]
  BY DEF Refresh, Persist, UsageInv, TypeInv, TypeOK, VisitTyped, Visiting, Scanned
<1>2. CASE Refresh
  <2> DEFINE errors == IF RegionEmpty THEN cursor[cur].errors ELSE 1
             row == Upsert(cursor[cur], cursor[cur].sid, scan.new, errors)
  <2>1. cursor[cur] \in CursorRow
    BY <1>1, <1>2 DEF Refresh, NothingNew, UsageInv, TypeInv, VisitTyped, Planned
  <2>2. cursor[cur].sid \in Session /\ errors \in Nat
    BY <2>1 DEF CursorRow
  <2>3. row \in CursorRow /\ row.sid = cursor[cur].sid /\ row # NoRow
    BY <1>1, <2>1, <2>2, UpsertType, NoRowAssumption DEF Upsert
  <2>4. cursor' = [cursor EXCEPT ![cur] = row] /\ usage' = usage
    BY <1>2 DEF Refresh
  <2> HIDE DEF row
  <2>5. QED BY <1>1, <2>3, <2>4 DEF UsageInv, UsageFollowsSession
<1>3. CASE Persist
  <2> DEFINE errors == scan.errors + IF scan.tail THEN 1 ELSE 0
             row == Upsert(cursor[cur], scan.sid, scan.new, errors)
  <2>1. errors \in Nat
    BY <1>1 DEF TypeOK
  <2>2. row \in CursorRow /\ row.sid = scan.sid /\ row # NoRow
    BY <1>1, <2>1, UpsertType, NoRowAssumption DEF Upsert
  <2>3. cursor' = [cursor EXCEPT ![cur] = row] /\ usage' = KeptUsage(cursor[cur]) \cup Measured
    BY <1>3 DEF Persist
  <2> HIDE DEF row
  <2>4. \A s \in KeptUsage(cursor[cur]) : s # scan.sid =>
           s \in usage /\ (cursor[cur] # NoRow => cursor[cur].sid # s)
    BY DEF KeptUsage, StaleSessions
  <2>5. Measured \subseteq {scan.sid}
    BY DEF Measured
  <2>6. QED BY <1>1, <2>2, <2>3, <2>4, <2>5 DEF UsageInv, UsageFollowsSession
<1>4. QED BY <1>2, <1>3

LEMMA UsageNext == UsageInv /\ [Next]_vars => UsageInv'
<1> SUFFICES ASSUME UsageInv, [Next]_vars PROVE UsageInv'
  OBVIOUS
<1>1. SUFFICES UsageFollowsSession'
  BY NextTypeInv DEF UsageInv
<1>2. CASE Refresh \/ Persist
  BY <1>2, UsageCommitted
<1>3. CASE Discard
  BY <1>3 DEF Discard, UsageFollowsSession
<1>4. CASE MarkMissing \/ Skip
  <2>1. usage' = usage
    BY <1>4 DEF MarkMissing, Skip
  <2>2. QED BY <1>4, <2>1, FlagKeepsRows DEF UsageInv, UsageFollowsSession
<1>5. CASE UNCHANGED vars \/ Producer \/ StartSource \/ Operator \/ (Step /\ UNCHANGED db)
  <2>1. cursor' = cursor /\ usage' = usage
    BY <1>5 DEF vars, Producer, Extend, Replace, Remove, Restore, Settle, StartSource, Operator,
       StartFile, StartRebuild, Crash, Stop, db
  <2>2. QED BY <2>1 DEF UsageInv, UsageFollowsSession
<1>6. CASE Step
  <2>1. Refresh \/ Persist \/ Discard \/ MarkMissing \/ Skip \/ UNCHANGED db
    BY <1>6 DEF Step, Pick, EndRun, Stat, Hash, DoNotSkip, Plan, Open, Read, Parse, Vanished,
       StartRefused, PersistFails, Stop
  <2>2. QED BY <1>2, <1>3, <1>4, <1>5, <1>6, <2>1
<1>7. QED BY <1>5, <1>6 DEF Next

\* A usage row always belongs to the session some cursor row names: a commit
\* that follows a changed session id removes the row of the old one, on a resume
\* as on a reparse (_persist_usage).
THEOREM UsageAlwaysFollows == Spec => []UsageFollowsSession
<1>1. Init => UsageInv
  BY InitTypeInv DEF Init, UsageInv, UsageFollowsSession
<1>2. UsageInv => UsageFollowsSession
  BY DEF UsageInv
<1>3. QED BY <1>1, <1>2, UsageNext, PTL DEF Spec

-----------------------------------------------------------------------------
(***************************************************************************)
(* Observations are those of a scan from scratch, where a session is one    *)
(* file: the id comes from the name of the file and names no other one.     *)
(* Where two files name one session a commit of one removes the rows of the *)
(* other (README), and where a file changes its session those of the old    *)
(* one stay.                                                                *)
(***************************************************************************)
SessionIsFile ==
    /\ \A r \in Record : SessionOf[r] = NoSession
    /\ \A f, g \in File : Stem[f] = Stem[g] => f = g

StemSessions ==
    /\ \A f \in File : cursor[f] # NoRow => cursor[f].sid = Stem[f]
    /\ Scanned => scan.sid = Stem[cur]
    /\ \A o \in obs : o.sid = Stem[o.path]

\* What the second read of the file yields, if it yields anything.
NormSound ==
    pc = "persist" /\ ~NothingNew /\ Live /\ scan.norm # {} =>
        scan.norm = Events(content[cur], 0, scan.new)

ObsInv == CommitInv /\ StemSessions /\ NormSound /\ ObservationsAsFromScratch

LEMMA FallbackStands ==
    ASSUME SessionIsFile, NEW c \in Seq(Byte), NEW from \in Int, NEW fallback
    PROVE  SessionId(c, from, fallback) = fallback
<1>1. \A i \in Int : RecordEndsAt(c, from, i) => c[i - 1] \in Record
  BY DEF RecordEndsAt
<1>2. {i \in LineEnds(c, from) : RecordEndsAt(c, from, i) /\ SessionOf[c[i - 1]] # NoSession} = {}
  BY <1>1 DEF LineEnds, Newlines, SessionIsFile
<1>3. QED BY <1>2 DEF SessionId

\* A step that leaves the rows of observations alone and what they are made of.
LEMMA ObservationsFrame ==
    ASSUME ObservationsAsFromScratch, obs' = obs,
           \A f \in File : Covers(cursor'[f], content'[f]) =>
             /\ Covers(cursor[f], content[f])
             /\ cursor'[f].sid = cursor[f].sid
             /\ Events(content'[f], 0, cursor'[f].off) = Events(content[f], 0, cursor[f].off)
    PROVE  ObservationsAsFromScratch'
<1>1. SUFFICES ASSUME NEW f \in File, Covers(cursor'[f], content'[f])
               PROVE  ObservationsOf(f)' = ObservationsExpected(f)'
  BY DEF ObservationsAsFromScratch
<1>2. ObservationsOf(f)' = ObservationsOf(f)
  BY DEF ObservationsOf
<1>3. ObservationsExpected(f)' = ObservationsExpected(f)
  BY <1>1 DEF ObservationsExpected, Capped
<1>4. QED BY <1>1, <1>2, <1>3 DEF ObservationsAsFromScratch

LEMMA WriteObs ==
    ASSUME ObsInv, NEW f \in File, NEW c \in Seq(Byte), Write(f, c),
           UNCHANGED <<db, pc, visit>>
    PROVE  NormSound' /\ ObservationsAsFromScratch'
<1>1. /\ content \in [File -> Seq(Byte)] /\ content' = [content EXCEPT ![f] = c]
      /\ cursor' = cursor /\ obs' = obs /\ pc' = pc /\ cur' = cur /\ facts' = facts
      /\ plan' = plan /\ scan' = scan /\ TypeInv /\ CommitInv
  BY DEF ObsInv, CommitInv, TypeInv, TypeOK, Write, db, visit
<1>2. ASSUME NEW g \in File, Covers(cursor[g], content'[g])
      PROVE  /\ Covers(cursor[g], content[g])
             /\ Events(content'[g], 0, cursor[g].off) = Events(content[g], 0, cursor[g].off)
  <2>1. CASE g # f
    BY <1>1, <1>2, <2>1
  <2>2. CASE g = f
    <3>1. content'[g] = c /\ content[g] \in Seq(Byte)
      BY <1>1, <2>2
    <3>2. /\ Covers(cursor[g], content[g])
          /\ \A i \in Consumed(content[g], cursor[g].off) : c[i] = content[g][i]
      BY <1>2, <2>2, <3>1 DEF Write, Visible
    <3>3. cursor[g].off \in Int /\ cursor[g].off <= Len(content[g])
      BY <1>1, <3>2 DEF Covers, TypeInv, TypeOK, CursorRow
    <3>4. Boundary(content[g], cursor[g].off)
      BY <1>1, <3>2 DEF CommitInv, Committed, CursorOnLineBoundary
    <3>5. cursor[g].off \in 0 .. Len(content[g])
      BY <3>1, <3>3, <3>4, BoundaryInFile
    <3>6. cursor[g].off \in Nat /\ cursor[g].off <= Len(c)
      BY <1>2, <3>1, <3>5 DEF Covers
    <3>7. \A i \in 1 .. cursor[g].off : c[i] = content[g][i]
      BY <3>1, <3>2, <3>3, ConsumedBefore
    <3>8. Events(c, 0, cursor[g].off) = Events(content[g], 0, cursor[g].off)
      BY <3>1, <3>3, <3>6, <3>7, SamePrefix
    <3>9. QED BY <3>1, <3>2, <3>8
  <2>3. QED BY <2>1, <2>2
<1>3. ObservationsAsFromScratch'
  BY <1>1, <1>2, ObservationsFrame DEF ObsInv
<1>4. NormSound'
  <2>1. SUFFICES ASSUME pc = "persist", ~NothingNew, Live', scan.norm # {}
                 PROVE  scan.norm = Events(content'[cur], 0, scan.new)
    BY <1>1 DEF NormSound, NothingNew
  <2>2. cur \in File /\ content[cur] \in Seq(Byte) /\ content'[cur] \in Seq(Byte)
    BY <1>1, <2>1 DEF TypeInv, VisitTyped, Visiting
  <2>3. Live /\ HasPrefix(content'[cur], content[cur])
    BY <1>1, <2>1, WriteIsLive DEF Planned
  <2>4. scan.norm = Events(content[cur], 0, scan.new)
    BY <2>1, <2>3 DEF ObsInv, NormSound
  <2>5. plan.start \in 0 .. Len(content[cur]) /\ scan.new \in plan.start .. Len(content[cur])
    BY <1>1, <2>1, <2>3 DEF CommitInv, VisitInv, SpanSound, Scanned
  <2>6. scan.new \in 0 .. Len(content[cur]) /\ 0 \in Nat
    BY <2>2, <2>5
  <2>7. QED BY <2>2, <2>3, <2>4, <2>6, ExtendKeepsEvents
<1>5. QED BY <1>3, <1>4

LEMMA ProducerObs ==
    ASSUME ObsInv, Producer
    PROVE  StemSessions' /\ NormSound' /\ ObservationsAsFromScratch'
<1>1. PICK f \in File : Extend(f) \/ Replace(f) \/ Remove(f) \/ Restore(f) \/ Settle(f)
  BY DEF Producer
<1>2. TreeTyped /\ UNCHANGED <<db, pc, visit>>
  BY <1>1, TypeParts DEF Extend, Replace, Remove, Restore, Settle, ObsInv, CommitInv, TypeInv
<1>3. StemSessions'
  BY <1>2 DEF ObsInv, StemSessions, Scanned, db, visit
<1>4. CASE Extend(f)
  <2>1. PICK b \in Chunk : Write(f, content[f] \o b)
    BY <1>4 DEF Extend
  <2>2. QED BY <1>2, <1>3, <2>1, WrittenBytes, WriteObs
<1>5. CASE Replace(f)
  <2>1. PICK c \in Rewrite \cup {SubSeq(content[f], 1, n) : n \in 0 .. Len(content[f]) - 1} :
           Write(f, c)
    BY <1>5 DEF Replace
  <2>2. c \in Seq(Byte)
    BY <1>2, WrittenBytes
  <2>3. QED BY <1>2, <1>3, <2>1, <2>2, WriteObs
<1>6. CASE Remove(f) \/ Restore(f) \/ Settle(f)
  <2>1. UNCHANGED content
    BY <1>6 DEF Remove, Restore, Settle
  <2>2. ObservationsAsFromScratch'
    BY <1>2, <2>1, ObservationsFrame DEF ObsInv, db
  <2>3. NormSound'
    BY <1>2, <2>1 DEF ObsInv, NormSound, NothingNew, Live, db, visit
  <2>4. QED BY <1>3, <2>2, <2>3
<1>7. QED BY <1>1, <1>4, <1>5, <1>6

LEMMA LookObs ==
    ASSUME SessionIsFile, ObsInv, Plan \/ Open \/ Read \/ Parse
    PROVE  StemSessions' /\ NormSound' /\ ObservationsAsFromScratch'
<1>1. UNCHANGED <<content, cursor, obs, cur>>
  BY DEF Plan, Open, Read, Parse, tree, db
<1>2. ObservationsAsFromScratch' /\ TypeOK /\ TypeInv /\ StemSessions
  BY <1>1, ObservationsFrame DEF ObsInv, CommitInv, TypeInv
<1>3. CASE Plan \/ Open
  BY <1>1, <1>2, <1>3 DEF Plan, Open, StemSessions, NormSound, Scanned
<1>4. CASE Read
  <2> DEFINE fallback == IF plan.action = "resume" THEN cursor[cur].sid ELSE Stem[cur]
  <2>1. cur \in File /\ content[cur] \in Seq(Byte) /\ plan.start \in Int
    BY <1>2, <1>4 DEF Read, TypeInv, TypeOK, VisitTyped, Visiting
  <2>2. scan'.sid = SessionId(content[cur], plan.start, fallback)
        /\ scan'.found = (LineEnds(content[cur], plan.start) # {})
        /\ plan' = plan /\ pc' \in {"parse", "persist"}
        /\ (pc' = "persist" => plan.action = "resume" /\ ~scan'.found)
    BY <1>2, <1>4 DEF Read, TypeOK
  <2>3. fallback = Stem[cur]
    BY <1>2, <1>4, <2>1 DEF Read, TypeInv, VisitTyped, Planned, StemSessions
  <2>4. scan'.sid = Stem[cur]
    BY <2>1, <2>2, <2>3, FallbackStands
  <2>5. StemSessions'
    BY <1>1, <1>2, <2>4 DEF StemSessions
  <2>6. NormSound'
    BY <2>2 DEF NormSound, NothingNew
  <2>7. QED BY <1>2, <2>5, <2>6
<1>5. CASE Parse
  <2>1. /\ scan'.sid = scan.sid /\ scan'.new = scan.new
        /\ scan'.norm = (IF Kind[cur] = "reader" THEN Events(content[cur], 0, scan.new) ELSE {})
        /\ pc = "parse"
    BY <1>2, <1>5 DEF Parse, TypeOK
  <2>2. StemSessions'
    BY <1>1, <1>2, <2>1 DEF StemSessions, Scanned
  <2>3. NormSound'
    BY <1>1, <2>1 DEF NormSound
  <2>4. QED BY <1>2, <2>2, <2>3
<1>6. QED BY <1>3, <1>4, <1>5

LEMMA RefreshObs ==
    ASSUME ObsInv, Refresh, CommitInv'
    PROVE  StemSessions' /\ ObservationsAsFromScratch'
<1> DEFINE errors == IF RegionEmpty THEN cursor[cur].errors ELSE 1
           row == Upsert(cursor[cur], cursor[cur].sid, scan.new, errors)
<1>1. /\ cur \in File /\ plan.action = "resume" /\ cursor[cur] # NoRow /\ TypeOK
      /\ cursor \in [File -> CursorRow \cup {NoRow}] /\ pc = "persist" /\ CommitInv
  BY DEF Refresh, NothingNew, ObsInv, CommitInv, TypeInv, TypeOK, VisitTyped, Visiting, Planned
<1>2. /\ cursor' = [cursor EXCEPT ![cur] = row] /\ UNCHANGED <<content, events, obs>>
      /\ pc' = "pick"
  BY DEF Refresh, tree
<1>3. row.sid = cursor[cur].sid /\ row.off = scan.new /\ row.sha = facts.sha
  BY DEF Upsert
<1> HIDE DEF row
<1>4. \A f \in File : cursor'[f] = IF f = cur THEN row ELSE cursor[f]
  BY <1>1, <1>2
<1>5. StemSessions'
  BY <1>1, <1>2, <1>3, <1>4 DEF ObsInv, StemSessions, Scanned
<1>6. ASSUME NEW f \in File, Covers(cursor'[f], content'[f])
      PROVE  /\ Covers(cursor[f], content[f])
             /\ cursor'[f].sid = cursor[f].sid
             /\ Events(content'[f], 0, cursor'[f].off) = Events(content[f], 0, cursor[f].off)
  <2>1. CASE f # cur
    BY <1>2, <1>4, <1>6, <2>1
  <2>2. CASE f = cur
    <3>1. Live
      BY <1>2, <1>3, <1>4, <1>6, <2>2 DEF Covers, Live
    <3>2. Covers(cursor[f], content[f])
      BY <1>1, <2>2, <3>1 DEF CommitInv, VisitInv, ResumeSound, Planned, Covers
    <3>3. events[f] = Events(content[f], 0, cursor[f].off)
      BY <1>1, <3>2 DEF CommitInv, Committed, EventsAreCommittedLines
    <3>4. events'[f] = Events(content'[f], 0, cursor'[f].off)
      BY <1>6 DEF CommitInv, Committed, EventsAreCommittedLines
    <3>5. QED BY <1>2, <1>3, <1>4, <2>2, <3>2, <3>3, <3>4
  <2>3. QED BY <2>1, <2>2
<1>7. ObservationsAsFromScratch'
  BY <1>2, <1>6, ObservationsFrame DEF ObsInv
<1>8. QED BY <1>5, <1>7

\* A commit replaces the observations of its file and no others.
LEMMA PersistObs ==
    ASSUME SessionIsFile, ObsInv, Persist, CommitInv'
    PROVE  StemSessions' /\ ObservationsAsFromScratch'
<1> DEFINE errors == scan.errors + IF scan.tail THEN 1 ELSE 0
           row == Upsert(cursor[cur], scan.sid, scan.new, errors)
           made == {[sid |-> scan.sid, path |-> cur, line |-> e.line, rec |-> e.rec] : e \in Derived}
<1>1. /\ cur \in File /\ TypeOK /\ CommitInv /\ pc = "persist" /\ ~NothingNew
      /\ cursor \in [File -> CursorRow \cup {NoRow}] /\ scan.sid = Stem[cur]
      /\ obs \subseteq Observation
  BY DEF Persist, ObsInv, CommitInv, TypeInv, TypeOK, VisitTyped, Visiting, StemSessions, Scanned
<1>2. /\ cursor' = [cursor EXCEPT ![cur] = row] /\ content' = content
      /\ obs' = {o \in obs : o.sid \notin DeletedSessions(cursor[cur])} \cup made
      /\ events' = [events EXCEPT ![cur] = KeptEvents \cup scan.events]
      /\ pc' = "pick"
  BY DEF Persist, tree
<1>3. row.sid = scan.sid /\ row.off = scan.new /\ row.sha = facts.sha
  BY DEF Upsert
<1> HIDE DEF row
<1>4. \A f \in File : cursor'[f] = IF f = cur THEN row ELSE cursor[f]
  BY <1>1, <1>2
<1>5. \A o \in made : o.sid = Stem[cur] /\ o.path = cur
  BY <1>1
<1>6. StemSessions'
  <2>1. \A o \in obs : o.sid = Stem[o.path]
    BY DEF ObsInv, StemSessions
  <2>2. \A o \in obs' : o.sid = Stem[o.path]
    BY <1>2, <1>5, <2>1
  <2>3. \A f \in File : cursor'[f] # NoRow => cursor'[f].sid = Stem[f]
    BY <1>1, <1>3, <1>4 DEF ObsInv, StemSessions
  <2>4. QED BY <1>2, <2>2, <2>3 DEF StemSessions, Scanned
<1>7. DeletedSessions(cursor[cur]) = {Stem[cur]}
  BY <1>1 DEF DeletedSessions, StaleSessions, ObsInv, StemSessions
<1>8. SUFFICES ASSUME NEW f \in File, Covers(cursor'[f], content[f])
               PROVE  ObservationsOf(f)' = ObservationsExpected(f)'
  BY <1>2, <1>6 DEF ObservationsAsFromScratch
<1>9. CASE f # cur
  <2>1. Stem[f] # Stem[cur]
    BY <1>1, <1>9 DEF SessionIsFile
  <2>2. \A o : o \in obs' /\ o.path = f <=> o \in obs /\ o.path = f
    <3>1. \A o \in obs : o.path = f => o.sid = Stem[f]
      BY DEF ObsInv, StemSessions
    <3>2. QED BY <1>2, <1>5, <1>7, <1>9, <2>1, <3>1
  <2>3. ObservationsOf(f)' = ObservationsOf(f)
    BY <2>2 DEF ObservationsOf
  <2>4. cursor'[f] = cursor[f]
    BY <1>4, <1>9
  <2>5. ObservationsExpected(f)' = ObservationsExpected(f)
    BY <1>2, <2>4 DEF ObservationsExpected, Capped
  <2>6. QED BY <1>8, <2>3, <2>4, <2>5 DEF ObsInv, ObservationsAsFromScratch
<1>10. CASE f = cur
  <2>1. Live
    BY <1>3, <1>4, <1>8, <1>10 DEF Covers, Live
  <2>2. cursor'[f] = row
    BY <1>4, <1>10
  <2>3. KeptEvents \cup scan.events = Events(content[f], 0, scan.new)
    <3>1. events'[f] = Events(content'[f], 0, cursor'[f].off)
      BY <1>2, <1>8 DEF CommitInv, Committed, EventsAreCommittedLines
    <3>2. events'[f] = KeptEvents \cup scan.events
      BY <1>1, <1>2, <1>10 DEF TypeOK
    <3>3. QED BY <1>2, <1>3, <2>2, <3>1, <3>2
  <2>4. scan.norm # {} => scan.norm = Events(content[f], 0, scan.new)
    BY <1>1, <1>10, <2>1 DEF ObsInv, NormSound
  <2>5. Derived = Capped(Events(content[f], 0, scan.new))
    BY <2>3, <2>4 DEF Derived
  <2>6. ObservationsExpected(f)' = made
    BY <1>2, <1>3, <1>10, <2>2, <2>5 DEF ObservationsExpected, Capped
  <2>7. \A o : o \in obs' /\ o.path = f <=> o \in made
    <3>1. \A o \in obs : o.path = f => o.sid = Stem[f]
      BY DEF ObsInv, StemSessions
    <3>2. QED BY <1>2, <1>5, <1>7, <1>10, <3>1
  <2>8. ObservationsOf(f)' = made
    BY <2>7 DEF ObservationsOf
  <2>9. QED BY <2>6, <2>8
<1>11. QED BY <1>9, <1>10

LEMMA NextObs == SessionIsFile /\ ~AppendRacesScan /\ ObsInv /\ [Next]_vars => ObsInv'
<1> SUFFICES ASSUME SessionIsFile, ~AppendRacesScan, ObsInv, [Next]_vars PROVE ObsInv'
  OBVIOUS
<1>1. CommitInv' /\ CommitInv
  BY NextCommitInv DEF ObsInv
<1>2. SUFFICES StemSessions' /\ NormSound' /\ ObservationsAsFromScratch'
  BY <1>1 DEF ObsInv
<1>3. CASE UNCHANGED vars
  BY <1>3 DEF vars, tree, db, visit, ObsInv, StemSessions, NormSound, NothingNew, Scanned, Live,
     ObservationsAsFromScratch, ObservationsOf, ObservationsExpected, Capped, Covers
<1>4. CASE Producer
  BY <1>4, ProducerObs
<1>5. CASE \/ StartSource \/ StartRebuild \/ \E f \in File : StartFile(f)
           \/ Pick \/ EndRun \/ Stat \/ Hash \/ DoNotSkip \/ Stop
  <2>1. /\ UNCHANGED <<content, cursor, obs>>
        /\ pc' \notin {"open", "read", "parse", "persist"}
    BY <1>5 DEF StartSource, StartRebuild, StartFile, Pick, EndRun, Stat, Hash, DoNotSkip, Stop,
       tree, db
  <2>2. ObservationsAsFromScratch'
    BY <2>1, ObservationsFrame DEF ObsInv
  <2>3. QED BY <2>1, <2>2 DEF ObsInv, StemSessions, NormSound, Scanned
<1>6. CASE Discard
  BY <1>6 DEF Discard, StemSessions, NormSound, Scanned, ObservationsAsFromScratch, Covers
<1>7. CASE MarkMissing \/ Skip
  <2>1. obs' = obs /\ pc' = "pick"
    BY <1>7 DEF MarkMissing, Skip
  <2>2. /\ content' = content
        /\ \A f \in File :
             /\ cursor[f] = NoRow <=> cursor'[f] = NoRow
             /\ cursor[f] # NoRow => cursor'[f].sid = cursor[f].sid
             /\ Covers(cursor'[f], content[f]) =>
                  /\ Covers(cursor[f], content[f])
                  /\ cursor'[f].off = cursor[f].off /\ cursor'[f].sid = cursor[f].sid
    BY <1>1, <1>7, FlagKeepsRows DEF CommitInv, Covers
  <2>3. ObservationsAsFromScratch'
    BY <2>1, <2>2, ObservationsFrame DEF ObsInv
  <2>4. QED BY <2>1, <2>2, <2>3 DEF ObsInv, StemSessions, NormSound, Scanned
<1>8. CASE Plan \/ Open \/ Read \/ Parse
  BY <1>8, LookObs
<1>9. CASE Refresh
  BY <1>1, <1>9, RefreshObs DEF Refresh, NormSound
<1>10. CASE Persist
  BY <1>1, <1>10, PersistObs DEF Persist, NormSound
<1>11. CASE Vanished \/ StartRefused \/ PersistFails \/ Crash
  <2>1. Stop
    BY <1>11 DEF Vanished, StartRefused, PersistFails, Crash
  <2>2. QED BY <1>5, <2>1
<1>12. QED
  BY <1>3, <1>4, <1>5, <1>6, <1>7, <1>8, <1>9, <1>10, <1>11 DEF Next, Step, Operator

\* Where ingest may resume, the observations of a file are those a scan of the
\* same bytes from the start derives, under the cap of EC-16, after any resumes,
\* rewrites, rebuilds and crashes; a session being one file, and no append in
\* the middle of a scan (_persist_normalized_observations, Store.ingest_path).
THEOREM ObservationsAlwaysFromScratch ==
    ASSUME SessionIsFile, ~AppendRacesScan
    PROVE  Spec => []ObservationsAsFromScratch
<1>1. Init => ObsInv
  <2>1. Init => CommitInv
    BY InitCommitInv
  <2>2. QED BY <2>1 DEF Init, ObsInv, StemSessions, NormSound, ObservationsAsFromScratch, Covers,
            Scanned
<1>2. ObsInv => ObservationsAsFromScratch
  BY DEF ObsInv
<1>3. ObsInv /\ [Next]_vars => ObsInv'
  BY NextObs
<1>4. QED BY <1>1, <1>2, <1>3, PTL DEF Spec
=============================================================================
