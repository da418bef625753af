------------------------------ MODULE MCIngest ------------------------------
(***************************************************************************)
(* Instances of Ingest for TLC.  Records, files and sessions are model      *)
(* values; the sequences a producer writes are listed here.                 *)
(***************************************************************************)
EXTENDS Ingest

CONSTANTS r1, r2, f1, f2, sA, sB, s1, s2

\* Which session a record names: none, its own, or all the same one (only for
\* CommittedLinesObserved).
NoSessions == [r \in Record |-> NoSession]
Switches == [r \in Record |-> IF r = r1 THEN sA ELSE sB]
Shared == [r \in Record |-> sA]

OwnStem == [f \in File |-> IF f = f1 THEN s1 ELSE s2]
Readers == [f \in File |-> "reader"]
Mixed == [f \in File |-> IF f = f1 THEN "reader" ELSE "generic"]

\* Every file holds one complete line; f2 holds a line json.loads refuses and
\* the first half of another.
Start1 == {[f \in File |-> <<r1, r1, NL>>]}
CorruptBeside == {[f \in File |-> IF f = f1 THEN <<r1, r1, NL>> ELSE <<r1, NL, r1>>]}

\* Half a record; the other half with its newline, which ends a torn line.
HalfChunks == {<<r1>>, <<r1, NL>>}

\* Half a record, a newline, a whole line of either record.
SmallChunks == {<<r1>>, <<NL>>, <<r1, r1, NL>>, <<r2, r2, NL>>}
PairChunks == {<<r1>>, <<r2, r2, NL>>}

\* A new generation of the file starts with another record.
OneGeneration == {<<r2, r2, NL>>}
NoRewrite == {}
=============================================================================
