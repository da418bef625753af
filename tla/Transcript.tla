----------------------------- MODULE Transcript -----------------------------
(***************************************************************************)
(* What the ingest boundary reads from a transcript: a sequence of bytes in *)
(* which NL ends a line.  JSON is abstracted to the least that can be torn: *)
(* the record r is written as the two bytes <<r, r>>, so <<r, r, NL>> is a  *)
(* line that parses, <<NL>> is a blank line, and every other terminated     *)
(* line is one json.loads refuses.  Bytes after the last NL are the tail a  *)
(* producer may still be writing.                                           *)
(*                                                                          *)
(* All operators take `from`, the byte offset a scan starts at, because a   *)
(* resumed scan splits lines from there and not from the file's start.      *)
(***************************************************************************)
EXTENDS Integers, Sequences, FiniteSets

CONSTANTS
    Record,      \* the records a transcript can hold
    NL,          \* the newline byte
    SessionOf,   \* the session id a record carries, or NoSession
    NoSession    \* the record leaves the session id to the fallback

ASSUME NLAssumption == NL \notin Record

Byte == Record \cup {NL}

\* The last byte before offset i ends a line (or nothing precedes it).
Boundary(c, i) == i = 0 \/ (i \in 1 .. Len(c) /\ c[i] = NL)

\* Some prefix of c is p: what a digest over p's bytes can tell of c.
HasPrefix(c, p) == Len(p) <= Len(c) /\ \A i \in 1 .. Len(p) : c[i] = p[i]

\* identity_hash: the digest of the first min(n, size) bytes.  A digest is
\* modelled by the bytes it covers, as sha256 without collisions.
IdentityHash(c, n) == SubSeq(c, 1, IF n < Len(c) THEN n ELSE Len(c))

-----------------------------------------------------------------------------
(***************************************************************************)
(* scan_lines: the newlines at i > from end the complete lines of the scan; *)
(* each carries its whole-file number, the newlines before `from` included. *)
(***************************************************************************)
Newlines(c) == {i \in DOMAIN c : c[i] = NL}

LineEnds(c, from) == {i \in Newlines(c) : i > from}

\* _count_newlines up to the scan's start, then one per line of the scan.
LineNumber(c, i) == Cardinality({j \in Newlines(c) : j <= i})

\* The bytes left in `carry` when the scan reaches the end of the file.
TailLength(c, from) ==
    IF LineEnds(c, from) = {}
    THEN IF from < Len(c) THEN Len(c) - from ELSE 0
    ELSE CHOOSE n \in 0 .. Len(c) :
            /\ Len(c) - n \in LineEnds(c, from)
            /\ \A i \in LineEnds(c, from) : i <= Len(c) - n

\* parse_scan: the line that ends at i holds one JSON object, ...
RecordEndsAt(c, from, i) ==
    /\ i \in Newlines(c)
    /\ i - 3 >= from
    /\ i - 3 = from \/ c[i - 3] = NL
    /\ c[i - 2] \in Record
    /\ c[i - 1] = c[i - 2]

\* ... or nothing but its newline, ...
BlankEndsAt(c, from, i) == i - 1 = from \/ c[i - 1] = NL

\* ... or text that is not a JSON object, counted and moved past.
InvalidLines(c, from) ==
    Cardinality({i \in LineEnds(c, from) :
        ~RecordEndsAt(c, from, i) /\ ~BlankEndsAt(c, from, i)})

\* The events of the lines that end in (from, upTo]: one per record, keyed
\* as transcript_event is by the file's line number.
Events(c, from, upTo) ==
    {[line |-> LineNumber(c, i), rec |-> c[i - 1]] :
        i \in {j \in LineEnds(c, from) : j <= upTo /\ RecordEndsAt(c, from, j)}}

\* _session_id over the scan: the last record that names a session decides,
\* and without one the caller's fallback stands.
SessionId(c, from, fallback) ==
    LET named == {i \in LineEnds(c, from) :
                    /\ RecordEndsAt(c, from, i)
                    /\ SessionOf[c[i - 1]] # NoSession}
    IN  IF named = {}
        THEN fallback
        ELSE SessionOf[c[(CHOOSE i \in named : \A j \in named : j <= i) - 1]]
=============================================================================
