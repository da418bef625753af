------------------------------ MODULE Evidence ------------------------------
(***************************************************************************)
(* What ingest promises, without digests, offsets, plans or passes: the     *)
(* store holds, for each transcript, the records of its complete lines up   *)
(* to some line, as the file was at one moment.  While a transcript only    *)
(* grows, commits only add to its records.  Once it was cut or rewritten,   *)
(* the next commit replaces them.  A file may disappear without any effect, *)
(* and the whole store may be discarded.                                    *)
(***************************************************************************)
EXTENDS Transcript

CONSTANTS File, InitialTree

VARIABLES
    content,   \* bytes of each file
    store,     \* records kept of each file
    intact     \* the files that have only grown since their last commit

Init ==
    /\ content \in InitialTree
    /\ store = [f \in File |-> {}]
    /\ intact = {}

\* A producer changes a file.  An append leaves it intact; nothing but a
\* commit makes it so again.
Change(f) ==
    /\ content' = [content EXCEPT ![f] = content'[f]]
    /\ content'[f] \in Seq(Byte)
    /\ intact' \in {intact, intact \ {f}}
    /\ HasPrefix(content'[f], content[f]) => intact' = intact
    /\ f \in intact' => store[f] \subseteq Events(content'[f], 0, Len(content'[f]))
    /\ UNCHANGED store

\* The complete lines up to some newline are stored, all at once.
Commit(f) ==
    /\ \E i \in 0 .. Len(content[f]) :
          /\ Boundary(content[f], i)
          /\ store' = [store EXCEPT ![f] = Events(content[f], 0, i)]
    /\ f \in intact => store[f] \subseteq store'[f]
    /\ intact' = intact \cup {f}
    /\ UNCHANGED content

Discard ==
    /\ store' = [f \in File |-> {}]
    /\ intact' = {}
    /\ UNCHANGED content

Next == Discard \/ \E f \in File : Change(f) \/ Commit(f)

Spec == Init /\ [][Next]_<<content, store, intact>>
=============================================================================
