---------------------------- MODULE Interactions ----------------------------
(***************************************************************************)
(* What the two transcript parsers share: the records of a transcript, the  *)
(* normalized events and interactions derived from them, and the state kept *)
(* between records (twill_reader.py, codex_reader.py, twill_interactions.py *)
(* and the part of twill_app.py that stores the result).                    *)
(*                                                                          *)
(* An ingest parses the whole prefix again and replaces what it stored, so  *)
(* a behaviour is one parse: records one by one, then Finish. A record here *)
(* carries one content block. Texts are classes; a call id is the line that *)
(* first used it.                                                           *)
(***************************************************************************)
EXTENDS Naturals, Sequences, FiniteSets

CONSTANTS
    Threads,        \* the main thread and a sidechain
    Main,
    MaxLines,
    MaxRare         \* records of a sidechain, repeated ones and ones without
                    \* a known call id

ASSUME InteractionsAssumption ==
    /\ Main \in Threads
    /\ MaxLines \in Nat \ {0} /\ MaxRare \in Nat

Tools == {"run", "read", "question", "other"}
\* Texts of the user, of the harness (meta), and of the harness that read as the
\* interrupt sentinel; a refusal of the harness is read as one of the user.
UserTexts == {"plain", "quoted", "sentinel", "refusal", "meta", "metasentinel"}
Outcomes == {"ok", "error", "refusal"}

VARIABLES
    source,         \* which parser reads the transcript
    log,            \* the records read so far
    inter,          \* interactions; the ordinal is the position
    events,         \* normalized events, in the order they were returned
    pending,        \* calls whose result has not arrived
    awaiting,       \* _awaiting_correction, one for all threads
    question,       \* _pending_question of each thread; 0 for none
    last,           \* _last_assistant of each thread; 0 for none
    turn,           \* _main_turn and _sidechain_turn
    asked,          \* _question_by_tool_use_id, as pairs (Claude only)
    done            \* finish() was called and the rows were stored

vars == <<source, log, inter, events, pending, awaiting, question, last, turn,
          asked, done>>

Line == Len(log) + 1

Record == [kind : {"text", "call", "result", "user", "completed", "aborted",
                   "rejected", "legacy"},
           thread : Threads,
           what : Tools \cup UserTexts \cup Outcomes \cup {"none"},
           id : 0..MaxLines,
           duplicate : BOOLEAN]

TypeOK ==
    /\ source \in {"claude", "codex"}
    /\ log \in Seq(Record) /\ Len(log) <= MaxLines
    /\ Len(inter) <= Len(log)
    /\ pending \subseteq [id : 1..MaxLines, line : 1..MaxLines, tool : Tools,
                          link : 0..Len(inter)]
    /\ \A c, d \in pending : c.id = d.id => c = d
    /\ awaiting \in BOOLEAN /\ done \in BOOLEAN
    /\ question \in [Threads -> 0..Len(inter)]
    /\ last \in [Threads -> 0..Len(inter)]
    /\ turn \in [Threads -> 0..MaxLines]
    /\ asked \subseteq (1..MaxLines) \X (1..Len(inter))

Init ==
    /\ source \in {"claude", "codex"}
    /\ log = <<>> /\ inter = <<>> /\ events = <<>>
    /\ pending = {} /\ asked = {}
    /\ awaiting = FALSE /\ done = FALSE
    /\ question = [t \in Threads |-> 0]
    /\ last = [t \in Threads |-> 0]
    /\ turn = [t \in Threads |-> 0]

Rare(r) == r.thread # Main \/ r.duplicate \/ (r.kind \in {"call", "result"} /\ r.id = 0)

Read(kind, t, what, id, duplicate) ==
    LET record == [kind |-> kind, thread |-> t, what |-> what, id |-> id,
                   duplicate |-> duplicate]
    IN
    /\ ~done /\ Len(log) < MaxLines
    /\ Rare(record) => Cardinality({n \in DOMAIN log : Rare(log[n])}) < MaxRare
    /\ log' = Append(log, record)
    /\ UNCHANGED <<source, done>>

-----------------------------------------------------------------------------
(* Emitting interactions and events *)

\* An explicit state is never replaced.
Reterminalized(item, state) ==
    [item EXCEPT !.terminal = IF @ \in {"none", "unknown"} THEN state ELSE @]

\* The interactions with the trailing reply of a thread closed.
Closed(t, state) ==
    [i \in DOMAIN inter |->
        IF i = last[t] THEN Reterminalized(inter[i], state) ELSE inter[i]]

Item(t, origin, link, terminal) ==
    [line |-> Line, thread |-> t, origin |-> origin, turn |-> turn[t],
     link |-> link, terminal |-> terminal]

Emit(t, origin, link) ==
    /\ inter' = Append(inter, Item(t, origin, link, "none"))
    /\ UNCHANGED turn

EmitNone == UNCHANGED <<inter, turn>>

Event(kind, line, call) == [kind |-> kind, line |-> line, call |-> call]

NoEvent == UNCHANGED events
Report(kind) == events' = Append(events, Event(kind, Line, 0))
ReportRun(c) == events' = Append(events, Event("run", c.line, c.id))

\* A new turn: the reply before it can only be unknown.
OpenTurn(t) ==
    /\ turn' = [turn EXCEPT ![t] = @ + 1]
    /\ inter' = Append(Closed(t, "unknown"),
                       [Item(t, "human_request", 0, "none") EXCEPT !.turn = @ + 1])
    /\ last' = [last EXCEPT ![t] = 0]
    /\ UNCHANGED question

\* Mutant: an interruption leaves the question of the turn pending.
InterruptTurnKeepsQuestion(t) ==
    /\ inter' = Append(Closed(t, "interrupted"), Item(t, "harness", 0, "interrupted"))
    /\ last' = [last EXCEPT ![t] = 0]
    /\ awaiting' = TRUE
    /\ UNCHANGED <<question, turn>>

\* The harness says the turn was cut off.
InterruptTurn(t) ==
    /\ inter' = Append(Closed(t, "interrupted"), Item(t, "harness", 0, "interrupted"))
    /\ last' = [last EXCEPT ![t] = 0]
    /\ question' = [question EXCEPT ![t] = 0]
    /\ awaiting' = TRUE
    /\ UNCHANGED turn

\* A text that answers the question pending in its thread, or opens a turn.
AnswerOrRequest(t) ==
    IF question[t] # 0
    THEN /\ Emit(t, "human_answer", question[t])
         /\ question' = [question EXCEPT ![t] = 0]
         /\ UNCHANGED last
    ELSE OpenTurn(t)

Call(id) == {c \in pending : c.id = id}

\* A question whose answer came as a result is not answered by a text.
Settled(t, q) == question' = [question EXCEPT ![t] = IF @ = q THEN 0 ELSE @]

-----------------------------------------------------------------------------
(* finish() and the rows stored: unresolved runs with an unknown exit, the  *)
(* trailing replies closed, and for Codex the replies that the optional     *)
(* history database proves complete.                                        *)

Unresolved == {c \in pending : c.tool = "run"}

\* Every call once, in the order of their ids: that of their registration, unless
\* one that had its result came again.
InOrder(calls) ==
    {s \in [1..Cardinality(calls) -> calls] :
        /\ \A c \in calls : \E i \in DOMAIN s : s[i] = c
        /\ \A i, j \in DOMAIN s : i < j => s[i].id < s[j].id}

RunsOf(calls) == {[i \in DOMAIN s |-> Event("run", s[i].line, s[i].id)] : s \in InOrder(calls)}

FinishedReplies ==
    [i \in DOMAIN inter |->
        IF \E t \in Threads : last[t] = i THEN Reterminalized(inter[i], "unknown")
        ELSE inter[i]]

\* Replies the history adapter may confirm.
Unproved(items) ==
    IF source = "codex"
    THEN {i \in DOMAIN items : items[i].origin = "assistant_text" /\ items[i].terminal = "unknown"}
    ELSE {}

Finish ==
    /\ ~done /\ done' = TRUE
    /\ \E runs \in RunsOf(Unresolved) : events' = events \o runs
    /\ \E proved \in SUBSET Unproved(FinishedReplies) :
         inter' = [i \in DOMAIN inter |->
                     IF i \in proved THEN [FinishedReplies[i] EXCEPT !.terminal = "completed"]
                     ELSE FinishedReplies[i]]
    /\ pending' = {}
    /\ last' = [t \in Threads |-> 0]
    /\ UNCHANGED <<source, log, awaiting, question, turn, asked>>

=============================================================================
