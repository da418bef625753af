------------------------------ MODULE Readers -------------------------------
(***************************************************************************)
(* The two parsers beside each other, and what both promise of the events   *)
(* and interactions they derive from a transcript.                          *)
(***************************************************************************)
EXTENDS ClaudeReader, CodexReader

Next == ClaudeNext \/ CodexNext \/ Finish

Spec == Init /\ [][Next]_vars

Lines == DOMAIN log
Is(n, kind, what) == log[n].kind = kind /\ log[n].what = what

-----------------------------------------------------------------------------
(* What the records of a transcript mean, read off the transcript alone *)

Interrupts(n) == Is(n, "user", "sentinel") \/ Is(n, "user", "metasentinel")
                    \/ log[n].kind \in {"aborted", "legacy"}

\* A call the user declined, or a turn of his that is itself the refusal.
Refuses(n) == Is(n, "user", "refusal") \/ Is(n, "result", "refusal") \/ log[n].kind = "rejected"

\* The Codex parser waits for no correction after a refusal.
Stops(n) == Interrupts(n) \/ (source = "claude" /\ Refuses(n))

\* The result at n is the first one that comes after the call at m, and the call
\* is not repeated before it.
Answers(n, m) ==
    /\ m < n /\ log[m].kind = "call" /\ log[n].kind = "result"
    /\ log[n].id # 0 /\ log[m].id = log[n].id
    /\ \A k \in (m + 1)..(n - 1) : log[k].id # log[n].id

AnswersRun(n) == \E m \in Lines : Is(m, "call", "run") /\ Answers(n, m)

\* For Claude an action is a finished one, for Codex whatever the agent says.
Acts(n) ==
    IF source = "codex" THEN log[n].kind \in {"call", "text"}
    ELSE \/ Is(n, "call", "read")
         \/ Is(n, "call", "run") /\ log[n].id = 0
         \/ Is(n, "result", "error")
         \/ AnswersRun(n) /\ log[n].what # "refusal"

Speaks(n) == log[n].kind = "user" /\ log[n].what \in {"plain", "quoted"}

Corrections == {events[e].line : e \in {f \in DOMAIN events :
                                          events[f].kind = "user_turn_after_correction"}}

\* A text is reported as a correction exactly when it is the first one of the
\* user after an interruption, in a Claude transcript also after a refusal, with
\* no action of the agent between: the flag that carries this over the records
\* is set and cleared in nine places and shared by all threads (twill_reader.py,
\* codex_reader.py).
CorrectionsFollowStops ==
    Corrections =
      {n \in Lines : Speaks(n) /\ \E m \in 1..(n - 1) :
          Stops(m) /\ \A k \in (m + 1)..(n - 1) : ~Acts(k) /\ ~Speaks(k)}

\* Runs reported for the shell call at m, by the line of the invocation.
RunsOfCall(m) ==
    {e \in DOMAIN events : events[e] = Event("run", m, log[m].id)}

\* A shell call with an id is reported as one run when its result comes, unless
\* that is a refusal, and else when the transcript ends, at the line where the
\* call was last written before; no run is of anything else. Results that come
\* twice or never, and streamed records that repeat a call, add none while it
\* is open (_pending of both parsers, finish).
RunsMeetResults ==
    /\ \A m \in Lines : Is(m, "call", "run") /\ log[m].id # 0 =>
         /\ \A e, f \in RunsOfCall(m) : e = f
         /\ RunsOfCall(m) # {} <=>
              \/ \E n \in Lines : Answers(n, m) /\ log[n].what # "refusal"
              \/ done /\ \A n \in (m + 1)..Len(log) : log[n].id # log[m].id
    /\ \A e \in DOMAIN events : events[e].kind = "run" =>
         \E m \in Lines : Is(m, "call", "run") /\ e \in RunsOfCall(m)

\* An answer is linked to a question of its thread; one given as a text of its
\* own to the last question asked, with no interruption of the turn and no
\* answer to it in between (plan 9A, _pending_question).
AnswersMeetQuestions ==
    \A i \in DOMAIN inter : inter[i].origin = "human_answer" =>
        LET q == inter[i].link IN
        /\ q \in 1..(i - 1) /\ inter[q].origin = "question"
        /\ inter[q].thread = inter[i].thread
        /\ log[inter[i].line].kind = "user" =>
             \A j \in (q + 1)..(i - 1) : inter[j].thread = inter[i].thread =>
                /\ inter[j].terminal # "interrupted" \/ inter[j].origin = "assistant_text"
                /\ inter[j].origin = "human_answer" => inter[j].link # q

-----------------------------------------------------------------------------
(* Terminal states *)

Replies(t) == {i \in DOMAIN inter : inter[i].origin = "assistant_text" /\ inter[i].thread = t}

Requested(n) == \E i \in DOMAIN inter : inter[i].line = n /\ inter[i].origin = "human_request"

\* The record that ends the turn of a thread at line n, if it is one.
EndsTurn(n, t) ==
    /\ log[n].thread = t
    /\ Is(n, "user", "sentinel") \/ log[n].kind \in {"aborted", "completed"} \/ Requested(n)

Ends(i) == {n \in (inter[i].line + 1)..Len(log) : EndsTurn(n, inter[i].thread)}

\* Final: no later reply of its thread before the turn ends.
FinalReply(i) ==
    \A j \in Replies(inter[i].thread) : j > i => \E n \in Ends(i) : n < inter[j].line

EndOf(i) == CHOOSE n \in Ends(i) : \A m \in Ends(i) : n <= m

StateOf(n) ==
    CASE log[n].kind = "completed" -> "completed"
      [] log[n].kind = "aborted" \/ Is(n, "user", "sentinel") -> "interrupted"
      [] OTHER -> "unknown"

\* A reply is final when its turn ends with it, and is then what the record that
\* ended the turn proves: never completed without a record of the harness or
\* the history database, and never by the end of another thread's turn.
TerminalsAsRecorded ==
    \A t \in Threads : \A i \in Replies(t) :
        LET state == IF ~FinalReply(i) THEN "none"
                     ELSE IF Ends(i) # {} THEN StateOf(EndOf(i))
                     ELSE IF done THEN "unknown" ELSE "none"
        IN  \/ inter[i].terminal = state
            \/ done /\ source = "codex" /\ state = "unknown" /\ inter[i].terminal = "completed"

-----------------------------------------------------------------------------
\* docs/notes/event-contract.md:53-55, of every parser: "Once the agent acts --
\* a new tool invocation or a completed result -- the user's next turn is a new
\* instruction, not the correction, and is not an event at all." The Claude
\* parser waits for the result of the invocation: TLC refutes it there (README).
CorrectionBeforeAction ==
    \A n \in Corrections : \E m \in 1..(n - 1) :
        Stops(m) /\ \A k \in (m + 1)..(n - 1) : log[k].kind # "call"

\* docs/notes/event-contract.md:52: the first turn "after an `interrupt` or a
\* `tool_rejected`", of every parser. The Codex parser reports a refusal and
\* waits for nothing: TLC refutes it there (README).
CorrectionAfterRefusal ==
    \A n \in Lines :
        Speaks(n) /\ n > 1 /\ (Interrupts(n - 1) \/ Refuses(n - 1)) => n \in Corrections

\* docs/notes/event-contract.md:40: "one shell command invocation paired with
\* its result". A streamed record that repeats a call after its result opens it
\* again: TLC refutes it for the Claude parser (README).
OneRunPerCall ==
    \A id \in 1..MaxLines :
        Cardinality({e \in DOMAIN events : events[e].kind = "run" /\ events[e].call = id}) <= 1

\* docs/notes/event-contract.md:43-44: "A call that was rejected before executing
\* is never a `run`". A refusal that is a turn of the user, or a record of its
\* own, leaves the call pending: TLC refutes it for both parsers (README).
RejectedIsNoRun ==
    \A m, n \in Lines :
        /\ Is(m, "call", "run") /\ log[m].id # 0
        /\ n = m + 1 /\ Refuses(n) /\ log[n].thread = log[m].thread
        /\ log[n].kind = "result" => log[n].id = log[m].id
        => RunsOfCall(m) = {}

=============================================================================
