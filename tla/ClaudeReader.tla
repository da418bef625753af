---------------------------- MODULE ClaudeReader ----------------------------
(***************************************************************************)
(* ClaudeCodeLineParser (twill_reader.py): one action per record and block. *)
(* Records that repeat a provider message id (duplicate) yield no           *)
(* interaction but register their calls again.                              *)
(***************************************************************************)
EXTENDS Interactions

\* An assistant record was read before, so its message id can come again.
Repeatable == \E n \in DOMAIN log : log[n].kind \in {"text", "call"}

AssistantText(t, duplicate) ==
    /\ duplicate => Repeatable
    /\ Read("text", t, "none", 0, duplicate)
    /\ IF duplicate THEN EmitNone /\ UNCHANGED last
       ELSE Emit(t, "assistant_text", 0) /\ last' = [last EXCEPT ![t] = Len(inter) + 1]
    /\ NoEvent /\ UNCHANGED <<pending, awaiting, question, asked>>

\* The id of a call block: none, a new one, or that of a call of the thread the
\* client writes again, whether or not its result has come.
CallIds(t, tool, duplicate) ==
    {0, Line} \cup {log[n].id : n \in {m \in DOMAIN log : /\ duplicate /\ log[m].kind = "call"
                                                        /\ log[m].what = tool /\ log[m].thread = t}}

Registered(tool, id, link) ==
    (pending \ Call(id)) \cup {[id |-> id, line |-> Line, tool |-> tool, link |-> link]}

\* Events of a call block. A call without an id can never meet a result.
CallEvent(tool, id) ==
    CASE tool = "read"            -> Report("file_read")
      [] tool = "run" /\ id = 0   -> ReportRun([line |-> Line, id |-> 0])
      [] OTHER                    -> NoEvent

ToolUse(t, tool, id, duplicate) ==
    /\ duplicate => Repeatable
    /\ id \in CallIds(t, tool, duplicate)
    /\ Read("call", t, tool, id, duplicate)
    /\ IF duplicate THEN EmitNone
       ELSE Emit(t, IF tool = "question" THEN "question" ELSE "tool_call", 0)
    /\ pending' = IF id = 0 THEN pending
                  ELSE Registered(tool, id, IF duplicate THEN 0 ELSE Len(inter) + 1)
    /\ IF tool = "question" /\ id # 0 /\ ~duplicate
       THEN /\ asked' = asked \cup {<<id, Len(inter) + 1>>}
            /\ question' = [question EXCEPT ![t] = Len(inter) + 1]
       ELSE UNCHANGED <<asked, question>>
    /\ CallEvent(tool, id)
    /\ awaiting' = (awaiting /\ events' = events)
    /\ UNCHANGED last

-----------------------------------------------------------------------------
(* Results *)

ResultInteraction(t, id) ==
    LET questions == {a \in asked : a[1] = id} IN
    /\ asked' = asked \ questions
    /\ IF questions # {}
       THEN \E a \in questions : Emit(t, "human_answer", a[2]) /\ Settled(t, a[2])
       ELSE /\ UNCHANGED question
            /\ IF Call(id) = {} THEN Emit(t, "tool_result", 0)
               ELSE \E c \in Call(id) : Emit(t, "tool_result", c.link)

\* A refusal wins over the rest; a run reports its own failure.
ResultEvent(id, outcome) ==
    IF outcome = "refusal" THEN Report("tool_rejected") /\ awaiting' = TRUE
    ELSE IF \E c \in Call(id) : c.tool = "run"
    THEN (\E c \in Call(id) : ReportRun(c)) /\ awaiting' = FALSE
    ELSE IF outcome = "error" THEN Report("tool_error") /\ awaiting' = FALSE
    ELSE NoEvent /\ UNCHANGED awaiting

\* Mutant: a refused call stays pending.
ConsumedUnlessRefused(id, outcome) ==
    pending' = IF outcome = "refusal" THEN pending ELSE pending \ Call(id)

Consumed(id, outcome) == pending' = pending \ Call(id)

ToolResult(t, id, outcome) ==
    /\ Read("result", t, outcome, id, FALSE)
    /\ ResultInteraction(t, id)
    /\ ResultEvent(id, outcome)
    /\ Consumed(id, outcome)
    /\ UNCHANGED last

-----------------------------------------------------------------------------
(* User texts *)

\* Mutant: bookkeeping of the harness is taken for the correction.
TextEventOfMeta(what) ==
    CASE what \in {"sentinel", "metasentinel"} -> Report("interrupt")
      [] what = "refusal"                      -> Report("tool_rejected")
      [] OTHER -> IF awaiting THEN Report("user_turn_after_correction") ELSE NoEvent

\* _classify_user_text looks for the sentinel and for a refusal before it asks
\* whose text it is; _emit_user_text_interaction asks that first.
TextEvent(what) ==
    CASE what \in {"sentinel", "metasentinel"} -> Report("interrupt")
      [] what = "refusal"  -> Report("tool_rejected")
      [] what = "meta"     -> NoEvent
      [] OTHER -> IF awaiting THEN Report("user_turn_after_correction") ELSE NoEvent

TextAwaits(what) ==
    awaiting' = CASE what \in {"sentinel", "metasentinel", "refusal"} -> TRUE
                  [] what = "meta"                                    -> awaiting
                  [] OTHER                                            -> FALSE

TextInteraction(t, what) ==
    CASE what = "sentinel" -> InterruptTurn(t)
      [] what \in {"meta", "metasentinel", "refusal"} ->
           Emit(t, "harness", 0) /\ TextAwaits(what) /\ UNCHANGED <<question, last>>
      [] what = "quoted" ->
           Emit(t, "quoted_history", 0) /\ TextAwaits(what) /\ UNCHANGED <<question, last>>
      [] what = "plain" -> AnswerOrRequest(t) /\ TextAwaits(what)

UserText(t, what) ==
    /\ Read("user", t, what, 0, FALSE)
    /\ TextEvent(what)
    /\ TextInteraction(t, what)
    /\ UNCHANGED <<pending, asked>>

\* A result arrives in the thread of its call; 0 is a result of no known call.
ResultIds(t) ==
    {0} \cup {log[n].id : n \in {m \in DOMAIN log : log[m].kind = "call" /\ log[m].thread = t
                                                    /\ log[m].id # 0}}

ClaudeNext ==
    /\ source = "claude"
    /\ \E t \in Threads :
         \/ \E d \in BOOLEAN : AssistantText(t, d)
         \/ \E tool \in Tools, d \in BOOLEAN :
              \E id \in CallIds(t, tool, d) : ToolUse(t, tool, id, d)
         \/ \E id \in ResultIds(t), outcome \in Outcomes : ToolResult(t, id, outcome)
         \/ \E what \in UserTexts : UserText(t, what)

=============================================================================
