---------------------------- MODULE CodexReader -----------------------------
(***************************************************************************)
(* CodexRolloutLineParser (codex_reader.py): one action per record. Call    *)
(* ids are not used twice in a rollout.                                     *)
(***************************************************************************)
EXTENDS Interactions

\* A message speaks whether or not its id came before.
Message(t, duplicate) ==
    /\ duplicate => \E n \in DOMAIN log : log[n].kind = "text"
    /\ Read("text", t, "none", 0, duplicate)
    /\ IF duplicate THEN EmitNone /\ UNCHANGED last
       ELSE Emit(t, "assistant_text", 0) /\ last' = [last EXCEPT ![t] = Len(inter) + 1]
    /\ awaiting' = FALSE
    /\ NoEvent /\ UNCHANGED <<pending, question, asked>>

RegisterCall(t, tool, id) ==
    /\ id \in {0, Line}
    /\ Read("call", t, tool, id, FALSE)
    /\ Emit(t, IF tool = "question" THEN "question" ELSE "tool_call", 0)
    /\ question' = IF tool = "question" THEN [question EXCEPT ![t] = Len(inter) + 1] ELSE question
    /\ CASE tool = "read"          -> Report("file_read")
         [] tool = "run" /\ id = 0 -> ReportRun([line |-> Line, id |-> 0])
         [] OTHER                  -> NoEvent
    /\ pending' = IF id = 0 THEN pending
                  ELSE pending \cup {[id |-> id, line |-> Line, tool |-> tool,
                                      link |-> Len(inter) + 1]}
    /\ awaiting' = FALSE
    /\ UNCHANGED <<last, asked>>

\* The answer or the result a call's output stands for.
OutputInteraction(t, id) ==
    IF Call(id) = {} THEN Emit(t, "tool_result", 0) /\ UNCHANGED question
    ELSE \E c \in Call(id) :
           IF c.tool = "question" THEN Emit(t, "human_answer", c.link) /\ Settled(t, c.link)
           ELSE Emit(t, "tool_result", c.link) /\ UNCHANGED question

CallOutput(t, id, outcome) ==
    /\ Read("result", t, outcome, id, FALSE)
    /\ OutputInteraction(t, id)
    /\ CASE outcome = "refusal"                  -> Report("tool_rejected")
         [] outcome # "refusal" /\ (\E c \in Call(id) : c.tool = "run")
                                                 -> \E c \in Call(id) : ReportRun(c)
         [] outcome = "error" /\ ~(\E c \in Call(id) : c.tool = "run")
                                                 -> Report("tool_error")
         [] OTHER                                -> NoEvent
    /\ pending' = pending \ Call(id)
    /\ UNCHANGED <<awaiting, last, asked>>

\* Refusals have no class of their own among the prompts.
Prompt(t, what) ==
    /\ Read("user", t, what, 0, FALSE)
    /\ CASE what = "sentinel" -> InterruptTurn(t) /\ Report("interrupt")
         [] what = "quoted"   -> Emit(t, "quoted_history", 0) /\ UNCHANGED <<question, last>>
         [] what = "plain"    -> AnswerOrRequest(t)
    /\ what # "sentinel" =>
         /\ IF awaiting THEN Report("user_turn_after_correction") ELSE NoEvent
         /\ awaiting' = FALSE
    /\ UNCHANGED <<pending, asked>>

-----------------------------------------------------------------------------
(* event_msg records *)

TurnAborted(t) ==
    /\ Read("aborted", t, "none", 0, FALSE)
    /\ InterruptTurn(t) /\ Report("interrupt")
    /\ UNCHANGED <<pending, asked>>

\* Mutant: completion closes the trailing reply of the other thread too.
TaskCompletedEverywhere(t) ==
    /\ Read("completed", t, "none", 0, FALSE)
    /\ inter' = [i \in DOMAIN inter |->
                   IF \E u \in Threads : last[u] = i THEN Reterminalized(inter[i], "completed")
                   ELSE inter[i]]
    /\ last' = [u \in Threads |-> 0]
    /\ NoEvent /\ UNCHANGED <<pending, awaiting, question, turn, asked>>

TaskCompleted(t) ==
    /\ Read("completed", t, "none", 0, FALSE)
    /\ inter' = Closed(t, "completed")
    /\ last' = [last EXCEPT ![t] = 0]
    /\ NoEvent /\ UNCHANGED <<pending, awaiting, question, turn, asked>>

CallRejected(t) ==
    /\ Read("rejected", t, "none", 0, FALSE)
    /\ Report("tool_rejected") /\ EmitNone
    /\ UNCHANGED <<pending, awaiting, question, last, asked>>

\* A legacy user message counts only when it is the interrupt sentinel.
LegacyInterrupt(t) ==
    /\ Read("legacy", t, "sentinel", 0, FALSE)
    /\ Report("interrupt") /\ awaiting' = TRUE /\ EmitNone
    /\ UNCHANGED <<pending, question, last, asked>>

OutputIds(t) ==
    {0} \cup {log[n].id : n \in {m \in DOMAIN log : log[m].kind = "call" /\ log[m].thread = t
                                                    /\ log[m].id # 0}}

CodexNext ==
    /\ source = "codex"
    /\ \E t \in Threads :
         \/ \E d \in BOOLEAN : Message(t, d)
         \/ \E tool \in Tools, id \in {0, Line} : RegisterCall(t, tool, id)
         \/ \E id \in OutputIds(t), outcome \in Outcomes : CallOutput(t, id, outcome)
         \/ \E what \in {"plain", "quoted", "sentinel"} : Prompt(t, what)
         \/ TurnAborted(t)
         \/ TaskCompleted(t)
         \/ CallRejected(t)
         \/ LegacyInterrupt(t)

=============================================================================
