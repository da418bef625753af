---------------------------- MODULE ReadersProofs -----------------------------
(***************************************************************************)
(* Proofs about the two parsers of Readers, for transcripts of any length:  *)
(* runs meet their results, corrections follow stops, answers meet their    *)
(* questions, and replies end as the records say.                           *)
(*                                                                          *)
(* Every record of either parser is first reduced to a View: what it does   *)
(* to interactions, to pending calls and runs, and to the correction flag.  *)
(* The invariants are proved of views.                                      *)
(***************************************************************************)
EXTENDS Readers, FiniteSetTheorems, WellFoundedInduction, TLAPS

Origins == {"assistant_text", "tool_call", "question", "human_answer", "tool_result",
            "harness", "quoted_history", "human_request"}

Items == [line : 1..MaxLines, thread : Threads, origin : Origins, turn : 0..MaxLines,
          link : 0..MaxLines, terminal : {"none", "unknown", "interrupted", "completed"}]

Events == [kind : {"file_read", "run", "tool_rejected", "tool_error", "interrupt",
                   "user_turn_after_correction"},
           line : 1..MaxLines, call : 0..MaxLines]

\* Types, and that nothing refers to a record not yet read.
TypeInv ==
    /\ TypeOK
    /\ inter \in Seq(Items) /\ events \in Seq(Events)
    /\ \A t \in Threads : turn[t] <= Len(log)
    /\ \A c \in pending : c.id <= Len(log) /\ c.line <= Len(log)
    /\ source = "codex" => \A c \in pending : c.tool = "question" => c.link # 0
    /\ \A n \in Lines : log[n].id <= n
    /\ \A i \in DOMAIN inter : inter[i].line <= Len(log)
    /\ \A e \in DOMAIN events : events[e].line <= Len(log) /\ events[e].call <= Len(log)

-----------------------------------------------------------------------------
(* Views *)

Reads(r) ==
    /\ ~done /\ done' = done /\ source' = source
    /\ r \in Record /\ r.id <= Line /\ Len(log) < MaxLines
    /\ log' = Append(log, r)

Ending(r) == r.kind \in {"completed", "aborted"} \/ (r.kind = "user" /\ r.what = "sentinel")

Silent(r) == ~Ending(r) /\ UNCHANGED <<inter, turn, last, question>>

Noted(r) ==
    /\ ~Ending(r)
    /\ \E origin \in {"tool_call", "tool_result", "harness", "quoted_history", "question"},
          link \in 0..Len(inter) : Emit(r.thread, origin, link)
    /\ UNCHANGED <<last, question>>

Spoken(r) ==
    /\ r.kind = "text"
    /\ Emit(r.thread, "assistant_text", 0)
    /\ last' = [last EXCEPT ![r.thread] = Len(inter) + 1]
    /\ UNCHANGED question

Posed(r) ==
    /\ r.kind = "call"
    /\ Emit(r.thread, "question", 0)
    /\ question' = [question EXCEPT ![r.thread] = Len(inter) + 1]
    /\ UNCHANGED last

\* An answer that came as the result of the call that asked.
Returned(r) ==
    /\ r.kind = "result" /\ r.id # 0
    /\ \E q \in 1..Len(inter) :
         /\ \/ source = "claude" /\ <<r.id, q>> \in asked
            \/ source = "codex" /\ \E c \in Call(r.id) : c.tool = "question" /\ c.link = q
         /\ Emit(r.thread, "human_answer", q) /\ Settled(r.thread, q)
    /\ UNCHANGED last

Typed(r) == r.kind = "user" /\ r.what = "plain" /\ AnswerOrRequest(r.thread)

Cut(r) ==
    /\ Ending(r) /\ r.kind # "completed"
    /\ inter' = Append(Closed(r.thread, "interrupted"), Item(r.thread, "harness", 0, "interrupted"))
    /\ last' = [last EXCEPT ![r.thread] = 0]
    /\ question' = [question EXCEPT ![r.thread] = 0]
    /\ UNCHANGED turn

Completes(r) ==
    /\ r.kind = "completed"
    /\ inter' = Closed(r.thread, "completed")
    /\ last' = [last EXCEPT ![r.thread] = 0]
    /\ UNCHANGED <<question, turn>>

InterView(r) ==
    \/ Silent(r) \/ Noted(r) \/ Spoken(r) \/ Posed(r) \/ Returned(r) \/ Typed(r) \/ Cut(r)
    \/ Completes(r)

\* A call registers, a result consumes, and nothing else changes what is pending.
CallView(r) ==
    /\ r.kind \notin {"call", "result"} => r.id = 0 /\ UNCHANGED <<pending, asked>>
    /\ r.kind = "call" =>
         /\ \/ r.id \in {0, Line}
            \/ \E n \in Lines : /\ log[n].kind = "call" /\ log[n].id = r.id
                               /\ log[n].what = r.what /\ log[n].thread = r.thread
         /\ r.what \in Tools
         /\ r.id = 0 => pending' = pending
         /\ r.id # 0 => \E link \in 0..Len(inter') :
              /\ pending' = (pending \ Call(r.id)) \cup
                    {[id |-> r.id, line |-> Line, tool |-> r.what, link |-> link]}
              /\ source = "codex" /\ r.what = "question" => link = Len(inter) + 1 /\ Posed(r)
         /\ \/ asked' = asked
            \/ r.id = Line /\ Posed(r) /\ asked' = asked \cup {<<Line, Len(inter) + 1>>}
    /\ r.kind = "result" =>
         /\ r.what \in Outcomes
         /\ pending' = pending \ Call(r.id)
         /\ asked' \subseteq asked
         /\ r.id # 0 => \E n \in Lines :
              log[n].kind = "call" /\ log[n].id = r.id /\ log[n].thread = r.thread

\* A result that is one of a pending run.
EndsRun(r) == r.kind = "result" /\ r.what # "refusal" /\ \E c \in Call(r.id) : c.tool = "run"

Corrects(r) == awaiting /\ r.kind = "user" /\ r.what \in {"plain", "quoted"}

EventView(r) ==
    IF EndsRun(r) THEN \E c \in Call(r.id) : events' = Append(events, Event("run", c.line, c.id))
    ELSE IF Corrects(r) THEN events' = Append(events, Event("user_turn_after_correction", Line, 0))
    ELSE \/ events' = events
         \/ \E e \in Events :
              /\ e.line <= Line /\ e.call = 0 /\ e.kind # "user_turn_after_correction"
              /\ e.kind = "run" => /\ r.kind = "call" /\ r.what = "run" /\ r.id = 0
                                   /\ e = Event("run", Line, 0)
              /\ events' = Append(events, e)

Halts(r) ==
    \/ r.kind = "user" /\ r.what \in {"sentinel", "metasentinel"}
    \/ r.kind \in {"aborted", "legacy"}
    \/ source = "claude" /\ r.kind \in {"user", "result"} /\ r.what = "refusal"
    \/ source = "claude" /\ r.kind = "rejected"

Works(r) ==
    IF source = "codex" THEN r.kind \in {"call", "text"}
    ELSE \/ r.kind = "call" /\ r.what = "read"
         \/ r.kind = "call" /\ r.what = "run" /\ r.id = 0
         \/ r.kind = "result" /\ r.what = "error"
         \/ EndsRun(r)

FlagView(r) ==
    /\ awaiting' \in BOOLEAN
    /\ awaiting' <=> \/ Halts(r)
                     \/ awaiting /\ ~Works(r) /\ ~Corrects(r)

View(r) == Reads(r) /\ InterView(r) /\ CallView(r) /\ EventView(r) /\ FlagView(r)

-----------------------------------------------------------------------------
(* The records of the Claude parser *)

LEMMA ReadReads ==
    ASSUME TypeInv, NEW kind, NEW t, NEW what, NEW id, NEW duplicate,
           Read(kind, t, what, id, duplicate),
           [kind |-> kind, thread |-> t, what |-> what, id |-> id, duplicate |-> duplicate] \in Record,
           id <= Line
    PROVE  Reads([kind |-> kind, thread |-> t, what |-> what, id |-> id, duplicate |-> duplicate])
BY DEF Read, Reads

LEMMA Kept ==
    ASSUME TypeInv
    PROVE  /\ Len(log) \in Nat /\ Len(inter) \in Nat /\ Len(events) \in Nat
           /\ DOMAIN inter = 1..Len(inter) /\ DOMAIN log = 1..Len(log)
           /\ \A e \in Events : Append(events, e) # events
           /\ \A c \in pending : c.id \in 1..Len(log) /\ c.line \in 1..Len(log)
           /\ Call(0) = {} /\ Call(Line) = {}
<1>1. Len(log) \in Nat /\ Len(inter) \in Nat /\ Len(events) \in Nat
  BY DEF TypeInv, TypeOK
<1>2. \A c \in pending : c.id \in 1..Len(log) /\ c.line \in 1..Len(log)
  BY <1>1 DEF TypeInv, TypeOK
<1>3. \A e \in Events : Append(events, e) # events
  BY <1>1 DEF TypeInv
<1>4. Call(0) = {} /\ Call(Line) = {}
  BY <1>1, <1>2 DEF Call, Line
<1>5. DOMAIN inter = 1..Len(inter) /\ DOMAIN log = 1..Len(log)
  BY DEF TypeInv, TypeOK
<1> QED
  BY <1>1, <1>2, <1>3, <1>4, <1>5

LEMMA EventsHere ==
    ASSUME TypeInv, Len(log) < MaxLines
    PROVE  /\ \A kind \in {"file_read", "run", "tool_rejected", "tool_error", "interrupt"} :
                Event(kind, Line, 0) \in Events
           /\ \A kind : /\ Event(kind, Line, 0).line <= Line /\ Event(kind, Line, 0).call = 0
                        /\ Event(kind, Line, 0).kind = kind
<1>1. Line \in 1..MaxLines /\ 0 \in 0..MaxLines /\ Line <= Line
  BY Kept, InteractionsAssumption DEF Line
<1> QED
  BY <1>1 DEF Event, Events

LEMMA ClaudeTextView ==
    ASSUME TypeInv, source = "claude", NEW t \in Threads, NEW d \in BOOLEAN, AssistantText(t, d)
    PROVE  \E r \in Record : View(r)
<1> DEFINE r == [kind |-> "text", thread |-> t, what |-> "none", id |-> 0, duplicate |-> d]
<1>1. r \in Record /\ 0 <= Line
  BY Kept, InteractionsAssumption DEF Record, Line
<1>2. Reads(r)
  BY <1>1, ReadReads DEF AssistantText
<1>3. InterView(r)
  <2>1. CASE d
    BY <2>1 DEF AssistantText, EmitNone, InterView, Silent, Ending
  <2>2. CASE ~d
    BY <2>2 DEF AssistantText, InterView, Spoken
  <2> QED
    BY <2>1, <2>2
<1>4. CallView(r)
  BY DEF AssistantText, CallView
<1>5. EventView(r) /\ FlagView(r)
  BY DEF AssistantText, NoEvent, EventView, EndsRun, Corrects, FlagView, Halts, Works, TypeInv, TypeOK
<1> QED
  BY <1>1, <1>2, <1>3, <1>4, <1>5 DEF View

LEMMA ClaudeCallView ==
    ASSUME TypeInv, source = "claude", NEW t \in Threads, NEW tool \in Tools, NEW d \in BOOLEAN,
           NEW id \in CallIds(t, tool, d), ToolUse(t, tool, id, d)
    PROVE  \E r \in Record : View(r)
<1> DEFINE r == [kind |-> "call", thread |-> t, what |-> tool, id |-> id, duplicate |-> d]
<1>0. \/ id \in {0, Line}
      \/ /\ d
         /\ \E n \in Lines : /\ log[n].kind = "call" /\ log[n].id = id
                            /\ log[n].what = tool /\ log[n].thread = t
  BY DEF CallIds, Lines
<1>1. r \in Record /\ id <= Line /\ Len(log) < MaxLines
  <2>1. Len(log) < MaxLines /\ Len(log) \in Nat /\ MaxLines \in Nat
    BY Kept, InteractionsAssumption DEF ToolUse, Read
  <2>2. id \in 0..Line
    <3>1. CASE id \in {0, Line}
      BY <2>1, <3>1 DEF Line
    <3>2. CASE \E n \in Lines : log[n].id = id
      <4>1. PICK n \in Lines : log[n].id = id
        BY <3>2
      <4>2. n \in 1..Len(log) /\ log[n] \in Record /\ log[n].id <= n
        BY <4>1, Kept DEF TypeInv, TypeOK, Lines
      <4> QED
        BY <2>1, <4>1, <4>2 DEF Line, Record
    <3> QED
      BY <1>0, <3>1, <3>2
  <2> QED
    BY <2>1, <2>2 DEF Record, Line
<1>2. Reads(r)
  BY <1>1, ReadReads DEF ToolUse
<1>3. InterView(r)
  <2>1. CASE d
    BY <2>1 DEF ToolUse, EmitNone, InterView, Silent, Ending
  <2>2. CASE ~d /\ tool = "question" /\ id # 0
    BY <2>2 DEF ToolUse, InterView, Posed
  <2>3. CASE ~d /\ ~(tool = "question" /\ id # 0)
    <3>1. 0 \in 0..Len(inter)
      BY Kept
    <3> QED
      BY <2>3, <3>1 DEF ToolUse, InterView, Noted, Ending
  <2> QED
    BY <2>1, <2>2, <2>3
<1>4. CallView(r)
  <2>1. id = 0 => pending' = pending
    BY DEF ToolUse
  <2>2. id # 0 => \E link \in 0..Len(inter') :
              pending' = (pending \ Call(id)) \cup
                    {[id |-> id, line |-> Line, tool |-> tool, link |-> link]}
    <3>1. inter' = inter \/ (~d /\ \E o \in Origins : inter' = Append(inter, Item(t, o, 0, "none")))
      BY DEF ToolUse, Emit, EmitNone, Origins
    <3>2. Len(inter') \in Nat /\ Len(inter') >= Len(inter) /\ (~d => Len(inter') = Len(inter) + 1)
      BY <3>1, Kept DEF ToolUse, Emit, TypeInv
    <3>3. (IF d THEN 0 ELSE Len(inter) + 1) \in 0..Len(inter')
      BY <3>2, Kept
    <3> QED
      BY <3>3 DEF ToolUse, Registered
  <2>3. \/ asked' = asked
        \/ id = Line /\ Posed(r) /\ asked' = asked \cup {<<Line, Len(inter) + 1>>}
    BY <1>0 DEF ToolUse, Posed
  <2> QED
    BY <1>0, <2>1, <2>2, <2>3 DEF CallView
<1>5. EventView(r) /\ FlagView(r)
  <2>1. CASE tool = "read"
    <3>1. Event("file_read", Line, 0) \in Events
      BY <1>1, EventsHere
    <3>2. events' = Append(events, Event("file_read", Line, 0))
      BY <2>1 DEF ToolUse, CallEvent, Report
    <3>3. awaiting' = FALSE
      BY <3>1, <3>2, Kept DEF ToolUse
    <3>4. EventView(r)
      BY <1>1, <3>1, <3>2, Kept DEF EventView, EndsRun, Corrects, Event, Line
    <3> QED
      BY <2>1, <3>3, <3>4 DEF FlagView, Halts, Works
  <2>2. CASE tool = "run" /\ id = 0
    <3>1. Event("run", Line, 0) \in Events
      BY <1>1, EventsHere
    <3>2. events' = Append(events, Event("run", Line, 0))
      BY <2>2 DEF ToolUse, CallEvent, ReportRun
    <3>3. awaiting' = FALSE
      BY <3>1, <3>2, Kept DEF ToolUse
    <3>4. EventView(r)
      <4> DEFINE e == Event("run", Line, 0)
      <4>1. /\ e \in Events /\ e.line <= Line /\ e.call = 0 /\ e.kind = "run"
            /\ e = Event("run", Line, 0) /\ events' = Append(events, e)
        BY <1>1, <3>1, <3>2, EventsHere
      <4>2. r.kind = "call" /\ r.what = "run" /\ r.id = 0 /\ ~EndsRun(r) /\ ~Corrects(r)
        BY <2>2 DEF EndsRun, Corrects
      <4> HIDE DEF e
      <4> QED
        BY <4>1, <4>2 DEF EventView
    <3> QED
      BY <2>2, <3>3, <3>4 DEF FlagView, Halts, Works
  <2>3. CASE tool # "read" /\ ~(tool = "run" /\ id = 0)
    <3>1. events' = events /\ awaiting' = awaiting /\ awaiting \in BOOLEAN
      BY <2>3 DEF ToolUse, CallEvent, NoEvent, TypeInv, TypeOK
    <3> QED
      BY <2>3, <3>1 DEF EventView, EndsRun, Corrects, FlagView, Halts, Works
  <2> QED
    BY <2>1, <2>2, <2>3
<1> QED
  BY <1>1, <1>2, <1>3, <1>4, <1>5 DEF View

\* The kinds of events that record neither a run nor a correction.
Plain == {"file_read", "tool_rejected", "tool_error", "interrupt"}

LEMMA ReportView ==
    ASSUME TypeInv, NEW r, Len(log) < MaxLines, ~EndsRun(r), ~Corrects(r),
           \/ NoEvent
           \/ \E kind \in Plain : Report(kind)
    PROVE  EventView(r)
<1>1. CASE NoEvent
  BY <1>1 DEF NoEvent, EventView
<1>2. CASE \E kind \in Plain : Report(kind)
  <2>1. PICK kind \in Plain : Report(kind)
    BY <1>2
  <2>2. Event(kind, Line, 0) \in Events /\ Event(kind, Line, 0).line <= Line
        /\ Event(kind, Line, 0).call = 0 /\ Event(kind, Line, 0).kind = kind
    BY <2>1, EventsHere DEF Plain
  <2> QED
    BY <2>1, <2>2 DEF Report, EventView, Plain
<1> QED
  BY <1>1, <1>2

LEMMA ClaudeResultView ==
    ASSUME TypeInv, source = "claude", NEW t \in Threads, NEW outcome \in Outcomes,
           NEW id \in ResultIds(t), ToolResult(t, id, outcome)
    PROVE  \E r \in Record : View(r)
<1> DEFINE r == [kind |-> "result", thread |-> t, what |-> outcome, id |-> id, duplicate |-> FALSE]
<1>0. id # 0 => \E n \in Lines : log[n].kind = "call" /\ log[n].id = id /\ log[n].thread = t
  BY DEF ResultIds, Lines
<1>1. r \in Record /\ id <= Line /\ Len(log) < MaxLines
  <2>1. Len(log) < MaxLines /\ Len(log) \in Nat /\ MaxLines \in Nat
    BY Kept, InteractionsAssumption DEF ToolResult, Read
  <2>2. id \in 0..Len(log)
    <3>1. CASE id = 0
      BY <3>1, <2>1
    <3>2. CASE id # 0
      <4>1. PICK n \in Lines : log[n].id = id
        BY <1>0, <3>2
      <4>2. n \in 1..Len(log) /\ log[n] \in Record /\ log[n].id <= n
        BY <4>1, Kept DEF TypeInv, TypeOK, Lines
      <4> QED
        BY <4>1, <4>2, <2>1 DEF Record
    <3> QED
      BY <3>1, <3>2
  <2> QED
    BY <2>1, <2>2 DEF Record, Line
<1>2. Reads(r)
  BY <1>1, ReadReads DEF ToolResult
<1>3. InterView(r)
  <2>1. CASE \E a \in asked : a[1] = id
    <3>1. PICK a \in asked : a[1] = id /\ Emit(t, "human_answer", a[2]) /\ Settled(t, a[2])
      BY <2>1 DEF ToolResult, ResultInteraction
    <3>2. a \in (1..MaxLines) \X (1..Len(inter))
      BY DEF TypeInv, TypeOK
    <3>3. id # 0 /\ a[2] \in 1..Len(inter) /\ <<id, a[2]>> \in asked
      <4>1. a = <<a[1], a[2]>> /\ a[1] \in 1..MaxLines /\ a[2] \in 1..Len(inter)
        BY <3>2
      <4> QED
        BY <3>1, <4>1
    <3>4. Returned(r)
      BY <3>1, <3>3 DEF Returned, ToolResult
    <3> QED
      BY <3>4 DEF InterView
  <2>2. CASE ~(\E a \in asked : a[1] = id)
    <3>1. UNCHANGED question /\ UNCHANGED last
      BY <2>2 DEF ToolResult, ResultInteraction
    <3>2. \E link \in 0..Len(inter) : Emit(t, "tool_result", link)
      <4>1. CASE Call(id) = {}
        <5>1. Emit(t, "tool_result", 0)
          BY <2>2, <4>1 DEF ToolResult, ResultInteraction
        <5> QED
          BY <5>1, Kept
      <4>2. CASE Call(id) # {}
        <5>1. PICK c \in Call(id) : Emit(t, "tool_result", c.link)
          BY <2>2, <4>2 DEF ToolResult, ResultInteraction
        <5>2. c.link \in 0..Len(inter)
          BY DEF Call, TypeInv, TypeOK
        <5> QED
          BY <5>1, <5>2
      <4> QED
        BY <4>1, <4>2
    <3> QED
      BY <3>1, <3>2 DEF InterView, Noted, Ending
  <2> QED
    BY <2>1, <2>2
<1>4. CallView(r)
  <2>1. asked' \subseteq asked
    BY DEF ToolResult, ResultInteraction
  <2> QED
    BY <1>0, <2>1 DEF CallView, ToolResult, Consumed
<1>5. EventView(r) /\ FlagView(r)
  <2>0. awaiting \in BOOLEAN /\ ~Corrects(r)
    BY DEF TypeInv, TypeOK, Corrects
  <2>1. CASE outcome = "refusal"
    <3>1. Report("tool_rejected") /\ awaiting' = TRUE /\ ~EndsRun(r) /\ Halts(r)
      BY <2>1 DEF ToolResult, ResultEvent, EndsRun, Halts
    <3> QED
      BY <1>1, <2>0, <3>1, ReportView DEF FlagView, Plain
  <2>2. CASE outcome # "refusal" /\ \E c \in Call(id) : c.tool = "run"
    <3>1. (\E c \in Call(id) : ReportRun(c)) /\ awaiting' = FALSE /\ EndsRun(r) /\ ~Halts(r)
      BY <2>2 DEF ToolResult, ResultEvent, EndsRun, Halts
    <3> QED
      BY <3>1 DEF EventView, FlagView, Works, ReportRun
  <2>3. CASE outcome # "refusal" /\ ~(\E c \in Call(id) : c.tool = "run")
    <3>1. ~EndsRun(r) /\ ~Halts(r)
      BY <2>3 DEF EndsRun, Halts
    <3>2. CASE outcome = "error"
      <4>1. Report("tool_error") /\ awaiting' = FALSE
        BY <2>3, <3>2 DEF ToolResult, ResultEvent
      <4> QED
        BY <1>1, <2>0, <3>1, <3>2, <4>1, ReportView DEF FlagView, Works, Plain
    <3>3. CASE outcome # "error"
      <4>1. NoEvent /\ awaiting' = awaiting
        BY <2>3, <3>3 DEF ToolResult, ResultEvent
      <4> QED
        BY <1>1, <2>0, <3>1, <3>3, <4>1, ReportView DEF FlagView, Works
    <3> QED
      BY <3>2, <3>3
  <2> QED
    BY <2>1, <2>2, <2>3
<1> QED
  BY <1>1, <1>2, <1>3, <1>4, <1>5 DEF View

LEMMA CorrectionView ==
    ASSUME TypeInv, NEW r, Len(log) < MaxLines, r.kind = "user", r.what \in {"plain", "quoted"},
           IF awaiting THEN Report("user_turn_after_correction") ELSE NoEvent,
           awaiting' = FALSE
    PROVE  EventView(r) /\ FlagView(r)
<1>1. ~EndsRun(r) /\ ~Halts(r) /\ awaiting \in BOOLEAN
  BY DEF EndsRun, Halts, TypeInv, TypeOK
<1>2. CASE awaiting
  BY <1>1, <1>2 DEF EventView, FlagView, Corrects, Report
<1>3. CASE ~awaiting
  BY <1>1, <1>3 DEF EventView, FlagView, Corrects, NoEvent
<1> QED
  BY <1>2, <1>3

LEMMA ClaudeUserView ==
    ASSUME TypeInv, source = "claude", NEW t \in Threads, NEW what \in UserTexts, UserText(t, what)
    PROVE  \E r \in Record : View(r)
<1> DEFINE r == [kind |-> "user", thread |-> t, what |-> what, id |-> 0, duplicate |-> FALSE]
<1>1. r \in Record /\ 0 <= Line /\ Len(log) < MaxLines
  BY Kept, InteractionsAssumption DEF Record, Line, UserText, Read
<1>2. Reads(r)
  BY <1>1, ReadReads DEF UserText
<1>3. CallView(r)
  BY DEF UserText, CallView
<1>4. awaiting \in BOOLEAN /\ ~EndsRun(r) /\ ~Works(r)
  BY DEF TypeInv, TypeOK, EndsRun, Works
<1>5. CASE what = "sentinel"
  <2>1. InterView(r)
    BY <1>5 DEF UserText, TextInteraction, InterruptTurn, InterView, Cut, Ending
  <2>2. Report("interrupt") /\ awaiting' = TRUE /\ ~Corrects(r) /\ Halts(r)
    BY <1>5 DEF UserText, TextEvent, TextInteraction, InterruptTurn, Corrects, Halts
  <2> QED
    BY <1>1, <1>2, <1>3, <1>4, <2>1, <2>2, ReportView DEF View, FlagView, Plain
<1>6. CASE what \in {"meta", "metasentinel", "refusal"}
  <2>1. InterView(r)
    <3>1. Emit(t, "harness", 0) /\ UNCHANGED <<question, last>> /\ 0 \in 0..Len(inter)
      <4>1. CASE what = "meta"
        BY <4>1, Kept DEF UserText, TextInteraction
      <4>2. CASE what = "refusal"
        BY <4>2, Kept DEF UserText, TextInteraction
      <4>3. CASE what = "metasentinel"
        BY <4>3, Kept DEF UserText, TextInteraction
      <4> QED
        BY <1>6, <4>1, <4>2, <4>3
    <3> QED
      BY <1>6, <3>1 DEF InterView, Noted, Ending
  <2>2. ~Corrects(r)
    BY <1>6 DEF Corrects
  <2>3. CASE what = "refusal"
    <3>1. Report("tool_rejected") /\ awaiting' = TRUE /\ Halts(r)
      BY <2>3 DEF UserText, TextEvent, TextInteraction, TextAwaits, Halts
    <3> QED
      BY <1>1, <1>2, <1>3, <1>4, <2>1, <2>2, <3>1, ReportView DEF View, FlagView, Plain
  <2>4. CASE what = "meta"
    <3>1. NoEvent /\ awaiting' = awaiting /\ ~Halts(r)
      BY <2>4 DEF UserText, TextEvent, TextInteraction, TextAwaits, Halts
    <3> QED
      BY <1>1, <1>2, <1>3, <1>4, <2>1, <2>2, <3>1, ReportView DEF View, FlagView
  <2>5. CASE what = "metasentinel"
    <3>1. Report("interrupt") /\ awaiting' = TRUE /\ Halts(r)
      BY <2>5 DEF UserText, TextEvent, TextInteraction, TextAwaits, Halts
    <3> QED
      BY <1>1, <1>2, <1>3, <1>4, <2>1, <2>2, <3>1, ReportView DEF View, FlagView, Plain
  <2> QED
    BY <1>6, <2>3, <2>4, <2>5
<1>7. CASE what \in {"plain", "quoted"}
  <2>1. InterView(r)
    <3>1. CASE what = "plain"
      BY <3>1 DEF UserText, TextInteraction, InterView, Typed
    <3>2. CASE what = "quoted"
      <4>1. Emit(t, "quoted_history", 0) /\ UNCHANGED <<question, last>> /\ 0 \in 0..Len(inter)
        BY <3>2, Kept DEF UserText, TextInteraction
      <4> QED
        BY <3>2, <4>1 DEF InterView, Noted, Ending
    <3> QED
      BY <1>7, <3>1, <3>2
  <2>2. awaiting' = FALSE /\ (IF awaiting THEN Report("user_turn_after_correction") ELSE NoEvent)
    BY <1>7 DEF UserText, TextEvent, TextInteraction, TextAwaits
  <2> QED
    BY <1>1, <1>2, <1>3, <1>7, <2>1, <2>2, CorrectionView DEF View
<1> QED
  BY <1>5, <1>6, <1>7 DEF UserTexts

LEMMA ClaudeViews ==
    ASSUME TypeInv, ClaudeNext
    PROVE  \E r \in Record : View(r)
<1> USE DEF ClaudeNext
<1>1. PICK t \in Threads :
         \/ \E d \in BOOLEAN : AssistantText(t, d)
         \/ \E tool \in Tools, d \in BOOLEAN :
              \E id \in CallIds(t, tool, d) : ToolUse(t, tool, id, d)
         \/ \E id \in ResultIds(t), outcome \in Outcomes : ToolResult(t, id, outcome)
         \/ \E what \in UserTexts : UserText(t, what)
  OBVIOUS
<1> QED
  BY <1>1, ClaudeTextView, ClaudeCallView, ClaudeResultView, ClaudeUserView

-----------------------------------------------------------------------------
(* The records of the Codex parser *)

LEMMA CodexTextView ==
    ASSUME TypeInv, source = "codex", NEW t \in Threads, NEW d \in BOOLEAN, Message(t, d)
    PROVE  \E r \in Record : View(r)
<1> DEFINE r == [kind |-> "text", thread |-> t, what |-> "none", id |-> 0, duplicate |-> d]
<1>1. r \in Record /\ 0 <= Line
  BY Kept, InteractionsAssumption DEF Record, Line
<1>2. Reads(r)
  BY <1>1, ReadReads DEF Message
<1>3. InterView(r)
  <2>1. CASE d
    BY <2>1 DEF Message, EmitNone, InterView, Silent, Ending
  <2>2. CASE ~d
    BY <2>2 DEF Message, InterView, Spoken
  <2> QED
    BY <2>1, <2>2
<1>4. CallView(r)
  BY DEF Message, CallView
<1>5. EventView(r) /\ FlagView(r)
  BY DEF Message, NoEvent, EventView, EndsRun, Corrects, FlagView, Halts, Works, TypeInv, TypeOK
<1> QED
  BY <1>1, <1>2, <1>3, <1>4, <1>5 DEF View

LEMMA CodexCallView ==
    ASSUME TypeInv, source = "codex", NEW t \in Threads, NEW tool \in Tools,
           NEW id \in {0, Line}, RegisterCall(t, tool, id)
    PROVE  \E r \in Record : View(r)
<1> DEFINE r == [kind |-> "call", thread |-> t, what |-> tool, id |-> id, duplicate |-> FALSE]
<1>1. r \in Record /\ id <= Line /\ Len(log) < MaxLines
  <2>1. Len(log) < MaxLines /\ Len(log) \in Nat /\ MaxLines \in Nat
    BY Kept, InteractionsAssumption DEF RegisterCall, Read
  <2> QED
    BY <2>1 DEF Record, Line
<1>2. Reads(r)
  BY <1>1, ReadReads DEF RegisterCall
<1>3. InterView(r) /\ (tool = "question" => Posed(r))
  <2>1. CASE tool = "question"
    BY <2>1 DEF RegisterCall, InterView, Posed
  <2>2. CASE tool # "question"
    <3>1. Emit(t, "tool_call", 0) /\ UNCHANGED <<question, last>> /\ 0 \in 0..Len(inter)
      BY <2>2, Kept DEF RegisterCall
    <3> QED
      BY <2>2, <3>1 DEF InterView, Noted, Ending
  <2> QED
    BY <2>1, <2>2
<1>4. CallView(r)
  <2>1. id # 0 => pending' = (pending \ Call(id)) \cup
                    {[id |-> id, line |-> Line, tool |-> tool, link |-> Len(inter) + 1]}
    BY Kept DEF RegisterCall
  <2>2. Len(inter) + 1 \in 0..Len(inter')
    BY Kept DEF RegisterCall, Emit, TypeInv
  <2> QED
    BY <1>3, <2>1, <2>2 DEF CallView, RegisterCall
<1>5. EventView(r) /\ FlagView(r)
  <2>1. awaiting' = FALSE /\ Works(r) /\ ~Halts(r) /\ ~EndsRun(r) /\ ~Corrects(r)
    BY DEF RegisterCall, Works, Halts, EndsRun, Corrects
  <2>2. CASE tool = "run" /\ id = 0
    <3>1. events' = Append(events, Event("run", Line, 0))
      BY <2>2 DEF RegisterCall, ReportRun
    <3>2. Event("run", Line, 0) \in Events /\ Event("run", Line, 0).line <= Line
          /\ Event("run", Line, 0).call = 0 /\ Event("run", Line, 0).kind = "run"
      BY <1>1, EventsHere
    <3>3. EventView(r)
      <4> DEFINE e == Event("run", Line, 0)
      <4>1. /\ e \in Events /\ e.line <= Line /\ e.call = 0 /\ e.kind = "run"
            /\ e = Event("run", Line, 0) /\ events' = Append(events, e)
        BY <3>1, <3>2
      <4>2. r.kind = "call" /\ r.what = "run" /\ r.id = 0
        BY <2>2
      <4> HIDE DEF e
      <4> QED
        BY <2>1, <4>1, <4>2 DEF EventView
    <3> QED
      BY <2>1, <3>3 DEF FlagView
  <2>3. CASE ~(tool = "run" /\ id = 0)
    <3>1. NoEvent \/ Report("file_read")
      BY <2>3 DEF RegisterCall
    <3>2. EventView(r)
      BY <1>1, <2>1, <3>1, ReportView DEF Plain
    <3> QED
      BY <2>1, <3>2 DEF FlagView
  <2> QED
    BY <2>2, <2>3
<1> QED
  BY <1>1, <1>2, <1>3, <1>4, <1>5 DEF View

LEMMA CodexResultView ==
    ASSUME TypeInv, source = "codex", NEW t \in Threads, NEW outcome \in Outcomes,
           NEW id \in OutputIds(t), CallOutput(t, id, outcome)
    PROVE  \E r \in Record : View(r)
<1> DEFINE r == [kind |-> "result", thread |-> t, what |-> outcome, id |-> id, duplicate |-> FALSE]
<1>0. id # 0 => \E n \in Lines : log[n].kind = "call" /\ log[n].id = id /\ log[n].thread = t
  BY DEF OutputIds, Lines
<1>1. r \in Record /\ id <= Line /\ Len(log) < MaxLines
  <2>1. Len(log) < MaxLines /\ Len(log) \in Nat /\ MaxLines \in Nat
    BY Kept, InteractionsAssumption DEF CallOutput, Read
  <2>2. id \in 0..Len(log)
    <3>1. CASE id = 0
      BY <3>1, <2>1
    <3>2. CASE id # 0
      <4>1. PICK n \in Lines : log[n].id = id
        BY <1>0, <3>2
      <4>2. n \in 1..Len(log) /\ log[n] \in Record /\ log[n].id <= n
        BY <4>1, Kept DEF TypeInv, TypeOK, Lines
      <4> QED
        BY <4>1, <4>2, <2>1 DEF Record
    <3> QED
      BY <3>1, <3>2
  <2> QED
    BY <2>1, <2>2 DEF Record, Line
<1>2. Reads(r)
  BY <1>1, ReadReads DEF CallOutput
<1>3. InterView(r)
  <2>1. CASE Call(id) = {}
    <3>1. Emit(t, "tool_result", 0) /\ UNCHANGED <<question, last>> /\ 0 \in 0..Len(inter)
      BY <2>1, Kept DEF CallOutput, OutputInteraction
    <3> QED
      BY <3>1 DEF InterView, Noted, Ending
  <2>2. CASE Call(id) # {}
    <3>1. PICK c \in Call(id) :
            IF c.tool = "question" THEN Emit(t, "human_answer", c.link) /\ Settled(t, c.link)
            ELSE Emit(t, "tool_result", c.link) /\ UNCHANGED question
      BY <2>2 DEF CallOutput, OutputInteraction
    <3>2. c.link \in 0..Len(inter) /\ c.id = id /\ id # 0
      BY <2>2, Kept DEF Call, TypeInv, TypeOK
    <3>3. CASE c.tool = "question"
      <4>1. c.link \in 1..Len(inter)
        BY <3>2, <3>3 DEF Call, TypeInv
      <4>2. Returned(r)
        BY <3>1, <3>2, <3>3, <4>1 DEF Returned, CallOutput
      <4> QED
        BY <4>2 DEF InterView
    <3>4. CASE c.tool # "question"
      <4>1. Emit(t, "tool_result", c.link) /\ UNCHANGED <<question, last>>
        BY <3>1, <3>4 DEF CallOutput
      <4> QED
        BY <3>2, <4>1 DEF InterView, Noted, Ending
    <3> QED
      BY <3>3, <3>4
  <2> QED
    BY <2>1, <2>2
<1>4. CallView(r)
  BY <1>0 DEF CallView, CallOutput
<1>5. EventView(r) /\ FlagView(r)
  <2>0. awaiting \in BOOLEAN /\ ~Corrects(r) /\ ~Works(r) /\ ~Halts(r) /\ awaiting' = awaiting
    BY DEF TypeInv, TypeOK, Corrects, Works, Halts, CallOutput
  <2>1. CASE EndsRun(r)
    BY <2>0, <2>1 DEF CallOutput, EndsRun, EventView, FlagView, ReportRun
  <2>2. CASE ~EndsRun(r)
    <3>1. NoEvent \/ Report("tool_rejected") \/ Report("tool_error")
      BY <2>2 DEF CallOutput, EndsRun
    <3> QED
      BY <1>1, <2>0, <2>2, <3>1, ReportView DEF FlagView, Plain
  <2> QED
    BY <2>1, <2>2
<1> QED
  BY <1>1, <1>2, <1>3, <1>4, <1>5 DEF View

LEMMA CodexUserView ==
    ASSUME TypeInv, source = "codex", NEW t \in Threads,
           NEW what \in {"plain", "quoted", "sentinel"}, Prompt(t, what)
    PROVE  \E r \in Record : View(r)
<1> DEFINE r == [kind |-> "user", thread |-> t, what |-> what, id |-> 0, duplicate |-> FALSE]
<1>1. r \in Record /\ 0 <= Line /\ Len(log) < MaxLines
  BY Kept, InteractionsAssumption DEF Record, Line, Prompt, Read, UserTexts
<1>2. Reads(r)
  BY <1>1, ReadReads DEF Prompt
<1>3. CallView(r)
  BY DEF Prompt, CallView
<1>4. CASE what = "sentinel"
  <2>1. InterView(r)
    BY <1>4 DEF Prompt, InterruptTurn, InterView, Cut, Ending
  <2>2. Report("interrupt") /\ awaiting' = TRUE /\ ~Corrects(r) /\ Halts(r) /\ ~EndsRun(r)
    BY <1>4 DEF Prompt, InterruptTurn, Corrects, Halts, EndsRun
  <2> QED
    BY <1>1, <1>2, <1>3, <2>1, <2>2, ReportView DEF View, FlagView, Plain
<1>5. CASE what \in {"plain", "quoted"}
  <2>1. InterView(r)
    <3>1. CASE what = "plain"
      BY <3>1 DEF Prompt, InterView, Typed
    <3>2. CASE what = "quoted"
      <4>1. Emit(t, "quoted_history", 0) /\ UNCHANGED <<question, last>> /\ 0 \in 0..Len(inter)
        BY <3>2, Kept DEF Prompt
      <4> QED
        BY <3>2, <4>1 DEF InterView, Noted, Ending
    <3> QED
      BY <1>5, <3>1, <3>2
  <2>2. awaiting' = FALSE /\ (IF awaiting THEN Report("user_turn_after_correction") ELSE NoEvent)
    BY <1>5 DEF Prompt
  <2> QED
    BY <1>1, <1>2, <1>3, <1>5, <2>1, <2>2, CorrectionView DEF View
<1> QED
  BY <1>4, <1>5

LEMMA CodexNoticeView ==
    ASSUME TypeInv, source = "codex", NEW t \in Threads,
           TurnAborted(t) \/ TaskCompleted(t) \/ CallRejected(t) \/ LegacyInterrupt(t)
    PROVE  \E r \in Record : View(r)
<1> DEFINE r(kind, what) ==
             [kind |-> kind, thread |-> t, what |-> what, id |-> 0, duplicate |-> FALSE]
<1>1. /\ \A kind \in {"aborted", "completed", "rejected"} : r(kind, "none") \in Record
      /\ r("legacy", "sentinel") \in Record /\ 0 <= Line /\ Len(log) < MaxLines
      /\ awaiting \in BOOLEAN
  <2>1. awaiting \in BOOLEAN /\ Len(log) < MaxLines
    BY DEF TypeInv, TypeOK, Read, TurnAborted, TaskCompleted, CallRejected, LegacyInterrupt
  <2>2. 0 \in 0..MaxLines /\ 0 <= Line
    BY Kept, InteractionsAssumption DEF Line
  <2>3. \A kind \in {"aborted", "completed", "rejected"} : r(kind, "none") \in Record
    BY <2>2 DEF Record
  <2>4. r("legacy", "sentinel") \in Record
    BY <2>2 DEF Record, UserTexts
  <2> QED
    BY <2>1, <2>2, <2>3, <2>4
<1>2. CASE TurnAborted(t)
  <2> DEFINE rr == r("aborted", "none")
  <2>1. Reads(rr)
    BY <1>1, <1>2, ReadReads DEF TurnAborted
  <2>2. InterView(rr) /\ CallView(rr)
    BY <1>2 DEF TurnAborted, InterruptTurn, InterView, Cut, Ending, CallView
  <2>3. Report("interrupt") /\ awaiting' = TRUE /\ ~Corrects(rr) /\ Halts(rr) /\ ~EndsRun(rr)
    BY <1>2 DEF TurnAborted, InterruptTurn, Corrects, Halts, EndsRun
  <2> QED
    BY <1>1, <2>1, <2>2, <2>3, ReportView DEF View, FlagView, Plain
<1>3. CASE TaskCompleted(t)
  <2> DEFINE rr == r("completed", "none")
  <2>1. Reads(rr)
    BY <1>1, <1>3, ReadReads DEF TaskCompleted
  <2>2. InterView(rr) /\ CallView(rr)
    BY <1>3 DEF TaskCompleted, InterView, Completes, CallView
  <2>3. /\ NoEvent /\ awaiting' = awaiting
        /\ ~Corrects(rr) /\ ~Halts(rr) /\ ~EndsRun(rr) /\ ~Works(rr)
    BY <1>3 DEF TaskCompleted, Corrects, Halts, EndsRun, Works
  <2> QED
    BY <1>1, <2>1, <2>2, <2>3, ReportView DEF View, FlagView
<1>4. CASE CallRejected(t)
  <2> DEFINE rr == r("rejected", "none")
  <2>1. Reads(rr)
    BY <1>1, <1>4, ReadReads DEF CallRejected
  <2>2. InterView(rr) /\ CallView(rr)
    BY <1>4 DEF CallRejected, EmitNone, InterView, Silent, Ending, CallView
  <2>3. /\ Report("tool_rejected") /\ awaiting' = awaiting
        /\ ~Corrects(rr) /\ ~Halts(rr) /\ ~EndsRun(rr) /\ ~Works(rr)
    BY <1>4 DEF CallRejected, Corrects, Halts, EndsRun, Works
  <2> QED
    BY <1>1, <2>1, <2>2, <2>3, ReportView DEF View, FlagView, Plain
<1>5. CASE LegacyInterrupt(t)
  <2> DEFINE rr == r("legacy", "sentinel")
  <2>1. Reads(rr)
    BY <1>1, <1>5, ReadReads DEF LegacyInterrupt
  <2>2. InterView(rr) /\ CallView(rr)
    BY <1>5 DEF LegacyInterrupt, EmitNone, InterView, Silent, Ending, CallView
  <2>3. /\ Report("interrupt") /\ awaiting' = TRUE
        /\ ~Corrects(rr) /\ Halts(rr) /\ ~EndsRun(rr)
    BY <1>5 DEF LegacyInterrupt, Corrects, Halts, EndsRun
  <2> QED
    BY <1>1, <2>1, <2>2, <2>3, ReportView DEF View, FlagView, Plain
<1> QED
  BY <1>2, <1>3, <1>4, <1>5

LEMMA CodexViews ==
    ASSUME TypeInv, CodexNext
    PROVE  \E r \in Record : View(r)
<1>1. source = "codex"
  BY DEF CodexNext
<1>2. PICK t \in Threads :
         \/ \E d \in BOOLEAN : Message(t, d)
         \/ \E tool \in Tools, id \in {0, Line} : RegisterCall(t, tool, id)
         \/ \E id \in OutputIds(t), outcome \in Outcomes : CallOutput(t, id, outcome)
         \/ \E what \in {"plain", "quoted", "sentinel"} : Prompt(t, what)
         \/ TurnAborted(t) \/ TaskCompleted(t) \/ CallRejected(t) \/ LegacyInterrupt(t)
  BY DEF CodexNext
<1>3. CASE \E tool \in Tools, id \in {0, Line} : RegisterCall(t, tool, id)
  BY <1>1, <1>3, CodexCallView
<1>4. CASE \E id \in OutputIds(t), outcome \in Outcomes : CallOutput(t, id, outcome)
  BY <1>1, <1>4, CodexResultView
<1>5. CASE \E what \in {"plain", "quoted", "sentinel"} : Prompt(t, what)
  BY <1>1, <1>5, CodexUserView
<1>6. CASE \E d \in BOOLEAN : Message(t, d)
  BY <1>1, <1>6, CodexTextView
<1> QED
  BY <1>1, <1>2, <1>3, <1>4, <1>5, <1>6, CodexNoticeView

\* What a step is: a record read, the end of the file, or nothing.
LEMMA Steps ==
    ASSUME TypeInv, [Next]_vars
    PROVE  (\E r \in Record : View(r)) \/ Finish \/ UNCHANGED vars
BY ClaudeViews, CodexViews DEF Next

-----------------------------------------------------------------------------
(* Types *)

Terminals == {"none", "unknown", "interrupted", "completed"}

LEMMA SameBut ==
    ASSUME NEW item \in Items, NEW state \in Terminals
    PROVE  LET new == Reterminalized(item, state) IN
           /\ new \in Items
           /\ new.line = item.line /\ new.thread = item.thread /\ new.origin = item.origin
           /\ new.link = item.link
           /\ item.terminal \in {"none", "unknown"} => new.terminal = state
           /\ item.terminal \notin {"none", "unknown"} => new.terminal = item.terminal
BY DEF Reterminalized, Items, Terminals

\* What closing a trailing reply does to the interactions.
LEMMA ClosedItems ==
    ASSUME TypeInv, NEW t \in Threads, NEW state \in Terminals
    PROVE  LET new == Closed(t, state) IN
           /\ new \in Seq(Items) /\ Len(new) = Len(inter)
           /\ \A i \in 1..Len(inter) :
                new[i] = IF i = last[t] THEN Reterminalized(inter[i], state) ELSE inter[i]
<1>1. \A i \in 1..Len(inter) : inter[i] \in Items
  BY DEF TypeInv
<1>2. \A i \in 1..Len(inter) : Reterminalized(inter[i], state) \in Items
  BY <1>1, SameBut
<1>3. Closed(t, state) =
        [i \in 1..Len(inter) |-> IF i = last[t] THEN Reterminalized(inter[i], state) ELSE inter[i]]
  BY Kept DEF Closed
<1>4. Closed(t, state) \in [1..Len(inter) -> Items]
  BY <1>1, <1>2, <1>3
<1>5. Closed(t, state) \in Seq(Items) /\ Len(Closed(t, state)) = Len(inter)
  BY <1>4, Kept
<1> QED
  BY <1>3, <1>5

\* A record appends at most one interaction and closes at most the trailing
\* reply of its thread.
InterShape(r) ==
    /\ inter' \in Seq(Items) /\ Len(inter') \in {Len(inter), Len(inter) + 1}
    /\ \A i \in DOMAIN inter :
         /\ inter'[i].line = inter[i].line /\ inter'[i].thread = inter[i].thread
         /\ inter'[i].origin = inter[i].origin /\ inter'[i].link = inter[i].link
         /\ i # last[r.thread] => inter'[i] = inter[i]
    /\ \A i \in DOMAIN inter' : i \notin DOMAIN inter =>
         i = Len(inter) + 1 /\ inter'[i].line = Line /\ inter'[i].thread = r.thread
    /\ turn' \in [Threads -> 0..MaxLines] /\ \A t \in Threads : turn'[t] <= Len(log) + 1
    /\ question' \in [Threads -> 0..Len(inter')]
    /\ last' \in [Threads -> 0..Len(inter')]

Request(t) == [Item(t, "human_request", 0, "none") EXCEPT !.turn = @ + 1]

LEMMA ItemHere ==
    ASSUME TypeInv, Len(log) < MaxLines, NEW t \in Threads, NEW origin \in Origins,
           NEW link \in 0..Len(inter), NEW state \in Terminals
    PROVE  /\ Item(t, origin, link, state) \in Items /\ Item(t, origin, 0, state) \in Items
           /\ Item(t, origin, link, state).line = Line
           /\ Item(t, origin, link, state).thread = t
           /\ Item(t, origin, link, state).origin = origin
           /\ Item(t, origin, link, state).link = link
           /\ Item(t, origin, link, state).terminal = state
           /\ Request(t) \in Items /\ Request(t).line = Line /\ Request(t).thread = t
           /\ Request(t).origin = "human_request" /\ Request(t).terminal = "none"
<1>1. /\ Line \in 1..MaxLines /\ link \in 0..MaxLines /\ turn[t] \in 0..MaxLines
      /\ turn[t] + 1 \in 0..MaxLines /\ 0 \in 0..MaxLines
  <2>1. /\ Len(log) \in Nat /\ MaxLines \in Nat /\ Len(inter) <= Len(log) /\ Len(inter) \in Nat
        /\ turn[t] \in 0..MaxLines /\ turn[t] <= Len(log)
    BY Kept, InteractionsAssumption DEF TypeInv, TypeOK
  <2> QED
    BY <2>1 DEF Line
<1>2. Item(t, origin, link, state) \in Items /\ Item(t, origin, 0, state) \in Items
  BY <1>1 DEF Item, Items, Terminals
<1>3. Request(t) = [line |-> Line, thread |-> t, origin |-> "human_request", turn |-> turn[t] + 1,
                    link |-> 0, terminal |-> "none"]
  BY DEF Request, Item
<1>4. Request(t) \in Items /\ Request(t).line = Line /\ Request(t).thread = t
      /\ Request(t).origin = "human_request" /\ Request(t).terminal = "none"
  BY <1>1, <1>3 DEF Items, Origins
<1> QED
  BY <1>2, <1>4 DEF Item

LEMMA AppendShape ==
    ASSUME TypeInv, NEW r \in Record, Len(log) < MaxLines, NEW old, NEW item \in Items,
           \/ old = inter
           \/ \E state \in Terminals : old = Closed(r.thread, state),
           \/ inter' = old
           \/ inter' = Append(old, item) /\ item.line = Line /\ item.thread = r.thread,
           turn' \in [Threads -> 0..MaxLines], \A t \in Threads : turn'[t] <= Len(log) + 1,
           question' \in [Threads -> 0..Len(inter')],
           last' \in [Threads -> 0..Len(inter')]
    PROVE  InterShape(r)
<1>0. r.thread \in Threads
  BY DEF Record
<1>1. /\ old \in Seq(Items) /\ Len(old) = Len(inter)
      /\ \A i \in DOMAIN inter :
         /\ old[i].line = inter[i].line /\ old[i].thread = inter[i].thread
         /\ old[i].origin = inter[i].origin /\ old[i].link = inter[i].link
         /\ i # last[r.thread] => old[i] = inter[i]
  <2>1. CASE old = inter
    BY <2>1 DEF TypeInv
  <2>2. CASE \E state \in Terminals : old = Closed(r.thread, state)
    <3>1. PICK state \in Terminals : old = Closed(r.thread, state)
      BY <2>2
    <3>2. \A i \in 1..Len(inter) : inter[i] \in Items
      BY DEF TypeInv
    <3> QED
      BY <1>0, <3>1, <3>2, ClosedItems, SameBut, Kept
  <2> QED
    BY <2>1, <2>2
<1>2. DOMAIN old = DOMAIN inter /\ DOMAIN inter = 1..Len(inter) /\ Len(inter) \in Nat
  BY <1>1, Kept
<1>3. /\ inter' \in Seq(Items) /\ Len(inter') \in {Len(inter), Len(inter) + 1}
      /\ \A i \in DOMAIN inter : inter'[i] = old[i]
      /\ \A i \in DOMAIN inter' : i \notin DOMAIN inter => i = Len(inter) + 1 /\ inter'[i] = item
                                  /\ inter' = Append(old, item)
  <2>1. CASE inter' = old
    BY <1>1, <1>2, <2>1
  <2>2. CASE inter' = Append(old, item)
    <3>1. /\ inter' \in Seq(Items) /\ Len(inter') = Len(old) + 1
          /\ DOMAIN inter' = 1..(Len(old) + 1)
          /\ \A i \in 1..Len(old) : inter'[i] = old[i]
          /\ inter'[Len(old) + 1] = item
      BY <1>1, <2>2
    <3>2. Len(old) = Len(inter)
      BY <1>1
    <3>3. \A i \in DOMAIN inter' : i \notin DOMAIN inter => i = Len(inter) + 1
      BY <1>2, <3>1, <3>2
    <3> QED
      BY <1>2, <2>2, <3>1, <3>2, <3>3
  <2> QED
    BY <2>1, <2>2
<1>4. \A i \in DOMAIN inter' : i \notin DOMAIN inter =>
         i = Len(inter) + 1 /\ inter'[i].line = Line /\ inter'[i].thread = r.thread
  <2>1. inter' = old => DOMAIN inter' = DOMAIN inter
    BY <1>2
  <2> QED
    BY <1>3, <2>1
<1> QED
  BY <1>1, <1>3, <1>4 DEF InterShape

LEMMA ViewShape ==
    ASSUME TypeInv, NEW r \in Record, Reads(r), InterView(r)
    PROVE  InterShape(r)
<1> DEFINE t == r.thread
<1>1. /\ t \in Threads /\ Len(log) < MaxLines
      /\ turn \in [Threads -> 0..MaxLines] /\ \A u \in Threads : turn[u] <= Len(log)
      /\ question \in [Threads -> 0..Len(inter)] /\ last \in [Threads -> 0..Len(inter)]
      /\ Len(log) \in Nat /\ Len(inter) \in Nat /\ MaxLines \in Nat
      /\ inter \in Seq(Items) /\ 0 \in 0..Len(inter)
  <2>1. Len(log) \in Nat /\ Len(inter) \in Nat /\ 0 \in 0..Len(inter)
    BY Kept
  <2>2. MaxLines \in Nat
    BY InteractionsAssumption
  <2> QED
    BY <2>1, <2>2 DEF TypeInv, TypeOK, Record, Reads
<1>2. \A u \in Threads : turn[u] \in Nat /\ turn[u] <= Len(log) + 1
  BY <1>1
<1>3. CASE UNCHANGED <<inter, turn, last, question>>
  BY <1>1, <1>2, <1>3 DEF InterShape, TypeInv
<1>4. ASSUME NEW origin \in Origins, NEW link \in 0..Len(inter), Emit(t, origin, link),
             last' \in [Threads -> 0..(Len(inter) + 1)],
             question' \in [Threads -> 0..(Len(inter) + 1)]
      PROVE  InterShape(r)
  <2> DEFINE item == Item(t, origin, link, "none")
  <2>2. item \in Items /\ item.line = Line /\ item.thread = t
    BY <1>1, ItemHere DEF Terminals
  <2>3. inter' = Append(inter, item) /\ turn' = turn
    BY <1>4 DEF Emit
  <2>4. Len(inter') = Len(inter) + 1
    BY <1>1, <2>3
  <2>5. question' \in [Threads -> 0..Len(inter')] /\ last' \in [Threads -> 0..Len(inter')]
    BY <1>1, <1>4, <2>4
  <2> QED
    BY <1>1, <1>2, <2>2, <2>3, <2>5, AppendShape
<1>14. /\ last \in [Threads -> 0..(Len(inter) + 1)] /\ question \in [Threads -> 0..(Len(inter) + 1)]
       /\ \A i \in 0..(Len(inter) + 1) :
            /\ [last EXCEPT ![t] = i] \in [Threads -> 0..(Len(inter) + 1)]
            /\ [question EXCEPT ![t] = i] \in [Threads -> 0..(Len(inter) + 1)]
       /\ 0 \in 0..(Len(inter) + 1) /\ Len(inter) + 1 \in 0..(Len(inter) + 1)
  BY <1>1
<1>5. CASE Silent(r)
  BY <1>3, <1>5 DEF Silent
<1>6. CASE Noted(r)
  <2>1. PICK origin \in {"tool_call", "tool_result", "harness", "quoted_history", "question"},
             link \in 0..Len(inter) : Emit(t, origin, link)
    BY <1>6 DEF Noted
  <2>2. origin \in Origins /\ last' = last /\ question' = question
    BY <1>6 DEF Noted, Origins
  <2> QED
    BY <1>4, <1>14, <2>1, <2>2
<1>7. CASE Spoken(r)
  <2>1. /\ Emit(t, "assistant_text", 0) /\ "assistant_text" \in Origins
        /\ last' = [last EXCEPT ![t] = Len(inter) + 1] /\ question' = question
    BY <1>7 DEF Spoken, Origins
  <2> QED
    BY <1>1, <1>4, <1>14, <2>1
<1>8. CASE Posed(r)
  <2>1. /\ Emit(t, "question", 0) /\ "question" \in Origins
        /\ question' = [question EXCEPT ![t] = Len(inter) + 1] /\ last' = last
    BY <1>8 DEF Posed, Origins
  <2> QED
    BY <1>1, <1>4, <1>14, <2>1
<1>9. CASE Returned(r)
  <2>1. PICK q \in 1..Len(inter) : Emit(t, "human_answer", q) /\ Settled(t, q)
    BY <1>9 DEF Returned
  <2>2. q \in 0..Len(inter) /\ last' = last /\ "human_answer" \in Origins
    BY <1>1, <1>9 DEF Returned, Origins
  <2>3. (IF question[t] = q THEN 0 ELSE question[t]) \in 0..(Len(inter) + 1)
    BY <1>1
  <2>4. question' \in [Threads -> 0..(Len(inter) + 1)]
    BY <1>1, <1>14, <2>1, <2>3 DEF Settled
  <2> QED
    BY <1>4, <1>14, <2>1, <2>2, <2>4
<1>10. CASE Typed(r) /\ question[t] # 0
  <2>1. /\ Emit(t, "human_answer", question[t]) /\ "human_answer" \in Origins
        /\ question' = [question EXCEPT ![t] = 0] /\ last' = last
    BY <1>10 DEF Typed, AnswerOrRequest, Origins
  <2>2. question[t] \in 0..Len(inter)
    BY <1>1
  <2> QED
    BY <1>4, <1>14, <2>1, <2>2
<1>11. CASE Typed(r) /\ question[t] = 0
  <2> DEFINE item == Request(t)
  <2>1. OpenTurn(t)
    BY <1>11 DEF Typed, AnswerOrRequest
  <2>2. item \in Items /\ item.line = Line /\ item.thread = t
    BY <1>1, ItemHere DEF Terminals, Origins
  <2>3. inter' = Append(Closed(t, "unknown"), item) /\ "unknown" \in Terminals
    BY <2>1 DEF OpenTurn, Terminals, Request
  <2>4. Len(inter') = Len(inter) + 1
    BY <1>1, <2>3, ClosedItems
  <2>5. question' \in [Threads -> 0..Len(inter')] /\ last' \in [Threads -> 0..Len(inter')]
    BY <1>1, <2>1, <2>4 DEF OpenTurn
  <2>6. turn' \in [Threads -> 0..MaxLines] /\ \A u \in Threads : turn'[u] <= Len(log) + 1
    BY <1>1, <1>2, <2>1 DEF OpenTurn
  <2> QED
    BY <1>1, <2>2, <2>3, <2>5, <2>6, AppendShape
<1>12. CASE Cut(r)
  <2> DEFINE item == Item(t, "harness", 0, "interrupted")
  <2>2. item \in Items /\ item.line = Line /\ item.thread = t
    BY <1>1, ItemHere DEF Terminals, Origins
  <2>3. inter' = Append(Closed(t, "interrupted"), item) /\ "interrupted" \in Terminals
    BY <1>12 DEF Cut, Terminals
  <2>4. Len(inter') = Len(inter) + 1
    BY <1>1, <2>3, ClosedItems
  <2>5. question' \in [Threads -> 0..Len(inter')] /\ last' \in [Threads -> 0..Len(inter')]
    BY <1>1, <1>12, <2>4 DEF Cut
  <2> QED
    BY <1>1, <1>2, <1>12, <2>2, <2>3, <2>5, AppendShape DEF Cut
<1>13. CASE Completes(r)
  <2>2. Item(t, "harness", 0, "none") \in Items
    BY <1>1, ItemHere DEF Terminals, Origins
  <2>3. inter' = Closed(t, "completed") /\ "completed" \in Terminals
    BY <1>13 DEF Completes, Terminals
  <2>4. Len(inter') = Len(inter)
    BY <1>1, <2>3, ClosedItems
  <2>5. question' \in [Threads -> 0..Len(inter')] /\ last' \in [Threads -> 0..Len(inter')]
    BY <1>1, <1>13, <2>4 DEF Completes
  <2> QED
    BY <1>1, <1>2, <1>13, <2>2, <2>3, <2>5, AppendShape DEF Completes
<1> QED
  BY <1>5, <1>6, <1>7, <1>8, <1>9, <1>10, <1>11, <1>12, <1>13 DEF InterView, Typed

LEMMA LogGrows ==
    ASSUME TypeInv, NEW r \in Record, Reads(r)
    PROVE  /\ log' \in Seq(Record) /\ Len(log') = Len(log) + 1 /\ Len(log') <= MaxLines
           /\ Line \in 1..MaxLines /\ Lines = 1..Len(log) /\ Lines' = 1..Line
           /\ log'[Line] = r /\ \A n \in Lines : log'[n] = log[n]
           /\ \A n \in Lines' : n = Line \/ n \in Lines
           /\ Line \notin Lines
<1>1. log \in Seq(Record) /\ Len(log) \in Nat /\ MaxLines \in Nat /\ Len(log) < MaxLines
  BY Kept, InteractionsAssumption DEF TypeInv, TypeOK, Reads
<1>2. log' = Append(log, r)
  BY DEF Reads
<1>3. /\ log' \in Seq(Record) /\ Len(log') = Len(log) + 1
      /\ DOMAIN log' = 1..(Len(log) + 1) /\ DOMAIN log = 1..Len(log)
      /\ log'[Len(log) + 1] = r /\ \A n \in 1..Len(log) : log'[n] = log[n]
  BY <1>1, <1>2
<1> QED
  BY <1>1, <1>3 DEF Line, Lines

LEMMA EventsGrow ==
    ASSUME TypeInv, NEW r \in Record, Reads(r), EventView(r)
    PROVE  \/ events' = events
           \/ \E e \in Events : /\ events' = Append(events, e)
                                /\ e.line <= Line /\ e.call <= Len(log)
<1>0. Len(log) < MaxLines
  BY DEF Reads
<1>1. CASE EndsRun(r)
  <2>1. PICK c \in Call(r.id) : events' = Append(events, Event("run", c.line, c.id))
    BY <1>1 DEF EventView
  <2>2. c.line \in 1..Len(log) /\ c.id \in 1..Len(log) /\ c.line \in 1..MaxLines /\ c.id \in 1..MaxLines
    BY Kept DEF Call, TypeInv, TypeOK
  <2>3. c.line <= Line /\ c.id \in 0..MaxLines /\ c.id <= Len(log)
    BY <2>2, Kept DEF Line
  <2>4. Event("run", c.line, c.id) \in Events
    BY <2>2, <2>3 DEF Event, Events
  <2> QED
    BY <2>1, <2>3, <2>4 DEF Event
<1>2. CASE ~EndsRun(r) /\ Corrects(r)
  <2>1. events' = Append(events, Event("user_turn_after_correction", Line, 0))
    BY <1>2 DEF EventView
  <2>2. Line \in 1..MaxLines /\ 0 \in 0..MaxLines /\ Line <= Line /\ 0 <= Len(log)
    BY <1>0, Kept, InteractionsAssumption DEF Line
  <2>3. Event("user_turn_after_correction", Line, 0) \in Events
    BY <2>2 DEF Event, Events
  <2> QED
    BY <2>1, <2>2, <2>3 DEF Event
<1>3. CASE ~EndsRun(r) /\ ~Corrects(r)
  BY <1>3, Kept DEF EventView
<1> QED
  BY <1>1, <1>2, <1>3

\* What pends and what was asked after a record.
CallTypes ==
    /\ pending \subseteq [id : 1..MaxLines, line : 1..MaxLines, tool : Tools, link : 0..Len(inter)]
    /\ \A c, d \in pending : c.id = d.id => c = d
    /\ asked \subseteq (1..MaxLines) \X (1..Len(inter))
    /\ \A c \in pending : c.id <= Len(log) /\ c.line <= Len(log)
    /\ source = "codex" => \A c \in pending : c.tool = "question" => c.link # 0

LEMMA CallsGrow ==
    ASSUME TypeInv, NEW r \in Record, Reads(r), InterShape(r), CallView(r)
    PROVE  CallTypes'
<1> DEFINE Pend(n) == [id : 1..MaxLines, line : 1..MaxLines, tool : Tools, link : 0..n]
<1>0. source' = source
  BY DEF Reads
<1>1. Len(inter) \in Nat /\ Len(inter') \in Nat /\ Len(inter) <= Len(inter')
  BY Kept DEF InterShape
<1>2. Len(log') = Line /\ Line \in 1..MaxLines /\ Line = Len(log) + 1 /\ Len(log) \in Nat
  BY LogGrows, Kept DEF Line
<1>3. pending \subseteq Pend(Len(inter'))
  <2>1. 0..Len(inter) \subseteq 0..Len(inter')
    BY <1>1
  <2> QED
    BY <2>1 DEF TypeInv, TypeOK
<1>4. asked \subseteq (1..MaxLines) \X (1..Len(inter'))
  <2>1. 1..Len(inter) \subseteq 1..Len(inter')
    BY <1>1
  <2> QED
    BY <2>1 DEF TypeInv, TypeOK
<1>5. \A c \in pending : c.id <= Line /\ c.line <= Line
  BY <1>2, Kept
<1>6. CASE r.kind \notin {"call", "result"}
  BY <1>0, <1>2, <1>3, <1>4, <1>5, <1>6 DEF CallView, CallTypes, TypeInv, TypeOK
<1>7. CASE r.kind = "result"
  BY <1>0, <1>2, <1>3, <1>4, <1>5, <1>7 DEF CallView, CallTypes, TypeInv, TypeOK
<1>8. CASE r.kind = "call"
  <2>1. asked' \subseteq (1..MaxLines) \X (1..Len(inter'))
    <3>1. CASE asked' = asked
      BY <1>4, <3>1
    <3>2. CASE Posed(r) /\ asked' = asked \cup {<<Line, Len(inter) + 1>>}
      <4>1. Len(inter') = Len(inter) + 1
        BY <3>2, Kept DEF Posed, Emit, TypeInv
      <4> QED
        BY <1>1, <1>2, <1>4, <3>2, <4>1
    <3> QED
      BY <1>8, <3>1, <3>2 DEF CallView
  <2>2. CASE r.id = 0
    BY <1>0, <1>2, <1>3, <1>5, <1>8, <2>1, <2>2 DEF CallView, CallTypes, TypeInv, TypeOK
  <2>3. CASE r.id # 0
    <3>1. PICK link \in 0..Len(inter') :
              /\ pending' = (pending \ Call(r.id)) \cup
                    {[id |-> r.id, line |-> Line, tool |-> r.what, link |-> link]}
              /\ source = "codex" /\ r.what = "question" => link = Len(inter) + 1 /\ Posed(r)
      BY <1>8, <2>3 DEF CallView
    <3> DEFINE new == [id |-> r.id, line |-> Line, tool |-> r.what, link |-> link]
    <3>2. r.id \in 1..MaxLines /\ r.id <= Line
      BY <1>2, <2>3 DEF Reads, Record
    <3>3. new \in Pend(Len(inter')) /\ new.id = r.id /\ new.line = Line /\ new.id <= Line
          /\ new.line <= Line
      BY <1>2, <1>8, <3>2 DEF CallView
    <3>4. pending' \subseteq Pend(Len(inter'))
      BY <1>3, <3>1, <3>3
    <3>5. \A c \in pending' : c = new \/ (c \in pending /\ c.id # r.id)
      BY <3>1 DEF Call
    <3>6. \A c, d \in pending' : c.id = d.id => c = d
      BY <3>3, <3>5 DEF TypeInv, TypeOK
    <3>7. source = "codex" => \A c \in pending' : c.tool = "question" => c.link # 0
      <4>1. source = "codex" /\ new.tool = "question" => new.link # 0
        BY <1>1, <3>1
      <4> QED
        BY <3>5, <4>1 DEF TypeInv
    <3>8. \A c \in pending' : c.id <= Line /\ c.line <= Line
      BY <1>5, <3>3, <3>5
    <3> QED
      BY <1>0, <1>2, <2>1, <3>4, <3>6, <3>7, <3>8 DEF CallTypes
  <2> QED
    BY <2>2, <2>3
<1> QED
  BY <1>6, <1>7, <1>8

LEMMA TypesKept ==
    ASSUME TypeInv, NEW r \in Record, View(r)
    PROVE  TypeInv'
<1>1. Reads(r) /\ InterView(r) /\ CallView(r) /\ EventView(r) /\ FlagView(r)
  BY DEF View
<1>2. InterShape(r)
  BY <1>1, ViewShape
<1>3. CallTypes'
  BY <1>1, <1>2, CallsGrow
<1>4. /\ log' \in Seq(Record) /\ Len(log') = Len(log) + 1 /\ Len(log') <= MaxLines
      /\ Line = Len(log) + 1 /\ Len(log) \in Nat /\ Len(inter) \in Nat
  BY <1>1, LogGrows, Kept DEF Line
<1>5. \A n \in Lines' : log'[n].id <= n
  <2>1. log'[Line].id <= Line /\ \A n \in Lines : log[n].id <= n /\ log'[n] = log[n]
    BY <1>1, LogGrows DEF TypeInv, Reads
  <2> QED
    BY <1>1, <2>1, LogGrows
<1>6. \A i \in DOMAIN inter' : inter'[i].line <= Len(log')
  <2>0. \A i \in DOMAIN inter : inter[i] \in Items
    BY DEF TypeInv
  <2>1. \A i \in DOMAIN inter : inter[i].line <= Len(log) /\ inter[i].line \in Nat
    BY <2>0 DEF TypeInv, Items
  <2>2. \A i \in DOMAIN inter' : inter'[i].line = Line
                              \/ (i \in DOMAIN inter /\ inter'[i].line = inter[i].line)
    BY <1>2 DEF InterShape
  <2> QED
    BY <1>4, <2>1, <2>2
<1>7. /\ events' \in Seq(Events)
      /\ \A e \in DOMAIN events' : events'[e].line <= Len(log') /\ events'[e].call <= Len(log')
  <2>1. events \in Seq(Events) /\ \A e \in DOMAIN events :
           /\ events[e] \in Events /\ events[e].line <= Len(log) /\ events[e].call <= Len(log)
    BY DEF TypeInv
  <2>2. CASE events' = events
    BY <1>4, <2>1, <2>2 DEF Events
  <2>3. CASE \E e \in Events : events' = Append(events, e) /\ e.line <= Line /\ e.call <= Len(log)
    <3>1. PICK e \in Events : events' = Append(events, e) /\ e.line <= Line /\ e.call <= Len(log)
      BY <2>3
    <3>2. \A f \in Events : f.line \in Nat /\ f.call \in Nat
      BY DEF Events
    <3>3. events' \in Seq(Events) /\ \A f \in DOMAIN events' :
             events'[f] = e \/ (f \in DOMAIN events /\ events'[f] = events[f])
      BY <2>1, <3>1
    <3> QED
      BY <1>4, <2>1, <3>1, <3>2, <3>3
  <2> QED
    BY <1>1, <2>2, <2>3, EventsGrow
<1>8. TypeOK'
  <2>1. source' \in {"claude", "codex"} /\ awaiting' \in BOOLEAN /\ done' \in BOOLEAN
    BY <1>1 DEF TypeInv, TypeOK, Reads, FlagView
  <2>2. Len(inter') <= Len(log')
    BY <1>2, <1>4 DEF InterShape, TypeInv, TypeOK
  <2> QED
    BY <1>2, <1>3, <1>4, <2>1, <2>2 DEF TypeOK, InterShape, CallTypes
<1> QED
  BY <1>2, <1>3, <1>4, <1>5, <1>6, <1>7, <1>8 DEF TypeInv, InterShape, CallTypes

\* No two pending calls share an id, so there are finitely many.
LEMMA PendingFinite ==
    ASSUME TypeInv
    PROVE  IsFiniteSet(pending)
<1> DEFINE of == [c \in pending |-> c.id]
<1>1. of \in [pending -> 1..MaxLines] /\ \A c, d \in pending : of[c] = of[d] => c = d
  BY DEF TypeInv, TypeOK
<1>3. of \in Injection(pending, 1..MaxLines)
  BY <1>1 DEF Injection, IsInjective
<1>2. IsFiniteSet(1..MaxLines)
  BY FS_Interval, InteractionsAssumption
<1> QED
  BY <1>2, <1>3, FS_Injection

LEMMA FinishShape ==
    ASSUME TypeInv, Finish
    PROVE  /\ inter' \in Seq(Items) /\ Len(inter') = Len(inter) /\ DOMAIN inter' = DOMAIN inter
           /\ \A i \in DOMAIN inter :
                /\ inter'[i].line = inter[i].line /\ inter'[i].thread = inter[i].thread
                /\ inter'[i].origin = inter[i].origin /\ inter'[i].link = inter[i].link
                /\ \/ inter'[i].terminal = FinishedReplies[i].terminal
                   \/ /\ source = "codex" /\ inter[i].origin = "assistant_text"
                      /\ FinishedReplies[i].terminal = "unknown"
                      /\ inter'[i].terminal = "completed"
                /\ FinishedReplies[i].terminal =
                     IF (\E t \in Threads : last[t] = i) /\ inter[i].terminal = "none"
                     THEN "unknown" ELSE inter[i].terminal
<1>1. /\ \A i \in DOMAIN inter : inter[i] \in Items
      /\ DOMAIN inter = 1..Len(inter) /\ Len(inter) \in Nat /\ "unknown" \in Terminals
  BY Kept DEF TypeInv, Terminals
<1>2. /\ DOMAIN FinishedReplies = DOMAIN inter
      /\ \A i \in DOMAIN inter : FinishedReplies[i] =
           IF \E t \in Threads : last[t] = i THEN Reterminalized(inter[i], "unknown") ELSE inter[i]
  BY DEF FinishedReplies
<1>3. \A i \in DOMAIN inter :
        LET new == FinishedReplies[i] IN
        /\ new \in Items
        /\ new.line = inter[i].line /\ new.thread = inter[i].thread
        /\ new.origin = inter[i].origin /\ new.link = inter[i].link
        /\ new.terminal = IF (\E t \in Threads : last[t] = i) /\ inter[i].terminal = "none"
                          THEN "unknown" ELSE inter[i].terminal
  <2> TAKE i \in DOMAIN inter
  <2>1. inter[i] \in Items
    BY <1>1
  <2>2. CASE \E t \in Threads : last[t] = i
    <3>1. FinishedReplies[i] = Reterminalized(inter[i], "unknown")
      BY <1>2, <2>2
    <3>2. inter[i].terminal \in Terminals \cup {"none"}
      BY <2>1 DEF Items, Terminals
    <3>3. LET new == Reterminalized(inter[i], "unknown") IN
          /\ new \in Items
          /\ new.line = inter[i].line /\ new.thread = inter[i].thread
          /\ new.origin = inter[i].origin /\ new.link = inter[i].link
          /\ inter[i].terminal \in {"none", "unknown"} => new.terminal = "unknown"
          /\ inter[i].terminal \notin {"none", "unknown"} => new.terminal = inter[i].terminal
      BY <1>1, <2>1, SameBut
    <3> QED
      BY <2>2, <3>1, <3>2, <3>3
  <2>3. CASE ~(\E t \in Threads : last[t] = i)
    BY <1>2, <2>1, <2>3
  <2> QED
    BY <2>2, <2>3
<1>4. PICK proved \in SUBSET Unproved(FinishedReplies) :
         inter' = [i \in DOMAIN inter |->
                     IF i \in proved THEN [FinishedReplies[i] EXCEPT !.terminal = "completed"]
                     ELSE FinishedReplies[i]]
  BY DEF Finish
<1>5. \A i \in proved : /\ source = "codex" /\ FinishedReplies[i].origin = "assistant_text"
                        /\ FinishedReplies[i].terminal = "unknown"
  BY <1>4 DEF Unproved
<1>6. \A item \in Items : LET new == [item EXCEPT !.terminal = "completed"] IN
        /\ new \in Items /\ new.terminal = "completed"
        /\ new.line = item.line /\ new.thread = item.thread
        /\ new.origin = item.origin /\ new.link = item.link
  BY DEF Items
<1>7. \A i \in DOMAIN inter :
        /\ inter'[i] \in Items
        /\ inter'[i].line = inter[i].line /\ inter'[i].thread = inter[i].thread
        /\ inter'[i].origin = inter[i].origin /\ inter'[i].link = inter[i].link
        /\ \/ inter'[i].terminal = FinishedReplies[i].terminal
           \/ /\ source = "codex" /\ inter[i].origin = "assistant_text"
              /\ FinishedReplies[i].terminal = "unknown" /\ inter'[i].terminal = "completed"
  <2> TAKE i \in DOMAIN inter
  <2>1. CASE i \in proved
    <3>1. inter'[i] = [FinishedReplies[i] EXCEPT !.terminal = "completed"]
      BY <1>4, <2>1
    <3> QED
      BY <1>3, <1>5, <1>6, <2>1, <3>1
  <2>2. CASE i \notin proved
    <3>1. inter'[i] = FinishedReplies[i]
      BY <1>4, <2>2
    <3> QED
      BY <1>3, <3>1
  <2> QED
    BY <2>1, <2>2
<1>8. DOMAIN inter' = DOMAIN inter /\ inter' \in [1..Len(inter) -> Items]
  BY <1>1, <1>4, <1>7
<1>9. inter' \in Seq(Items) /\ Len(inter') = Len(inter)
  BY <1>1, <1>8
<1> QED
  BY <1>3, <1>7, <1>8, <1>9

\* The runs whose results never came, as finish() reports them.
LEMMA FinishedRuns ==
    ASSUME TypeInv, Finish
    PROVE  /\ events' \in Seq(Events) /\ Len(events) <= Len(events')
           /\ \A e \in DOMAIN events : e \in DOMAIN events' /\ events'[e] = events[e]
           /\ \A e \in DOMAIN events' : e \notin DOMAIN events =>
                \E c \in Unresolved : events'[e] = Event("run", c.line, c.id)
           /\ \A c \in Unresolved : \E e \in DOMAIN events' :
                e \notin DOMAIN events /\ events'[e] = Event("run", c.line, c.id)
           /\ \A e, f \in DOMAIN events' : e # f /\ e \notin DOMAIN events /\ f \notin DOMAIN events
                => events'[e].call # events'[f].call
<1>1. PICK runs \in RunsOf(Unresolved) : events' = events \o runs
  BY DEF Finish
<1>2. PICK s \in InOrder(Unresolved) : runs = [i \in DOMAIN s |-> Event("run", s[i].line, s[i].id)]
  BY <1>1 DEF RunsOf
<1>3. /\ Unresolved \subseteq [id : 1..MaxLines, line : 1..MaxLines, tool : Tools, link : 0..Len(inter)]
      /\ IsFiniteSet(Unresolved)
  <2>1. Unresolved \subseteq pending
    BY DEF Unresolved
  <2>2. IsFiniteSet(pending)
    BY PendingFinite
  <2> QED
    BY <2>1, <2>2, FS_Subset DEF TypeInv, TypeOK
<1>4. Cardinality(Unresolved) \in Nat
  BY <1>3, FS_CardinalityType
<1>5. /\ s \in [1..Cardinality(Unresolved) -> Unresolved]
      /\ \A c \in Unresolved : \E i \in DOMAIN s : s[i] = c
      /\ \A i, j \in DOMAIN s : i < j => s[i].id < s[j].id
  BY <1>2 DEF InOrder
<1>6. \A c \in Unresolved : /\ Event("run", c.line, c.id) \in Events
                            /\ Event("run", c.line, c.id).call = c.id
  BY <1>3 DEF Event, Events
<1>7. /\ runs \in Seq(Events) /\ Len(runs) = Cardinality(Unresolved)
      /\ \A i \in 1..Len(runs) : runs[i] = Event("run", s[i].line, s[i].id) /\ s[i] \in Unresolved
      /\ DOMAIN s = 1..Len(runs)
  BY <1>2, <1>4, <1>5, <1>6
<1>8. /\ events' \in Seq(Events) /\ Len(events') = Len(events) + Len(runs)
      /\ \A e \in 1..Len(events) : events'[e] = events[e]
      /\ \A i \in 1..Len(runs) : events'[Len(events) + i] = runs[i]
      /\ DOMAIN events = 1..Len(events) /\ DOMAIN events' = 1..(Len(events) + Len(runs))
      /\ Len(events) \in Nat /\ Len(runs) \in Nat
  BY <1>1, <1>7 DEF TypeInv
<1>9. \A e \in DOMAIN events' : e \notin DOMAIN events =>
        /\ e - Len(events) \in 1..Len(runs) /\ events'[e] = runs[e - Len(events)]
  BY <1>8
<1>10. \A c \in Unresolved : \E e \in DOMAIN events' :
                e \notin DOMAIN events /\ events'[e] = Event("run", c.line, c.id)
  <2> TAKE c \in Unresolved
  <2>1. PICK i \in 1..Len(runs) : s[i] = c
    BY <1>5, <1>7
  <2>2. Len(events) + i \in DOMAIN events' /\ Len(events) + i \notin DOMAIN events
        /\ events'[Len(events) + i] = runs[i]
    BY <1>8
  <2> QED
    BY <1>7, <2>1, <2>2
<1>11. \A i, j \in 1..Len(runs) : i # j => runs[i].call # runs[j].call
  <2> SUFFICES ASSUME NEW i \in 1..Len(runs), NEW j \in 1..Len(runs), i < j
               PROVE  runs[i].call # runs[j].call
    BY <1>8
  <2>1. s[i].id < s[j].id /\ s[i].id \in Nat /\ s[j].id \in Nat
    BY <1>3, <1>5, <1>7
  <2>2. runs[i].call = s[i].id /\ runs[j].call = s[j].id
    BY <1>6, <1>7
  <2> QED
    BY <2>1, <2>2
<1>12. \A e, f \in DOMAIN events' : e # f /\ e \notin DOMAIN events /\ f \notin DOMAIN events
                => events'[e].call # events'[f].call
  <2> TAKE e, f \in DOMAIN events'
  <2> HAVE e # f /\ e \notin DOMAIN events /\ f \notin DOMAIN events
  <2>1. e - Len(events) # f - Len(events)
    BY <1>8
  <2> QED
    BY <1>9, <1>11, <2>1
<1> QED
  BY <1>7, <1>8, <1>9, <1>10, <1>12

LEMMA TypesFinished ==
    ASSUME TypeInv, Finish
    PROVE  TypeInv'
<1>1. /\ UNCHANGED <<source, log, awaiting, question, turn, asked>> /\ done' = TRUE /\ pending' = {}
      /\ last' = [t \in Threads |-> 0]
  BY DEF Finish
<1>2. inter' \in Seq(Items) /\ Len(inter') = Len(inter) /\ DOMAIN inter' = DOMAIN inter
      /\ \A i \in DOMAIN inter' : inter'[i].line = inter[i].line
  BY FinishShape
<1>3. events' \in Seq(Events) /\ \A e \in DOMAIN events' :
         events'[e].line <= Len(log) /\ events'[e].call <= Len(log)
  <2>1. events' \in Seq(Events)
    BY FinishedRuns
  <2>2. \A e \in DOMAIN events : events'[e].line <= Len(log) /\ events'[e].call <= Len(log)
    BY FinishedRuns DEF TypeInv
  <2>3. \A c \in Unresolved : c.line <= Len(log) /\ c.id <= Len(log)
    BY DEF TypeInv, Unresolved
  <2>4. \A e \in DOMAIN events' : e \notin DOMAIN events =>
           events'[e].line <= Len(log) /\ events'[e].call <= Len(log)
    BY <2>3, FinishedRuns DEF Event
  <2> QED
    BY <2>1, <2>2, <2>4
<1>4. TypeOK'
  BY <1>1, <1>2, Kept DEF TypeInv, TypeOK
<1> QED
  BY <1>1, <1>2, <1>3, <1>4 DEF TypeInv, Lines

LEMMA TypesInit == Init => TypeInv
<1> SUFFICES ASSUME Init PROVE TypeInv
  OBVIOUS
<1>1. 0 \in 0..MaxLines /\ 0 \in 0..0 /\ MaxLines \in Nat
  BY InteractionsAssumption
<1>2. /\ log = <<>> /\ inter = <<>> /\ events = <<>> /\ Len(log) = 0 /\ Len(inter) = 0
      /\ DOMAIN log = {} /\ DOMAIN inter = {} /\ DOMAIN events = {}
      /\ log \in Seq(Record) /\ inter \in Seq(Items) /\ events \in Seq(Events)
  BY DEF Init
<1>3. TypeOK
  <2>1. /\ question \in [Threads -> 0..Len(inter)] /\ last \in [Threads -> 0..Len(inter)]
        /\ turn \in [Threads -> 0..MaxLines]
    BY <1>1, <1>2 DEF Init
  <2>2. /\ source \in {"claude", "codex"} /\ awaiting \in BOOLEAN /\ done \in BOOLEAN
        /\ pending = {} /\ asked = {}
    BY DEF Init
  <2>3. Len(log) <= MaxLines /\ Len(inter) <= Len(log)
    BY <1>1, <1>2
  <2> QED
    BY <1>2, <2>1, <2>2, <2>3 DEF TypeOK
<1>4. \A t \in Threads : turn[t] <= Len(log)
  BY <1>2 DEF Init
<1> QED
  BY <1>2, <1>3, <1>4 DEF Init, TypeInv, Lines

LEMMA TypesNext == TypeInv /\ [Next]_vars => TypeInv'
<1> SUFFICES ASSUME TypeInv, [Next]_vars PROVE TypeInv'
  OBVIOUS
<1>1. CASE UNCHANGED vars
  BY <1>1 DEF vars, TypeInv, TypeOK, Lines
<1> QED
  BY <1>1, Steps, TypesKept, TypesFinished

\* Interactions, events and pending calls keep their types, and none refers to a
\* record that was not read yet.
THEOREM ReadersTypeOK == Spec => []TypeInv
BY TypesInit, TypesNext, PTL DEF Spec

-----------------------------------------------------------------------------
(* The invariant *)

\* A call id is the line that first used it, and names one call.
CallInv ==
    \A n \in Lines : log[n].kind = "call" /\ log[n].id # 0 =>
        LET first == log[log[n].id] IN
        /\ log[n].id \in Lines
        /\ first.kind = "call" /\ first.id = log[n].id
        /\ first.what = log[n].what /\ first.thread = log[n].thread

\* No record after line m has the id of the one at m.
Latest(m) == \A n \in (m + 1)..Len(log) : log[n].id # log[m].id

\* What pends is a call nothing with its id came after, and until finish() every
\* such call does.
PendInv ==
    /\ \A c \in pending :
         c.line \in Lines /\ Is(c.line, "call", c.tool) /\ log[c.line].id = c.id /\ Latest(c.line)
    /\ ~done => \A m \in Lines : log[m].kind = "call" /\ log[m].id # 0 /\ Latest(m) =>
         \E c \in pending : c.line = m

\* The flag is set exactly between a stop and what ends its effect.
FlagInv ==
    /\ awaiting <=> \E m \in Lines : Stops(m) /\ \A k \in (m + 1)..Len(log) : ~Acts(k) /\ ~Speaks(k)
    /\ CorrectionsFollowStops

\* Nothing of the thread closed the question q or the turn it belongs to since.
Open(t, q, upto) ==
    \A j \in (q + 1)..upto : inter[j].thread = t =>
        /\ inter[j].terminal # "interrupted" \/ inter[j].origin = "assistant_text"
        /\ inter[j].origin = "human_answer" => inter[j].link # q

IsQuestion(q, t) == inter[q].origin = "question" /\ inter[q].thread = t

QuestionInv ==
    /\ \A t \in Threads : last[t] # 0 => last[t] \in Replies(t)
    /\ \A t \in Threads : question[t] # 0 =>
         IsQuestion(question[t], t) /\ Open(t, question[t], Len(inter))
    /\ \A a \in asked : a[1] \in Lines /\ IsQuestion(a[2], log[a[1]].thread)
    /\ source = "codex" => \A c \in pending : c.tool = "question" => IsQuestion(c.link, log[c.id].thread)
    /\ AnswersMeetQuestions

\* The trailing reply of a thread is the one no record has ended yet, and every
\* other one has ended as the records say.
ReplyInv ==
    /\ ~done => \A t \in Threads : \A i \in Replies(t) :
         /\ i = last[t] <=> FinalReply(i) /\ Ends(i) = {}
         /\ inter[i].terminal = IF FinalReply(i) /\ Ends(i) # {} THEN StateOf(EndOf(i)) ELSE "none"
    /\ done => TerminalsAsRecorded

-----------------------------------------------------------------------------
(* Calls *)

\* The log before and after a record, as the lemmas below use it.
LEMMA LinesGrow ==
    ASSUME TypeInv, NEW r \in Record, Reads(r)
    PROVE  /\ Len(log) \in Nat /\ Line = Len(log) + 1 /\ Len(log') = Line
           /\ Lines = 1..Len(log) /\ Lines' = 1..Line
           /\ \A n \in Lines : log'[n] = log[n] /\ n \in Lines' /\ n # Line /\ n < Line
           /\ \A n \in Lines' : n = Line \/ n \in Lines
           /\ Line \in Lines' /\ Line \notin Lines /\ log'[Line] = r
           /\ \A kind, what : \A n \in Lines : Is(n, kind, what)' <=> Is(n, kind, what)
           /\ \A kind, what, n : n = Line => (Is(n, kind, what)' <=> r.kind = kind /\ r.what = what)
<1>1. /\ Len(log) \in Nat /\ Line = Len(log) + 1 /\ Len(log') = Line
      /\ Lines = 1..Len(log) /\ Lines' = 1..Line
  BY LogGrows, Kept DEF Line
<1>2. /\ \A n \in Lines : log'[n] = log[n] /\ n \in Lines' /\ n # Line /\ n < Line
      /\ \A n \in Lines' : n = Line \/ n \in Lines
      /\ Line \in Lines' /\ Line \notin Lines /\ log'[Line] = r
  BY <1>1, LogGrows
<1> QED
  BY <1>1, <1>2 DEF Is

\* Only a record with the id of the call at m takes from it that it is the latest.
LEMMA LatestGrows ==
    ASSUME TypeInv, NEW r \in Record, Reads(r)
    PROVE  /\ \A m \in Lines : Latest(m)' <=> Latest(m) /\ r.id # log[m].id
           /\ \A m : m = Line => Latest(m)'
           /\ \A n \in Lines : \A m \in Lines : Answers(n, m)' <=> Answers(n, m)
           /\ \A n : \A m \in Lines' : n \in Lines /\ Answers(n, m)' => m \in Lines
           /\ \A n : \A m \in Lines' : n = Line =>
                (Answers(n, m)' <=> /\ m \in Lines /\ log[m].kind = "call" /\ Latest(m)
                                    /\ r.kind = "result" /\ r.id # 0 /\ log[m].id = r.id)
<1> USE LinesGrow
<1>1. ASSUME NEW m \in Lines PROVE Latest(m)' <=> Latest(m) /\ r.id # log[m].id
  <2>1. /\ \A n \in (m + 1)..Len(log') : n = Line \/ n \in (m + 1)..Len(log)
        /\ \A n \in (m + 1)..Len(log) : n \in (m + 1)..Len(log') /\ n \in Lines
        /\ Line \in (m + 1)..Len(log')
    OBVIOUS
  <2> QED
    BY <2>1 DEF Latest
<1>2. ASSUME NEW m, m = Line PROVE Latest(m)'
  BY <1>2 DEF Latest
<1>3. ASSUME NEW n \in Lines, NEW m \in Lines PROVE Answers(n, m)' <=> Answers(n, m)
  <2>1. \A k \in (m + 1)..(n - 1) : k \in Lines
    OBVIOUS
  <2> QED
    BY <2>1 DEF Answers
<1>5. \A n : \A m \in Lines' : n \in Lines /\ Answers(n, m)' => m \in Lines
  BY DEF Answers
<1>4. ASSUME NEW n, NEW m \in Lines', n = Line
      PROVE  Answers(n, m)' <=> /\ m \in Lines /\ log[m].kind = "call" /\ Latest(m)
                                /\ r.kind = "result" /\ r.id # 0 /\ log[m].id = r.id
  <2>1. CASE m \in Lines
    <3>1. \A k \in (m + 1)..(n - 1) : k \in Lines /\ k \in (m + 1)..Len(log)
      BY <1>4, <2>1
    <3>2. \A k \in (m + 1)..Len(log) : k \in Lines /\ k \in (m + 1)..(n - 1)
      BY <1>4, <2>1
    <3> QED
      BY <1>4, <2>1, <3>1, <3>2 DEF Answers, Latest
  <2>2. CASE m \notin Lines
    BY <1>4, <2>2 DEF Answers
  <2> QED
    BY <2>1, <2>2
<1> QED
  BY <1>1, <1>2, <1>3, <1>4, <1>5

\* What pends is named by the line that first used its id.
LEMMA PendingCalls ==
    ASSUME TypeInv, CallInv, PendInv
    PROVE  \A c \in pending : /\ c.id \in Lines /\ log[c.id].kind = "call" /\ log[c.id].id = c.id
                              /\ log[c.id].what = c.tool
<1> TAKE c \in pending
<1>1. c.line \in Lines /\ log[c.line].kind = "call" /\ log[c.line].what = c.tool /\ log[c.line].id = c.id
  BY DEF PendInv, Is
<1>2. c.id # 0
  BY Kept
<1> QED
  BY <1>1, <1>2 DEF CallInv

LEMMA CallsKept ==
    ASSUME TypeInv, CallInv, PendInv, NEW r \in Record, View(r)
    PROVE  CallInv' /\ PendInv'
<1>0. Reads(r) /\ CallView(r) /\ ~done
  BY DEF View, Reads
<1>1. /\ \A n \in Lines : log'[n] = log[n] /\ n \in Lines' /\ n # Line
      /\ \A n \in Lines' : n = Line \/ n \in Lines
      /\ Line \in Lines' /\ Line \notin Lines /\ log'[Line] = r
  BY <1>0, LinesGrow
<1>2. r.kind = "call" /\ r.id # 0 =>
        /\ r.id \in Lines' /\ log'[r.id].kind = "call" /\ log'[r.id].id = r.id
        /\ log'[r.id].what = r.what /\ log'[r.id].thread = r.thread
  <2> SUFFICES ASSUME r.kind = "call", r.id # 0
               PROVE  /\ r.id \in Lines' /\ log'[r.id].kind = "call" /\ log'[r.id].id = r.id
                      /\ log'[r.id].what = r.what /\ log'[r.id].thread = r.thread
    OBVIOUS
  <2>1. CASE r.id = Line
    BY <1>1, <2>1
  <2>2. CASE \E n \in Lines : /\ log[n].kind = "call" /\ log[n].id = r.id
                              /\ log[n].what = r.what /\ log[n].thread = r.thread
    BY <1>1, <2>2 DEF CallInv
  <2> QED
    BY <1>0, <2>1, <2>2 DEF CallView
<1>3. CallInv'
  <2>1. \A n \in Lines : log'[n].kind = "call" /\ log'[n].id # 0 =>
          /\ log'[n].id \in Lines' /\ log'[log'[n].id].kind = "call"
          /\ log'[log'[n].id].id = log'[n].id /\ log'[log'[n].id].what = log'[n].what
          /\ log'[log'[n].id].thread = log'[n].thread
    BY <1>1 DEF CallInv
  <2> QED
    BY <1>1, <1>2, <2>1 DEF CallInv
<1>4. \A c \in pending' : \/ c \in pending /\ (r.kind \in {"call", "result"} => c.id # r.id)
                          \/ /\ r.kind = "call" /\ r.id # 0 /\ c.id = r.id /\ c.tool = r.what
                             /\ c.line = Line
  <2>1. \A c \in pending : c.id # 0
    BY Kept
  <2> QED
    BY <1>0, <2>1 DEF CallView, Call
<1>5. r.kind \notin {"call", "result"} => r.id = 0
  BY <1>0 DEF CallView
<1>6. ASSUME NEW c \in pending'
      PROVE  /\ c.line \in Lines' /\ Is(c.line, "call", c.tool)' /\ log'[c.line].id = c.id
             /\ Latest(c.line)'
  <2>1. CASE c \in pending /\ (r.kind \in {"call", "result"} => c.id # r.id)
    <3>1. c.line \in Lines /\ Is(c.line, "call", c.tool) /\ log[c.line].id = c.id /\ Latest(c.line)
      BY <2>1 DEF PendInv
    <3>2. r.id # c.id
      BY <1>0, <1>5, <2>1, <3>1, Kept DEF Is
    <3> QED
      BY <1>0, <1>1, <3>1, <3>2, LinesGrow, LatestGrows
  <2>2. CASE r.kind = "call" /\ r.id # 0 /\ c.id = r.id /\ c.tool = r.what /\ c.line = Line
    BY <1>0, <1>1, <2>2, LinesGrow, LatestGrows
  <2> QED
    BY <1>4, <2>1, <2>2
<1>7. ASSUME NEW m \in Lines', log'[m].kind = "call", log'[m].id # 0, Latest(m)'
      PROVE  \E c \in pending' : c.line = m
  <2>1. CASE m = Line
    <3>0. r.kind = "call" /\ r.id # 0
      BY <1>1, <1>7, <2>1
    <3>1. PICK link : pending' = (pending \ Call(r.id)) \cup
                    {[id |-> r.id, line |-> Line, tool |-> r.what, link |-> link]}
      BY <1>0, <3>0 DEF CallView
    <3> DEFINE new == [id |-> r.id, line |-> Line, tool |-> r.what, link |-> link]
    <3>2. new \in pending' /\ new.line = m
      BY <2>1, <3>1
    <3> QED
      BY <3>2
  <2>2. CASE m \in Lines
    <3>1. log[m].kind = "call" /\ log[m].id # 0 /\ Latest(m) /\ r.id # log[m].id
      BY <1>0, <1>1, <1>7, <2>2, LatestGrows
    <3>2. PICK c \in pending : c.line = m
      BY <1>0, <2>2, <3>1 DEF PendInv
    <3>3. c.id = log[m].id
      BY <3>2 DEF PendInv
    <3>4. c \in pending'
      BY <1>0, <3>1, <3>2, <3>3 DEF CallView, Call
    <3> QED
      BY <3>2, <3>4
  <2> QED
    BY <1>1, <2>1, <2>2
<1> QED
  BY <1>3, <1>6, <1>7 DEF PendInv

-----------------------------------------------------------------------------
(* Runs *)

\* A result that is not a refusal ends the run that pends under its id.
LEMMA EndsRunOf ==
    ASSUME TypeInv, PendInv, ~done, NEW r \in Record, Reads(r)
    PROVE  /\ EndsRun(r) <=> /\ r.what # "refusal"
                             /\ \E m \in Lines : \A n : n = Line =>
                                  Is(m, "call", "run") /\ Answers(n, m)'
           /\ \A c \in Call(r.id) : \A m \in Lines : \A n : n = Line /\ Answers(n, m)' => c.line = m
<1>1. \A c, d \in pending : c.id = d.id => c = d
  BY DEF TypeInv, TypeOK
<1>2. \A c \in pending : /\ c.line \in Lines /\ Is(c.line, "call", c.tool)
                         /\ log[c.line].id = c.id /\ Latest(c.line) /\ c.id # 0
  BY Kept DEF PendInv
<1>3. \A m \in Lines : log[m].kind = "call" /\ log[m].id # 0 /\ Latest(m) =>
         \E c \in pending : c.line = m
  BY DEF PendInv
<1>4. \A m \in Lines : \A n : n = Line =>
         (Answers(n, m)' <=> /\ log[m].kind = "call" /\ Latest(m)
                             /\ r.kind = "result" /\ r.id # 0 /\ log[m].id = r.id)
  BY LinesGrow, LatestGrows
<1>5. ASSUME NEW c \in Call(r.id), NEW m \in Lines, NEW n, n = Line, Answers(n, m)' PROVE c.line = m
  <2>1. log[m].kind = "call" /\ Latest(m) /\ r.id # 0 /\ log[m].id = r.id
    BY <1>4, <1>5
  <2>2. PICK d \in pending : d.line = m
    BY <1>3, <2>1
  <2>3. d.id = r.id /\ c.id = r.id /\ c \in pending
    BY <1>2, <2>1, <2>2 DEF Call
  <2> QED
    BY <1>1, <2>2, <2>3
<1>6. ASSUME EndsRun(r)
      PROVE  \E m \in Lines : \A n : n = Line => Is(m, "call", "run") /\ Answers(n, m)'
  <2>1. PICK c \in pending : c.id = r.id /\ c.tool = "run"
    BY <1>6 DEF EndsRun, Call
  <2>2. /\ c.line \in Lines /\ Is(c.line, "call", "run") /\ log[c.line].kind = "call"
        /\ log[c.line].id = r.id /\ Latest(c.line) /\ r.id # 0 /\ r.kind = "result"
    BY <1>2, <1>6, <2>1 DEF Is, EndsRun
  <2> DEFINE m == c.line
  <2>3. \A n : n = Line => Is(m, "call", "run") /\ Answers(n, m)'
    BY <1>4, <2>2
  <2> QED
    BY <2>2, <2>3
<1>7. ASSUME r.what # "refusal", NEW m \in Lines, NEW n, n = Line, Is(m, "call", "run"), Answers(n, m)'
      PROVE  EndsRun(r)
  <2>1. log[m].kind = "call" /\ Latest(m) /\ r.kind = "result" /\ r.id # 0 /\ log[m].id = r.id
    BY <1>4, <1>7
  <2>2. PICK c \in pending : c.line = m
    BY <1>3, <2>1
  <2>3. c.id = r.id /\ c.tool = "run"
    BY <1>2, <1>7, <2>1, <2>2 DEF Is
  <2> QED
    BY <1>7, <2>1, <2>3 DEF EndsRun, Call
<1> QED
  BY <1>5, <1>6, <1>7 DEF EndsRun

\* Runs stay, and only one whose result came or that has no id is added.
LEMMA RunsGrow ==
    ASSUME TypeInv, NEW r \in Record, Reads(r), EventView(r)
    PROVE  /\ \A e \in DOMAIN events : e \in DOMAIN events' /\ events'[e] = events[e]
           /\ \A e \in DOMAIN events' : e \notin DOMAIN events /\ events'[e].kind = "run" =>
                /\ e = Len(events) + 1
                /\ \/ EndsRun(r) /\ \E c \in Call(r.id) : events'[e] = Event("run", c.line, c.id)
                   \/ /\ r.kind = "call" /\ r.what = "run" /\ r.id = 0
                      /\ events'[e] = Event("run", Line, 0)
           /\ EndsRun(r) => \E c \in Call(r.id) : \E e \in DOMAIN events' :
                e \notin DOMAIN events /\ events'[e] = Event("run", c.line, c.id)
<1>1. Len(events) \in Nat /\ DOMAIN events = 1..Len(events) /\ events \in Seq(Events)
  BY Kept DEF TypeInv
<1>2. ASSUME NEW e, events' = Append(events, e)
      PROVE  /\ DOMAIN events' = 1..(Len(events) + 1) /\ events'[Len(events) + 1] = e
             /\ \A f \in DOMAIN events : f \in DOMAIN events' /\ events'[f] = events[f]
             /\ \A f \in DOMAIN events' : f \in DOMAIN events \/ f = Len(events) + 1
             /\ Len(events) + 1 \in DOMAIN events' /\ Len(events) + 1 \notin DOMAIN events
  BY <1>1, <1>2
<1>3. CASE EndsRun(r)
  <2>1. PICK c \in Call(r.id) : events' = Append(events, Event("run", c.line, c.id))
    BY <1>3 DEF EventView
  <2> DEFINE e == Event("run", c.line, c.id)
  <2>2. events' = Append(events, e)
    BY <2>1
  <2> HIDE DEF e
  <2>3. /\ \A f \in DOMAIN events : f \in DOMAIN events' /\ events'[f] = events[f]
        /\ \A f \in DOMAIN events' : f \notin DOMAIN events => f = Len(events) + 1 /\ events'[f] = e
        /\ \E f \in DOMAIN events' : f \notin DOMAIN events /\ events'[f] = e
    BY <1>2, <2>2
  <2> USE DEF e
  <2> QED
    BY <1>3, <2>3
<1>4. CASE ~EndsRun(r) /\ events' = events
  BY <1>4
<1>5. CASE ~EndsRun(r) /\ events' # events
  <2>1. PICK e : /\ events' = Append(events, e)
                 /\ e.kind = "run" => /\ r.kind = "call" /\ r.what = "run" /\ r.id = 0
                                      /\ e = Event("run", Line, 0)
    BY <1>5 DEF EventView, Event
  <2> QED
    BY <1>2, <1>5, <2>1
<1> QED
  BY <1>3, <1>4, <1>5

\* The two halves of RunsMeetResults, for the call at m and the event e.
Met(m) ==
    /\ \A e, f \in RunsOfCall(m) : e = f
    /\ RunsOfCall(m) # {} <=>
         \/ \E n \in Lines : Answers(n, m) /\ log[n].what # "refusal"
         \/ done /\ Latest(m)

Founded(e) == \E m \in Lines : Is(m, "call", "run") /\ e \in RunsOfCall(m)

LEMMA RunsInTwo ==
    RunsMeetResults <=> /\ \A m \in Lines : Is(m, "call", "run") /\ log[m].id # 0 => Met(m)
                        /\ \A e \in DOMAIN events : events[e].kind = "run" => Founded(e)
BY DEF RunsMeetResults, Met, Founded, Latest

LEMMA RunEvent ==
    \A line, call : /\ Event("run", line, call).kind = "run" /\ Event("run", line, call).line = line
                    /\ Event("run", line, call).call = call
BY DEF Event

LEMMA MetKept ==
    ASSUME TypeInv, CallInv, PendInv, NEW r \in Record, View(r),
           NEW m \in Lines, Is(m, "call", "run"), log[m].id # 0, Met(m)
    PROVE  Met(m)'
<1>0. Reads(r) /\ EventView(r) /\ ~done /\ ~done'
  BY DEF View, Reads
<1>1. log'[m] = log[m] /\ log[m].kind = "call"
  BY <1>0, LinesGrow DEF Is
<1>2. RunsOfCall(m) \subseteq RunsOfCall(m)'
  BY <1>0, <1>1, RunsGrow DEF RunsOfCall
<1>3. (\E n \in Lines' : Answers(n, m)' /\ log'[n].what # "refusal") <=>
        \/ \E n \in Lines : Answers(n, m) /\ log[n].what # "refusal"
        \/ (\A n : n = Line => Answers(n, m)') /\ r.what # "refusal"
  BY <1>0, LinesGrow, LatestGrows
<1>4. (\A n : n = Line => Answers(n, m)') <=>
         Latest(m) /\ r.kind = "result" /\ r.id # 0 /\ log[m].id = r.id
  BY <1>0, <1>1, LinesGrow, LatestGrows
<1>5. Latest(m) => RunsOfCall(m) = {}
  <2>1. ASSUME Latest(m), NEW n \in Lines PROVE ~Answers(n, m)
    <3>1. n > m => n \in (m + 1)..Len(log)
      BY <1>0, LinesGrow
    <3> QED
      BY <1>0, <2>1, <3>1, LinesGrow DEF Answers, Latest
  <2> QED
    BY <1>0, <2>1 DEF Met
<1>6. CASE EndsRun(r) /\ \A n : n = Line => Answers(n, m)'
  <2>1. \A c \in Call(r.id) : c.line = m /\ c.id = log[m].id
    BY <1>0, <1>4, <1>6, EndsRunOf DEF Call
  <2>2. RunsOfCall(m) = {}
    BY <1>4, <1>5, <1>6
  <2>3. \E e \in DOMAIN events' : e \notin DOMAIN events /\ events'[e] = Event("run", m, log[m].id)
    BY <1>0, <1>6, <2>1, RunsGrow
  <2>4. RunsOfCall(m)' # {}
    BY <1>1, <2>3 DEF RunsOfCall
  <2>5. \A e \in RunsOfCall(m)' : e = Len(events) + 1
    BY <1>0, <1>1, <2>2, RunsGrow, RunEvent DEF RunsOfCall
  <2>6. r.what # "refusal"
    BY <1>6 DEF EndsRun
  <2> QED
    BY <1>0, <1>3, <1>6, <2>4, <2>5, <2>6 DEF Met
<1>7. CASE ~(EndsRun(r) /\ \A n : n = Line => Answers(n, m)')
  <2>1. ~((\A n : n = Line => Answers(n, m)') /\ r.what # "refusal")
    BY <1>0, <1>7, EndsRunOf
  <2>2. RunsOfCall(m)' = RunsOfCall(m)
    <3> SUFFICES ASSUME NEW e \in RunsOfCall(m)', e \notin DOMAIN events PROVE FALSE
      BY <1>0, <1>1, <1>2, RunsGrow DEF RunsOfCall
    <3>1. e \in DOMAIN events' /\ events'[e] = Event("run", m, log[m].id)
      BY <1>1 DEF RunsOfCall
    <3>2. EndsRun(r) /\ \E c \in Call(r.id) : Event("run", m, log[m].id) = Event("run", c.line, c.id)
      BY <1>0, <3>1, RunsGrow, RunEvent
    <3>3. PICK c \in Call(r.id) : c.line = m /\ c.id = log[m].id
      BY <3>2, RunEvent
    <3>4. Latest(m) /\ r.kind = "result" /\ r.id # 0 /\ log[m].id = r.id
      BY <3>2, <3>3, Kept DEF PendInv, Call, EndsRun
    <3> QED
      BY <1>4, <1>7, <3>2, <3>4
  <2> QED
    BY <1>0, <1>3, <2>1, <2>2 DEF Met
<1> QED
  BY <1>6, <1>7

LEMMA RunsKept ==
    ASSUME TypeInv, CallInv, PendInv, RunsMeetResults, NEW r \in Record, View(r)
    PROVE  RunsMeetResults'
<1>0. Reads(r) /\ EventView(r) /\ ~done /\ ~done'
  BY DEF View, Reads
<1>1. /\ \A n \in Lines : log'[n] = log[n] /\ n \in Lines' /\ n # Line
      /\ \A n \in Lines' : n = Line \/ n \in Lines
      /\ Line \in Lines' /\ log'[Line] = r
  BY <1>0, LinesGrow
<1>2. ASSUME NEW m \in Lines', Is(m, "call", "run")', log'[m].id # 0 PROVE Met(m)'
  <2>1. CASE m \in Lines
    BY <1>0, <1>1, <1>2, <2>1, LinesGrow, MetKept, RunsInTwo
  <2>2. CASE m = Line
    <3>1. r.kind = "call" /\ r.id # 0
      BY <1>1, <1>2, <2>2 DEF Is
    <3>2. \A n \in Lines' : ~Answers(n, m)'
      BY <1>0, <2>2, <3>1, LinesGrow, LatestGrows DEF Answers
    <3>3. RunsOfCall(m)' = {}
      <4> SUFFICES ASSUME NEW e \in RunsOfCall(m)' PROVE FALSE
        OBVIOUS
      <4>1. e \in DOMAIN events' /\ events'[e] = Event("run", Line, r.id)
        BY <1>1, <2>2 DEF RunsOfCall
      <4>2. e \notin DOMAIN events
        <5>1. \A f \in DOMAIN events : events'[f] = events[f] /\ events[f].line <= Len(log)
          BY <1>0, RunsGrow DEF TypeInv
        <5> QED
          BY <1>0, <4>1, <5>1, LinesGrow, RunEvent
      <4>3. EndsRun(r) \/ r.id = 0
        BY <1>0, <4>1, <4>2, RunsGrow, RunEvent
      <4> QED
        BY <3>1, <4>3 DEF EndsRun
    <3> QED
      BY <1>0, <3>2, <3>3 DEF Met
  <2> QED
    BY <1>1, <2>1, <2>2
<1>3. ASSUME NEW e \in DOMAIN events', events'[e].kind = "run" PROVE Founded(e)'
  <2>1. CASE e \in DOMAIN events
    <3>1. PICK m \in Lines : Is(m, "call", "run") /\ e \in RunsOfCall(m)
      BY <1>0, <1>3, <2>1, RunsGrow, RunsInTwo DEF Founded
    <3>2. m \in Lines' /\ Is(m, "call", "run")' /\ e \in RunsOfCall(m)'
      BY <1>0, <1>1, <2>1, <3>1, LinesGrow, RunsGrow DEF RunsOfCall
    <3> QED
      BY <3>2 DEF Founded
  <2>2. CASE e \notin DOMAIN events /\ EndsRun(r)
    <3>1. PICK c \in Call(r.id) : events'[e] = Event("run", c.line, c.id)
      BY <1>0, <1>3, <2>2, RunsGrow DEF EndsRun
    <3>2. PICK d \in Call(r.id) : d.tool = "run"
      BY <2>2 DEF EndsRun
    <3>3. c = d
      BY <3>1, <3>2 DEF TypeInv, TypeOK, Call
    <3> DEFINE m == c.line
    <3>4. m \in Lines /\ Is(m, "call", "run") /\ log[m].id = c.id
      BY <3>2, <3>3 DEF PendInv, Call
    <3>5. m \in Lines' /\ Is(m, "call", "run")' /\ e \in RunsOfCall(m)'
      BY <1>0, <1>1, <3>1, <3>4, LinesGrow DEF RunsOfCall
    <3> HIDE DEF m
    <3> QED
      BY <3>5 DEF Founded
  <2>3. CASE e \notin DOMAIN events /\ ~EndsRun(r)
    <3>1. r.kind = "call" /\ r.what = "run" /\ r.id = 0 /\ events'[e] = Event("run", Line, 0)
      BY <1>0, <1>3, <2>3, RunsGrow
    <3>2. \A m : m = Line => m \in Lines' /\ Is(m, "call", "run")' /\ e \in RunsOfCall(m)'
      BY <1>0, <1>1, <3>1, LinesGrow DEF RunsOfCall
    <3> QED
      BY <3>2 DEF Founded
  <2> QED
    BY <2>1, <2>2, <2>3
<1>4. RunsMeetResults' <=> /\ \A m \in Lines' : Is(m, "call", "run")' /\ log'[m].id # 0 => Met(m)'
                           /\ \A e \in DOMAIN events' : events'[e].kind = "run" => Founded(e)'
  BY DEF RunsMeetResults, Met, Founded, Latest
<1> QED
  BY <1>2, <1>3, <1>4

LEMMA CallsFinished ==
    ASSUME TypeInv, CallInv, PendInv, RunsMeetResults, Finish
    PROVE  CallInv' /\ PendInv' /\ RunsMeetResults'
<1>1. log' = log /\ Lines' = Lines /\ pending' = {} /\ done' = TRUE /\ ~done
  BY DEF Finish, Lines
<1>2. CallInv' /\ PendInv'
  BY <1>1 DEF CallInv, PendInv
<1>3. /\ \A m : Latest(m)' <=> Latest(m)
      /\ \A n, m : Answers(n, m)' <=> Answers(n, m)
      /\ \A m, kind, what : Is(m, kind, what)' <=> Is(m, kind, what)
  BY <1>1 DEF Latest, Answers, Is
<1>4. \A c \in Unresolved : /\ c.line \in Lines /\ Is(c.line, "call", "run") /\ log[c.line].id = c.id
                            /\ Latest(c.line)
  BY DEF Unresolved, PendInv
<1>5. \A e \in DOMAIN events : e \in DOMAIN events' /\ events'[e] = events[e]
  BY FinishedRuns
<1>6. ASSUME NEW m \in Lines, Is(m, "call", "run"), log[m].id # 0, Met(m) PROVE Met(m)'
  <2>1. \A e \in RunsOfCall(m) : e \in RunsOfCall(m)'
    BY <1>1, <1>5 DEF RunsOfCall
  <2>2. \A e \in RunsOfCall(m)' : e \in RunsOfCall(m) \/ e \notin DOMAIN events
    BY <1>1, <1>5 DEF RunsOfCall
  <2>3. CASE Latest(m)
    <3>1. RunsOfCall(m) = {}
      <4>1. ASSUME NEW n \in Lines PROVE ~Answers(n, m)
        <5>1. Lines = 1..Len(log) /\ Len(log) \in Nat
          BY Kept DEF Lines
        <5>2. n > m => n \in (m + 1)..Len(log)
          BY <5>1
        <5> QED
          BY <2>3, <5>1, <5>2 DEF Answers, Latest
      <4> QED
        BY <1>1, <1>6, <4>1 DEF Met
    <3>2. PICK c \in pending : c.line = m
      BY <1>1, <1>6, <2>3 DEF PendInv, Is
    <3>3. c \in Unresolved /\ c.id = log[m].id
      BY <1>6, <3>2 DEF PendInv, Unresolved, Is
    <3>4. \E e \in DOMAIN events' : events'[e] = Event("run", c.line, c.id)
      BY <3>3, FinishedRuns
    <3>5. RunsOfCall(m)' # {}
      BY <1>1, <3>2, <3>3, <3>4 DEF RunsOfCall
    <3>6. \A e, f \in RunsOfCall(m)' : e = f
      <4>1. \A e \in RunsOfCall(m)' : /\ e \in DOMAIN events' /\ e \notin DOMAIN events
                                      /\ events'[e] = Event("run", m, log[m].id)
        BY <1>1, <2>2, <3>1 DEF RunsOfCall
      <4> QED
        BY <4>1, FinishedRuns
    <3> QED
      BY <1>1, <1>3, <2>3, <3>5, <3>6 DEF Met
  <2>4. CASE ~Latest(m)
    <3>1. RunsOfCall(m)' = RunsOfCall(m)
      <4> SUFFICES ASSUME NEW e \in RunsOfCall(m)', e \notin DOMAIN events PROVE FALSE
        BY <2>1, <2>2
      <4>1. e \in DOMAIN events' /\ events'[e] = Event("run", m, log[m].id)
        BY <1>1 DEF RunsOfCall
      <4>2. PICK c \in Unresolved : events'[e] = Event("run", c.line, c.id)
        BY <4>1, FinishedRuns
      <4>3. c.line = m
        BY <4>1, <4>2, RunEvent
      <4> QED
        BY <1>4, <2>4, <4>3
    <3> QED
      BY <1>1, <1>3, <1>6, <2>4, <3>1 DEF Met
  <2> QED
    BY <2>3, <2>4
<1>7. ASSUME NEW e \in DOMAIN events', events'[e].kind = "run" PROVE Founded(e)'
  <2>1. CASE e \in DOMAIN events
    <3>1. PICK m \in Lines : Is(m, "call", "run") /\ e \in RunsOfCall(m)
      BY <1>5, <1>7, <2>1, RunsInTwo DEF Founded
    <3> QED
      BY <1>1, <1>3, <1>5, <2>1, <3>1 DEF Founded, RunsOfCall
  <2>2. CASE e \notin DOMAIN events
    <3>1. PICK c \in Unresolved : events'[e] = Event("run", c.line, c.id)
      BY <2>2, FinishedRuns
    <3> DEFINE m == c.line
    <3>2. m \in Lines /\ Is(m, "call", "run") /\ log[m].id = c.id
      BY <1>4
    <3>3. m \in Lines' /\ Is(m, "call", "run")' /\ e \in RunsOfCall(m)'
      BY <1>1, <1>3, <3>1, <3>2 DEF RunsOfCall
    <3> HIDE DEF m
    <3> QED
      BY <3>3 DEF Founded
  <2> QED
    BY <2>1, <2>2
<1>8. \A m \in Lines' : Is(m, "call", "run")' /\ log'[m].id # 0 => Met(m)'
  BY <1>1, <1>3, <1>6, RunsInTwo
<1>9. RunsMeetResults' <=> /\ \A m \in Lines' : Is(m, "call", "run")' /\ log'[m].id # 0 => Met(m)'
                           /\ \A e \in DOMAIN events' : events'[e].kind = "run" => Founded(e)'
  BY DEF RunsMeetResults, Met, Founded, Latest
<1> QED
  BY <1>2, <1>7, <1>8, <1>9

\* The types and the invariants of calls and runs.
RunsIInv == TypeInv /\ CallInv /\ PendInv /\ RunsMeetResults

LEMMA RunsInit == Init => RunsIInv
<1> SUFFICES ASSUME Init PROVE RunsIInv
  OBVIOUS
<1>1. Lines = {} /\ pending = {} /\ DOMAIN events = {}
  BY DEF Init, Lines
<1> QED
  BY <1>1, TypesInit DEF RunsIInv, CallInv, PendInv, RunsMeetResults

LEMMA RunsNext == RunsIInv /\ [Next]_vars => RunsIInv'
<1> SUFFICES ASSUME RunsIInv, [Next]_vars PROVE RunsIInv'
  OBVIOUS
<1>0. TypeInv /\ CallInv /\ PendInv /\ RunsMeetResults
  BY DEF RunsIInv
<1>1. TypeInv'
  BY <1>0, TypesNext
<1>2. CASE \E r \in Record : View(r)
  BY <1>0, <1>1, <1>2, CallsKept, RunsKept DEF RunsIInv
<1>3. CASE Finish
  BY <1>0, <1>1, <1>3, CallsFinished DEF RunsIInv
<1>4. CASE UNCHANGED vars
  <2>1. CallInv' /\ PendInv'
    BY <1>0, <1>4 DEF vars, CallInv, PendInv, Lines, Is, Latest
  <2>2. RunsMeetResults'
    BY <1>0, <1>4 DEF vars, RunsMeetResults, Lines, Is, Answers, RunsOfCall
  <2> QED
    BY <1>1, <2>1, <2>2 DEF RunsIInv
<1> QED
  BY <1>0, <1>2, <1>3, <1>4, Steps

\* A shell call with an id is reported as one run when its result comes and is
\* no refusal, or when the transcript ends, whatever results come twice, late or
\* never and however often the call is written again before its result; a run
\* is of nothing else (_pending and finish() of both parsers).
THEOREM RunsAlwaysMeetResults == Spec => []RunsMeetResults
<1>1. RunsIInv => RunsMeetResults
  BY DEF RunsIInv
<1> QED
  BY <1>1, RunsInit, RunsNext, PTL DEF Spec

LEMMA CorrectionHere ==
    ASSUME TypeInv, Len(log) < MaxLines
    PROVE  Append(events, Event("user_turn_after_correction", Line, 0)) # events
<1>1. Event("user_turn_after_correction", Line, 0) \in Events
  BY Kept, InteractionsAssumption DEF Event, Events, Line
<1> QED
  BY <1>1, Kept

-----------------------------------------------------------------------------
(* Corrections *)

\* What a record means does not change when more records come.
LEMMA MeaningKept ==
    ASSUME TypeInv, CallInv, PendInv, NEW r \in Record, View(r)
    PROVE  /\ \A n \in Lines : /\ Stops(n)' <=> Stops(n)
                               /\ Acts(n)' <=> Acts(n)
                               /\ Speaks(n)' <=> Speaks(n)
           /\ \A n : n = Line =>
                /\ Stops(n)' <=> Halts(r)
                /\ Acts(n)' <=> Works(r)
                /\ Speaks(n)' <=> r.kind = "user" /\ r.what \in {"plain", "quoted"}
<1>0. Reads(r) /\ CallView(r) /\ source' = source /\ ~done
  BY DEF View, Reads
<1>1. /\ \A n \in Lines : log'[n] = log[n] /\ n \in Lines' /\ n # Line
      /\ \A n \in Lines' : n = Line \/ n \in Lines
      /\ Line \in Lines' /\ Line \notin Lines /\ log'[Line] = r
  <2>1. Lines \subseteq Lines' /\ Line \in Lines' /\ 0 \notin Lines
    BY <1>0, LogGrows, Kept DEF Line
  <2> QED
    BY <1>0, <2>1, LogGrows
<1>2. /\ \A n \in Lines : \A kind, what : Is(n, kind, what)' <=> Is(n, kind, what)
      /\ \A n, kind, what : n = Line => (Is(n, kind, what)' <=> r.kind = kind /\ r.what = what)
  BY <1>1 DEF Is
<1>3. \A n \in Lines : AnswersRun(n)' <=> AnswersRun(n)
  BY <1>0, <1>1, <1>2, LatestGrows DEF AnswersRun
<1>4. ASSUME NEW n, n = Line
      PROVE  AnswersRun(n)' /\ r.what # "refusal" <=> EndsRun(r)
  <2>1. AnswersRun(n)' <=> \E m \in Lines' : Is(m, "call", "run")' /\ Answers(n, m)'
    BY DEF AnswersRun
  <2>2. \A m \in Lines' : Answers(n, m)' => m \in Lines
    BY <1>0, <1>4, LatestGrows
  <2>3. AnswersRun(n)' <=> \E m \in Lines : Is(m, "call", "run") /\ Answers(n, m)'
    BY <1>1, <1>2, <2>1, <2>2
  <2>4. EndsRun(r) <=> /\ r.what # "refusal"
                       /\ \E m \in Lines : Is(m, "call", "run") /\ Answers(n, m)'
    BY <1>0, <1>4, EndsRunOf
  <2> QED
    BY <2>3, <2>4
<1>5. \A n \in Lines : /\ Stops(n)' <=> Stops(n)
                       /\ Acts(n)' <=> Acts(n)
                       /\ Speaks(n)' <=> Speaks(n)
  BY <1>0, <1>1, <1>2, <1>3 DEF Stops, Interrupts, Refuses, Acts, Speaks
<1>6. ASSUME NEW n, n = Line
      PROVE  /\ Stops(n)' <=> Halts(r)
             /\ Acts(n)' <=> Works(r)
             /\ Speaks(n)' <=> r.kind = "user" /\ r.what \in {"plain", "quoted"}
  <2>1. log'[n] = r
    BY <1>1, <1>6
  <2>2. Stops(n)' <=> Halts(r)
    BY <1>0, <1>2, <1>6, <2>1 DEF Stops, Interrupts, Refuses, Halts
  <2>3. Acts(n)' <=> Works(r)
    BY <1>0, <1>2, <1>4, <1>6, <2>1 DEF Acts, Works
  <2> QED
    BY <2>1, <2>2, <2>3 DEF Speaks
<1> QED
  BY <1>5, <1>6

LEMMA CorrectionsGrow ==
    ASSUME TypeInv, NEW r \in Record, Reads(r), EventView(r)
    PROVE  Corrections' = Corrections \cup (IF Corrects(r) THEN {Line} ELSE {})
<1>1. events \in Seq(Events)
  BY DEF TypeInv
<1>2. CASE events' = events
  <2>1. ~Corrects(r)
    BY <1>2, CorrectionHere DEF EventView, EndsRun, Corrects, Reads
  <2> QED
    BY <1>2, <2>1 DEF Corrections
<1>3. ASSUME NEW e, events' = Append(events, e)
      PROVE  /\ e.kind # "user_turn_after_correction" => Corrections' = Corrections
             /\ e.kind = "user_turn_after_correction" => Corrections' = Corrections \cup {e.line}
  <2>1. /\ DOMAIN events = 1..Len(events) /\ DOMAIN events' = 1..(Len(events) + 1)
        /\ Len(events) \in Nat
        /\ events'[Len(events) + 1] = e
        /\ \A f \in DOMAIN events : f \in DOMAIN events' /\ events'[f] = events[f]
        /\ \A f \in DOMAIN events' : f \in DOMAIN events \/ f = Len(events) + 1
        /\ Len(events) + 1 \in DOMAIN events'
    BY <1>1, <1>3
  <2> QED
    BY <2>1 DEF Corrections
<1>4. CASE Corrects(r)
  <2>1. ~EndsRun(r)
    BY <1>4 DEF EndsRun, Corrects
  <2> DEFINE e == Event("user_turn_after_correction", Line, 0)
  <2>2. events' = Append(events, e) /\ e.kind = "user_turn_after_correction" /\ e.line = Line
    BY <1>4, <2>1 DEF EventView, Event
  <2> HIDE DEF e
  <2> QED
    BY <1>3, <1>4, <2>2
<1>5. CASE ~Corrects(r) /\ events' # events
  <2>1. \E e : events' = Append(events, e) /\ e.kind # "user_turn_after_correction"
    <3>1. CASE EndsRun(r)
      <4>1. PICK c \in Call(r.id) : events' = Append(events, Event("run", c.line, c.id))
        BY <3>1 DEF EventView
      <4>2. Event("run", c.line, c.id).kind # "user_turn_after_correction"
        BY DEF Event
      <4> QED
        BY <4>1, <4>2
    <3>2. CASE ~EndsRun(r)
      BY <1>5, <3>2 DEF EventView
    <3> QED
      BY <3>1, <3>2
  <2> QED
    BY <1>3, <1>5, <2>1
<1> QED
  BY <1>2, <1>4, <1>5

Stopped == \E m \in Lines : Stops(m) /\ \A k \in (m + 1)..Len(log) : ~Acts(k) /\ ~Speaks(k)

Corrected(n) == Speaks(n) /\ \E m \in 1..(n - 1) :
                   Stops(m) /\ \A k \in (m + 1)..(n - 1) : ~Acts(k) /\ ~Speaks(k)

LEMMA FlagKept ==
    ASSUME TypeInv, CallInv, PendInv, FlagInv, NEW r \in Record, View(r)
    PROVE  FlagInv'
<1>0. Reads(r) /\ EventView(r) /\ FlagView(r)
  BY DEF View
<1>1. /\ Lines = 1..(Line - 1) /\ Lines' = 1..Line /\ Line \in Nat \ {0}
      /\ Len(log) = Line - 1 /\ Len(log') = Line
  BY <1>0, LogGrows, Kept DEF Line
<1>2. /\ \A n \in 1..(Line - 1) : /\ Stops(n)' <=> Stops(n)
                                  /\ Acts(n)' <=> Acts(n)
                                  /\ Speaks(n)' <=> Speaks(n)
      /\ \A n : n = Line =>
           /\ Stops(n)' <=> Halts(r)
           /\ Acts(n)' <=> Works(r)
           /\ Speaks(n)' <=> r.kind = "user" /\ r.what \in {"plain", "quoted"}
  BY <1>1, MeaningKept
<1>3. awaiting <=> Stopped
  BY DEF FlagInv, Stopped
<1>4. Stopped' <=> Halts(r) \/ (Stopped /\ \A n : n = Line => ~Acts(n)' /\ ~Speaks(n)')
  <2>1. Stopped' <=> \E m \in 1..Line : Stops(m)' /\ \A k \in (m + 1)..Line : ~Acts(k)' /\ ~Speaks(k)'
    BY <1>1 DEF Stopped
  <2>2. ASSUME Stopped' PROVE Halts(r) \/ (Stopped /\ \A n : n = Line => ~Acts(n)' /\ ~Speaks(n)')
    <3>1. PICK m \in 1..Line : Stops(m)' /\ \A k \in (m + 1)..Line : ~Acts(k)' /\ ~Speaks(k)'
      BY <2>1, <2>2
    <3>2. CASE m = Line
      BY <1>2, <3>1, <3>2
    <3>3. CASE m # Line
      <4>1. m \in 1..(Line - 1) /\ Line \in (m + 1)..Line /\ (m + 1)..(Line - 1) \subseteq (m + 1)..Line
            /\ (m + 1)..(Line - 1) \subseteq 1..(Line - 1)
        BY <1>1, <3>3
      <4>2. Stopped
        BY <1>1, <1>2, <3>1, <4>1 DEF Stopped
      <4> QED
        BY <3>1, <4>1, <4>2
    <3> QED
      BY <3>2, <3>3
  <2>3. ASSUME Halts(r) PROVE Stopped'
    <3>1. \A n : n = Line => Stops(n)' /\ n \in 1..Line /\ (n + 1)..Line = {}
      BY <1>1, <1>2, <2>3
    <3> QED
      BY <2>1, <3>1
  <2>4. ASSUME Stopped, \A n : n = Line => ~Acts(n)' /\ ~Speaks(n)' PROVE Stopped'
    <3>1. PICK m \in 1..(Line - 1) :
            Stops(m) /\ \A k \in (m + 1)..(Line - 1) : ~Acts(k) /\ ~Speaks(k)
      BY <1>1, <2>4 DEF Stopped
    <3>2. \A k \in (m + 1)..Line : k = Line \/ (k \in (m + 1)..(Line - 1) /\ k \in 1..(Line - 1))
      BY <1>1
    <3>3. m \in 1..Line /\ Stops(m)' /\ \A k \in (m + 1)..Line : ~Acts(k)' /\ ~Speaks(k)'
      BY <1>1, <1>2, <2>4, <3>1, <3>2
    <3> QED
      BY <2>1, <3>3
  <2> QED
    BY <2>2, <2>3, <2>4
<1>5. awaiting' <=> Stopped'
  BY <1>0, <1>2, <1>3, <1>4 DEF FlagView, Corrects
<1>6. /\ \A n \in 1..(Line - 1) : Corrected(n)' <=> Corrected(n)
      /\ \A n : n = Line => (Corrected(n)' <=> Corrects(r))
  <2>1. ASSUME NEW n \in 1..(Line - 1) PROVE Corrected(n)' <=> Corrected(n)
    <3>1. 1..(n - 1) \subseteq 1..(Line - 1)
          /\ \A m \in 1..(n - 1) : (m + 1)..(n - 1) \subseteq 1..(Line - 1)
      BY <1>1
    <3> QED
      BY <1>2, <3>1 DEF Corrected
  <2>2. ASSUME NEW n, n = Line PROVE Corrected(n)' <=> Corrects(r)
    <3>1. \A m \in 1..(Line - 1) : (m + 1)..(Line - 1) \subseteq 1..(Line - 1)
      BY <1>1
    <3>2. Corrected(n)' <=> Speaks(n)' /\ \E m \in 1..(Line - 1) :
                   Stops(m)' /\ \A k \in (m + 1)..(Line - 1) : ~Acts(k)' /\ ~Speaks(k)'
      BY <2>2 DEF Corrected
    <3>3. Stopped <=> \E m \in 1..(Line - 1) :
                   Stops(m) /\ \A k \in (m + 1)..(Line - 1) : ~Acts(k) /\ ~Speaks(k)
      BY <1>1 DEF Stopped
    <3>4. Corrected(n)' <=> Speaks(n)' /\ Stopped
      BY <1>2, <3>1, <3>2, <3>3
    <3> QED
      BY <1>2, <1>3, <2>2, <3>4 DEF Corrects
  <2> QED
    BY <2>1, <2>2
<1>7. Corrections' = {n \in 1..Line : Corrected(n)'}
  <2>1. Corrections = {n \in 1..(Line - 1) : Corrected(n)}
    BY <1>1 DEF FlagInv, CorrectionsFollowStops, Corrected
  <2>2. \A n \in 1..Line : n = Line \/ n \in 1..(Line - 1)
    BY <1>1
  <2>3. 1..(Line - 1) \subseteq 1..Line /\ Line \in 1..Line
    BY <1>1
  <2> QED
    BY <1>0, <1>6, <2>1, <2>2, <2>3, CorrectionsGrow
<1>8. CorrectionsFollowStops'
  BY <1>1, <1>7 DEF CorrectionsFollowStops, Corrected
<1> QED
  BY <1>5, <1>8 DEF FlagInv, Stopped

FlagIInv == RunsIInv /\ FlagInv

LEMMA FlagInit == Init => FlagIInv
<1> SUFFICES ASSUME Init PROVE FlagIInv
  OBVIOUS
<1>1. Lines = {} /\ DOMAIN events = {} /\ ~awaiting
  BY DEF Init, Lines
<1>2. Corrections = {}
  BY <1>1 DEF Corrections
<1> QED
  BY <1>1, <1>2, RunsInit DEF FlagIInv, FlagInv, CorrectionsFollowStops

LEMMA MeaningFinished ==
    ASSUME log' = log, source' = source
    PROVE  /\ Lines' = Lines
           /\ \A n : Stops(n)' <=> Stops(n)
           /\ \A n : Acts(n)' <=> Acts(n)
           /\ \A n : Speaks(n)' <=> Speaks(n)
BY DEF Lines, Stops, Interrupts, Refuses, Acts, Speaks, Is, AnswersRun, Answers

LEMMA FlagNext == FlagIInv /\ [Next]_vars => FlagIInv'
<1> SUFFICES ASSUME FlagIInv, [Next]_vars PROVE FlagIInv'
  OBVIOUS
<1>0. TypeInv /\ CallInv /\ PendInv /\ FlagInv /\ RunsIInv
  BY DEF FlagIInv, RunsIInv
<1>1. RunsIInv'
  BY <1>0, RunsNext
<1>2. CASE \E r \in Record : View(r)
  BY <1>0, <1>1, <1>2, FlagKept DEF FlagIInv
<1>3. CASE log' = log /\ source' = source /\ awaiting' = awaiting /\ Corrections' = Corrections
  <2>1. CorrectionsFollowStops'
    BY <1>0, <1>3, MeaningFinished DEF FlagInv, CorrectionsFollowStops
  <2>2. (\E m \in Lines : Stops(m) /\ \A k \in (m + 1)..Len(log) : ~Acts(k) /\ ~Speaks(k))' <=> awaiting
    BY <1>0, <1>3, MeaningFinished DEF FlagInv
  <2> QED
    BY <1>1, <1>3, <2>1, <2>2 DEF FlagIInv, FlagInv
<1>4. Finish => Corrections' = Corrections
  <2> SUFFICES ASSUME Finish PROVE Corrections' = Corrections
    OBVIOUS
  <2>1. \A e \in DOMAIN events' : e \notin DOMAIN events => events'[e].kind = "run"
    BY <1>0, FinishedRuns DEF Event
  <2>2. \A e \in DOMAIN events : e \in DOMAIN events' /\ events'[e] = events[e]
    BY <1>0, FinishedRuns
  <2> QED
    BY <2>1, <2>2 DEF Corrections
<1>5. CASE Finish
  BY <1>3, <1>4, <1>5 DEF Finish
<1>6. CASE UNCHANGED vars
  BY <1>3, <1>6 DEF vars, Corrections
<1> QED
  BY <1>0, <1>2, <1>5, <1>6, Steps

\* A text of the user is reported as a correction exactly when it is the first
\* one after an interruption, for Claude also after a refusal, with no action of
\* the agent between: the flag all threads share says so after every record.
THEOREM CorrectionsAlwaysFollowStops == Spec => []CorrectionsFollowStops
<1>1. FlagIInv => CorrectionsFollowStops
  BY DEF FlagIInv, FlagInv
<1> QED
  BY <1>1, FlagInit, FlagNext, PTL DEF Spec

-----------------------------------------------------------------------------
(* Questions and answers *)

\* The interaction a record adds, seen from the question it answers or leaves
\* open and from the reply that trails in its thread.
Added(r) ==
    LET n == Len(inter) + 1
        new == inter'[n]
        t == r.thread IN
    /\ Len(inter') = n /\ new.origin = "human_answer" =>
         /\ new.link \in 1..Len(inter) /\ IsQuestion(new.link, t)
         /\ r.kind = "user" => new.link = question[t]
    /\ \A u \in Threads : question'[u] # 0 =>
         \/ /\ question'[u] = question[u]
            /\ u = t /\ Len(inter') = n =>
                 /\ new.terminal # "interrupted"
                 /\ new.origin = "human_answer" => new.link # question[u]
         \/ u = t /\ question'[u] = n /\ Len(inter') = n /\ new.origin = "question"
    /\ \A u \in Threads : last'[u] # 0 =>
         \/ last'[u] = last[u]
         \/ u = t /\ last'[u] = n /\ Len(inter') = n /\ new.origin = "assistant_text"

LEMMA AddedHere ==
    ASSUME TypeInv, CallInv, PendInv, QuestionInv, NEW r \in Record, Reads(r), InterView(r), CallView(r)
    PROVE  Added(r)
<1> DEFINE n == Len(inter) + 1
           t == r.thread
<1>1. /\ t \in Threads /\ Len(log) < MaxLines /\ 0 \in 0..Len(inter) /\ Len(inter) \in Nat
      /\ inter \in Seq(Items)
      /\ question \in [Threads -> 0..Len(inter)] /\ last \in [Threads -> 0..Len(inter)]
  <2>1. Len(inter) \in Nat /\ 0 \in 0..Len(inter)
    BY Kept
  <2> QED
    BY <2>1 DEF TypeInv, TypeOK, Record, Reads
<1>2. ASSUME NEW origin \in Origins, NEW link \in 0..Len(inter), Emit(t, origin, link)
      PROVE  /\ Len(inter') = n
             /\ inter'[n].origin = origin /\ inter'[n].link = link /\ inter'[n].terminal = "none"
  <2> DEFINE item == Item(t, origin, link, "none")
  <2>1. item \in Items /\ item.origin = origin /\ item.link = link /\ item.terminal = "none"
    BY <1>1, ItemHere DEF Terminals
  <2>2. inter' = Append(inter, item)
    BY <1>2 DEF Emit
  <2> HIDE DEF item
  <2> QED
    BY <1>1, <2>1, <2>2
<1>3. ASSUME NEW state \in Terminals, NEW item \in Items, inter' = Append(Closed(t, state), item)
      PROVE  Len(inter') = n /\ inter'[n] = item
  BY <1>1, <1>3, ClosedItems
<1>4. CASE Silent(r)
  BY <1>1, <1>4 DEF Silent, Added
<1>5. CASE Noted(r)
  <2>1. PICK origin \in {"tool_call", "tool_result", "harness", "quoted_history", "question"},
             link \in 0..Len(inter) : Emit(t, origin, link)
    BY <1>5 DEF Noted
  <2>2. origin \in Origins /\ origin # "human_answer" /\ last' = last /\ question' = question
    BY <1>5 DEF Noted, Origins
  <2>3. /\ Len(inter') = n /\ inter'[n].origin # "human_answer" /\ inter'[n].terminal = "none"
    BY <1>2, <2>1, <2>2
  <2> QED
    BY <2>2, <2>3 DEF Added
<1>6. CASE Spoken(r)
  <2>1. /\ Emit(t, "assistant_text", 0) /\ "assistant_text" \in Origins
        /\ last' = [last EXCEPT ![t] = n] /\ question' = question
    BY <1>6 DEF Spoken, Origins
  <2>2. Len(inter') = n /\ inter'[n].origin = "assistant_text" /\ inter'[n].terminal = "none"
    BY <1>1, <1>2, <2>1
  <2> QED
    BY <1>1, <2>1, <2>2 DEF Added
<1>7. CASE Posed(r)
  <2>1. /\ Emit(t, "question", 0) /\ "question" \in Origins
        /\ question' = [question EXCEPT ![t] = n] /\ last' = last
    BY <1>7 DEF Posed, Origins
  <2>2. Len(inter') = n /\ inter'[n].origin = "question" /\ inter'[n].terminal = "none"
    BY <1>1, <1>2, <2>1
  <2> QED
    BY <1>1, <2>1, <2>2 DEF Added
<1>8. CASE Returned(r)
  <2>1. PICK q \in 1..Len(inter) :
         /\ \/ source = "claude" /\ <<r.id, q>> \in asked
            \/ source = "codex" /\ \E c \in Call(r.id) : c.tool = "question" /\ c.link = q
         /\ Emit(t, "human_answer", q) /\ Settled(t, q)
    BY <1>8 DEF Returned
  <2>2. q \in 0..Len(inter) /\ last' = last /\ "human_answer" \in Origins /\ r.kind = "result" /\ r.id # 0
    BY <1>1, <1>8 DEF Returned, Origins
  <2>3. Len(inter') = n /\ inter'[n].origin = "human_answer" /\ inter'[n].terminal = "none"
        /\ inter'[n].link = q
    BY <1>2, <2>1, <2>2
  <2>4. IsQuestion(q, t)
    <3>1. log[r.id].thread = t
      BY <2>2 DEF CallView, CallInv
    <3>2. CASE source = "claude" /\ <<r.id, q>> \in asked
      <4>1. <<r.id, q>>[1] = r.id /\ <<r.id, q>>[2] = q
        OBVIOUS
      <4> QED
        BY <3>1, <3>2, <4>1 DEF QuestionInv
    <3>3. CASE source = "codex" /\ \E c \in Call(r.id) : c.tool = "question" /\ c.link = q
      BY <3>1, <3>3 DEF QuestionInv, Call
    <3> QED
      BY <2>1, <3>2, <3>3
  <2>5. \A u \in Threads : question'[u] # 0 => question'[u] = question[u] /\ (u = t => question[u] # q)
    BY <1>1, <2>1 DEF Settled
  <2> QED
    BY <2>1, <2>2, <2>3, <2>4, <2>5 DEF Added
<1>9. CASE Typed(r) /\ question[t] # 0
  <2>1. /\ Emit(t, "human_answer", question[t]) /\ "human_answer" \in Origins
        /\ question' = [question EXCEPT ![t] = 0] /\ last' = last
    BY <1>9 DEF Typed, AnswerOrRequest, Origins
  <2>2. question[t] \in 0..Len(inter) /\ question[t] \in 1..Len(inter)
    BY <1>1, <1>9
  <2>3. Len(inter') = n /\ inter'[n].origin = "human_answer" /\ inter'[n].terminal = "none"
        /\ inter'[n].link = question[t]
    BY <1>2, <2>1, <2>2
  <2>4. IsQuestion(question[t], t)
    BY <1>1, <1>9 DEF QuestionInv
  <2>5. \A u \in Threads : question'[u] # 0 => question'[u] = question[u] /\ u # t
    BY <1>1, <2>1
  <2> QED
    BY <2>1, <2>2, <2>3, <2>4, <2>5 DEF Added
<1>10. CASE Typed(r) /\ question[t] = 0
  <2>1. OpenTurn(t)
    BY <1>10 DEF Typed, AnswerOrRequest
  <2>2. Request(t) \in Items /\ Request(t).origin = "human_request" /\ Request(t).terminal = "none"
    BY <1>1, ItemHere DEF Terminals, Origins
  <2>3. inter' = Append(Closed(t, "unknown"), Request(t)) /\ "unknown" \in Terminals
    BY <2>1 DEF OpenTurn, Terminals, Request
  <2>4. Len(inter') = n /\ inter'[n] = Request(t)
    BY <1>3, <2>2, <2>3
  <2>5. \A u \in Threads : last'[u] # 0 => last'[u] = last[u]
    BY <1>1, <2>1 DEF OpenTurn
  <2> QED
    BY <2>1, <2>2, <2>4, <2>5 DEF Added, OpenTurn
<1>11. CASE Cut(r)
  <2> DEFINE item == Item(t, "harness", 0, "interrupted")
  <2>1. "harness" \in Origins /\ "interrupted" \in Terminals
    BY DEF Terminals, Origins
  <2>2. item \in Items /\ item.origin = "harness"
    <3>1. 0 \in 0..Len(inter)
      BY <1>1
    <3>2. item \in Items
      BY <1>1, <2>1, <3>1, ItemHere
    <3> QED
      BY <3>2 DEF Item
  <2>3. inter' = Append(Closed(t, "interrupted"), item) /\ "interrupted" \in Terminals
    BY <1>11 DEF Cut, Terminals
  <2>4. Len(inter') = n /\ inter'[n] = item
    BY <1>3, <2>2, <2>3
  <2>5. /\ \A u \in Threads : last'[u] # 0 => last'[u] = last[u]
        /\ \A u \in Threads : question'[u] # 0 => question'[u] = question[u] /\ u # t
    BY <1>1, <1>11 DEF Cut
  <2> HIDE DEF item
  <2> QED
    BY <2>2, <2>4, <2>5 DEF Added
<1>12. CASE Completes(r)
  <2>1. Len(inter') = Len(inter)
    BY <1>1, <1>12, ClosedItems DEF Completes, Terminals
  <2>2. /\ \A u \in Threads : last'[u] # 0 => last'[u] = last[u]
        /\ question' = question
    BY <1>1, <1>12 DEF Completes
  <2> QED
    BY <1>1, <2>1, <2>2 DEF Added
<1> QED
  BY <1>4, <1>5, <1>6, <1>7, <1>8, <1>9, <1>10, <1>11, <1>12 DEF InterView, Typed

\* What a record leaves alone of the interactions before it.
LEMMA BeforeKept ==
    ASSUME TypeInv, QuestionInv, NEW r \in Record, InterShape(r)
    PROVE  \A i \in 1..Len(inter) :
             /\ i \in DOMAIN inter /\ i \in DOMAIN inter'
             /\ inter'[i].line = inter[i].line /\ inter'[i].thread = inter[i].thread
             /\ inter'[i].origin = inter[i].origin /\ inter'[i].link = inter[i].link
             /\ inter'[i].terminal = inter[i].terminal \/ inter[i].origin = "assistant_text"
<1>1. /\ r.thread \in Threads /\ last[r.thread] \in 0..Len(inter) /\ Len(inter) \in Nat
      /\ DOMAIN inter = 1..Len(inter) /\ DOMAIN inter' = 1..Len(inter')
      /\ Len(inter') \in {Len(inter), Len(inter) + 1} /\ Len(inter') \in Nat
  <2>1. r.thread \in Threads /\ last \in [Threads -> 0..Len(inter)]
    BY DEF TypeInv, TypeOK, Record
  <2>2. inter' \in Seq(Items) /\ Len(inter') \in {Len(inter), Len(inter) + 1}
    BY DEF InterShape
  <2>4. Len(inter') \in Nat /\ DOMAIN inter' = 1..Len(inter')
    BY <2>2
  <2>3. last[r.thread] \in 0..Len(inter)
    BY <2>1
  <2> QED
    BY <2>1, <2>2, <2>3, <2>4, Kept
<1>2. \A i \in 1..Len(inter) : i = last[r.thread] => inter[i].origin = "assistant_text"
  <2>1. \A i \in 1..Len(inter) : i # 0
    OBVIOUS
  <2> QED
    BY <1>1, <2>1 DEF QuestionInv, Replies
<1>3. \A i \in 1..Len(inter) : i \in DOMAIN inter /\ i \in DOMAIN inter'
  <2>1. Len(inter) \in Nat /\ Len(inter') \in Nat /\ (Len(inter') = Len(inter) \/ Len(inter') = Len(inter) + 1)
    BY <1>1
  <2>2. 1..Len(inter) \subseteq 1..Len(inter')
    BY <2>1
  <2> QED
    BY <1>1, <2>2
<1> QED
  BY <1>2, <1>3 DEF InterShape

LEMMA QuestionsKept ==
    ASSUME TypeInv, CallInv, PendInv, QuestionInv, NEW r \in Record, View(r)
    PROVE  QuestionInv'
<1> DEFINE n == Len(inter) + 1
           t == r.thread
<1>0. Reads(r) /\ InterView(r) /\ CallView(r) /\ InterShape(r) /\ Added(r) /\ source' = source
  BY ViewShape, AddedHere DEF View, Reads
<1>1. /\ \A k \in Lines : log'[k] = log[k]
      /\ log'[Line] = r /\ Lines = 1..Len(log) /\ Line \notin Lines
      /\ Lines \subseteq Lines' /\ Line \in Lines'
  BY <1>0, LogGrows, Kept DEF Line
<1>2. /\ Len(inter) \in Nat /\ Len(inter') \in {Len(inter), n}
      /\ DOMAIN inter = 1..Len(inter) /\ DOMAIN inter' = 1..Len(inter') /\ t \in Threads
      /\ \A u \in Threads : question[u] \in 0..Len(inter) /\ last[u] \in 0..Len(inter)
      /\ Len(inter') = n => inter'[n].line = Line /\ inter'[n].thread = t
  <2>1. Len(inter') = n => inter'[n].line = Line /\ inter'[n].thread = t
    BY <1>0, Kept DEF InterShape
  <2>2. inter' \in Seq(Items) /\ Len(inter') \in {Len(inter), n} /\ DOMAIN inter' = 1..Len(inter')
    BY <1>0 DEF InterShape
  <2>3. t \in Threads /\ question \in [Threads -> 0..Len(inter)] /\ last \in [Threads -> 0..Len(inter)]
    BY DEF TypeInv, TypeOK, Record
  <2> QED
    BY <2>1, <2>2, <2>3, Kept
<1>21. /\ Len(inter) \in Nat /\ Len(inter') \in Nat /\ n \in Nat \ {0}
       /\ Len(inter') = Len(inter) \/ Len(inter') = n
       /\ \A u \in Threads : question[u] \in 0..Len(inter) /\ question[u] # n
  <2>1. Len(inter) \in Nat /\ (Len(inter') = Len(inter) \/ Len(inter') = n)
    BY <1>2
  <2>2. Len(inter') \in Nat /\ n \in Nat \ {0} /\ \A q \in 0..Len(inter) : q # n
    BY <2>1
  <2>3. \A u \in Threads : question[u] \in 0..Len(inter)
    BY <1>2
  <2> HIDE DEF n
  <2> QED
    BY <2>1, <2>2, <2>3
<1>22. ASSUME NEW q \in 1..Len(inter)
       PROVE  /\ \A j \in (q + 1)..Len(inter) : j \in 1..Len(inter)
              /\ \A j \in (q + 1)..Len(inter') : j \in (q + 1)..Len(inter) \/ (j = n /\ Len(inter') = n)
  BY <1>21
<1>23. \A i \in 1..Len(inter) : \A q \in 1..(i - 1) :
         q \in 1..Len(inter) /\ \A j \in (q + 1)..(i - 1) : j \in 1..Len(inter)
  BY <1>21
<1>3. \A i \in 1..Len(inter) :
        /\ i \in DOMAIN inter /\ i \in DOMAIN inter'
        /\ inter'[i].line = inter[i].line /\ inter'[i].thread = inter[i].thread
        /\ inter'[i].origin = inter[i].origin /\ inter'[i].link = inter[i].link
        /\ inter'[i].terminal = inter[i].terminal \/ inter[i].origin = "assistant_text"
  BY <1>0, BeforeKept
<1>4. \A i \in DOMAIN inter' : i \in 1..Len(inter) \/ (i = n /\ Len(inter') = n)
  <2>1. DOMAIN inter' = 1..Len(inter')
    BY <1>2
  <2>2. \A i \in 1..n : i \in 1..Len(inter) \/ i = n
    BY <1>21
  <2>3. CASE Len(inter') = Len(inter)
    BY <2>1, <2>3
  <2>4. CASE Len(inter') = n
    <3> HIDE DEF n
    <3> QED
      BY <2>1, <2>2, <2>4
  <2> QED
    BY <1>21, <2>3, <2>4
<1>5. ASSUME NEW u \in Threads, last'[u] # 0
      PROVE  last'[u] \in Replies(u)'
  <2>1. CASE last'[u] = last[u]
    <3>1. last[u] \in Replies(u)
      BY <1>5, <2>1 DEF QuestionInv
    <3>2. last[u] \in 1..Len(inter)
      BY <1>2, <3>1 DEF Replies
    <3> QED
      BY <1>3, <2>1, <3>1, <3>2 DEF Replies
  <2>2. CASE last'[u] # last[u]
    <3>1. u = t /\ last'[u] = n /\ Len(inter') = n /\ inter'[n].origin = "assistant_text"
      BY <1>0, <1>5, <2>2 DEF Added
    <3>2. n \in DOMAIN inter'
      BY <1>2, <3>1
    <3> QED
      BY <1>2, <3>1, <3>2 DEF Replies
  <2> QED
    BY <2>1, <2>2
<1>6. \A q \in 1..Len(inter) : \A u : IsQuestion(q, u)' <=> IsQuestion(q, u)
  BY <1>3 DEF IsQuestion
<1>7. ASSUME NEW u \in Threads, question'[u] # 0
      PROVE  /\ inter'[question'[u]].origin = "question" /\ inter'[question'[u]].thread = u
             /\ \A j \in (question'[u] + 1)..Len(inter') : inter'[j].thread = u =>
                  /\ inter'[j].terminal # "interrupted" \/ inter'[j].origin = "assistant_text"
                  /\ inter'[j].origin = "human_answer" => inter'[j].link # question'[u]
  <2>1. CASE question'[u] = question[u]
    <3> DEFINE q == question[u]
    <3>1. q \in 1..Len(inter)
      <4>1. q \in 0..Len(inter) /\ q # 0
        BY <1>21, <1>7, <2>1
      <4> QED
        BY <1>21, <4>1
    <3>2. IsQuestion(q, u) /\ Open(u, q, Len(inter))
      BY <1>7, <2>1 DEF QuestionInv
    <3>3. \A j \in (q + 1)..Len(inter) : j \in 1..Len(inter)
      BY <1>22, <3>1
    <3>4. \A j \in (q + 1)..Len(inter') : j \in (q + 1)..Len(inter) \/ (j = n /\ Len(inter') = n)
      BY <1>22, <3>1
    <3>5. u = t /\ Len(inter') = n =>
                 /\ inter'[n].terminal # "interrupted"
                 /\ inter'[n].origin = "human_answer" => inter'[n].link # q
      BY <1>0, <1>2, <1>7, <2>1 DEF Added
    <3> HIDE DEF q
    <3>6. \A j \in (q + 1)..Len(inter) : inter'[j].thread = u =>
                  /\ inter'[j].terminal # "interrupted" \/ inter'[j].origin = "assistant_text"
                  /\ inter'[j].origin = "human_answer" => inter'[j].link # q
      BY <1>3, <3>2, <3>3 DEF Open
    <3>7. \A j \in (q + 1)..Len(inter') : inter'[j].thread = u =>
                  /\ inter'[j].terminal # "interrupted" \/ inter'[j].origin = "assistant_text"
                  /\ inter'[j].origin = "human_answer" => inter'[j].link # q
      BY <1>2, <3>4, <3>5, <3>6
    <3> QED
      BY <1>3, <2>1, <3>1, <3>2, <3>7 DEF IsQuestion, q
  <2>2. CASE question'[u] # question[u]
    <3>1. u = t /\ question'[u] = n /\ Len(inter') = n /\ inter'[n].origin = "question"
      BY <1>0, <1>7, <2>2 DEF Added
    <3>2. (question'[u] + 1)..Len(inter') = {}
      BY <1>2, <3>1
    <3> QED
      BY <1>2, <3>1, <3>2
  <2> QED
    BY <2>1, <2>2
<1>8. Posed(r) => Len(inter') = n /\ inter'[n].origin = "question" /\ inter'[n].thread = t
  <2> SUFFICES ASSUME Posed(r)
               PROVE  Len(inter') = n /\ inter'[n].origin = "question" /\ inter'[n].thread = t
    OBVIOUS
  <2>1. question'[t] = n /\ question[t] # n /\ n # 0
    <3>1. question' = [question EXCEPT ![t] = n] /\ question \in [Threads -> 0..Len(inter)]
      BY DEF Posed, TypeInv, TypeOK
    <3>2. question'[t] = n
      BY <1>2, <3>1
    <3>3. question[t] # n /\ n # 0
      BY <1>2, <1>21
    <3> HIDE DEF n
    <3> QED
      BY <3>2, <3>3
  <2> QED
    BY <1>0, <1>2, <2>1 DEF Added
<1>9. ASSUME NEW a \in asked'
      PROVE  /\ a[1] \in Lines' /\ inter'[a[2]].origin = "question"
             /\ inter'[a[2]].thread = log'[a[1]].thread
  <2>1. CASE a \in asked
    <3>1. a[1] \in Lines /\ IsQuestion(a[2], log[a[1]].thread) /\ a[2] \in 1..Len(inter)
      BY <2>1 DEF QuestionInv, TypeInv, TypeOK
    <3> QED
      BY <1>1, <1>3, <3>1 DEF IsQuestion
  <2>2. CASE a \notin asked
    <3>1. Posed(r) /\ a = <<Line, n>>
      BY <1>0, <1>9, <2>2 DEF CallView
    <3>2. a[1] = Line /\ a[2] = n
      BY <3>1
    <3> QED
      BY <1>1, <1>8, <3>1, <3>2
  <2> QED
    BY <2>1, <2>2
<1>10. ASSUME source = "codex", NEW c \in pending', c.tool = "question"
       PROVE  inter'[c.link].origin = "question" /\ inter'[c.link].thread = log'[c.id].thread
  <2>1. CASE c \in pending
    <3>1. /\ c.id \in Lines /\ IsQuestion(c.link, log[c.id].thread)
          /\ c.link \in 0..Len(inter) /\ c.link # 0
      BY <1>10, <2>1, PendingCalls DEF QuestionInv, TypeInv, TypeOK
    <3>2. c.link \in 1..Len(inter)
      BY <1>21, <3>1
    <3> QED
      BY <1>1, <1>3, <3>1, <3>2 DEF IsQuestion
  <2>2. CASE c \notin pending
    <3>1. /\ r.kind = "call" /\ r.id # 0 /\ c.id = r.id /\ c.tool = r.what
          /\ r.what = "question" => c.link = n /\ Posed(r)
      BY <1>0, <1>10, <2>2 DEF CallView
    <3>2. log'[r.id].thread = t
      <4>1. CASE r.id = Line
        BY <1>1, <4>1
      <4>2. CASE r.id # Line
        <5>1. PICK d \in Lines : log[d].kind = "call" /\ log[d].id = r.id /\ log[d].thread = t
          BY <1>0, <3>1, <4>2 DEF CallView
        <5>2. r.id \in Lines /\ log[r.id].thread = t
          BY <3>1, <5>1 DEF CallInv
        <5> QED
          BY <1>1, <5>1, <5>2
      <4> QED
        BY <4>1, <4>2
    <3> QED
      BY <1>8, <1>10, <3>1, <3>2
  <2> QED
    BY <2>1, <2>2
<1>11. ASSUME NEW i \in DOMAIN inter', inter'[i].origin = "human_answer"
       PROVE  LET q == inter'[i].link IN
              /\ q \in 1..(i - 1) /\ inter'[q].origin = "question"
              /\ inter'[q].thread = inter'[i].thread
              /\ log'[inter'[i].line].kind = "user" =>
                   \A j \in (q + 1)..(i - 1) : inter'[j].thread = inter'[i].thread =>
                      /\ inter'[j].terminal # "interrupted" \/ inter'[j].origin = "assistant_text"
                      /\ inter'[j].origin = "human_answer" => inter'[j].link # q
  <2> DEFINE q == inter'[i].link
  <2>1. CASE i \in 1..Len(inter)
    <3>1. i \in DOMAIN inter /\ inter[i].origin = "human_answer" /\ inter[i].link = q
      BY <1>3, <1>11, <2>1
    <3>2. /\ q \in 1..(i - 1) /\ inter[q].origin = "question"
          /\ inter[q].thread = inter[i].thread
          /\ log[inter[i].line].kind = "user" =>
               \A j \in (q + 1)..(i - 1) : inter[j].thread = inter[i].thread =>
                  /\ inter[j].terminal # "interrupted" \/ inter[j].origin = "assistant_text"
                  /\ inter[j].origin = "human_answer" => inter[j].link # q
      BY <3>1 DEF QuestionInv, AnswersMeetQuestions
    <3>3. q \in 1..Len(inter) /\ \A j \in (q + 1)..(i - 1) : j \in 1..Len(inter)
      BY <1>23, <2>1, <3>2
    <3>4. inter[i].line \in Lines
      <4>1. inter[i] \in Items /\ inter[i].line <= Len(log)
        BY <3>1 DEF TypeInv
      <4> QED
        BY <1>1, <4>1, Kept DEF Items
    <3>5. log'[inter'[i].line] = log[inter[i].line] /\ inter'[i].thread = inter[i].thread
      BY <1>1, <1>3, <2>1, <3>4
    <3> HIDE DEF q
    <3> QED
      BY <1>3, <3>2, <3>3, <3>5 DEF q
  <2>2. CASE i = n /\ Len(inter') = n
    <3>1. /\ q \in 1..Len(inter) /\ IsQuestion(q, t)
          /\ r.kind = "user" => q = question[t]
      BY <1>0, <1>11, <2>2 DEF Added
    <3>2. log'[inter'[i].line] = r /\ inter'[i].thread = t
      BY <1>1, <1>2, <2>2
    <3>3. i - 1 = Len(inter) /\ \A j \in (q + 1)..Len(inter) : j \in 1..Len(inter)
      <4>1. i - 1 = Len(inter)
        BY <1>21, <2>2
      <4> QED
        BY <1>22, <3>1, <4>1
    <3>4. r.kind = "user" => Open(t, q, Len(inter))
      <4>1. question[t] # 0 => Open(t, question[t], Len(inter))
        BY <1>2 DEF QuestionInv
      <4>2. q # 0
        BY <3>1
      <4> HIDE DEF q
      <4> QED
        BY <3>1, <4>1, <4>2
    <3> HIDE DEF q
    <3>5. r.kind = "user" => \A j \in (q + 1)..Len(inter) : inter'[j].thread = t =>
                      /\ inter'[j].terminal # "interrupted" \/ inter'[j].origin = "assistant_text"
                      /\ inter'[j].origin = "human_answer" => inter'[j].link # q
      BY <1>3, <3>3, <3>4 DEF Open
    <3> QED
      BY <1>3, <3>1, <3>2, <3>3, <3>5 DEF q, IsQuestion
  <2> QED
    BY <1>4, <2>1, <2>2
<1>12. AnswersMeetQuestions'
  BY <1>11 DEF AnswersMeetQuestions
<1> QED
  BY <1>0, <1>5, <1>7, <1>9, <1>10, <1>12 DEF QuestionInv, IsQuestion, Open

LEMMA QuestionsFinished ==
    ASSUME TypeInv, QuestionInv, Finish
    PROVE  QuestionInv'
<1>1. /\ source' = source /\ log' = log /\ Lines' = Lines /\ question' = question /\ asked' = asked
      /\ pending' = {} /\ \A t \in Threads : last'[t] = 0
  BY DEF Finish, Lines
<1>2. /\ DOMAIN inter' = DOMAIN inter /\ Len(inter') = Len(inter) /\ DOMAIN inter = 1..Len(inter)
      /\ Len(inter) \in Nat
      /\ \A i \in DOMAIN inter :
           /\ inter'[i].line = inter[i].line /\ inter'[i].thread = inter[i].thread
           /\ inter'[i].origin = inter[i].origin /\ inter'[i].link = inter[i].link
  BY FinishShape, Kept
<1>3. \A i \in DOMAIN inter : inter'[i].terminal = inter[i].terminal \/ inter[i].origin = "assistant_text"
  <2> TAKE i \in DOMAIN inter
  <2>1. \A t \in Threads : last[t] = i => inter[i].origin = "assistant_text"
    <3>1. i # 0
      BY <1>2
    <3> QED
      BY <3>1 DEF QuestionInv, Replies
  <2> QED
    BY <2>1, FinishShape
<1>4. /\ \A t \in Threads : question[t] \in 0..Len(inter)
      /\ \A a \in asked : a[2] \in 1..Len(inter)
  BY DEF TypeInv, TypeOK
<1>5. \A q \in 1..Len(inter) : \A t : IsQuestion(q, t)' <=> IsQuestion(q, t)
  BY <1>2 DEF IsQuestion
<1>6. ASSUME NEW t \in Threads, question[t] # 0
      PROVE  /\ inter'[question[t]].origin = "question" /\ inter'[question[t]].thread = t
             /\ \A j \in (question[t] + 1)..Len(inter) : inter'[j].thread = t =>
                  /\ inter'[j].terminal # "interrupted" \/ inter'[j].origin = "assistant_text"
                  /\ inter'[j].origin = "human_answer" => inter'[j].link # question[t]
  <2> DEFINE q == question[t]
  <2>1. IsQuestion(q, t) /\ Open(t, q, Len(inter))
    BY <1>6 DEF QuestionInv
  <2>2. q \in DOMAIN inter /\ \A j \in (q + 1)..Len(inter) : j \in DOMAIN inter
    <3>1. q \in 0..Len(inter) /\ q # 0
      BY <1>4, <1>6
    <3> HIDE DEF q
    <3> QED
      BY <1>2, <3>1
  <2> HIDE DEF q
  <2>3. /\ inter'[q].origin = "question" /\ inter'[q].thread = t
        /\ \A j \in (q + 1)..Len(inter) : inter'[j].thread = t =>
                  /\ inter'[j].terminal # "interrupted" \/ inter'[j].origin = "assistant_text"
                  /\ inter'[j].origin = "human_answer" => inter'[j].link # q
    BY <1>2, <1>3, <2>1, <2>2 DEF IsQuestion, Open
  <2> QED
    BY <2>3 DEF q
<1>7. \A a \in asked : /\ a[1] \in Lines /\ inter'[a[2]].origin = "question"
                       /\ inter'[a[2]].thread = log[a[1]].thread
  BY <1>2, <1>4 DEF QuestionInv, IsQuestion
<1>8. ASSUME NEW i \in DOMAIN inter', inter'[i].origin = "human_answer"
      PROVE  LET q == inter'[i].link IN
              /\ q \in 1..(i - 1) /\ inter'[q].origin = "question"
              /\ inter'[q].thread = inter'[i].thread
              /\ log[inter'[i].line].kind = "user" =>
                   \A j \in (q + 1)..(i - 1) : inter'[j].thread = inter'[i].thread =>
                      /\ inter'[j].terminal # "interrupted" \/ inter'[j].origin = "assistant_text"
                      /\ inter'[j].origin = "human_answer" => inter'[j].link # q
  <2> DEFINE q == inter'[i].link
  <2>1. i \in DOMAIN inter /\ inter[i].origin = "human_answer" /\ inter[i].link = q
    BY <1>2, <1>8
  <2>2. /\ q \in 1..(i - 1) /\ inter[q].origin = "question"
        /\ inter[q].thread = inter[i].thread
        /\ log[inter[i].line].kind = "user" =>
             \A j \in (q + 1)..(i - 1) : inter[j].thread = inter[i].thread =>
                /\ inter[j].terminal # "interrupted" \/ inter[j].origin = "assistant_text"
                /\ inter[j].origin = "human_answer" => inter[j].link # q
    BY <2>1 DEF QuestionInv, AnswersMeetQuestions
  <2> HIDE DEF q
  <2>3. q \in DOMAIN inter /\ \A j \in (q + 1)..(i - 1) : j \in DOMAIN inter
    BY <1>2, <2>1, <2>2
  <2> QED
    BY <1>2, <1>3, <2>1, <2>2, <2>3 DEF q
<1>9. AnswersMeetQuestions'
  BY <1>1, <1>8 DEF AnswersMeetQuestions
<1> QED
  BY <1>1, <1>2, <1>6, <1>7, <1>9 DEF QuestionInv, IsQuestion, Open

QuestionIInv == RunsIInv /\ QuestionInv

LEMMA QuestionInit == Init => QuestionIInv
<1> SUFFICES ASSUME Init PROVE QuestionIInv
  OBVIOUS
<1>1. /\ DOMAIN inter = {} /\ asked = {} /\ pending = {}
      /\ \A t \in Threads : last[t] = 0 /\ question[t] = 0
  BY DEF Init
<1> QED
  BY <1>1, RunsInit DEF QuestionIInv, QuestionInv, AnswersMeetQuestions

LEMMA QuestionNext == QuestionIInv /\ [Next]_vars => QuestionIInv'
<1> SUFFICES ASSUME QuestionIInv, [Next]_vars PROVE QuestionIInv'
  OBVIOUS
<1>0. TypeInv /\ CallInv /\ PendInv /\ QuestionInv /\ RunsIInv
  BY DEF QuestionIInv, RunsIInv
<1>1. RunsIInv'
  BY <1>0, RunsNext
<1>2. CASE \E r \in Record : View(r)
  BY <1>0, <1>1, <1>2, QuestionsKept DEF QuestionIInv
<1>3. CASE Finish
  BY <1>0, <1>1, <1>3, QuestionsFinished DEF QuestionIInv
<1>4. CASE UNCHANGED vars
  BY <1>0, <1>1, <1>4
  DEF vars, QuestionIInv, QuestionInv, Replies, IsQuestion, Open, AnswersMeetQuestions, Lines
<1> QED
  BY <1>0, <1>2, <1>3, <1>4, Steps

\* An answer is linked to a question of its own thread, and one typed as a text
\* to a question nothing answered or interrupted since (_pending_question,
\* _question_by_tool_use_id and the pending calls of both parsers).
THEOREM AnswersAlwaysMeetQuestions == Spec => []AnswersMeetQuestions
<1>1. QuestionIInv => AnswersMeetQuestions
  BY DEF QuestionIInv, QuestionInv
<1> QED
  BY <1>1, QuestionInit, QuestionNext, PTL DEF Spec

-----------------------------------------------------------------------------
(* Terminal states *)

\* The end of a turn is the first record that ends it.
LEMMA LeastEnd ==
    ASSUME NEW S, S \subseteq Nat, S # {}
    PROVE  \E n \in S : \A m \in S : n <= m
<1> DEFINE Less == OpToRel(<, Nat)
<1>1. IsWellFoundedOn(Less, Nat)
  BY NatLessThanWellFounded
<1>2. PICK n \in S : \A m \in S : ~(<<m, n>> \in Less)
  <2> HIDE DEF Less
  <2> QED
    BY <1>1, WFMin
<1>3. \A m \in S : ~(m < n)
  BY <1>2 DEF OpToRel
<1> QED
  BY <1>3

LEMMA LeastChosen ==
    ASSUME NEW S, S \subseteq Nat, NEW n \in S, \A m \in S : n <= m
    PROVE  (CHOOSE k \in S : \A m \in S : k <= m) = n
<1>1. \A k \in S : (\A m \in S : k <= m) => k = n
  OBVIOUS
<1> QED
  BY <1>1

\* A record leaves the turn of its thread open, adds the reply that now trails
\* in it, or ends the turn and with it the trailing reply.
KeepsTurn(r) ==
    /\ last' = last
    /\ \A i \in 1..Len(inter) : inter'[i].terminal = inter[i].terminal
    /\ Len(inter') = Len(inter) + 1 => inter'[Len(inter) + 1].origin # "assistant_text"
    /\ \A n, u : n = Line => ~EndsTurn(n, u)'

AddsReply(r) ==
    /\ last' = [last EXCEPT ![r.thread] = Len(inter) + 1]
    /\ \A i \in 1..Len(inter) : inter'[i].terminal = inter[i].terminal
    /\ Len(inter') = Len(inter) + 1
    /\ LET new == inter'[Len(inter) + 1] IN
       new.origin = "assistant_text" /\ new.thread = r.thread /\ new.line = Line /\ new.terminal = "none"
    /\ \A n, u : n = Line => ~EndsTurn(n, u)'

EndsReply(r) ==
    /\ last' = [last EXCEPT ![r.thread] = 0]
    /\ \E state \in Terminals :
         /\ \A i \in 1..Len(inter) :
              /\ i # last[r.thread] => inter'[i].terminal = inter[i].terminal
              /\ i = last[r.thread] /\ inter[i].terminal = "none" => inter'[i].terminal = state
         /\ \A n : n = Line => StateOf(n)' = state
    /\ Len(inter') = Len(inter) + 1 => inter'[Len(inter) + 1].origin # "assistant_text"
    /\ \A n, u : n = Line => (EndsTurn(n, u)' <=> u = r.thread)

TurnView(r) == KeepsTurn(r) \/ AddsReply(r) \/ EndsReply(r)

LEMMA EndsTurnHere ==
    ASSUME TypeInv, NEW r \in Record, Reads(r), InterShape(r)
    PROVE  /\ \A n \in Lines : \A u : EndsTurn(n, u)' <=> EndsTurn(n, u)
           /\ \A n \in Lines : StateOf(n)' = StateOf(n)
           /\ \A n, u : n = Line =>
                (EndsTurn(n, u)' <=>
                   /\ r.thread = u
                   /\ Ending(r) \/ (Len(inter') = Len(inter) + 1
                                    /\ inter'[Len(inter) + 1].origin = "human_request"))
           /\ \A n : n = Line => StateOf(n)' =
                IF r.kind = "completed" THEN "completed"
                ELSE IF Ending(r) THEN "interrupted" ELSE "unknown"
<1>1. /\ \A n \in Lines : log'[n] = log[n] /\ n # Line
      /\ log'[Line] = r
  BY LogGrows
<1>2. /\ Len(inter) \in Nat /\ DOMAIN inter = 1..Len(inter) /\ DOMAIN inter' = 1..Len(inter')
      /\ Len(inter') \in Nat /\ (Len(inter') = Len(inter) \/ Len(inter') = Len(inter) + 1)
  <2>1. inter' \in Seq(Items) /\ (Len(inter') = Len(inter) \/ Len(inter') = Len(inter) + 1)
    BY DEF InterShape
  <2> QED
    BY <2>1, Kept
<1>3. /\ \A i \in DOMAIN inter : i \in DOMAIN inter' /\ inter'[i].line = inter[i].line
                                 /\ inter'[i].origin = inter[i].origin
      /\ \A i \in DOMAIN inter' : i \in DOMAIN inter \/ (i = Len(inter) + 1 /\ inter'[i].line = Line
                                                       /\ Len(inter') = Len(inter) + 1)
      /\ Len(inter') = Len(inter) + 1 => Len(inter) + 1 \in DOMAIN inter'
                                         /\ inter'[Len(inter) + 1].line = Line
  <2>1. \A i \in DOMAIN inter : i \in DOMAIN inter'
    <3>1. /\ Len(inter) \in Nat /\ Len(inter') \in Nat
          /\ Len(inter') = Len(inter) \/ Len(inter') = Len(inter) + 1
      BY <1>2
    <3>2. 1..Len(inter) \subseteq 1..Len(inter')
      BY <3>1
    <3> QED
      BY <1>2, <3>2
  <2>2. Len(inter') = Len(inter) + 1 => Len(inter) + 1 \in DOMAIN inter' /\ Len(inter) + 1 \notin DOMAIN inter
    BY <1>2
  <2>3. \A i \in DOMAIN inter' : i \in DOMAIN inter \/ (i = Len(inter) + 1 /\ Len(inter') = Len(inter) + 1)
    <3>1. CASE Len(inter') = Len(inter)
      BY <1>2, <3>1
    <3>2. CASE Len(inter') = Len(inter) + 1
      BY <1>2, <3>2
    <3> QED
      BY <1>2, <3>1, <3>2
  <2> QED
    BY <2>1, <2>2, <2>3 DEF InterShape
<1>4. \A i \in DOMAIN inter : inter[i].line # Line
  <2>1. \A i \in DOMAIN inter : inter[i] \in Items /\ inter[i].line <= Len(log)
    BY DEF TypeInv
  <2> QED
    BY <2>1, Kept DEF Items, Line
<1>5. \A n \in Lines : Requested(n)' <=> Requested(n)
  BY <1>1, <1>3 DEF Requested
<1>6. \A n : n = Line => (Requested(n)' <=> /\ Len(inter') = Len(inter) + 1
                                            /\ inter'[Len(inter) + 1].origin = "human_request")
  BY <1>3, <1>4 DEF Requested
<1>7. \A n \in Lines : \A u : EndsTurn(n, u)' <=> EndsTurn(n, u)
  BY <1>1, <1>5 DEF EndsTurn, Is
<1>8. \A n \in Lines : StateOf(n)' = StateOf(n)
  BY <1>1 DEF StateOf, Is
<1>9. \A n, u : n = Line =>
                (EndsTurn(n, u)' <=>
                   /\ r.thread = u
                   /\ Ending(r) \/ (Len(inter') = Len(inter) + 1
                                    /\ inter'[Len(inter) + 1].origin = "human_request"))
  BY <1>1, <1>6 DEF EndsTurn, Is, Ending
<1>10. \A n : n = Line => StateOf(n)' =
                IF r.kind = "completed" THEN "completed"
                ELSE IF Ending(r) THEN "interrupted" ELSE "unknown"
  BY <1>1 DEF StateOf, Is, Ending
<1> QED
  BY <1>7, <1>8, <1>9, <1>10

LEMMA TurnViewHere ==
    ASSUME TypeInv, NEW r \in Record, Reads(r), InterView(r), InterShape(r)
    PROVE  TurnView(r)
<1> DEFINE n == Len(inter) + 1
           t == r.thread
<1>1. /\ t \in Threads /\ Len(log) < MaxLines /\ Len(inter) \in Nat /\ 0 \in 0..Len(inter)
      /\ inter \in Seq(Items) /\ \A i \in 1..Len(inter) : inter[i] \in Items
      /\ question \in [Threads -> 0..Len(inter)] /\ last \in [Threads -> 0..Len(inter)]
  <2>1. Len(inter) \in Nat /\ 0 \in 0..Len(inter)
    BY Kept
  <2> QED
    BY <2>1 DEF TypeInv, TypeOK, Record, Reads
<1>2. ASSUME NEW origin \in Origins, NEW link \in 0..Len(inter), Emit(t, origin, link)
      PROVE  /\ Len(inter') = n /\ inter'[n].origin = origin /\ inter'[n].terminal = "none"
             /\ inter'[n].thread = t /\ inter'[n].line = Line
             /\ \A i \in 1..Len(inter) : inter'[i].terminal = inter[i].terminal
  <2> DEFINE item == Item(t, origin, link, "none")
  <2>1. /\ item \in Items /\ item.origin = origin /\ item.terminal = "none"
        /\ item.thread = t /\ item.line = Line
    BY <1>1, ItemHere DEF Terminals
  <2>2. inter' = Append(inter, item)
    BY <1>2 DEF Emit
  <2> HIDE DEF item
  <2> QED
    BY <1>1, <2>1, <2>2
<1>3. ASSUME NEW origin \in Origins \ {"assistant_text", "human_request"}, NEW link \in 0..Len(inter),
             Emit(t, origin, link), last' = last, ~Ending(r)
      PROVE  TurnView(r)
  <2>1. /\ Len(inter') = n /\ inter'[n].origin = origin
        /\ \A i \in 1..Len(inter) : inter'[i].terminal = inter[i].terminal
    BY <1>2, <1>3
  <2>2. \A m, u : m = Line => ~EndsTurn(m, u)'
    BY <1>3, <2>1, EndsTurnHere
  <2> QED
    BY <1>3, <2>1, <2>2 DEF TurnView, KeepsTurn
<1>4. ASSUME NEW state \in Terminals, NEW old, old = Closed(t, state),
             \/ inter' = old
             \/ \E item \in Items : inter' = Append(old, item) /\ item.origin # "assistant_text",
             last' = [last EXCEPT ![t] = 0],
             \A m : m = Line => StateOf(m)' = state,
             \A m, u : m = Line => (EndsTurn(m, u)' <=> u = t)
      PROVE  TurnView(r)
  <2>1. /\ old \in Seq(Items) /\ Len(old) = Len(inter)
        /\ \A i \in 1..Len(inter) :
             /\ i # last[t] => old[i].terminal = inter[i].terminal
             /\ i = last[t] /\ inter[i].terminal = "none" => old[i].terminal = state
    <3>1. /\ old \in Seq(Items) /\ Len(old) = Len(inter)
          /\ \A i \in 1..Len(inter) :
               old[i] = IF i = last[t] THEN Reterminalized(inter[i], state) ELSE inter[i]
      BY <1>1, <1>4, ClosedItems
    <3>2. \A i \in 1..Len(inter) : inter[i].terminal = "none" =>
             Reterminalized(inter[i], state).terminal = state
      BY <1>1, <1>4, SameBut
    <3> QED
      BY <3>1, <3>2
  <2>2. CASE inter' = old
    <3>1. Len(inter') # n
      BY <1>1, <2>1, <2>2
    <3> QED
      BY <1>4, <2>1, <2>2, <3>1 DEF TurnView, EndsReply
  <2>3. CASE \E item \in Items : inter' = Append(old, item) /\ item.origin # "assistant_text"
    <3>1. PICK item \in Items : inter' = Append(old, item) /\ item.origin # "assistant_text"
      BY <2>3
    <3>2. inter'[n] = item /\ \A i \in 1..Len(inter) : inter'[i] = old[i]
      BY <1>1, <2>1, <3>1
    <3> QED
      BY <1>4, <2>1, <3>1, <3>2 DEF TurnView, EndsReply
  <2> QED
    BY <1>4, <2>2, <2>3
<1>5. CASE Silent(r)
  <2>1. ~Ending(r) /\ inter' = inter /\ last' = last /\ Len(inter') # n
    BY <1>1, <1>5 DEF Silent
  <2>2. \A m, u : m = Line => ~EndsTurn(m, u)'
    BY <2>1, EndsTurnHere
  <2> QED
    BY <2>1, <2>2 DEF TurnView, KeepsTurn
<1>6. CASE Noted(r)
  <2>1. PICK origin \in {"tool_call", "tool_result", "harness", "quoted_history", "question"},
             link \in 0..Len(inter) : Emit(t, origin, link)
    BY <1>6 DEF Noted
  <2>2. origin \in Origins \ {"assistant_text", "human_request"} /\ last' = last /\ ~Ending(r)
    BY <1>6 DEF Noted, Origins
  <2> QED
    BY <1>3, <2>1, <2>2
<1>7. CASE Spoken(r)
  <2>1. /\ Emit(t, "assistant_text", 0) /\ "assistant_text" \in Origins /\ ~Ending(r)
        /\ last' = [last EXCEPT ![t] = n]
    BY <1>7 DEF Spoken, Origins, Ending
  <2>2. /\ Len(inter') = n /\ inter'[n].origin = "assistant_text" /\ inter'[n].terminal = "none"
        /\ inter'[n].thread = t /\ inter'[n].line = Line
        /\ \A i \in 1..Len(inter) : inter'[i].terminal = inter[i].terminal
    BY <1>1, <1>2, <2>1
  <2>3. \A m, u : m = Line => ~EndsTurn(m, u)'
    BY <2>1, <2>2, EndsTurnHere
  <2> QED
    BY <2>1, <2>2, <2>3 DEF TurnView, AddsReply
<1>8. CASE Posed(r)
  <2>1. /\ Emit(t, "question", 0) /\ "question" \in Origins \ {"assistant_text", "human_request"}
        /\ last' = last /\ ~Ending(r)
    BY <1>8 DEF Posed, Origins, Ending
  <2> QED
    BY <1>1, <1>3, <2>1
<1>9. CASE Returned(r)
  <2>1. PICK q \in 1..Len(inter) : Emit(t, "human_answer", q)
    BY <1>9 DEF Returned
  <2>2. q \in 0..Len(inter) /\ last' = last /\ ~Ending(r)
        /\ "human_answer" \in Origins \ {"assistant_text", "human_request"}
    BY <1>1, <1>9 DEF Returned, Origins, Ending
  <2> QED
    BY <1>3, <2>1, <2>2
<1>10. CASE Typed(r) /\ question[t] # 0
  <2>1. /\ Emit(t, "human_answer", question[t]) /\ last' = last /\ ~Ending(r)
        /\ "human_answer" \in Origins \ {"assistant_text", "human_request"}
    BY <1>10 DEF Typed, AnswerOrRequest, Origins, Ending
  <2> QED
    BY <1>1, <1>3, <2>1
<1>11. CASE Typed(r) /\ question[t] = 0
  <2>1. OpenTurn(t) /\ ~Ending(r) /\ r.kind # "completed"
    BY <1>11 DEF Typed, AnswerOrRequest, Ending
  <2>2. Request(t) \in Items /\ Request(t).origin = "human_request"
    BY <1>1, ItemHere DEF Terminals, Origins
  <2>3. inter' = Append(Closed(t, "unknown"), Request(t)) /\ "unknown" \in Terminals
        /\ last' = [last EXCEPT ![t] = 0]
    BY <2>1 DEF OpenTurn, Terminals, Request
  <2>4. Len(inter') = n /\ inter'[n] = Request(t)
    BY <1>1, <2>2, <2>3, ClosedItems
  <2>5. /\ \A m, u : m = Line => (EndsTurn(m, u)' <=> u = t)
        /\ \A m : m = Line => StateOf(m)' = "unknown"
    BY <2>1, <2>2, <2>4, EndsTurnHere
  <2> QED
    BY <1>4, <2>2, <2>3, <2>5
<1>12. CASE Cut(r)
  <2>1. "harness" \in Origins /\ "interrupted" \in Terminals
    BY DEF Terminals, Origins
  <2>2. Item(t, "harness", 0, "interrupted") \in Items
        /\ Item(t, "harness", 0, "interrupted").origin = "harness"
    BY <1>1, <2>1, ItemHere
  <2>3. /\ inter' = Append(Closed(t, "interrupted"), Item(t, "harness", 0, "interrupted"))
        /\ last' = [last EXCEPT ![t] = 0] /\ Ending(r) /\ r.kind # "completed"
    BY <1>12 DEF Cut
  <2>4. /\ \A m, u : m = Line => (EndsTurn(m, u)' <=> u = t)
        /\ \A m : m = Line => StateOf(m)' = "interrupted"
    BY <2>3, EndsTurnHere
  <2> QED
    BY <1>4, <2>1, <2>2, <2>3, <2>4
<1>13. CASE Completes(r)
  <2>1. /\ inter' = Closed(t, "completed") /\ last' = [last EXCEPT ![t] = 0]
        /\ Ending(r) /\ r.kind = "completed" /\ "completed" \in Terminals
    BY <1>13 DEF Completes, Ending, Terminals
  <2>2. /\ \A m, u : m = Line => (EndsTurn(m, u)' <=> u = t)
        /\ \A m : m = Line => StateOf(m)' = "completed"
    BY <2>1, EndsTurnHere
  <2> QED
    BY <1>4, <2>1, <2>2
<1> QED
  BY <1>5, <1>6, <1>7, <1>8, <1>9, <1>10, <1>11, <1>12, <1>13 DEF InterView, Typed

LEMMA RepliesKept ==
    ASSUME TypeInv, QuestionInv, ReplyInv, NEW r \in Record, View(r)
    PROVE  ReplyInv'
<1> DEFINE n == Len(inter) + 1
           t == r.thread
<1>0. Reads(r) /\ InterView(r) /\ InterShape(r) /\ TurnView(r) /\ ~done /\ ~done'
  BY ViewShape, TurnViewHere DEF View, Reads
<1>1. /\ Len(inter) \in Nat /\ Len(inter') \in Nat /\ n \in Nat \ {0}
      /\ Len(inter') = Len(inter) \/ Len(inter') = n
  <2>1. inter' \in Seq(Items) /\ (Len(inter') = Len(inter) \/ Len(inter') = n)
    BY <1>0 DEF InterShape
  <2> QED
    BY <2>1, Kept
<1>2. /\ DOMAIN inter = 1..Len(inter) /\ DOMAIN inter' = 1..Len(inter')
      /\ 1..Len(inter) \subseteq 1..Len(inter') /\ n \notin 1..Len(inter)
      /\ \A i \in DOMAIN inter' : i \in 1..Len(inter) \/ (i = n /\ Len(inter') = n)
  <2>1. DOMAIN inter = 1..Len(inter) /\ DOMAIN inter' = 1..Len(inter')
    BY <1>0, Kept DEF InterShape
  <2>2. 1..Len(inter) \subseteq 1..Len(inter') /\ n \notin 1..Len(inter)
    BY <1>1
  <2>3. \A i \in 1..n : i \in 1..Len(inter) \/ i = n
    BY <1>1
  <2> HIDE DEF n
  <2> QED
    BY <1>1, <2>1, <2>2, <2>3
<1>3. /\ Lines = 1..Len(log) /\ Len(log) \in Nat /\ Line = Len(log) + 1 /\ Len(log') = Line
      /\ t \in Threads
  BY <1>0, LogGrows, Kept DEF Line, Record
<1>4. \A i \in 1..Len(inter) :
        /\ inter'[i].line = inter[i].line /\ inter'[i].thread = inter[i].thread
        /\ inter'[i].origin = inter[i].origin
        /\ inter[i].line \in 1..Len(log) /\ inter[i].thread \in Threads
  <2>0. \A i \in 1..Len(inter) : inter[i] \in Items
    BY DEF TypeInv
  <2>1. \A i \in 1..Len(inter) : inter[i] \in Items /\ inter[i].line <= Len(log)
    BY <1>2, <2>0 DEF TypeInv
  <2>2. \A i \in 1..Len(inter) : inter[i].line \in 1..Len(log) /\ inter[i].thread \in Threads
    BY <1>3, <2>1 DEF Items
  <2> QED
    BY <1>0, <1>2, <2>2 DEF InterShape
<1>5. /\ \A k \in 1..Len(log) : \A u : EndsTurn(k, u)' <=> EndsTurn(k, u)
      /\ \A k \in 1..Len(log) : StateOf(k)' = StateOf(k)
  BY <1>0, <1>3, EndsTurnHere
\* The ends of the replies so far: those it had, and this record for the replies
\* of the thread whose turn it ends.
<1>6. ASSUME NEW u, NEW i \in 1..Len(inter), inter[i].thread = u
      PROVE  Ends(i)' = Ends(i) \cup {k \in {Line} : EndsTurn(k, u)'}
  <2>1. Ends(i)' = {k \in (inter[i].line + 1)..Line : EndsTurn(k, u)'}
    BY <1>3, <1>4, <1>6 DEF Ends
  <2>2. Ends(i) = {k \in (inter[i].line + 1)..Len(log) : EndsTurn(k, u)'}
    <3>1. (inter[i].line + 1)..Len(log) \subseteq 1..Len(log)
      BY <1>3, <1>4
    <3> QED
      BY <1>5, <1>6, <3>1 DEF Ends
  <2>3. (inter[i].line + 1)..Line = ((inter[i].line + 1)..Len(log)) \cup {Line}
    BY <1>3, <1>4
  <2> QED
    BY <2>1, <2>2, <2>3
<1>7. \A i \in 1..Len(inter) : Ends(i) \subseteq 1..Len(log) /\ Ends(i) \subseteq Nat
  <2>1. \A i \in 1..Len(inter) : (inter[i].line + 1)..Len(log) \subseteq 1..Len(log)
    BY <1>3, <1>4
  <2> QED
    BY <1>3, <2>1 DEF Ends
<1>8. \A u : \A i \in 1..Len(inter) : i \in Replies(u)' <=> i \in Replies(u)
  BY <1>2, <1>4 DEF Replies
<1>9. \A u \in Threads : \A i \in Replies(u) :
         i \in 1..Len(inter) /\ inter[i].thread = u /\ i # 0 /\ i # n
  <2> HIDE DEF n
  <2> QED
    BY <1>2 DEF Replies
\* A reply that was final stays final unless another one follows it.
<1>10. ASSUME NEW u, NEW i \in 1..Len(inter), inter[i].thread = u
       PROVE  FinalReply(i)' <=>
                /\ FinalReply(i)
                /\ n \in Replies(u)' => \E k \in Ends(i)' : k < inter'[n].line
  <2>1. FinalReply(i)' <=> \A j \in Replies(u)' : j > i => \E k \in Ends(i)' : k < inter'[j].line
    BY <1>4, <1>10 DEF FinalReply
  <2>2. \A j \in 1..Len(inter) :
           (\E k \in Ends(i)' : k < inter'[j].line) <=> (\E k \in Ends(i) : k < inter[j].line)
    <3> TAKE j \in 1..Len(inter)
    <3>1. inter'[j].line = inter[j].line /\ ~(Line < inter[j].line)
      BY <1>3, <1>4
    <3> QED
      BY <1>6, <1>10, <3>1
  <2>3. \A j \in Replies(u)' : j \in Replies(u) \/ j = n
    <3> HIDE DEF n
    <3> QED
      BY <1>2, <1>8 DEF Replies
  <2>4. \A j \in Replies(u) : j \in Replies(u)' /\ j \in 1..Len(inter)
    BY <1>2, <1>8 DEF Replies
  <2>5. n > i
    BY <1>1
  <2> HIDE DEF n
  <2> QED
    BY <1>10, <2>1, <2>2, <2>3, <2>4, <2>5 DEF FinalReply
\* The record a reply ended with stays the same when more come.
<1>11. ASSUME NEW i \in 1..Len(inter), Ends(i) # {}
       PROVE  StateOf(EndOf(i))' = StateOf(EndOf(i))
  <2>1. PICK k \in Ends(i) : \A m \in Ends(i) : k <= m
    BY <1>7, <1>11, LeastEnd
  <2>2. EndOf(i) = k
    <3> DEFINE S == Ends(i)
    <3>1. S \subseteq Nat /\ k \in S /\ \A m \in S : k <= m
      BY <1>7, <2>1
    <3> HIDE DEF S
    <3>2. (CHOOSE l \in S : \A m \in S : l <= m) = k
      BY <3>1, LeastChosen
    <3> QED
      BY <3>2 DEF EndOf, S
  <2>3. EndOf(i)' = k
    <3> DEFINE S == Ends(i)'
    <3>1. S \subseteq Nat /\ k \in S /\ \A m \in S : k <= m
      <4>1. k \in 1..Len(log) /\ Line \in Nat /\ k <= Line
        BY <1>3, <1>7, <2>1
      <4> QED
        BY <1>6, <1>7, <2>1, <4>1
    <3> HIDE DEF S
    <3>2. (CHOOSE l \in S : \A m \in S : l <= m) = k
      BY <3>1, LeastChosen
    <3> QED
      BY <3>2 DEF EndOf, S
  <2>4. k \in 1..Len(log)
    BY <1>7, <2>1
  <2> QED
    BY <1>5, <2>2, <2>3, <2>4 DEF StateOf, Is
<1>12. ASSUME NEW u \in Threads, NEW i \in Replies(u),
              \A k : k = Line => ~EndsTurn(k, u)', n \notin Replies(u)' \/ Ends(i) # {}
       PROVE  /\ Ends(i)' = Ends(i) /\ (FinalReply(i)' <=> FinalReply(i))
  <2>1. i \in 1..Len(inter) /\ inter[i].thread = u
    BY <1>9
  <2>2. Ends(i)' = Ends(i)
    BY <1>6, <1>12, <2>1
  <2>3. n \in Replies(u)' => \E k \in Ends(i)' : k < inter'[n].line
    <3> SUFFICES ASSUME n \in Replies(u)' PROVE \E k \in Ends(i)' : k < inter'[n].line
      OBVIOUS
    <3>1. inter'[n].line = Line
      BY <1>0, <1>2 DEF InterShape, Replies
    <3>2. PICK k \in Ends(i) : TRUE
      BY <1>12
    <3>3. k \in 1..Len(log) /\ k < Line
      BY <1>3, <1>7, <2>1
    <3> QED
      BY <2>2, <3>1, <3>3
  <2> QED
    BY <1>10, <2>1, <2>2, <2>3
<1> DEFINE Right(i, u) ==
             /\ i = last[u] <=> FinalReply(i) /\ Ends(i) = {}
             /\ inter[i].terminal = IF FinalReply(i) /\ Ends(i) # {} THEN StateOf(EndOf(i)) ELSE "none"
<1>13. \A u \in Threads : \A i \in Replies(u) : Right(i, u)
  BY <1>0 DEF ReplyInv
<1>14. ASSUME NEW u \in Threads, NEW i \in Replies(u), Ends(i)' = Ends(i),
              FinalReply(i)' <=> FinalReply(i), i = last'[u] <=> i = last[u],
              inter'[i].terminal = inter[i].terminal
       PROVE  Right(i, u)'
  <2>1. i \in 1..Len(inter)
    BY <1>9
  <2>2. Ends(i) # {} => StateOf(EndOf(i))' = StateOf(EndOf(i))
    BY <1>11, <2>1
  <2> QED
    BY <1>13, <1>14, <2>2
<1>15. ASSUME Len(inter') = n => inter'[n].origin # "assistant_text"
       PROVE  \A u \in Threads : n \notin Replies(u)' /\ Replies(u)' = Replies(u)
  <2> HIDE DEF n
  <2> TAKE u \in Threads
  <2>1. n \notin Replies(u)'
    <3>1. n \in DOMAIN inter' => Len(inter') = n
      BY <1>2
    <3> QED
      BY <1>15, <3>1 DEF Replies
  <2>2. \A i \in Replies(u)' : i \in 1..Len(inter)
    <3>1. Replies(u)' \subseteq DOMAIN inter'
      BY DEF Replies
    <3> QED
      BY <1>2, <2>1, <3>1
  <2>3. Replies(u) \subseteq 1..Len(inter)
    BY <1>2 DEF Replies
  <2> QED
    BY <1>8, <2>1, <2>2, <2>3
<1>16. CASE KeepsTurn(r)
  <2>0. /\ Len(inter') = n => inter'[n].origin # "assistant_text"
        /\ \A i \in 1..Len(inter) : inter'[i].terminal = inter[i].terminal
        /\ last' = last /\ \A k, u : k = Line => ~EndsTurn(k, u)'
    BY <1>16 DEF KeepsTurn
  <2> HIDE DEF n
  <2>1. \A u \in Threads : n \notin Replies(u)' /\ Replies(u)' = Replies(u)
    BY <1>15, <2>0
  <2> SUFFICES ASSUME NEW u \in Threads, NEW i \in Replies(u) PROVE Right(i, u)'
    BY <1>0, <2>1 DEF ReplyInv
  <2>2. i \in 1..Len(inter) /\ inter'[i].terminal = inter[i].terminal /\ (i = last'[u] <=> i = last[u])
    BY <1>9, <2>0
  <2>3. Ends(i)' = Ends(i) /\ (FinalReply(i)' <=> FinalReply(i))
    BY <1>12, <2>0, <2>1
  <2> QED
    BY <1>14, <2>2, <2>3
<1>17. CASE AddsReply(r)
  <2>0. /\ Len(inter') = n /\ inter'[n].origin = "assistant_text" /\ inter'[n].thread = t
        /\ inter'[n].line = Line /\ inter'[n].terminal = "none"
        /\ \A i \in 1..Len(inter) : inter'[i].terminal = inter[i].terminal
        /\ last' = [last EXCEPT ![t] = n] /\ \A k, u : k = Line => ~EndsTurn(k, u)'
    BY <1>17 DEF AddsReply
  <2>1. /\ n \in Replies(t)' /\ \A u \in Threads : u # t => n \notin Replies(u)'
        /\ \A u \in Threads : \A i \in Replies(u)' : i = n \/ i \in Replies(u)
        /\ last \in [Threads -> 0..Len(inter)]
        /\ DOMAIN inter' = 1..n
    <3>1. n \in 1..n
      BY <1>1
    <3> HIDE DEF n
    <3>2. n \in DOMAIN inter'
      BY <1>2, <2>0, <3>1
    <3> QED
      BY <1>2, <1>8, <2>0, <3>2 DEF Replies, TypeInv, TypeOK
  <2>2. last'[t] = n /\ \A u \in Threads : u # t => last'[u] = last[u]
    BY <1>3, <2>0, <2>1
  <2> SUFFICES ASSUME NEW u \in Threads, NEW i \in Replies(u)' PROVE Right(i, u)'
    BY <1>0 DEF ReplyInv
  <2>3. CASE i = n
    <3>1. u = t
      BY <2>1, <2>3
    <3>2. \A j \in Replies(u)' : ~(j > n)
      <4>1. \A j \in 1..n : ~(j > n)
        BY <1>1
      <4> HIDE DEF n
      <4> QED
        BY <2>1, <4>1 DEF Replies
    <3>3. FinalReply(i)'
      BY <2>0, <2>3, <3>1, <3>2 DEF FinalReply
    <3>4. Ends(i)' = {}
      <4>1. (Line + 1)..Line = {}
        BY <1>3
      <4> QED
        BY <1>3, <2>0, <2>3, <4>1 DEF Ends
    <3> QED
      BY <2>0, <2>2, <2>3, <3>1, <3>3, <3>4
  <2>4. CASE i # n /\ (u # t \/ Ends(i) # {})
    <3>1. i \in Replies(u) /\ i \in 1..Len(inter)
      BY <1>9, <2>1, <2>4
    <3>2. i = last'[u] <=> i = last[u]
      BY <1>13, <2>2, <2>4, <3>1
    <3>3. Ends(i)' = Ends(i) /\ (FinalReply(i)' <=> FinalReply(i))
      BY <1>12, <2>0, <2>1, <2>4, <3>1
    <3> QED
      BY <1>14, <2>0, <3>1, <3>2, <3>3
  <2>5. CASE i # n /\ u = t /\ Ends(i) = {}
    <3>1. i \in Replies(u) /\ i \in 1..Len(inter) /\ inter[i].thread = u
      BY <1>9, <2>1, <2>5
    <3>2. Ends(i)' = {}
      BY <1>6, <2>0, <2>5, <3>1
    <3>3. ~FinalReply(i)'
      BY <1>10, <2>1, <2>5, <3>1, <3>2
    <3>4. inter'[i].terminal = "none"
      BY <1>13, <2>0, <2>5, <3>1
    <3> QED
      BY <2>2, <2>5, <3>2, <3>3, <3>4
  <2> QED
    BY <2>3, <2>4, <2>5
<1>18. CASE EndsReply(r)
  <2>0. PICK state \in Terminals :
         /\ \A i \in 1..Len(inter) :
              /\ i # last[t] => inter'[i].terminal = inter[i].terminal
              /\ i = last[t] /\ inter[i].terminal = "none" => inter'[i].terminal = state
         /\ \A k : k = Line => StateOf(k)' = state
    BY <1>18 DEF EndsReply
  <2>1. /\ Len(inter') = n => inter'[n].origin # "assistant_text"
        /\ last' = [last EXCEPT ![t] = 0] /\ \A k, u : k = Line => (EndsTurn(k, u)' <=> u = t)
    BY <1>18 DEF EndsReply
  <2>2. \A u \in Threads : n \notin Replies(u)' /\ Replies(u)' = Replies(u)
    BY <1>15, <2>1
  <2>3. last'[t] = 0 /\ \A u \in Threads : u # t => last'[u] = last[u]
    BY <1>3, <2>1 DEF TypeInv, TypeOK
  <2> SUFFICES ASSUME NEW u \in Threads, NEW i \in Replies(u) PROVE Right(i, u)'
    BY <1>0, <2>2 DEF ReplyInv
  <2>4. i \in 1..Len(inter) /\ inter[i].thread = u /\ i # 0
    BY <1>9
  <2>5. CASE u # t
    <3>1. last[t] # i
      <4>1. last[t] = i => i \in Replies(t)
        BY <1>3, <2>4 DEF QuestionInv
      <4>2. i \in Replies(t) => inter[i].thread = t
        BY DEF Replies
      <4> QED
        BY <2>4, <2>5, <4>1, <4>2
    <3>2. Ends(i)' = Ends(i) /\ (FinalReply(i)' <=> FinalReply(i))
      BY <1>12, <2>1, <2>2, <2>5
    <3> QED
      BY <1>14, <2>0, <2>3, <2>4, <2>5, <3>1, <3>2
  <2>6. CASE u = t
    <3>1. FinalReply(i)' <=> FinalReply(i)
      BY <1>10, <2>2, <2>4
    <3>2. Ends(i)' = Ends(i) \cup {Line}
      BY <1>6, <2>1, <2>4, <2>6
    <3>3. CASE ~FinalReply(i)
      BY <1>13, <2>0, <2>3, <2>4, <2>6, <3>1, <3>2, <3>3
    <3>4. CASE FinalReply(i) /\ Ends(i) # {}
      BY <1>11, <1>13, <2>0, <2>3, <2>4, <2>6, <3>1, <3>2, <3>4
    <3>5. CASE FinalReply(i) /\ Ends(i) = {}
      <4>1. i = last[t] /\ inter[i].terminal = "none" /\ inter'[i].terminal = state
        BY <1>13, <2>0, <2>4, <2>6, <3>5
      <4>2. \A k : k = Line => EndOf(i)' = k
        <5>1. Ends(i)' = {Line}
          BY <3>2, <3>5
        <5>2. \A k, S : k = Line /\ S = {k} => (CHOOSE l \in S : \A m \in S : l <= m) = k
          BY <1>3
        <5> QED
          BY <5>1, <5>2 DEF EndOf
      <4>3. \A k : EndOf(i)' = k => StateOf(EndOf(i))' = StateOf(k)'
        BY DEF StateOf, Is
      <4>4. StateOf(EndOf(i))' = state
        BY <2>0, <4>2, <4>3
      <4> QED
        BY <2>3, <2>4, <2>6, <3>1, <3>2, <3>5, <4>1, <4>4
    <3> QED
      BY <3>3, <3>4, <3>5
  <2> QED
    BY <2>5, <2>6
<1> QED
  BY <1>0, <1>16, <1>17, <1>18 DEF TurnView

\* When the parse ends, a reply still trailing in an open turn becomes unknown,
\* and of the unknown ones some are proved complete by the history database.
LEMMA RepliesFinished ==
    ASSUME TypeInv, QuestionInv, ReplyInv, Finish
    PROVE  ReplyInv'
<1>0. ~done /\ done' /\ log' = log /\ source' = source
  BY DEF Finish
<1>1. /\ DOMAIN inter' = DOMAIN inter
      /\ \A i \in DOMAIN inter :
           /\ inter'[i].line = inter[i].line /\ inter'[i].thread = inter[i].thread
           /\ inter'[i].origin = inter[i].origin
           /\ \/ inter'[i].terminal = FinishedReplies[i].terminal
              \/ /\ source = "codex" /\ FinishedReplies[i].terminal = "unknown"
                 /\ inter'[i].terminal = "completed"
           /\ FinishedReplies[i].terminal =
                IF (\E t \in Threads : last[t] = i) /\ inter[i].terminal = "none"
                THEN "unknown" ELSE inter[i].terminal
      /\ \A i \in DOMAIN inter : i # 0
  <2>1. \A i \in DOMAIN inter : i # 0
    BY Kept DEF TypeInv
  <2> QED
    BY <2>1, FinishShape
<1>2. \A u : Replies(u)' = Replies(u) /\ Replies(u) \subseteq DOMAIN inter
  BY <1>1 DEF Replies
<1>3. \A k, u : EndsTurn(k, u)' <=> EndsTurn(k, u)
  BY <1>0, <1>1 DEF EndsTurn, Is, Requested
<1>4. \A k : StateOf(k)' = StateOf(k)
  BY <1>0 DEF StateOf, Is
<1>5. \A i \in DOMAIN inter : Ends(i)' = Ends(i)
  BY <1>0, <1>1, <1>3 DEF Ends
<1>6. \A i \in DOMAIN inter : FinalReply(i)' <=> FinalReply(i)
  BY <1>1, <1>2, <1>5 DEF FinalReply
<1>7. \A i \in DOMAIN inter : StateOf(EndOf(i))' = StateOf(EndOf(i))
  <2> TAKE i \in DOMAIN inter
  <2>1. EndOf(i)' = EndOf(i)
    BY <1>5 DEF EndOf
  <2> QED
    BY <1>0, <2>1 DEF StateOf, Is
<1> SUFFICES ASSUME NEW t \in Threads, NEW i \in Replies(t)
             PROVE  LET state == IF ~FinalReply(i) THEN "none"
                                 ELSE IF Ends(i) # {} THEN StateOf(EndOf(i)) ELSE "unknown"
                    IN  \/ inter'[i].terminal = state
                        \/ source = "codex" /\ state = "unknown" /\ inter'[i].terminal = "completed"
  <2> HIDE DEF QuestionInv
  <2> QED
    BY <1>0, <1>2, <1>5, <1>6, <1>7 DEF ReplyInv, TerminalsAsRecorded
<1>8. i \in DOMAIN inter /\ i # 0
  BY <1>1, <1>2
<1>9. (\E u \in Threads : last[u] = i) <=> last[t] = i
  BY <1>8 DEF QuestionInv, Replies
<1>10. /\ i = last[t] <=> FinalReply(i) /\ Ends(i) = {}
       /\ inter[i].terminal = IF FinalReply(i) /\ Ends(i) # {} THEN StateOf(EndOf(i)) ELSE "none"
  BY <1>0 DEF ReplyInv
<1>11. CASE ~FinalReply(i)
  BY <1>1, <1>8, <1>9, <1>10, <1>11
<1>12. CASE FinalReply(i) /\ Ends(i) # {}
  BY <1>1, <1>8, <1>9, <1>10, <1>12
<1>13. CASE FinalReply(i) /\ Ends(i) = {}
  BY <1>1, <1>8, <1>9, <1>10, <1>13
<1> QED
  BY <1>11, <1>12, <1>13

ReplyIInv == QuestionIInv /\ ReplyInv

LEMMA RepliesAsRecorded == ReplyInv => TerminalsAsRecorded
  BY DEF ReplyInv, TerminalsAsRecorded

LEMMA ReplyInit == Init => ReplyIInv
<1> SUFFICES ASSUME Init PROVE ReplyIInv
  OBVIOUS
<1>1. inter = <<>> /\ ~done
  BY DEF Init
<1>2. \A t : Replies(t) = {}
  BY <1>1 DEF Replies
<1> QED
  BY <1>1, <1>2, QuestionInit DEF ReplyIInv, ReplyInv

LEMMA ReplyNext == ReplyIInv /\ [Next]_vars => ReplyIInv'
<1> SUFFICES ASSUME ReplyIInv, [Next]_vars PROVE ReplyIInv'
  OBVIOUS
<1>0. TypeInv /\ QuestionInv /\ ReplyInv /\ QuestionIInv
  BY DEF ReplyIInv, QuestionIInv, RunsIInv
<1>1. QuestionIInv'
  BY <1>0, QuestionNext
<1>2. CASE \E r \in Record : View(r)
  BY <1>0, <1>1, <1>2, RepliesKept DEF ReplyIInv
<1>3. CASE Finish
  BY <1>0, <1>1, <1>3, RepliesFinished DEF ReplyIInv
<1>4. CASE UNCHANGED vars
  <2>1. log' = log /\ inter' = inter /\ done' = done /\ last' = last /\ source' = source
    BY <1>4 DEF vars
  <2>2. \A t : Replies(t)' = Replies(t)
    BY <2>1 DEF Replies
  <2>3. \A k, u : EndsTurn(k, u)' <=> EndsTurn(k, u)
    BY <2>1 DEF EndsTurn, Is, Requested
  <2>4. \A i : Ends(i)' = Ends(i)
    BY <2>1, <2>3 DEF Ends
  <2>5. \A i : /\ FinalReply(i)' <=> FinalReply(i)
               /\ EndOf(i)' = EndOf(i)
    BY <2>1, <2>2, <2>4 DEF FinalReply, EndOf
  <2>6. \A i : StateOf(EndOf(i))' = StateOf(EndOf(i))
    BY <2>1, <2>5 DEF StateOf, Is
  <2>7. ReplyInv'
    BY <1>0, <2>1, <2>2, <2>4, <2>5, <2>6 DEF ReplyInv, TerminalsAsRecorded
  <2> QED
    BY <1>1, <2>7 DEF ReplyIInv
<1> QED
  BY <1>0, <1>2, <1>3, <1>4, Steps

\* A reply is final exactly when its turn ends with it and carries the state of
\* the record that ended the turn, in either parser; only the history database
\* completes one more (_set_terminal, finish and _apply_codex_completion).
THEOREM TerminalsAlwaysAsRecorded == Spec => []TerminalsAsRecorded
<1>1. ReplyIInv => TerminalsAsRecorded
  BY RepliesAsRecorded DEF ReplyIInv
<1> QED
  BY <1>1, ReplyInit, ReplyNext, PTL DEF Spec

=============================================================================
