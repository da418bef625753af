------------------------------ MODULE Episodes ------------------------------
(***************************************************************************)
(* Execution episodes (twill_episodes.py) and the autonomy assessments made *)
(* from them (twill_autonomy.py).                                           *)
(*                                                                          *)
(* _derive reads the interaction rows of one session in order; each action  *)
(* here is one row. A text is the class its wording falls in, the actions   *)
(* it names (a verb and an object) and one mark: a hold, a restriction or a *)
(* wait in its wording, or that the text was cut when it was stored.        *)
(***************************************************************************)
EXTENDS Naturals, Sequences, FiniteSets

CONSTANTS
    Actions,
    Unnamed,
    MaxRows,
    MaxRare,        \* rows beyond requests, approvals, status, answers, one question
                    \* and one claim: with a mark, an ending, or no action
    MaxEpisodes

ASSUME EpisodesAssumption ==
    /\ Unnamed \notin Actions
    /\ MaxRows \in Nat /\ MaxRare \in Nat /\ MaxEpisodes \in Nat

Marks == {"none", "hold", "restrict", "wait", "cut"}
Cuts == {"none", "cut"}

\* Kinds of assertion the assessment reads.
Adverse == {"permission_hold", "approval_withheld", "external_wait", "revocation",
            "observed_completion", "scope_change"}

Fact == [kind : Adverse \cup {"explicit_approval", "status_exchange", "scope_restriction"},
         action : Actions \cup {Unnamed}, at : 1..MaxRows]

\* A request whose wording is a plain instruction names its objective.
Episode == [start : 1..MaxRows, end : 1..MaxRows, actions : SUBSET Actions, plain : BOOLEAN,
            authority : {"authorized", "withheld", "revoked", "unknown"},
            known : BOOLEAN,        \* context_state
            lifecycle : {"active", "cancelled", "completed", "superseded"},
            facts : SUBSET Fact]

Claims == {"offer", "reapproval", "abandon", "blocked", "completed", "check"}

VARIABLES
    rows,           \* rows read so far
    episodes,
    active,         \* the open episode, 0 for none
    questions,      \* questions asked in an episode: row, episode and action
    claims,         \* rows of the agent and its tools the shortlist looks for;
                    \* during is the episode that was open
    rare,           \* rows counted for MaxRare
    held,           \* the last row is a text of the human that holds the work
    withdrawn       \* the last row where the human held, refused or ended what
                    \* was open, 0 for none

episodesVars == <<rows, episodes, active, questions, claims, rare, held, withdrawn>>

EpisodesTypeOK ==
    /\ rows \in 0..MaxRows
    /\ episodes \in Seq(Episode)
    /\ active \in 0..Len(episodes)
    /\ questions \subseteq [at : 1..rows, episode : DOMAIN episodes, action : Actions \cup {Unnamed}]
    /\ claims \subseteq [at : 1..rows, say : Claims, action : Actions \cup {Unnamed},
                         proved : BOOLEAN, during : 0..Len(episodes)]
    /\ rare \in 0..MaxRare
    /\ held \in BOOLEAN
    /\ withdrawn \in 0..rows

EpisodesInit ==
    /\ rows = 0 /\ episodes = <<>> /\ active = 0
    /\ questions = {} /\ claims = {}
    /\ rare = 0 /\ held = FALSE /\ withdrawn = 0

Here == rows + 1
Open == episodes[active]

\* The next row, with a mark, that withdraws what was granted or does not.
Read(mark, withdraws, isRare) ==
    /\ rows < MaxRows /\ rows' = Here
    /\ IF isRare THEN rare < MaxRare /\ rare' = rare + 1 ELSE UNCHANGED rare
    /\ held' = (mark = "hold")
    /\ withdrawn' = IF withdraws THEN Here ELSE withdrawn

ReadRow == Read("none", FALSE, FALSE)
ReadText(mark) == Read(mark, mark = "hold", mark # "none")

FactAt(kind, action) == [kind |-> kind, action |-> action, at |-> Here]

-----------------------------------------------------------------------------
(* What a text does to an episode *)

\* A restriction, a hold or a wait in the text of a human, or one that was cut.
Marked(e, mark) ==
    CASE mark = "hold"     -> [e EXCEPT !.authority = "withheld",
                                        !.facts = @ \cup {FactAt("permission_hold", Unnamed)}]
      [] mark = "restrict" -> [e EXCEPT !.facts = @ \cup {FactAt("scope_restriction", Unnamed)}]
      [] mark = "wait"     -> [e EXCEPT !.facts = @ \cup {FactAt("external_wait", Unnamed)}]
      [] mark = "cut"      -> [e EXCEPT !.known = FALSE]
      [] OTHER             -> e

\* Mutant: an approval is enough for several actions.
ApprovedWhole(e, action) ==
    [e EXCEPT !.authority = "authorized",
              !.facts = @ \cup {FactAt("explicit_approval", action)}]

\* Only the approval of the one pending action changes the authority.
Approved(e, action) ==
    [e EXCEPT !.authority = IF Cardinality(e.actions) = 1 THEN "authorized" ELSE @,
              !.facts = @ \cup {FactAt("explicit_approval", action)}]

Closed(e, lifecycle, kind) ==
    [e EXCEPT !.end = Here, !.lifecycle = lifecycle,
              !.authority = IF lifecycle = "completed" THEN @ ELSE "revoked",
              !.facts = @ \cup {FactAt(kind, Unnamed)}]

Kinds == {"request", "advice", "approval"}

\* An approval that opens an episode is kept with its wording, not its action.
\* Advice names no action, and nothing is missing in it.
New(kind, actions, plain) ==
    [start |-> Here, end |-> Here, actions |-> actions, plain |-> plain,
     authority |-> IF actions = {} THEN "unknown" ELSE "authorized",
     known |-> actions # {} \/ kind = "advice", lifecycle |-> "active",
     facts |-> IF kind = "approval" THEN {FactAt("explicit_approval", Unnamed)} ELSE {}]

-----------------------------------------------------------------------------
(* human_request rows of the main thread *)

Keep(e) == episodes' = [episodes EXCEPT ![active] = [e EXCEPT !.end = Here]]

\* Texts that leave the open episode open. A dated instruction and a settled
\* decision are recorded and nothing else in them is looked at.
Note(mark) ==
    /\ active # 0 /\ ReadText(mark)
    /\ Keep(Marked(Open, mark))
    /\ UNCHANGED <<active, questions, claims>>

Decision(mark) ==
    /\ active # 0 /\ Read(mark, FALSE, mark # "none")
    /\ Keep(Open)
    /\ UNCHANGED <<active, questions, claims>>

Status ==
    /\ ReadRow
    /\ IF active = 0 THEN UNCHANGED episodes
       ELSE Keep([Open EXCEPT !.facts = @ \cup {FactAt("status_exchange", Unnamed)}])
    /\ UNCHANGED <<active, questions, claims>>

Resumes(action) ==
    \/ action \in Open.actions /\ Open.authority = "authorized"
    \/ Open.plain /\ Open.actions = {action}

\* An exact resume, or with Unnamed a generic continuation.
Resume(action) ==
    /\ active # 0 /\ (action = Unnamed \/ Resumes(action)) /\ ReadRow
    /\ Keep(Open)
    /\ UNCHANGED <<active, questions, claims>>

Approve(action) ==
    /\ active # 0 /\ action \in Open.actions /\ ReadRow
    /\ Keep(Approved(Open, action))
    /\ UNCHANGED <<active, questions, claims>>

\* "Cancel", a cancellation of a pending action, or "that is done".
Close(lifecycle, kind) ==
    /\ Read("none", TRUE, TRUE)
    /\ IF active = 0 THEN UNCHANGED episodes
       ELSE episodes' = [episodes EXCEPT ![active] = Closed(@, lifecycle, kind)]
    /\ active' = 0
    /\ UNCHANGED <<questions, claims>>

\* Mutant: the episode that is replaced stays open beside the new one.
SupersededNever(replaces) == episodes

Superseded(replaces) ==
    IF active = 0 THEN episodes
    ELSE [episodes EXCEPT ![active] =
            IF replaces THEN Closed(@, "superseded", "scope_change")
            ELSE [@ EXCEPT !.end = Here, !.lifecycle = "superseded"]]

\* Everything else opens an episode: an instruction, a request for advice, an
\* approval of something that was not pending, and any text that names no action
\* exactly. One that replaces the task says so and then opens in the same way.
Opens(kind, actions, mark, replaces) ==
    /\ Len(episodes) < MaxEpisodes
    /\ Read(mark, mark = "hold", replaces \/ mark # "none" \/ kind # "request" \/ actions = {})
    /\ kind = "advice" => actions = {}
    /\ replaces => active # 0
    \* A hold that names no action is a note to the open episode.
    /\ active # 0 /\ mark = "hold" => kind = "request" /\ actions # {} /\ ~replaces
    /\ active # 0 /\ kind = "approval" /\ ~replaces => \A action \in Open.actions : actions # {action}
    /\ episodes' = Append(Superseded(replaces),
                          Marked(New(kind, actions, kind = "request" /\ mark # "hold"), mark))
    /\ active' = Len(episodes) + 1
    /\ UNCHANGED <<questions, claims>>

Request ==
    \/ \E mark \in {"hold", "restrict", "wait"} : Note(mark)
    \/ \E mark \in {"none", "hold"} : Decision(mark)
    \/ Status
    \/ \E action \in Actions \cup {Unnamed} : Resume(action)
    \/ \E action \in Actions : Approve(action)
    \/ Close("cancelled", "revocation")
    \/ Close("completed", "observed_completion")
    \/ \E kind \in Kinds, actions \in SUBSET Actions, mark \in Marks, replaces \in BOOLEAN :
         Opens(kind, actions, mark, replaces)

-----------------------------------------------------------------------------
(* Questions and answers *)

Ask(action, mark) ==
    /\ active # 0 /\ Read(mark, FALSE, mark # "none" \/ action = Unnamed \/ questions # {})
    /\ Keep(Marked(Open, mark))
    /\ questions' = questions \cup {[at |-> Here, episode |-> active, action |-> action]}
    /\ UNCHANGED <<active, claims>>

\* Mutant: a late yes revives what was cancelled.
AnsweredAnyway(e, q, say) ==
    IF q.action \notin e.actions THEN e
    ELSE CASE say = "yes" -> Approved(e, q.action)
           [] say = "no" /\ e.lifecycle = "active" ->
                [e EXCEPT !.authority = "withheld",
                          !.facts = @ \cup {FactAt("approval_withheld", q.action)}]
           [] OTHER -> e

\* What an answer to q says about its episode.
Answered(e, q, say) ==
    IF q.action \notin e.actions THEN e
    ELSE CASE say = "yes" /\ e.authority # "revoked" -> Approved(e, q.action)
           [] say = "no" /\ e.lifecycle = "active" ->
                [e EXCEPT !.authority = "withheld",
                          !.facts = @ \cup {FactAt("approval_withheld", q.action)}]
           [] OTHER -> e

AfterAnswer(q, say) ==
    [episodes EXCEPT ![q.episode] = [Answered(@, q, say) EXCEPT !.end = Here]]

\* "Yes" has no mark; "do not proceed" is a no and a hold.
AnswerMarks(say) ==
    CASE say = "yes" -> Cuts
      [] say = "no"  -> Cuts \cup {"hold"}
      [] OTHER       -> Marks

\* An answer finds its question's episode, however long ago that was; a mark in
\* it applies to the episode that is open now.
Answer(q, say, mark) ==
    /\ Read(mark, mark = "hold" \/ (say = "no" /\ q.episode = active /\ q.action \in Open.actions),
            mark # "none" \/ say = "other")
    /\ episodes' = IF active = 0 THEN AfterAnswer(q, say)
                   ELSE [AfterAnswer(q, say) EXCEPT ![active] = Marked(@, mark)]
    /\ UNCHANGED <<active, questions, claims>>

UnmatchedAnswer(mark) ==
    /\ active # 0 /\ Read(mark, mark = "hold", TRUE)
    /\ episodes' = [episodes EXCEPT ![active] = [Marked(@, mark) EXCEPT !.known = FALSE]]
    /\ UNCHANGED <<active, questions, claims>>

-----------------------------------------------------------------------------
(* Rows nobody typed in the main thread *)

\* A hold in harness or quoted text makes the context unknown, no more.
QuotedHold ==
    /\ active # 0 /\ Read("cut", FALSE, TRUE)
    /\ episodes' = [episodes EXCEPT ![active] = Marked(@, "cut")]
    /\ UNCHANGED <<active, questions, claims>>

\* Prose of the agent or a tool result; proved is a completed terminal state.
Claim(say, action, proved, mark) ==
    /\ mark = "none" \/ active # 0
    /\ Read(mark, FALSE, mark # "none" \/ claims # {})
    /\ claims' = claims \cup {[at |-> Here, say |-> say, action |-> action,
                              proved |-> proved, during |-> active]}
    /\ IF active = 0 THEN UNCHANGED episodes ELSE Keep(Marked(Open, mark))
    /\ UNCHANGED <<active, questions>>

ToolWaits ==
    /\ active # 0 /\ Read("wait", FALSE, TRUE)
    /\ Keep(Marked(Open, "wait"))
    /\ UNCHANGED <<active, questions, claims>>

EpisodesNext ==
    \/ Request
    \/ \E action \in Actions \cup {Unnamed}, mark \in Cuts : Ask(action, mark)
    \/ \E q \in questions, say \in {"yes", "no", "other"} :
         \E mark \in AnswerMarks(say) : Answer(q, say, mark)
    \/ \E mark \in Marks : UnmatchedAnswer(mark)
    \/ QuotedHold
    \/ ToolWaits
    \/ \E say \in Claims \ {"completed"}, action \in Actions, proved \in BOOLEAN, mark \in Cuts :
         (proved => say \in {"offer", "reapproval"}) /\ Claim(say, action, proved, mark)
    \/ \E mark \in Cuts : Claim("completed", Unnamed, FALSE, mark)

EpisodesSpec == EpisodesInit /\ [][EpisodesNext]_episodesVars

-----------------------------------------------------------------------------
(* Assessment *)

Says(family) ==
    CASE family = "D-12" -> {"offer", "reapproval"}
      [] family = "D-13" -> {"reapproval"}
      [] family = "D-15" -> {"abandon"}
      [] family = "D-16" -> {"blocked"}

Families == {"D-12", "D-13", "D-15", "D-16"}

Within(e) == {c \in claims : e.start <= c.at /\ c.at <= e.end}

Shortlisted(e, family) ==
    {c \in Within(e) : c.say \in Says(family) /\ c.action \in e.actions}

\* One candidate of a family: the first.
Candidate(e, family) ==
    {c \in Shortlisted(e, family) : \A d \in Shortlisted(e, family) : c.at <= d.at}

Evidence(e, c, family) ==
    CASE family = "D-12" -> c.proved
      [] family = "D-13" -> c.proved /\ \E f \in e.facts : f.kind = "explicit_approval"
                                           /\ f.action = c.action /\ f.at < c.at
      [] family = "D-15" -> \E f \in e.facts : f.kind = "status_exchange" /\ f.at < c.at
      [] family = "D-16" -> \E d \in Within(e) : d.say = "check" /\ d.action = c.action

\* Mutant: the lifecycle of the episode is not asked.
SupportedWhatever(e, c, family) ==
    /\ e.authority = "authorized" /\ e.known
    /\ \A f \in e.facts : f.kind \notin Adverse \cup {"scope_restriction"}
    /\ \A d \in Within(e) : d.say # "completed"
    /\ Evidence(e, c, family)

Supported(e, c, family) ==
    /\ e.authority = "authorized" /\ e.known
    /\ \A f \in e.facts : f.kind \notin Adverse \cup {"scope_restriction"}
    /\ e.lifecycle = "active"
    /\ \A d \in Within(e) : d.say # "completed"
    /\ Evidence(e, c, family)

-----------------------------------------------------------------------------
(* Properties *)

\* A grant of the human that no hold, no "no" and no cancellation came after.
Granted(e) ==
    LET approvals == {f.at : f \in {g \in e.facts : g.kind = "explicit_approval"}}
        grants == {e.start} \cup (IF Cardinality(e.actions) = 1 THEN approvals ELSE {})
    IN  \E g \in grants : \A f \in e.facts :
          f.kind \in {"permission_hold", "approval_withheld", "revocation", "scope_change"}
            => f.at < g

\* What an episode is authorized to do was granted last, and approving one of
\* several actions never brings back what was withheld
\* (docs/notes/episode-contract.md, authority_state).
GrantIsTheLastWord ==
    \A k \in DOMAIN episodes : episodes[k].authority = "authorized" => Granted(episodes[k])

\* At most one episode is open, and it is the last one: whatever ends an
\* outcome ends it before the next begins (_derive).
OneOpenEpisode ==
    \A k \in DOMAIN episodes :
        episodes[k].lifecycle = "active" <=> k = active /\ k = Len(episodes)

\* A supported candidate is a claim made while its episode was open, though the
\* span of an episode grows over later ones when an old question is answered;
\* and since the episode began the human has said nothing that withdraws what
\* was granted: no hold outside of a settled decision, no "no" to a question
\* about it and no cancellation (_assess).
SupportIsCurrent ==
    \A k \in DOMAIN episodes, family \in Families :
        \A c \in Candidate(episodes[k], family) :
            Supported(episodes[k], c, family) => c.during = k /\ withdrawn < episodes[k].start

\* A revocation is final, also for an answer that comes later.
RevokedForGood ==
    [][\A k \in DOMAIN episodes :
         episodes[k].authority = "revoked" => episodes'[k].authority = "revoked"]_episodesVars

\* docs/notes/episode-contract.md:29: "An explicit permission hold defeats an
\* inferred grant." The code looks for none in a settled decision ("Decision:
\* do not proceed") or a dated instruction: TLC refutes it (README).
HoldDefeatsGrant == held /\ active # 0 => Open.authority # "authorized"

=============================================================================
