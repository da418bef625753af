--------------------------- MODULE AutonomyProofs ---------------------------
(***************************************************************************)
(* Proofs about the two halves of autonomy, which share no state: the       *)
(* episodes a session shows, and the operator's decisions about candidates. *)
(*                                                                          *)
(* Episodes, for sessions of any length and any actions: at most one        *)
(* episode is open, what it authorizes was granted last, nothing revoked    *)
(* comes back, and what an assessment supports is current.                  *)
(*                                                                          *)
(* Adjudication, for any candidates, assessments, errors and kills: what a  *)
(* finding rests on, that committed history stays, that the database        *)
(* follows the commit, and that a failure leaves a readable tree.           *)
(***************************************************************************)
EXTENDS Episodes, Adjudication, SequenceTheorems, TLAPS

-----------------------------------------------------------------------------
(* Episodes *)

Withdrawals == {"permission_hold", "approval_withheld", "revocation", "scope_change"}

\* What holds of each episode when n rows were read.
Sane(e, n) ==
    /\ e.start <= n
    /\ \A f \in e.facts : f.at <= n
    /\ e.authority = "revoked" => e.lifecycle # "active"
    /\ e.authority = "authorized" => Granted(e)

\* What a row that neither closes nor opens an episode makes of one.
Continues(e, f) ==
    /\ f \in Episode
    /\ f.start = e.start /\ f.lifecycle = e.lifecycle /\ e.facts \subseteq f.facts
    /\ e.authority = "revoked" => f.authority = "revoked"
    /\ Sane(f, Here)

\* A claim of the agent since the open episode began was made in it.
ClaimsPlaced ==
    active # 0 => \A c \in claims : c.at >= Open.start => c.during = active

\* Facts that say the human withheld what was open.
Withholds(facts) == \E f \in facts : f.kind \in {"permission_hold", "approval_withheld"}

\* What the human withdrew since the open episode began is among its facts.
WithdrawalNoted == active # 0 /\ withdrawn >= Open.start => Withholds(Open.facts)

EpisodesInv ==
    /\ EpisodesTypeOK
    /\ \A k \in DOMAIN episodes : Sane(episodes[k], rows)
    /\ active # 0 => active = Len(episodes)
    /\ OneOpenEpisode
    /\ ClaimsPlaced
    /\ WithdrawalNoted

-----------------------------------------------------------------------------
(* What texts do to one episode *)

LEMMA EpisodeFields ==
    ASSUME NEW e \in Episode
    PROVE  /\ e.start \in Nat /\ e.end \in 1..MaxRows /\ e.start \in 1..MaxRows
           /\ e.actions \subseteq Actions /\ e.facts \subseteq Fact
           /\ e.plain \in BOOLEAN /\ e.known \in BOOLEAN
           /\ e.authority \in {"authorized", "withheld", "revoked", "unknown"}
           /\ e.lifecycle \in {"active", "cancelled", "completed", "superseded"}
           /\ \A f \in e.facts : f.at \in Nat
BY DEF Episode, Fact

\* Facts that withdraw nothing, and fields beside the grant, keep it.
LEMMA GrantStays ==
    ASSUME NEW e \in Episode, NEW f \in Episode, Granted(e),
           f.start = e.start, f.actions = e.actions, e.facts \subseteq f.facts,
           \A x \in f.facts : x.kind \in Withdrawals => x \in e.facts
    PROVE  Granted(f)
<1> DEFINE Approvals(d) == {x.at : x \in {g \in d.facts : g.kind = "explicit_approval"}}
           Grants(d) == {d.start} \cup (IF Cardinality(d.actions) = 1 THEN Approvals(d) ELSE {})
<1>1. PICK g \in Grants(e) : \A x \in e.facts : x.kind \in Withdrawals => x.at < g
  BY DEF Granted, Withdrawals
<1>2. Approvals(e) \subseteq Approvals(f)
  OBVIOUS
<1>3. g \in Grants(f)
  BY <1>1, <1>2
<1>4. \A x \in f.facts : x.kind \in Withdrawals => x.at < g
  BY <1>1
<1> HIDE DEF Grants, Approvals
<1>5. \E h \in Grants(f) : \A x \in f.facts : x.kind \in Withdrawals => x.at < h
  BY <1>3, <1>4
<1>6. QED BY <1>5 DEF Granted, Withdrawals, Grants, Approvals

\* A fact of this row, that withdraws nothing.
LEMMA FactHere ==
    ASSUME rows \in Nat, rows < MaxRows, MaxRows \in Nat,
           NEW kind \in Adverse \cup {"explicit_approval", "status_exchange", "scope_restriction"},
           NEW a \in Actions \cup {Unnamed}
    PROVE  /\ FactAt(kind, a) \in Fact /\ FactAt(kind, a).at = Here
           /\ FactAt(kind, a).kind = kind /\ Here \in Nat /\ Here \in 1..MaxRows /\ rows < Here
BY DEF FactAt, Fact, Here

\* A row that only moves an episode's end, or makes its context unknown.
LEMMA EndMoves ==
    ASSUME rows \in Nat, rows < MaxRows, MaxRows \in Nat,
           NEW e \in Episode, Sane(e, rows) \/ Sane(e, Here),
           NEW f, f \in {e, [e EXCEPT !.end = Here], [e EXCEPT !.known = FALSE]}
    PROVE  Continues(e, f)
<1>1. Here \in 1..MaxRows /\ Here \in Nat /\ rows < Here
  BY DEF Here
<1>2. /\ f \in Episode /\ f.start = e.start /\ f.lifecycle = e.lifecycle
      /\ f.authority = e.authority /\ f.facts = e.facts /\ f.actions = e.actions
  BY <1>1 DEF Episode
<1>3. Sane(e, Here)
  BY <1>1, EpisodeFields DEF Sane
<1>4. e.authority = "authorized" => Granted(f)
  BY <1>2, <1>3, GrantStays DEF Sane
<1>5. QED BY <1>2, <1>3, <1>4 DEF Continues, Sane

\* A fact that withdraws nothing is added.
LEMMA FactAdded ==
    ASSUME rows \in Nat, rows < MaxRows, MaxRows \in Nat,
           NEW e \in Episode, Sane(e, Here),
           NEW kind \in {"status_exchange", "scope_restriction", "external_wait", "explicit_approval",
                         "observed_completion"},
           NEW a \in Actions \cup {Unnamed}
    PROVE  Continues(e, [e EXCEPT !.facts = @ \cup {FactAt(kind, a)}])
<1> DEFINE f == [e EXCEPT !.facts = @ \cup {FactAt(kind, a)}]
<1>1. FactAt(kind, a) \in Fact /\ FactAt(kind, a).at = Here /\ FactAt(kind, a).kind = kind /\ Here \in Nat
  BY FactHere DEF Adverse
<1>2. /\ f \in Episode /\ f.start = e.start /\ f.lifecycle = e.lifecycle /\ f.actions = e.actions
      /\ f.authority = e.authority /\ f.facts = e.facts \cup {FactAt(kind, a)}
  BY <1>1 DEF Episode
<1>3. \A x \in f.facts : x.kind \in Withdrawals => x \in e.facts
  BY <1>1, <1>2 DEF Withdrawals
<1> HIDE DEF f
<1>4. e.authority = "authorized" => Granted(f)
  BY <1>2, <1>3, GrantStays DEF Sane
<1>5. QED BY <1>1, <1>2, <1>4 DEF Continues, Sane, f

\* Authority is withheld with a fact that says why.
LEMMA Withheld ==
    ASSUME rows \in Nat, rows < MaxRows, MaxRows \in Nat,
           NEW e \in Episode, Sane(e, Here), e.lifecycle = "active",
           NEW kind \in {"permission_hold", "approval_withheld"}, NEW a \in Actions \cup {Unnamed}
    PROVE  Continues(e, [e EXCEPT !.authority = "withheld", !.facts = @ \cup {FactAt(kind, a)}])
<1> DEFINE f == [e EXCEPT !.authority = "withheld", !.facts = @ \cup {FactAt(kind, a)}]
<1>1. FactAt(kind, a) \in Fact /\ FactAt(kind, a).at = Here /\ Here \in Nat
  BY FactHere DEF Adverse
<1>2. /\ f \in Episode /\ f.start = e.start /\ f.lifecycle = e.lifecycle
      /\ f.authority = "withheld" /\ f.facts = e.facts \cup {FactAt(kind, a)}
  BY <1>1 DEF Episode
<1>3. e.authority # "revoked"
  BY DEF Sane
<1> HIDE DEF f
<1>4. QED BY <1>1, <1>2, <1>3 DEF Continues, Sane, f

\* A mark in a text, in the open episode.
LEMMA MarkedContinues ==
    ASSUME rows \in Nat, rows < MaxRows, MaxRows \in Nat,
           NEW e \in Episode, Sane(e, Here), e.lifecycle = "active", NEW mark \in Marks
    PROVE  Continues(e, Marked(e, mark))
<1>1. CASE mark = "hold"
  BY <1>1, Withheld DEF Marked
<1>2. CASE mark = "restrict"
  BY <1>2, FactAdded DEF Marked
<1>3. CASE mark = "wait"
  BY <1>3, FactAdded DEF Marked
<1>4. CASE mark = "none"
  BY <1>4, EndMoves DEF Marked
<1>5. CASE mark = "cut"
  BY <1>5, EndMoves DEF Marked
<1>6. QED BY <1>1, <1>2, <1>3, <1>4, <1>5 DEF Marks

\* A hold leaves its fact.
LEMMA HoldNoted ==
    ASSUME NEW e \in Episode
    PROVE  Withholds(Marked(e, "hold").facts)
<1>1. Marked(e, "hold").facts = e.facts \cup {FactAt("permission_hold", Unnamed)}
  BY DEF Marked, Episode
<1>2. FactAt("permission_hold", Unnamed).kind = "permission_hold"
  BY DEF FactAt
<1>3. QED BY <1>1, <1>2 DEF Withholds

\* An approval is the last word on an episode of one action, and changes
\* nothing else about the authority.
LEMMA ApprovedContinues ==
    ASSUME rows \in Nat, rows < MaxRows, MaxRows \in Nat,
           NEW e \in Episode, Sane(e, rows), e.authority # "revoked", NEW a \in Actions
    PROVE  Continues(e, Approved(e, a))
<1>1. FactAt("explicit_approval", a) \in Fact /\ FactAt("explicit_approval", a).at = Here
      /\ FactAt("explicit_approval", a).kind = "explicit_approval" /\ Here \in Nat /\ rows < Here
  BY FactHere
<1>2. Sane(e, Here)
  BY <1>1, EpisodeFields DEF Sane
<1>3. CASE Cardinality(e.actions) # 1
  <2>1. Approved(e, a) = [e EXCEPT !.facts = @ \cup {FactAt("explicit_approval", a)}]
    BY <1>3 DEF Approved, Episode
  <2>2. QED BY <2>1, <1>2, FactAdded
<1>4. CASE Cardinality(e.actions) = 1
  <2> DEFINE f == Approved(e, a)
             approvals == {x.at : x \in {g \in f.facts : g.kind = "explicit_approval"}}
  <2>1. /\ f \in Episode /\ f.start = e.start /\ f.lifecycle = e.lifecycle /\ f.actions = e.actions
        /\ f.authority = "authorized" /\ f.facts = e.facts \cup {FactAt("explicit_approval", a)}
    BY <1>1, <1>4 DEF Approved, Episode
  <2> HIDE DEF f
  <2>2. Here \in approvals
    BY <1>1, <2>1
  <2>3. \A x \in f.facts : x.kind \in Withdrawals => x.at < Here
    <3> SUFFICES ASSUME NEW x \in f.facts, x.kind \in Withdrawals PROVE x.at < Here
      OBVIOUS
    <3>1. x \in e.facts
      BY <1>1, <2>1 DEF Withdrawals
    <3>2. x.at \in Nat /\ x.at <= rows
      BY <3>1, EpisodeFields DEF Sane
    <3>3. QED BY <3>2, <1>1
  <2>4. Granted(f)
    BY <2>1, <2>2, <2>3, <1>4 DEF Granted, Withdrawals
  <2>5. QED BY <1>1, <1>2, <2>1, <2>4 DEF Continues, Sane, f
<1>5. QED BY <1>3, <1>4

LEMMA ContinuesTwice ==
    ASSUME NEW e, NEW f, NEW g, Continues(e, f), Continues(f, g)
    PROVE  Continues(e, g)
BY DEF Continues

LEMMA AnsweredContinues ==
    ASSUME rows \in Nat, rows < MaxRows, MaxRows \in Nat,
           NEW e \in Episode, Sane(e, rows), NEW q, q.action \in Actions \cup {Unnamed},
           NEW say \in {"yes", "no", "other"}
    PROVE  Continues(e, Answered(e, q, say))
<1>0. Sane(e, Here)
  BY EpisodeFields DEF Sane, Here
<1>1. CASE q.action \in e.actions /\ say = "yes" /\ e.authority # "revoked"
  BY <1>1, ApprovedContinues, EpisodeFields DEF Answered
<1>2. CASE q.action \in e.actions /\ say = "no" /\ e.lifecycle = "active"
  BY <1>2, <1>0, Withheld DEF Answered
<1>3. CASE /\ ~(q.action \in e.actions /\ say = "yes" /\ e.authority # "revoked")
           /\ ~(q.action \in e.actions /\ say = "no" /\ e.lifecycle = "active")
  BY <1>3, EndMoves DEF Answered
<1>4. QED BY <1>1, <1>2, <1>3

-----------------------------------------------------------------------------
(* What rows do to the episodes of a session *)

\* Every episode continues, and the open one stays open.
Continuing ==
    /\ rows' = Here /\ active' = active
    /\ episodes' \in Seq(Episode) /\ Len(episodes') = Len(episodes)
    /\ \A k \in DOMAIN episodes : Continues(episodes[k], episodes'[k])

\* No episode is open any more.
AllEnded(es) ==
    /\ es \in Seq(Episode) /\ Len(es) = Len(episodes)
    /\ \A k \in DOMAIN episodes :
         /\ Sane(es[k], Here) /\ es[k].lifecycle # "active"
         /\ episodes[k].authority = "revoked" => es[k].authority = "revoked"

\* What reading a row does beside the episodes.
RowRead ==
    /\ rows < MaxRows /\ rows' = Here
    /\ rare' \in 0..MaxRare /\ held' \in BOOLEAN
    /\ withdrawn' \in {withdrawn, Here}

\* A row that withdraws says so in the open episode.
Noted == withdrawn' = withdrawn \/ (active # 0 => Withholds(episodes'[active].facts))

Question == [at : 1..Here, episode : DOMAIN episodes, action : Actions \cup {Unnamed}]
Claimed == [at : 1..Here, say : Claims, action : Actions \cup {Unnamed}, proved : BOOLEAN,
            during : 0..Len(episodes)]

LEMMA Facts ==
    ASSUME EpisodesInv, rows < MaxRows
    PROVE  /\ rows \in Nat /\ MaxRows \in Nat /\ Here \in 1..MaxRows
           /\ episodes \in Seq(Episode) /\ DOMAIN episodes = 1..Len(episodes) /\ Len(episodes) \in Nat
           /\ active \in 0..Len(episodes)
           /\ \A k \in DOMAIN episodes : episodes[k] \in Episode /\ Sane(episodes[k], rows)
                                         /\ Sane(episodes[k], Here)
           /\ active # 0 => active \in DOMAIN episodes /\ Open.lifecycle = "active"
<1>1. rows \in Nat /\ MaxRows \in Nat /\ Here \in 1..MaxRows
  BY EpisodesAssumption DEF EpisodesInv, EpisodesTypeOK, Here
<1>2. episodes \in Seq(Episode) /\ DOMAIN episodes = 1..Len(episodes) /\ Len(episodes) \in Nat
  BY DEF EpisodesInv, EpisodesTypeOK
<1>3. active \in 0..Len(episodes)
  BY <1>2 DEF EpisodesInv, EpisodesTypeOK
<1>4. \A k \in DOMAIN episodes : episodes[k] \in Episode /\ Sane(episodes[k], rows)
  BY <1>2 DEF EpisodesInv
<1>5. \A k \in DOMAIN episodes : Sane(episodes[k], Here)
  BY <1>1, <1>4, EpisodeFields DEF Sane, Here
<1>6. active # 0 => active \in DOMAIN episodes /\ Open.lifecycle = "active"
  BY <1>2, <1>3 DEF EpisodesInv, OneOpenEpisode, Open
<1>7. QED BY <1>1, <1>2, <1>3, <1>4, <1>5, <1>6

LEMMA SameEpisodes ==
    ASSUME EpisodesInv, rows < MaxRows, rows' = Here, active' = active, episodes' = episodes
    PROVE  Continuing
<1>1. \A k \in DOMAIN episodes : Continues(episodes[k], episodes[k])
  BY Facts, EndMoves
<1>2. QED BY <1>1, Facts DEF Continuing

\* One episode changes.
LEMMA OneContinues ==
    ASSUME EpisodesInv, rows < MaxRows, rows' = Here, active' = active,
           NEW k \in DOMAIN episodes, NEW f, Continues(episodes[k], f),
           episodes' = [episodes EXCEPT ![k] = f]
    PROVE  Continuing
<1>1. f \in Episode
  BY DEF Continues
<1>2. episodes' \in Seq(Episode) /\ Len(episodes') = Len(episodes)
  BY <1>1, Facts
<1>3. \A j \in DOMAIN episodes : Continues(episodes[j], episodes'[j])
  <2> SUFFICES ASSUME NEW j \in DOMAIN episodes PROVE Continues(episodes[j], episodes'[j])
    OBVIOUS
  <2>1. CASE j = k
    BY <2>1
  <2>2. CASE j # k
    BY <2>2, Facts, EndMoves
  <2>3. QED BY <2>1, <2>2
<1>4. QED BY <1>2, <1>3 DEF Continuing

LEMMA KeepContinues ==
    ASSUME EpisodesInv, rows < MaxRows, rows' = Here, active' = active, active # 0,
           NEW e, Continues(Open, e), Keep(e)
    PROVE  Continuing
<1>1. e \in Episode /\ Sane(e, Here)
  BY DEF Continues
<1>2. Continues(e, [e EXCEPT !.end = Here])
  BY <1>1, Facts, EndMoves
<1>3. Continues(Open, [e EXCEPT !.end = Here])
  BY <1>2, ContinuesTwice
<1>4. QED BY <1>3, Facts, OneContinues DEF Keep, Open

LEMMA OpenContinues ==
    ASSUME EpisodesInv, rows < MaxRows, active # 0
    PROVE  Continues(Open, Open)
BY Facts, EndMoves DEF Open

LEMMA ClosedEnds ==
    ASSUME rows \in Nat, rows < MaxRows, MaxRows \in Nat,
           NEW e \in Episode, Sane(e, rows), NEW lifecycle, NEW kind,
           <<lifecycle, kind>> \in {<<"cancelled", "revocation">>, <<"superseded", "scope_change">>,
                                    <<"completed", "observed_completion">>}
    PROVE  /\ Closed(e, lifecycle, kind) \in Episode /\ Sane(Closed(e, lifecycle, kind), Here)
           /\ Closed(e, lifecycle, kind).lifecycle # "active"
           /\ e.authority = "revoked" => Closed(e, lifecycle, kind).authority = "revoked"
<1> DEFINE f == Closed(e, lifecycle, kind)
<1>1. FactAt(kind, Unnamed) \in Fact /\ FactAt(kind, Unnamed).at = Here
      /\ FactAt(kind, Unnamed).kind = kind /\ Here \in Nat /\ rows < Here /\ Here \in 1..MaxRows
  BY FactHere DEF Adverse
<1>2. /\ f \in Episode /\ f.start = e.start /\ f.lifecycle = lifecycle /\ f.actions = e.actions
      /\ f.authority = IF lifecycle = "completed" THEN e.authority ELSE "revoked"
      /\ f.facts = e.facts \cup {FactAt(kind, Unnamed)}
  BY <1>1 DEF Closed, Episode
<1> HIDE DEF f
<1>3. f.start <= Here /\ \A x \in f.facts : x.at <= Here
  BY <1>1, <1>2, EpisodeFields DEF Sane
<1>4. f.authority = "authorized" => Granted(f)
  <2> SUFFICES ASSUME f.authority = "authorized" PROVE Granted(f)
    OBVIOUS
  <2>1. lifecycle = "completed" /\ kind = "observed_completion" /\ e.authority = "authorized"
    BY <1>2
  <2>2. \A x \in f.facts : x.kind \in Withdrawals => x \in e.facts
    BY <1>1, <1>2, <2>1 DEF Withdrawals
  <2>3. QED BY <1>2, <2>1, <2>2, GrantStays DEF Sane
<1>5. lifecycle # "active"
  OBVIOUS
<1>6. QED BY <1>2, <1>3, <1>4, <1>5 DEF Sane, f

\* Only the open episode is changed by what ends it.
LEMMA OneEnds ==
    ASSUME EpisodesInv, rows < MaxRows, active # 0, NEW f \in Episode,
           Sane(f, Here), f.lifecycle # "active"
    PROVE  AllEnded([episodes EXCEPT ![active] = f])
<1> DEFINE es == [episodes EXCEPT ![active] = f]
<1>1. es \in Seq(Episode) /\ Len(es) = Len(episodes)
  BY Facts
<1>2. ASSUME NEW k \in DOMAIN episodes
      PROVE  /\ Sane(es[k], Here) /\ es[k].lifecycle # "active"
             /\ episodes[k].authority = "revoked" => es[k].authority = "revoked"
  <2>1. CASE k = active
    BY <2>1, Facts DEF Sane, Open
  <2>2. CASE k # active
    <3>1. es[k] = episodes[k]
      BY <2>2
    <3>2. episodes[k].lifecycle # "active"
      BY <2>2 DEF EpisodesInv, OneOpenEpisode
    <3>3. QED BY <3>1, <3>2, Facts
  <2>3. QED BY <2>1, <2>2
<1> HIDE DEF es
<1>3. AllEnded(es)
  BY <1>1, <1>2 DEF AllEnded
<1>4. QED BY <1>3 DEF es

LEMMA NoneOpen ==
    ASSUME EpisodesInv, rows < MaxRows, active = 0
    PROVE  AllEnded(episodes)
<1>1. \A k \in DOMAIN episodes : episodes[k].lifecycle # "active"
  BY Facts DEF EpisodesInv, OneOpenEpisode
<1>2. QED BY <1>1, Facts DEF AllEnded

LEMMA SupersededEnds ==
    ASSUME EpisodesInv, rows < MaxRows, NEW replaces \in BOOLEAN
    PROVE  AllEnded(Superseded(replaces))
<1>1. CASE active = 0
  BY <1>1, NoneOpen DEF Superseded
<1>2. CASE active # 0 /\ replaces
  <2>1. episodes[active] \in Episode /\ Sane(episodes[active], rows)
    BY <1>2, Facts
  <2>2. LET f == Closed(episodes[active], "superseded", "scope_change")
        IN  f \in Episode /\ Sane(f, Here) /\ f.lifecycle # "active"
    BY <2>1, Facts, ClosedEnds
  <2>3. QED BY <1>2, <2>2, OneEnds DEF Superseded
<1>3. CASE active # 0 /\ ~replaces
  <2> DEFINE e == episodes[active]
             f == [e EXCEPT !.end = Here, !.lifecycle = "superseded"]
  <2>1. e \in Episode /\ Sane(e, Here) /\ Here \in 1..MaxRows
    BY <1>3, Facts
  <2>2. /\ f \in Episode /\ f.start = e.start /\ f.actions = e.actions /\ f.facts = e.facts
        /\ f.authority = e.authority /\ f.lifecycle = "superseded"
    BY <2>1 DEF Episode
  <2>3. Sane(f, Here)
    <3>1. e.authority = "authorized" => Granted(f)
      <4> HIDE DEF f, e
      <4> QED BY <2>1, <2>2, GrantStays DEF Sane
    <3> HIDE DEF f, e
    <3>2. QED BY <2>1, <2>2, <3>1 DEF Sane
  <2>4. Superseded(replaces) = [episodes EXCEPT ![active] = f]
    BY <1>3 DEF Superseded
  <2> HIDE DEF f
  <2>5. QED BY <1>3, <2>2, <2>3, <2>4, OneEnds
<1>4. QED BY <1>1, <1>2, <1>3

\* A new episode, marked or not.
LEMMA NewIsSane ==
    ASSUME EpisodesInv, rows < MaxRows, NEW kind \in Kinds, NEW actions \in SUBSET Actions,
           NEW plain \in BOOLEAN, NEW mark \in Marks
    PROVE  LET e == Marked(New(kind, actions, plain), mark)
           IN  /\ e \in Episode /\ Sane(e, Here) /\ e.lifecycle = "active" /\ e.start = Here
               /\ mark = "hold" => Withholds(e.facts)
<1> DEFINE e == New(kind, actions, plain)
<1>1. FactAt("explicit_approval", Unnamed) \in Fact /\ FactAt("explicit_approval", Unnamed).at = Here
      /\ FactAt("explicit_approval", Unnamed).kind = "explicit_approval" /\ Here \in Nat /\ Here \in 1..MaxRows
  BY Facts, FactHere
<1>2. /\ e \in Episode /\ e.start = Here /\ e.lifecycle = "active"
      /\ e.authority \in {"authorized", "unknown"}
      /\ e.facts \subseteq {FactAt("explicit_approval", Unnamed)}
  BY <1>1 DEF New, Episode
<1> HIDE DEF e
<1>3. Granted(e)
  <2>1. \A x \in e.facts : x.kind \in Withdrawals => x.at < e.start
    BY <1>1, <1>2 DEF Withdrawals
  <2>2. QED BY <2>1 DEF Granted, Withdrawals
<1>4. Sane(e, Here)
  BY <1>1, <1>2, <1>3 DEF Sane
<1>5. Continues(e, Marked(e, mark))
  BY <1>2, <1>4, Facts, MarkedContinues
<1>6. mark = "hold" => Withholds(Marked(e, mark).facts)
  BY <1>2, HoldNoted
<1>7. QED BY <1>2, <1>5, <1>6 DEF Continues, e

-----------------------------------------------------------------------------
(* The steps *)

\* What is revoked stays so.
Stays ==
    \A k \in DOMAIN episodes :
        episodes[k].authority = "revoked" => episodes'[k].authority = "revoked"

LEMMA OldOnes ==
    ASSUME EpisodesInv, rows < MaxRows
    PROVE  questions \subseteq Question /\ claims \subseteq Claimed
<1>1. 1..rows \subseteq 1..Here
  BY Facts DEF Here
<1>2. QED BY <1>1 DEF EpisodesInv, EpisodesTypeOK, Question, Claimed

LEMMA ContinuingKeeps ==
    ASSUME EpisodesInv, RowRead, Continuing, Noted, questions' \subseteq Question,
           claims' \subseteq Claimed, \A c \in claims' : c \in claims \/ c.during = active
    PROVE  EpisodesInv' /\ Stays
<1>0. rows < MaxRows /\ withdrawn \in 0..rows
  BY DEF RowRead, EpisodesInv, EpisodesTypeOK
<1>1. DOMAIN episodes' = DOMAIN episodes
  BY <1>0, Facts DEF Continuing
<1>2. EpisodesTypeOK'
  <2>1. withdrawn' \in 0..Here /\ rare' \in 0..MaxRare /\ held' \in BOOLEAN
    BY <1>0, Facts DEF RowRead, Here
  <2>2. QED BY <1>0, <1>1, <2>1, Facts DEF EpisodesTypeOK, Continuing, Question, Claimed
<1>3. \A k \in DOMAIN episodes' : Sane(episodes'[k], rows')
  BY <1>1 DEF Continuing, Continues
<1>4. active' # 0 => active' = Len(episodes')
  BY DEF Continuing, EpisodesInv
<1>5. OneOpenEpisode'
  BY <1>1 DEF Continuing, Continues, EpisodesInv, OneOpenEpisode
<1>6. ClaimsPlaced'
  BY <1>0, Facts DEF Continuing, Continues, EpisodesInv, ClaimsPlaced, Open
<1>7. Stays
  BY DEF Stays, Continuing, Continues
<1>8. WithdrawalNoted'
  <2> SUFFICES ASSUME active # 0, withdrawn' >= episodes'[active].start
               PROVE  Withholds(episodes'[active].facts)
    BY DEF WithdrawalNoted, Continuing, Open
  <2>1. active \in DOMAIN episodes /\ Continues(episodes[active], episodes'[active])
    BY <1>0, Facts DEF Continuing
  <2>2. CASE withdrawn' = withdrawn
    <3>1. Withholds(episodes[active].facts)
      BY <2>1, <2>2 DEF EpisodesInv, WithdrawalNoted, Open, Continues
    <3>2. QED BY <2>1, <3>1 DEF Withholds, Continues
  <2>3. CASE withdrawn' # withdrawn
    BY <2>3 DEF Noted
  <2>4. QED BY <2>2, <2>3
<1>9. QED
  <2>1. EpisodesInv' <=> /\ EpisodesTypeOK'
                         /\ \A k \in DOMAIN episodes' : Sane(episodes'[k], rows')
                         /\ active' # 0 => active' = Len(episodes')
                         /\ OneOpenEpisode' /\ ClaimsPlaced' /\ WithdrawalNoted'
    BY DEF EpisodesInv, Sane, Granted
  <2>2. QED BY <2>1, <1>2, <1>3, <1>4, <1>5, <1>6, <1>7, <1>8

LEMMA EndedKeeps ==
    ASSUME EpisodesInv, RowRead, AllEnded(episodes'), active' = 0,
           questions' = questions, claims' = claims
    PROVE  EpisodesInv' /\ Stays
<1>0. rows < MaxRows /\ rows' = Here /\ withdrawn \in 0..rows
  BY DEF RowRead, EpisodesInv, EpisodesTypeOK
<1>1. DOMAIN episodes' = DOMAIN episodes
  BY <1>0, Facts DEF AllEnded
<1>2. EpisodesTypeOK'
  <2>1. withdrawn' \in 0..Here /\ rare' \in 0..MaxRare /\ held' \in BOOLEAN
    BY <1>0, Facts DEF RowRead, Here
  <2>2. QED BY <1>0, <1>1, <2>1, Facts, OldOnes DEF EpisodesTypeOK, AllEnded, Question, Claimed
<1>3. \A k \in DOMAIN episodes' : Sane(episodes'[k], rows')
  BY <1>0, <1>1 DEF AllEnded
<1>4. OneOpenEpisode'
  BY <1>0, <1>1, Facts DEF AllEnded, OneOpenEpisode
<1>5. ClaimsPlaced' /\ WithdrawalNoted'
  BY DEF ClaimsPlaced, WithdrawalNoted
<1>6. Stays
  BY DEF Stays, AllEnded
<1>7. QED
  <2>1. EpisodesInv' <=> /\ EpisodesTypeOK'
                         /\ \A k \in DOMAIN episodes' : Sane(episodes'[k], rows')
                         /\ active' # 0 => active' = Len(episodes')
                         /\ OneOpenEpisode' /\ ClaimsPlaced' /\ WithdrawalNoted'
    BY DEF EpisodesInv, Sane, Granted
  <2>2. QED BY <2>1, <1>2, <1>3, <1>4, <1>5, <1>6

LEMMA OpenedKeeps ==
    ASSUME EpisodesInv, RowRead, NEW es, AllEnded(es),
           NEW e \in Episode, Sane(e, Here), e.lifecycle = "active", e.start = Here,
           withdrawn' = withdrawn \/ Withholds(e.facts),
           episodes' = Append(es, e), active' = Len(episodes) + 1,
           questions' = questions, claims' = claims
    PROVE  EpisodesInv' /\ Stays
<1>0. rows < MaxRows /\ rows' = Here /\ withdrawn \in 0..rows
  BY DEF RowRead, EpisodesInv, EpisodesTypeOK
<1> DEFINE n == Len(episodes)
<1>1. /\ n \in Nat /\ DOMAIN episodes = 1..n
      /\ episodes' \in Seq(Episode) /\ Len(episodes') = n + 1 /\ DOMAIN episodes' = 1..(n + 1)
      /\ episodes'[n + 1] = e
      /\ \A k \in 1..n : episodes'[k] = es[k]
  BY <1>0, Facts DEF AllEnded
<1> HIDE DEF n
<1>2. EpisodesTypeOK'
  <2>1. questions' \subseteq Question /\ claims' \subseteq Claimed
    BY <1>0, OldOnes
  <2>2. DOMAIN episodes \subseteq DOMAIN episodes'
        /\ 0..Len(episodes) \subseteq 0..Len(episodes')
    BY <1>1 DEF n
  <2>3. /\ questions' \subseteq [at : 1..rows', episode : DOMAIN episodes', action : Actions \cup {Unnamed}]
        /\ claims' \subseteq [at : 1..rows', say : Claims, action : Actions \cup {Unnamed},
                              proved : BOOLEAN, during : 0..Len(episodes')]
    BY <1>0, <2>1, <2>2 DEF Question, Claimed
  <2>4. rows' \in 0..MaxRows /\ active' \in 0..Len(episodes')
    BY <1>0, <1>1, Facts DEF n
  <2>5. withdrawn' \in 0..rows' /\ rare' \in 0..MaxRare /\ held' \in BOOLEAN
    BY <1>0, Facts DEF RowRead, Here
  <2>6. QED BY <1>1, <2>3, <2>4, <2>5 DEF EpisodesTypeOK
<1>3. \A k \in DOMAIN episodes' : Sane(episodes'[k], rows')
  <2> SUFFICES ASSUME NEW k \in 1..(n + 1) PROVE Sane(episodes'[k], rows')
    BY <1>1
  <2>1. CASE k = n + 1
    BY <1>0, <1>1, <2>1
  <2>2. CASE k # n + 1
    BY <1>0, <1>1, <2>2 DEF AllEnded
  <2>3. QED BY <2>1, <2>2
<1>4. active' = n + 1 /\ active' = Len(episodes')
  BY <1>1 DEF n
<1>5. OneOpenEpisode'
  <2> SUFFICES ASSUME NEW k \in 1..(n + 1)
               PROVE  episodes'[k].lifecycle = "active" <=> k = active' /\ k = Len(episodes')
    BY <1>1 DEF OneOpenEpisode
  <2>1. CASE k = n + 1
    BY <1>1, <1>4, <2>1
  <2>2. CASE k # n + 1
    <3>1. k \in 1..n
      BY <1>1, <2>2
    <3>2. QED BY <1>1, <1>4, <2>2, <3>1 DEF AllEnded
  <2>3. QED BY <2>1, <2>2
<1>6. ClaimsPlaced'
  <2>1. \A c \in claims : c.at \in Nat /\ c.at <= rows
    BY DEF EpisodesInv, EpisodesTypeOK
  <2>2. episodes'[active'].start = Here /\ Here > rows
    BY <1>0, <1>1, <1>4, Facts DEF Here
  <2>3. QED BY <1>0, <2>1, <2>2, Facts DEF ClaimsPlaced, Open
<1>7. Stays
  BY <1>1 DEF Stays, AllEnded
<1>8. WithdrawalNoted'
  <2>1. episodes'[active'] = e
    BY <1>1, <1>4
  <2>2. withdrawn < Here
    BY <1>0, Facts DEF Here
  <2>3. withdrawn' >= Here => Withholds(e.facts)
    BY <1>0, <2>2, Facts DEF Here
  <2>4. QED BY <2>1, <2>3 DEF WithdrawalNoted, Open, Withholds
<1>9. QED
  <2>1. EpisodesInv' <=> /\ EpisodesTypeOK'
                         /\ \A k \in DOMAIN episodes' : Sane(episodes'[k], rows')
                         /\ active' # 0 => active' = Len(episodes')
                         /\ OneOpenEpisode' /\ ClaimsPlaced' /\ WithdrawalNoted'
    BY DEF EpisodesInv, Sane, Granted
  <2>2. QED BY <2>1, <1>2, <1>3, <1>4, <1>5, <1>6, <1>7, <1>8

\* Rows that leave the open episode open and ask or claim nothing.
Quiet ==
    \/ \E mark \in Marks : Note(mark)
    \/ \E mark \in {"none", "hold"} : Decision(mark)
    \/ active # 0 /\ Status
    \/ \E action \in Actions \cup {Unnamed} : Resume(action)
    \/ QuotedHold
    \/ \E mark \in Marks : UnmatchedAnswer(mark)
    \/ ToolWaits

LEMMA QuietReads ==
    ASSUME EpisodesInv, Quiet
    PROVE  RowRead /\ active # 0 /\ UNCHANGED <<active, questions, claims>>
<1>1. rare \in 0..MaxRare /\ MaxRare \in Nat
  BY EpisodesAssumption DEF EpisodesInv, EpisodesTypeOK
<1>2. ASSUME NEW mark \in Marks, Note(mark) PROVE RowRead
  BY <1>1, <1>2 DEF Note, ReadText, Read, RowRead
<1>3. ASSUME NEW mark \in Marks, Decision(mark) PROVE RowRead
  BY <1>1, <1>3 DEF Decision, Read, RowRead
<1>4. ASSUME NEW mark \in Marks, UnmatchedAnswer(mark) PROVE RowRead
  BY <1>1, <1>4 DEF UnmatchedAnswer, Read, RowRead
<1>5. ASSUME Status PROVE RowRead
  BY <1>1, <1>5 DEF Status, ReadRow, Read, RowRead
<1>6. ASSUME NEW action, Resume(action) PROVE RowRead
  <2>1. ReadRow
    BY <1>6, Zenon DEF Resume
  <2>2. QED BY <1>1, <2>1 DEF ReadRow, Read, RowRead
<1>7. ASSUME QuotedHold \/ ToolWaits PROVE RowRead
  <2>1. ASSUME NEW mark \in Marks, Read(mark, FALSE, TRUE) PROVE RowRead
    BY <1>1, <2>1 DEF Read, RowRead
  <2>2. QED BY <1>7, <2>1 DEF QuotedHold, ToolWaits, Marks
<1>8. RowRead
  BY <1>2, <1>3, <1>4, <1>5, <1>6, <1>7 DEF Quiet, Marks
<1>9. active # 0 /\ UNCHANGED <<active, questions, claims>>
  BY DEF Quiet, Note, Decision, Status, Resume, QuotedHold, UnmatchedAnswer, ToolWaits
<1>10. QED BY <1>8, <1>9

LEMMA QuietContinues ==
    ASSUME EpisodesInv, Quiet
    PROVE  Continuing
<1>0. /\ rows < MaxRows /\ rows' = Here /\ active' = active /\ active # 0
  BY QuietReads DEF RowRead
<1>1. /\ Open \in Episode /\ Sane(Open, rows) /\ Sane(Open, Here) /\ Open.lifecycle = "active"
      /\ rows \in Nat /\ MaxRows \in Nat /\ active \in DOMAIN episodes
  BY <1>0, Facts DEF Open
<1>2. \A mark \in Marks : Continues(Open, Marked(Open, mark))
  BY <1>0, <1>1, MarkedContinues
<1>3. Continues(Open, Open)
  BY <1>0, OpenContinues
<1>4. ASSUME NEW mark \in Marks, Note(mark) PROVE Continuing
  BY <1>0, <1>2, <1>4, KeepContinues DEF Note
<1>5. ASSUME Keep(Open) PROVE Continuing
  BY <1>0, <1>3, <1>5, KeepContinues
<1>6. ASSUME Status PROVE Continuing
  <2> DEFINE e == [Open EXCEPT !.facts = @ \cup {FactAt("status_exchange", Unnamed)}]
  <2>1. Continues(Open, e)
    BY <1>0, <1>1, FactAdded
  <2>2. Keep(e)
    BY <1>0, <1>6 DEF Status
  <2> HIDE DEF e
  <2>3. QED BY <1>0, <2>1, <2>2, KeepContinues
<1>7. ASSUME QuotedHold PROVE Continuing
  <2> DEFINE f == Marked(Open, "cut")
  <2>1. Continues(Open, f)
    BY <1>2 DEF Marks
  <2>2. episodes' = [episodes EXCEPT ![active] = f]
    BY <1>7 DEF QuotedHold, Open
  <2> HIDE DEF f
  <2>3. QED BY <1>0, <1>1, <2>1, <2>2, OneContinues DEF Open
<1>8. ASSUME NEW mark \in Marks, UnmatchedAnswer(mark) PROVE Continuing
  <2> DEFINE e == Marked(Open, mark)
             f == [e EXCEPT !.known = FALSE]
  <2>1. Continues(Open, e)
    BY <1>2
  <2>2. e \in Episode /\ Sane(e, Here)
    BY <2>1 DEF Continues
  <2>3. episodes' = [episodes EXCEPT ![active] = f]
    BY <1>8 DEF UnmatchedAnswer, Open
  <2> HIDE DEF e
  <2>4. Continues(e, f)
    BY <1>0, <1>1, <2>2, EndMoves
  <2> HIDE DEF f
  <2>5. Continues(Open, f)
    BY <2>1, <2>4, ContinuesTwice
  <2>6. QED BY <1>0, <1>1, <2>3, <2>5, OneContinues DEF Open
<1>9. ASSUME ToolWaits PROVE Continuing
  BY <1>0, <1>2, <1>9, KeepContinues DEF ToolWaits, Marks
<1>10. QED
  BY <1>4, <1>5, <1>6, <1>7, <1>8, <1>9 DEF Quiet, Decision, Resume

LEMMA QuietNotes ==
    ASSUME EpisodesInv, Quiet
    PROVE  Noted
<1>1. active # 0 /\ active \in DOMAIN episodes /\ Open \in Episode
  BY QuietReads, Facts DEF RowRead, Open
<1>2. ASSUME NEW mark \in Marks, Note(mark) PROVE Noted
  <2>1. CASE mark = "hold"
    <3>1. episodes'[active].facts = Marked(Open, mark).facts
      BY <1>1, <1>2, <2>1 DEF Note, Keep, Marked, Episode
    <3>2. QED BY <1>1, <2>1, <3>1, HoldNoted DEF Noted
  <2>2. CASE mark # "hold"
    BY <1>2, <2>2 DEF Note, ReadText, Read, Noted
  <2>3. QED BY <2>1, <2>2
<1>3. ASSUME NEW mark \in Marks, UnmatchedAnswer(mark) PROVE Noted
  <2>1. CASE mark = "hold"
    <3>1. episodes'[active].facts = Marked(Open, mark).facts
      BY <1>1, <1>3, <2>1 DEF UnmatchedAnswer, Open, Marked, Episode
    <3>2. QED BY <1>1, <2>1, <3>1, HoldNoted DEF Noted
  <2>2. CASE mark # "hold"
    BY <1>3, <2>2 DEF UnmatchedAnswer, Read, Noted
  <2>3. QED BY <2>1, <2>2
<1>4. ASSUME \/ \E mark \in {"none", "hold"} : Decision(mark)
             \/ Status \/ QuotedHold \/ ToolWaits
             \/ \E action \in Actions \cup {Unnamed} : Resume(action)
      PROVE  Noted
  BY <1>4 DEF Decision, Status, QuotedHold, ToolWaits, Resume, ReadRow, Read, Noted
<1>5. QED BY <1>2, <1>3, <1>4 DEF Quiet

LEMMA AnswerReads ==
    ASSUME EpisodesInv, NEW q, NEW say, NEW mark, Answer(q, say, mark)
    PROVE  RowRead /\ UNCHANGED <<active, questions, claims>>
<1>1. rare \in 0..MaxRare /\ MaxRare \in Nat
  BY EpisodesAssumption DEF EpisodesInv, EpisodesTypeOK
<1>2. QED BY <1>1 DEF Answer, Read, RowRead

LEMMA AnswerContinues ==
    ASSUME EpisodesInv, NEW q \in questions, NEW say \in {"yes", "no", "other"},
           NEW mark \in Marks, Answer(q, say, mark)
    PROVE  Continuing /\ Noted
<1>0. rows < MaxRows /\ rows' = Here /\ active' = active
  BY AnswerReads DEF RowRead
<1>1. q.episode \in DOMAIN episodes /\ q.action \in Actions \cup {Unnamed}
  BY DEF EpisodesInv, EpisodesTypeOK
<1> DEFINE k == q.episode
           g == Answered(episodes[k], q, say)
           f == [g EXCEPT !.end = Here]
           es == [episodes EXCEPT ![k] = f]
<1>2. Continues(episodes[k], g)
  BY <1>0, <1>1, Facts, AnsweredContinues
<1>3. g \in Episode /\ Sane(g, Here)
  BY <1>2 DEF Continues
<1> HIDE DEF g
<1>4. Continues(episodes[k], f)
  BY <1>0, <1>2, <1>3, Facts, EndMoves, ContinuesTwice
<1>5. es \in Seq(Episode) /\ Len(es) = Len(episodes) /\ DOMAIN es = DOMAIN episodes
  BY <1>0, <1>1, <1>4, Facts DEF Continues
<1>6. AfterAnswer(q, say) = es
  BY <1>1 DEF AfterAnswer, g
<1> HIDE DEF f
<1>7. \A j \in DOMAIN episodes : Continues(episodes[j], es[j])
  <2> SUFFICES ASSUME NEW j \in DOMAIN episodes PROVE Continues(episodes[j], es[j])
    OBVIOUS
  <2>1. CASE j = k
    BY <1>4, <2>1
  <2>2. CASE j # k
    BY <1>0, <2>2, Facts, EndMoves
  <2>3. QED BY <2>1, <2>2
<1> HIDE DEF k, es
<1>8. CASE active = 0
  BY <1>0, <1>5, <1>6, <1>7, <1>8 DEF Answer, Continuing, Noted
<1>9. CASE active # 0
  <2> DEFINE h == Marked(es[active], mark)
  <2>1. episodes' = [es EXCEPT ![active] = h]
    BY <1>6, <1>9 DEF Answer
  <2>2. active \in DOMAIN episodes /\ es[active] \in Episode /\ Sane(es[active], Here)
        /\ es[active].lifecycle = "active"
    BY <1>0, <1>7, <1>9, Facts DEF Continues, Open
  <2>3. Continues(es[active], h)
    BY <1>0, <2>2, Facts, MarkedContinues
  <2>10. mark = "hold" => Withholds(h.facts)
    BY <2>2, HoldNoted
  <2> HIDE DEF h
  <2>4. Continues(episodes[active], h)
    BY <1>7, <2>2, <2>3, ContinuesTwice
  <2>5. h \in Episode
    BY <2>3 DEF Continues
  <2>6. episodes' \in Seq(Episode) /\ Len(episodes') = Len(episodes)
    BY <1>5, <2>1, <2>2, <2>5
  <2>7. \A j \in DOMAIN episodes : Continues(episodes[j], episodes'[j])
    BY <1>5, <1>7, <2>1, <2>4
  <2>8. Noted
    <3>1. CASE mark = "hold"
      BY <1>5, <2>1, <2>2, <2>10, <3>1 DEF Noted
    <3>2. CASE say = "no" /\ k = active /\ q.action \in Open.actions
      <4>1. g.facts = Open.facts \cup {FactAt("approval_withheld", q.action)}
        BY <1>0, <1>9, <3>2, Facts DEF g, k, Answered, Open, Episode
      <4>2. FactAt("approval_withheld", q.action).kind = "approval_withheld"
        BY DEF FactAt
      <4>3. f.facts = g.facts
        BY <1>3 DEF f, Episode
      <4>4. es[active] = f
        BY <1>5, <2>2, <3>2 DEF es
      <4>5. Withholds(es[active].facts)
        BY <4>1, <4>2, <4>3, <4>4 DEF Withholds
      <4>6. Withholds(h.facts)
        BY <2>3, <4>5 DEF Withholds, Continues
      <4>7. QED BY <1>5, <2>1, <2>2, <4>6 DEF Noted
    <3>3. CASE mark # "hold" /\ ~(say = "no" /\ k = active /\ q.action \in Open.actions)
      BY <3>3 DEF Answer, Read, Noted, k
    <3>4. QED BY <3>1, <3>2, <3>3
  <2>9. QED BY <1>0, <2>6, <2>7, <2>8 DEF Continuing
<1>10. QED BY <1>8, <1>9

LEMMA Ending ==
    ASSUME EpisodesInv, NEW lifecycle, NEW kind, Close(lifecycle, kind),
           <<lifecycle, kind>> \in {<<"cancelled", "revocation">>,
                                    <<"completed", "observed_completion">>}
    PROVE  EpisodesInv' /\ Stays
<1>0. rare \in 0..MaxRare /\ MaxRare \in Nat
  BY EpisodesAssumption DEF EpisodesInv, EpisodesTypeOK
<1>1. /\ RowRead /\ rows < MaxRows /\ active' = 0
      /\ questions' = questions /\ claims' = claims
  BY <1>0 DEF Close, Read, RowRead
<1>2. AllEnded(episodes')
  <2>1. CASE active = 0
    BY <1>1, <2>1, NoneOpen DEF Close
  <2>2. CASE active # 0
    <3> DEFINE f == Closed(episodes[active], lifecycle, kind)
    <3>1. f \in Episode /\ Sane(f, Here) /\ f.lifecycle # "active"
      BY <1>1, <2>2, Facts, ClosedEnds
    <3>2. episodes' = [episodes EXCEPT ![active] = f]
      BY <2>2 DEF Close
    <3> HIDE DEF f
    <3>3. QED BY <1>1, <2>2, <3>1, <3>2, OneEnds
  <2>3. QED BY <2>1, <2>2
<1>3. QED BY <1>1, <1>2, EndedKeeps

LEMMA Opening ==
    ASSUME EpisodesInv, NEW kind \in Kinds, NEW actions \in SUBSET Actions, NEW mark \in Marks,
           NEW replaces \in BOOLEAN, Opens(kind, actions, mark, replaces)
    PROVE  EpisodesInv' /\ Stays
<1> DEFINE es == Superseded(replaces)
           plain == kind = "request" /\ mark # "hold"
           e == Marked(New(kind, actions, plain), mark)
<1>0. rare \in 0..MaxRare /\ MaxRare \in Nat
  BY EpisodesAssumption DEF EpisodesInv, EpisodesTypeOK
<1>1. /\ rows < MaxRows /\ active' = Len(episodes) + 1
      /\ questions' = questions /\ claims' = claims /\ episodes' = Append(es, e)
      /\ mark # "hold" => withdrawn' = withdrawn
  BY DEF Opens, Read
<1>2. RowRead
  BY <1>0 DEF Opens, Read, RowRead
<1>3. AllEnded(es)
  BY <1>1, SupersededEnds
<1>4. plain \in BOOLEAN
  OBVIOUS
<1> HIDE DEF plain
<1>5. /\ e \in Episode /\ Sane(e, Here) /\ e.lifecycle = "active" /\ e.start = Here
      /\ mark = "hold" => Withholds(e.facts)
  BY <1>1, <1>4, NewIsSane
<1> HIDE DEF es, e
<1>6. QED BY <1>1, <1>2, <1>3, <1>5, OpenedKeeps

LEMMA Approving ==
    ASSUME EpisodesInv, NEW action \in Actions, Approve(action)
    PROVE  EpisodesInv' /\ Stays
<1>0. rare \in 0..MaxRare /\ MaxRare \in Nat
  BY EpisodesAssumption DEF EpisodesInv, EpisodesTypeOK
<1>1. /\ rows < MaxRows /\ rows' = Here /\ active' = active /\ active # 0
      /\ questions' = questions /\ claims' = claims
  BY DEF Approve, ReadRow, Read
<1>2. RowRead /\ Noted
  BY <1>0 DEF Approve, ReadRow, Read, RowRead, Noted
<1>3. Open \in Episode /\ Sane(Open, rows) /\ Open.authority # "revoked"
  BY <1>1, Facts DEF Open, Sane
<1>4. Continues(Open, Approved(Open, action))
  BY <1>1, <1>3, Facts, ApprovedContinues
<1>5. Continuing
  BY <1>1, <1>4, KeepContinues DEF Approve
<1>6. QED BY <1>1, <1>2, <1>5, OldOnes, ContinuingKeeps

LEMMA Asking ==
    ASSUME EpisodesInv, NEW action \in Actions \cup {Unnamed}, NEW mark \in Cuts, Ask(action, mark)
    PROVE  EpisodesInv' /\ Stays
<1>0. rare \in 0..MaxRare /\ MaxRare \in Nat
  BY EpisodesAssumption DEF EpisodesInv, EpisodesTypeOK
<1>1. rows < MaxRows /\ rows' = Here /\ active' = active /\ active # 0
  BY DEF Ask, Read
<1>2. RowRead /\ Noted
  BY <1>0 DEF Ask, Read, RowRead, Noted
<1>3. Continues(Open, Marked(Open, mark))
  BY <1>1, Facts, MarkedContinues DEF Open, Cuts, Marks
<1>4. Continuing
  BY <1>1, <1>3, KeepContinues DEF Ask
<1>5. [at |-> Here, episode |-> active, action |-> action] \in Question
  BY <1>1, Facts DEF Question
<1>6. questions' \subseteq Question /\ claims' = claims
  BY <1>1, <1>5, OldOnes DEF Ask
<1>7. QED BY <1>1, <1>2, <1>4, <1>6, OldOnes, ContinuingKeeps

LEMMA Claiming ==
    ASSUME EpisodesInv, NEW say \in Claims, NEW action \in Actions \cup {Unnamed}, NEW proved \in BOOLEAN,
           NEW mark \in Cuts, Claim(say, action, proved, mark)
    PROVE  EpisodesInv' /\ Stays
<1> DEFINE c == [at |-> Here, say |-> say, action |-> action, proved |-> proved, during |-> active]
<1>0. rare \in 0..MaxRare /\ MaxRare \in Nat
  BY EpisodesAssumption DEF EpisodesInv, EpisodesTypeOK
<1>1. /\ rows < MaxRows /\ rows' = Here /\ active' = active
      /\ questions' = questions /\ claims' = claims \cup {c}
  BY DEF Claim, Read
<1>2. RowRead /\ Noted
  BY <1>0 DEF Claim, Read, RowRead, Noted
<1>3. Continuing
  <2>1. CASE active = 0
    BY <1>1, <2>1, SameEpisodes DEF Claim
  <2>2. CASE active # 0
    <3>1. Continues(Open, Marked(Open, mark))
      BY <1>1, <2>2, Facts, MarkedContinues DEF Open, Cuts, Marks
    <3>2. QED BY <1>1, <2>2, <3>1, KeepContinues DEF Claim
  <2>3. QED BY <2>1, <2>2
<1>4. c \in Claimed /\ c.during = active
  BY <1>1, Facts DEF Claimed
<1> HIDE DEF c
<1>5. QED BY <1>1, <1>2, <1>3, <1>4, OldOnes, ContinuingKeeps

\* A status exchange outside of any episode is only a row.
LEMMA Exchanging ==
    ASSUME EpisodesInv, active = 0, Status
    PROVE  EpisodesInv' /\ Stays
<1>0. rare \in 0..MaxRare /\ MaxRare \in Nat
  BY EpisodesAssumption DEF EpisodesInv, EpisodesTypeOK
<1>1. /\ rows < MaxRows /\ rows' = Here /\ active' = active /\ episodes' = episodes
      /\ questions' = questions /\ claims' = claims
  BY DEF Status, ReadRow, Read
<1>2. RowRead /\ Noted
  BY <1>0 DEF Status, ReadRow, Read, RowRead, Noted
<1>3. QED BY <1>1, <1>2, SameEpisodes, OldOnes, ContinuingKeeps

\* A row keeps the invariant and every revocation.
LEMMA StepKeeps ==
    ASSUME EpisodesInv, EpisodesNext
    PROVE  EpisodesInv' /\ Stays
<1>1. CASE Quiet
  <2>1. RowRead /\ rows < MaxRows /\ questions' = questions /\ claims' = claims
    BY <1>1, QuietReads DEF RowRead
  <2>2. QED BY <1>1, <2>1, QuietContinues, QuietNotes, OldOnes, ContinuingKeeps
<1>2. ASSUME NEW q \in questions, NEW say \in {"yes", "no", "other"},
             NEW mark \in AnswerMarks(say), Answer(q, say, mark)
      PROVE  EpisodesInv' /\ Stays
  <2>1. RowRead /\ rows < MaxRows /\ questions' = questions /\ claims' = claims
    BY <1>2, AnswerReads DEF RowRead
  <2>2. mark \in Marks
    BY DEF AnswerMarks, Cuts, Marks
  <2>3. Continuing /\ Noted
    BY <1>2, <2>2, AnswerContinues
  <2>4. QED BY <2>1, <2>3, OldOnes, ContinuingKeeps
<1>3. ASSUME Request PROVE EpisodesInv' /\ Stays
  <2>1. ASSUME NEW kind \in Kinds, NEW actions \in SUBSET Actions, NEW mark \in Marks,
               NEW replaces \in BOOLEAN, Opens(kind, actions, mark, replaces)
        PROVE  EpisodesInv' /\ Stays
    BY <2>1, Opening
  <2>2. CASE \/ Close("cancelled", "revocation")
             \/ Close("completed", "observed_completion")
    BY <2>2, Ending
  <2>3. CASE \E action \in Actions : Approve(action)
    BY <2>3, Approving
  <2>4. CASE active = 0 /\ Status
    BY <2>4, Exchanging
  <2>5. CASE \E mark \in {"hold", "restrict", "wait"} : Note(mark)
    BY <2>5, <1>1 DEF Quiet, Marks
  <2>6. QED BY <1>3, <2>1, <2>2, <2>3, <2>4, <2>5, <1>1 DEF Request, Quiet
<1>4. CASE \E action \in Actions \cup {Unnamed}, mark \in Cuts : Ask(action, mark)
  BY <1>4, Asking
<1>5. ASSUME NEW say \in Claims, NEW action \in Actions \cup {Unnamed}, NEW proved \in BOOLEAN,
             NEW mark \in Cuts, Claim(say, action, proved, mark)
      PROVE  EpisodesInv' /\ Stays
  BY <1>5, Claiming
<1>6. CASE QuotedHold \/ ToolWaits \/ \E mark \in Marks : UnmatchedAnswer(mark)
  BY <1>6, <1>1 DEF Quiet
<1>7. CASE \E mark \in Cuts : Claim("completed", Unnamed, FALSE, mark)
  BY <1>7, <1>5 DEF Claims
<1>8. QED
  BY <1>2, <1>3, <1>4, <1>5, <1>6, <1>7 DEF EpisodesNext

LEMMA InitInv ==
    EpisodesInit => EpisodesInv
<1> SUFFICES ASSUME EpisodesInit PROVE EpisodesInv
  OBVIOUS
<1>1. episodes \in Seq(Episode) /\ Len(episodes) = 0 /\ DOMAIN episodes = {}
  BY DEF EpisodesInit
<1>2. EpisodesTypeOK
  <2>1. /\ rows = 0 /\ active = 0 /\ questions = {} /\ claims = {}
        /\ rare = 0 /\ held = FALSE /\ withdrawn = 0
    BY DEF EpisodesInit
  <2>2. rows \in 0..MaxRows /\ rare \in 0..MaxRare /\ withdrawn \in 0..rows
    BY <2>1, EpisodesAssumption
  <2>3. active \in 0..Len(episodes)
    BY <1>1, <2>1
  <2>4. QED BY <1>1, <2>1, <2>2, <2>3 DEF EpisodesTypeOK
<1>3. QED BY <1>1, <1>2 DEF EpisodesInit, EpisodesInv, OneOpenEpisode, ClaimsPlaced, WithdrawalNoted

LEMMA Stuttering ==
    ASSUME EpisodesInv, UNCHANGED episodesVars
    PROVE  EpisodesInv' /\ Stays
<1>1. /\ rows' = rows /\ episodes' = episodes /\ active' = active
      /\ questions' = questions /\ claims' = claims
      /\ rare' = rare /\ held' = held /\ withdrawn' = withdrawn
  BY DEF episodesVars
<1>2. EpisodesTypeOK' /\ OneOpenEpisode' /\ ClaimsPlaced' /\ WithdrawalNoted'
  BY <1>1 DEF EpisodesInv, EpisodesTypeOK, OneOpenEpisode, ClaimsPlaced, WithdrawalNoted, Open,
              Withholds
<1>3. \A k \in DOMAIN episodes' : Sane(episodes'[k], rows')
  BY <1>1 DEF EpisodesInv
<1>4. QED BY <1>1, <1>2, <1>3 DEF EpisodesInv, Sane, Granted, Stays

LEMMA SpecInv ==
    EpisodesSpec => []EpisodesInv
<1>1. EpisodesInv /\ [EpisodesNext]_episodesVars => EpisodesInv'
  BY StepKeeps, Stuttering
<1>2. QED BY InitInv, <1>1, PTL DEF EpisodesSpec

-----------------------------------------------------------------------------
(* The theorems *)

\* At most one episode is open, and it is the last of its session.
THEOREM AlwaysOneOpenEpisode ==
    EpisodesSpec => []OneOpenEpisode
<1>1. EpisodesInv => OneOpenEpisode
  BY DEF EpisodesInv
<1>2. QED BY SpecInv, <1>1, PTL

\* Whatever order texts, holds, questions and late answers come in, what an
\* episode authorizes was granted after everything that withdrew it.
THEOREM GrantAlwaysLastWord ==
    EpisodesSpec => []GrantIsTheLastWord
<1>1. EpisodesInv => GrantIsTheLastWord
  BY DEF EpisodesInv, Sane, GrantIsTheLastWord
<1>2. QED BY SpecInv, <1>1, PTL

\* What the assessment of autonomy supports was said in the open episode, and
\* since that began the human has withdrawn nothing: what is withdrawn leaves a
\* fact in the open episode, which keeps it.
THEOREM SupportAlwaysCurrent ==
    EpisodesSpec => []SupportIsCurrent
<1>1. EpisodesInv => SupportIsCurrent
  <2> SUFFICES ASSUME EpisodesInv, NEW k \in DOMAIN episodes, NEW family \in Families,
                      NEW c \in Candidate(episodes[k], family), Supported(episodes[k], c, family)
               PROVE  c.during = k /\ withdrawn < episodes[k].start
    BY DEF SupportIsCurrent
  <2>1. k = active
    BY DEF Supported, EpisodesInv, OneOpenEpisode
  <2>2. c \in claims /\ Open.start <= c.at
    BY <2>1 DEF Candidate, Shortlisted, Within, Open
  <2>3. active # 0
    BY <2>1 DEF EpisodesInv, EpisodesTypeOK
  <2>4. c.during = k
    BY <2>1, <2>2, <2>3 DEF EpisodesInv, EpisodesTypeOK, ClaimsPlaced
  <2>5. ~Withholds(Open.facts)
    BY <2>1 DEF Supported, Adverse, Withholds, Open
  <2>6. withdrawn \in Nat /\ Open.start \in Nat
    BY <2>1, EpisodeFields DEF EpisodesInv, EpisodesTypeOK, Open
  <2>7. QED BY <2>1, <2>3, <2>4, <2>5, <2>6 DEF EpisodesInv, WithdrawalNoted, Open
<1>2. QED BY SpecInv, <1>1, PTL

\* No later text or answer brings back what the human revoked.
THEOREM AlwaysRevokedForGood ==
    EpisodesSpec => RevokedForGood
<1>1. EpisodesInv /\ [EpisodesNext]_episodesVars => [Stays]_episodesVars
  BY StepKeeps
<1>2. QED BY SpecInv, <1>1, PTL DEF EpisodesSpec, RevokedForGood, Stays

-----------------------------------------------------------------------------
(* Adjudication: types *)

LEMMA LatestType ==
    ASSUME TypeOK, NEW c \in Candidates
    PROVE  Latest(c) \in Projection \cup {None}
<1>1. journal[c] \in Seq(Record)
  BY DEF TypeOK, Journals
<1>2. CASE journal[c] = <<>>
  BY <1>2 DEF Latest
<1>3. CASE journal[c] # <<>>
  <2>1. Len(journal[c]) \in Nat \ {0} /\ journal[c][Len(journal[c])] \in Record
    BY <1>1, <1>3
  <2>2. QED BY <2>1, <1>3 DEF Latest, Last, Projection
<1>4. QED BY <1>2, <1>3

\* The record of a review is about a basis that was assessed.
LEMMA ReviewType ==
    ASSUME TypeOK, NEW c \in Candidates, NEW d \in Dispositions, Review(c, d)
    PROVE  TypeOK'
<1>1. assessment[c] \in 1..MaxBasis
  BY AdjudicationAssumption DEF TypeOK, Review
<1>2. [disposition |-> d, basis |-> assessment[c]] \in Record
  BY <1>1 DEF Record
<1>3. QED BY <1>2 DEF TypeOK, Review, ReviewSteps, database, counts

LEMMA AppendType ==
    ASSUME TypeOK, pc = "replace"
    PROVE  [journal EXCEPT ![review.candidate] = Append(@, review.record)] \in Journals
<1>1. review.candidate \in Candidates /\ review.record \in Record
  BY DEF TypeOK, ReviewSteps
<1>2. \A c \in Candidates : journal[c] \in Seq(Record)
  BY DEF TypeOK, Journals
<1>3. Append(journal[review.candidate], review.record) \in Seq(Record)
  BY <1>1, <1>2
<1>4. QED BY <1>1, <1>3 DEF TypeOK, Journals

LEMMA ReconciledType ==
    ASSUME TypeOK, NEW then \in {"idle", "refresh"}, Reconciled(then)
    PROVE  TypeOK'
<1>1. [c \in Candidates |-> Latest(c)] \in [Candidates -> Projection \cup {None}]
  BY LatestType
<1>2. QED BY <1>1 DEF TypeOK, Reconciled, End, Go, ReviewSteps, tree, counts

LEMMA InitTypeOK == Init => TypeOK
<1> SUFFICES ASSUME Init PROVE TypeOK
  OBVIOUS
<1>1. NoJournals \in Journals
  BY DEF NoJournals, Journals
<1>2. 1 \in 1..MaxBasis
  BY AdjudicationAssumption
<1>3. transcript \in [Candidates -> 1..MaxBasis] /\ episode \in [Candidates -> 0..MaxBasis]
  BY <1>2 DEF Init
<1>4. assessment \in [Candidates -> 0..MaxBasis]
  BY AdjudicationAssumption DEF Init
<1>5. QED BY <1>1, <1>3, <1>4 DEF Init, TypeOK, ReviewSteps

LEMMA NextTypeOK == TypeOK /\ [Next]_vars => TypeOK'
<1> SUFFICES ASSUME TypeOK, [Next]_vars PROVE TypeOK'
  OBVIOUS
<1>1. ASSUME NEW c \in Candidates, NEW d \in Dispositions, Review(c, d) PROVE TypeOK'
  BY <1>1, ReviewType
<1>2. CASE WriteTemporary
  BY <1>2 DEF TypeOK, WriteTemporary, Go, ReviewSteps, database, counts
<1>3. CASE Replace
  BY <1>3, AppendType DEF TypeOK, Replace, Go, ReviewSteps, database, counts
<1>4. CASE WriteSidecar
  BY <1>4 DEF TypeOK, WriteSidecar, Go, ReviewSteps, database, counts
<1>5. CASE WriteRoot
  BY <1>5 DEF TypeOK, WriteRoot, Go, ReviewSteps, database, counts
<1>6. CASE Commit
  BY <1>6 DEF TypeOK, Commit, Go, ReviewSteps, tree, database, counts
<1>7. CASE Verify
  BY <1>7 DEF TypeOK, Verify, Go, ReviewSteps, tree, database, counts
<1>8. CASE Fail
  <2>1. faults' \in Nat /\ crashes' = crashes
    <3>1. faults \in Nat
      BY DEF TypeOK
    <3>2. faults' \in {faults, faults + 1}
      BY <1>8, Zenon DEF Fail
    <3>3. crashes' = crashes
      BY <1>8 DEF Fail
    <3>4. QED BY <3>1, <3>2, <3>3
  <2>2. temporary' \subseteq {"own", "stray"} /\ pc \in ReviewSteps /\ pc' \in ReviewSteps
    BY <1>8 DEF TypeOK, Fail, ReviewSteps
  <2>3. abandoned' \in BOOLEAN
    BY <1>8, Zenon DEF Fail
  <2>4. UNCHANGED <<journal, sidecar, pointer, namespace, head, database, review, unrestored>>
    BY <1>8 DEF Fail
  <2>5. QED BY <2>1, <2>2, <2>3, <2>4 DEF TypeOK, database
<1>9. CASE RestoreRoot
  BY <1>9 DEF TypeOK, RestoreRoot, Go, ReviewSteps, database, counts
<1>10. CASE RestoreSidecar
  BY <1>10 DEF TypeOK, RestoreSidecar, Go, ReviewSteps, database, counts
<1>11. CASE RestoreJournal
  BY <1>11 DEF TypeOK, RestoreJournal, End, ReviewSteps, database, counts
<1>12. CASE Project
  <2>1. \A c \in Candidates : Assessed(c) \in 0..MaxBasis
    BY AdjudicationAssumption DEF Assessed, TypeOK
  <2>2. QED BY <2>1, <1>12 DEF TypeOK, Project, ReviewSteps, tree, counts
<1>13. CASE Reconcile
  BY <1>13, ReconciledType DEF Reconcile
<1>14. CASE Recover
  BY <1>14, ReconciledType DEF Recover
<1>15. CASE Refresh
  BY <1>15 DEF TypeOK, Refresh, End, ReviewSteps, tree, counts
<1>16. CASE Rank
  BY <1>16 DEF TypeOK, Rank, ReviewSteps, tree, counts
<1>17. ASSUME NEW c \in Candidates, Ingest(c) PROVE TypeOK'
  <2>1. transcript[c] + 1 \in 1..MaxBasis
    BY <1>17, AdjudicationAssumption DEF Ingest, TypeOK
  <2>2. QED BY <2>1, <1>17 DEF TypeOK, Ingest, ReviewSteps, tree, counts
<1>18. CASE IngestAgain
  BY <1>18 DEF TypeOK, IngestAgain, ReviewSteps, tree, counts
<1>19. CASE Discard
  <2>1. 0 \in 0..MaxBasis
    BY AdjudicationAssumption
  <2>2. QED BY <2>1, <1>19 DEF TypeOK, Discard, Go, ReviewSteps, tree, counts
<1>20. CASE Reread
  BY <1>20 DEF TypeOK, Reread, Go, ReviewSteps, tree, counts
<1>21. CASE Publish
  BY <1>21 DEF TypeOK, Publish, ReviewSteps, tree, database, counts
<1>22. CASE WriteManifest
  BY <1>22 DEF TypeOK, WriteManifest, ReviewSteps, database, counts
<1>23. CASE Crash
  <2>1. crashes' \in Nat /\ UNCHANGED <<faults, abandoned, unrestored>>
    BY <1>23 DEF TypeOK, Crash
  <2>2. temporary' \subseteq {"own", "stray"} /\ pc' = "idle" /\ "idle" \notin ReviewSteps
    BY <1>23 DEF Crash, End, ReviewSteps
  <2>3. UNCHANGED <<journal, sidecar, pointer, namespace, head, database>>
    BY <1>23 DEF Crash
  <2>4. QED BY <2>1, <2>2, <2>3 DEF TypeOK, database
<1>24. CASE CleanUp
  BY <1>24 DEF TypeOK, CleanUp, ReviewSteps, database, counts
<1>25. CASE UNCHANGED vars
  BY <1>25 DEF TypeOK, vars, tree, database, counts
<1>26. CASE RestoreFails
  <2>1. faults' \in Nat /\ crashes' = crashes /\ abandoned' = abandoned
    <3>1. faults' = faults + 1 /\ crashes' = crashes /\ abandoned' = abandoned
      BY <1>26, Zenon DEF RestoreFails
    <3>2. QED BY <3>1 DEF TypeOK
  <2>2. journal' \in Journals
    BY <1>26 DEF TypeOK, RestoreFails, ReviewSteps
  <2>3. pc' = "idle" /\ "idle" \notin ReviewSteps
    BY <1>26 DEF RestoreFails, End, ReviewSteps
  <2>4. UNCHANGED <<sidecar, pointer, namespace, temporary, head, database>>
    BY <1>26 DEF RestoreFails
  <2>5. unrestored' \in BOOLEAN
    BY <1>26, Zenon DEF RestoreFails
  <2>6. QED BY <2>1, <2>2, <2>3, <2>4, <2>5 DEF TypeOK, database
<1>27. QED
  BY <1>1, <1>2, <1>3, <1>4, <1>5, <1>6, <1>7, <1>8, <1>9, <1>10, <1>11, <1>12, <1>13,
     <1>14, <1>15, <1>16, <1>17, <1>18, <1>19, <1>20, <1>21, <1>22, <1>23, <1>24, <1>25,
     <1>26 DEF Next

\* Every variable of the tree, the commit, the database and the running review
\* stays in its type.
THEOREM AdjudicationTypeOK == Spec => []TypeOK
<1>1. QED BY InitTypeOK, NextTypeOK, PTL DEF Spec

-----------------------------------------------------------------------------
(* Findings *)

\* Between its reconciliation and its refresh a detection holds the journals'
\* last decisions.
Projected == pc = "refresh" => \A c \in Candidates : decision[c] = Latest(c)

LEMMA NextProjected == Projected /\ [Next]_vars => Projected'
<1> SUFFICES ASSUME Projected, [Next]_vars, pc' = "refresh"
             PROVE  \A c \in Candidates : decision'[c] = Latest(c)'
  BY DEF Projected
<1>1. CASE Reconcile
  <2>1. decision' = [c \in Candidates |-> Latest(c)] /\ journal' = journal
    BY <1>1 DEF Reconcile, Reconciled, End, tree
  <2>2. QED BY <2>1 DEF Latest
<1>2. CASE UNCHANGED vars
  BY <1>2 DEF Projected, Latest, vars, tree, database
<1>3. \/ Reconcile
      \/ UNCHANGED vars
  BY DEF Next, Review, WriteTemporary, Replace, WriteSidecar, WriteRoot, Commit, Verify, Fail,
         RestoreRoot, RestoreSidecar, RestoreJournal, RestoreFails, Project, Refresh, Rank, Ingest,
         IngestAgain, Discard, Reread, Recover, Reconciled, Publish, WriteManifest, Crash, CleanUp, Go, End
<1>4. QED BY <1>1, <1>2, <1>3

\* What Eligible takes for the decision is the journal's.
LEMMA EligibleFollows ==
    ASSUME TypeOK, NEW c \in Candidates, decision[c] = Latest(c), Eligible(c)
    PROVE  IF journal[c] = <<>> THEN Inferred[episode[c]] = "supported"
           ELSE Last(journal[c]) = [disposition |-> "supported", basis |-> episode[c]]
<1>1. CASE journal[c] = <<>>
  BY <1>1 DEF Latest, Eligible
<1>2. CASE journal[c] # <<>>
  <2>1. decision[c] = [revision |-> Len(journal[c]), record |-> Last(journal[c])]
    BY <1>2 DEF Latest
  <2>2. decision[c] # None
    <3>1. journal[c] \in Seq(Record)
      BY DEF TypeOK, Journals
    <3>2. Len(journal[c]) \in Nat \ {0} /\ Last(journal[c]) \in Record
      BY <3>1, <1>2 DEF Last
    <3>3. QED BY <2>1, <3>2, NoneAssumption DEF Projection
  <2>3. QED BY <2>1, <2>2, <1>2 DEF Eligible
<1>3. QED BY <1>1, <1>2

\* Neither a killed review nor a rebuilt database brings back what was
\* dismissed, and no decision outlives the evidence it was about.
THEOREM FindingsAlwaysFollowJournals == Spec => FindingsFollowJournals
<1> DEFINE Follows == findings' # findings => \A c \in findings' :
              IF journal[c] = <<>> THEN Inferred[episode[c]] = "supported"
              ELSE Last(journal[c]) = [disposition |-> "supported", basis |-> episode[c]]
<1>1. TypeOK /\ Projected /\ [Next]_vars => Follows
  <2> SUFFICES ASSUME TypeOK, Projected, [Next]_vars, findings' # findings, NEW c \in findings'
               PROVE  IF journal[c] = <<>> THEN Inferred[episode[c]] = "supported"
                      ELSE Last(journal[c]) = [disposition |-> "supported", basis |-> episode[c]]
    BY DEF Follows
  <2>1. CASE Refresh
    <3>1. c \in Candidates /\ Eligible(c) /\ pc = "refresh"
      BY <2>1 DEF Refresh
    <3>2. QED BY <3>1, EligibleFollows DEF Projected
  <2>2. CASE Rank
    <3>1. c \in Candidates /\ Eligible(c) /\ decision[c] = Latest(c)
      BY <2>2 DEF Rank, UpToDate
    <3>2. QED BY <3>1, EligibleFollows
  <2>3. CASE Discard
    BY <2>3 DEF Discard
  <2>4. Refresh \/ Rank \/ Discard
    BY DEF Next, Review, WriteTemporary, Replace, WriteSidecar, WriteRoot, Commit, Verify, Fail,
           RestoreRoot, RestoreSidecar, RestoreJournal, RestoreFails, Project, Reconcile, Ingest, IngestAgain,
           Reread, Recover, Reconciled, Publish, WriteManifest, Crash, CleanUp, vars, database
  <2>5. QED BY <2>1, <2>2, <2>3, <2>4
<1>2. Init => Projected
  BY DEF Init, Projected
<1>3. QED BY <1>1, <1>2, NextProjected, InitTypeOK, NextTypeOK, PTL DEF Spec, FindingsFollowJournals

-----------------------------------------------------------------------------
(* Committed history *)

\* What is committed is in the journals, and in those a review would restore.
HistoryKept ==
    ~abandoned => \A c \in Candidates :
        /\ IsPrefix(head[c], journal[c])
        /\ pc \in ReviewSteps \ {"verify"} => IsPrefix(head[c], review.before.journal[c])

LEMMA PrefixOfItself ==
    ASSUME NEW s \in Seq(Record)
    PROVE  IsPrefix(s, s)
BY DEF IsPrefix

LEMMA PrefixOfAppend ==
    ASSUME NEW s \in Seq(Record), NEW t \in Seq(Record), NEW r \in Record, IsPrefix(s, t)
    PROVE  IsPrefix(s, Append(t, r))
<1>1. Len(s) <= Len(t) /\ SubSeq(s, 1, Len(s)) = SubSeq(t, 1, Len(s))
  BY DEF IsPrefix
<1>2. Len(s) \in Nat /\ Len(t) \in Nat /\ Len(Append(t, r)) = Len(t) + 1
  OBVIOUS
<1>3. SubSeq(Append(t, r), 1, Len(s)) = SubSeq(t, 1, Len(s))
  <2>1. \A i \in 1..Len(s) : Append(t, r)[i] = t[i]
    BY <1>1, <1>2
  <2>2. QED BY <2>1, <1>1, <1>2
<1>4. QED BY <1>1, <1>2, <1>3 DEF IsPrefix

LEMMA InitHistory == Init => HistoryKept
BY PrefixOfItself, EmptySeq DEF Init, HistoryKept, NoJournals, ReviewSteps

\* Every step that writes a journal or commits keeps the invariant.
LEMMA NextHistory == TypeOK /\ HistoryKept /\ [Next]_vars => HistoryKept'
<1> SUFFICES ASSUME TypeOK, HistoryKept, [Next]_vars, ~abandoned', NEW c \in Candidates
             PROVE  /\ IsPrefix(head[c], journal[c])'
                    /\ pc' \in ReviewSteps \ {"verify"} =>
                         IsPrefix(head'[c], review'.before.journal[c])
  BY DEF HistoryKept
<1>0. /\ head[c] \in Seq(Record) /\ journal[c] \in Seq(Record)
      /\ ~abandoned => /\ IsPrefix(head[c], journal[c])
                       /\ pc \in ReviewSteps \ {"verify"} =>
                            IsPrefix(head[c], review.before.journal[c])
  BY DEF TypeOK, Journals, HistoryKept
<1>1. ASSUME NEW k \in Candidates, NEW d \in Dispositions, Review(k, d)
      PROVE  /\ IsPrefix(head[c], journal[c])'
             /\ IsPrefix(head'[c], review'.before.journal[c])
  BY <1>0, <1>1 DEF Review, counts
<1>2. CASE Replace
  <2>1. review.candidate \in Candidates /\ review.record \in Record
    BY <1>2 DEF Replace, TypeOK, ReviewSteps
  <2>2. journal'[c] = journal[c] \/ journal'[c] = Append(journal[c], review.record)
    BY <1>2, <2>1 DEF Replace, TypeOK, Journals
  <2>3. ~abandoned /\ head' = head /\ review' = review /\ pc \in ReviewSteps \ {"verify"}
    BY <1>2 DEF Replace, Go, counts, ReviewSteps
  <2>4. IsPrefix(head[c], journal'[c])
    BY <1>0, <2>1, <2>2, <2>3, PrefixOfAppend
  <2>5. QED BY <1>0, <2>3, <2>4
<1>3. CASE Commit
  BY <1>0, <1>3, PrefixOfItself DEF Commit, Go, tree
<1>4. CASE Publish
  BY <1>0, <1>4, PrefixOfItself DEF Publish, tree, ReviewSteps
<1>5. CASE Fail
  <2>1. ~abandoned /\ pc # "verify" /\ pc \in ReviewSteps
    BY <1>5 DEF Fail, ReviewSteps
  <2>2. UNCHANGED <<head, journal, review>>
    BY <1>5 DEF Fail
  <2>3. QED BY <1>0, <2>1, <2>2
<1>6. CASE RestoreJournal
  <2>1. ~abandoned /\ pc \in ReviewSteps \ {"verify"} /\ pc' = "idle"
    BY <1>6 DEF RestoreJournal, End, ReviewSteps, counts
  <2>2. journal' = review.before.journal /\ head' = head
    BY <1>6 DEF RestoreJournal
  <2>3. QED BY <1>0, <2>1, <2>2 DEF ReviewSteps
<1>7. CASE \/ WriteTemporary \/ WriteSidecar \/ WriteRoot \/ RestoreRoot \/ RestoreSidecar
  <2>1. abandoned' = abandoned
    BY <1>7 DEF WriteTemporary, WriteSidecar, WriteRoot, RestoreRoot, RestoreSidecar, Go, counts
  <2>2. pc \in ReviewSteps \ {"verify"}
    BY <1>7 DEF WriteTemporary, WriteSidecar, WriteRoot, RestoreRoot, RestoreSidecar, ReviewSteps
  <2>3. UNCHANGED <<head, journal, review>>
    BY <1>7 DEF WriteTemporary, WriteSidecar, WriteRoot, RestoreRoot, RestoreSidecar, Go
  <2>4. QED BY <1>0, <2>1, <2>2, <2>3
<1>8. CASE UNCHANGED vars
  BY <1>0, <1>8 DEF vars, tree, counts
<1>9. CASE \/ Verify \/ Project \/ Reconcile \/ Refresh \/ Rank \/ (\E k \in Candidates : Ingest(k))
           \/ IngestAgain \/ Discard \/ Reread \/ Recover \/ WriteManifest \/ Crash \/ CleanUp
  <2>1. UNCHANGED <<head, journal, abandoned>>
    BY <1>9 DEF Verify, Project, Reconcile, Refresh, Rank, Ingest, IngestAgain, Discard, Reread,
                Recover, Reconciled, WriteManifest, Crash, CleanUp, Go, End, tree, counts
  <2>2. pc' \notin ReviewSteps
    BY <1>9 DEF Verify, Project, Reconcile, Refresh, Rank, Ingest, IngestAgain, Discard, Reread,
                Recover, Reconciled, WriteManifest, Crash, CleanUp, Go, End, ReviewSteps
  <2>3. QED BY <1>0, <2>1, <2>2
<1>10. CASE RestoreFails
  <2>1. abandoned' = abandoned /\ pc \in ReviewSteps \ {"verify"} /\ pc' \notin ReviewSteps
    BY <1>10 DEF RestoreFails, End, ReviewSteps
  <2>2. journal' \in {journal, review.before.journal} /\ head' = head
    BY <1>10 DEF RestoreFails
  <2>3. QED BY <1>0, <2>1, <2>2
<1>11. QED
  BY <1>1, <1>2, <1>3, <1>4, <1>5, <1>6, <1>7, <1>8, <1>9, <1>10 DEF Next

\* Whatever fails or is killed, nothing that was committed leaves a journal, as
\* long as no review was undone after its commit.
THEOREM JournalsAlwaysGrow == Spec => JournalsOnlyGrow
<1> DEFINE Grows == ~abandoned => \A c \in Candidates : IsPrefix(head[c], head'[c])
<1>1. TypeOK /\ HistoryKept /\ [Next]_vars => Grows
  <2> SUFFICES ASSUME TypeOK, HistoryKept, [Next]_vars, ~abandoned, NEW c \in Candidates
               PROVE  IsPrefix(head[c], head'[c])
    BY DEF Grows
  <2>1. head' = journal \/ head' = head
    BY DEF Next, Review, WriteTemporary, Replace, WriteSidecar, WriteRoot, Commit, Verify, Fail,
           RestoreRoot, RestoreSidecar, RestoreJournal, RestoreFails, Project, Reconcile, Refresh, Rank, Ingest,
           IngestAgain, Discard, Reread, Recover, Reconciled, Publish, WriteManifest, Crash,
           CleanUp, vars
  <2>2. head[c] \in Seq(Record)
    BY DEF TypeOK, Journals
  <2>3. QED BY <2>1, <2>2, PrefixOfItself DEF HistoryKept
<1>2. QED
  BY <1>1, InitHistory, NextHistory, InitTypeOK, NextTypeOK, PTL DEF Spec, JournalsOnlyGrow

-----------------------------------------------------------------------------
(* Commit before projection, when every failed review is undone *)

\* The steps of a review in which the tree may be ahead of the last commit.
Uncommitted == ReviewSteps \ {"verify"}

\* The database is behind the journals and the commit, and behind what a review
\* would restore.
CommitInv ==
    crashes = 0 /\ ~unrestored => \A c \in Candidates :
        /\ decision[c] # None =>
             decision[c].revision <= Len(head[c]) /\ decision[c].revision <= Len(journal[c])
        /\ pc \notin Uncommitted => Len(journal[c]) <= Len(head[c])
        /\ pc \in ReviewSteps =>
             /\ decision[c] # None => decision[c].revision <= Len(review.before.journal[c])
             /\ Len(review.before.journal[c]) <= Len(head[c])
             /\ Len(review.before.journal[c]) <= Len(journal[c])

LEMMA InitCommit == Init => CommitInv
BY DEF Init, CommitInv, NoJournals, Uncommitted, ReviewSteps

\* Without a kill and with every review undone there was none before.
LEMMA NoCrashBefore ==
    ASSUME TypeOK, [Next]_vars, crashes' = 0, ~unrestored'
    PROVE  crashes = 0 /\ ~unrestored /\ ~Crash /\ ~RestoreFails
<1>1. crashes \in Nat
  BY DEF TypeOK
<1>2. ~Crash /\ ~RestoreFails
  <2>1. ~Crash
    BY <1>1 DEF Crash
  <2>2. ~RestoreFails
    BY Zenon DEF RestoreFails
  <2>3. QED BY <2>1, <2>2
<1>3. crashes' = crashes /\ unrestored' = unrestored
  BY <1>2 DEF Next, Review, WriteTemporary, Replace, WriteSidecar, WriteRoot, Commit, Verify, Fail,
         RestoreRoot, RestoreSidecar, RestoreJournal, Project, Reconcile, Refresh, Rank, Ingest,
         IngestAgain, Discard, Reread, Recover, Reconciled, Publish, WriteManifest, CleanUp, Go,
         counts, vars
<1>4. QED BY <1>2, <1>3

\* The invariant for one candidate, by the values it is about.
Behind(step, d, h, j, before) ==
    /\ d # None => d.revision <= Len(h) /\ d.revision <= Len(j)
    /\ step \notin Uncommitted => Len(j) <= Len(h)
    /\ step \in ReviewSteps =>
         /\ d # None => d.revision <= Len(before)
         /\ Len(before) <= Len(h)
         /\ Len(before) <= Len(j)

LEMMA NextCommit == TypeOK /\ CommitInv /\ [Next]_vars => CommitInv'
<1> SUFFICES ASSUME TypeOK, CommitInv, [Next]_vars, crashes' = 0, ~unrestored', NEW c \in Candidates
             PROVE  Behind(pc, decision[c], head[c], journal[c], review.before.journal[c])'
  BY DEF CommitInv, Behind
<1>0. /\ Behind(pc, decision[c], head[c], journal[c], review.before.journal[c])
      /\ head[c] \in Seq(Record) /\ journal[c] \in Seq(Record)
      /\ decision[c] # None => decision[c].revision \in Nat
      /\ pc \in ReviewSteps => review.before.journal[c] \in Seq(Record)
      /\ ~Crash /\ ~RestoreFails
  BY NoCrashBefore DEF CommitInv, Behind, TypeOK, Journals, Projection
<1>1. ASSUME NEW k \in Candidates, NEW d \in Dispositions, Review(k, d)
      PROVE  Behind(pc, decision[c], head[c], journal[c], review.before.journal[c])'
  BY <1>0, <1>1 DEF Review, Behind, Uncommitted, ReviewSteps, database
<1>2. CASE Replace
  <2>1. review.candidate \in Candidates /\ review.record \in Record
    BY <1>2 DEF Replace, TypeOK, ReviewSteps
  <2>2. journal'[c] = journal[c] \/ journal'[c] = Append(journal[c], review.record)
    BY <1>2, <2>1 DEF Replace, TypeOK, Journals
  <2>3. Len(journal'[c]) \in Nat /\ Len(journal[c]) <= Len(journal'[c])
    BY <1>0, <2>1, <2>2
  <2>4. /\ head' = head /\ review' = review /\ decision' = decision
        /\ pc \in ReviewSteps /\ pc' \in Uncommitted
    BY <1>2 DEF Replace, Go, database, ReviewSteps, Uncommitted
  <2>5. QED BY <1>0, <2>3, <2>4 DEF Behind
<1>3. CASE Commit
  <2>1. head' = journal /\ journal' = journal /\ decision' = decision /\ review' = review
    BY <1>3 DEF Commit, Go, tree, database
  <2>2. pc \in ReviewSteps
    BY <1>3 DEF Commit, ReviewSteps
  <2>3. QED BY <1>0, <2>1, <2>2 DEF Behind
<1>4. CASE Publish
  <2>1. head' = journal /\ journal' = journal /\ decision' = decision /\ pc' \notin ReviewSteps
    BY <1>4 DEF Publish, tree, database, ReviewSteps
  <2>2. QED BY <1>0, <2>1 DEF Behind
<1>5. CASE RestoreJournal
  <2>1. /\ journal' = review.before.journal /\ head' = head /\ decision' = decision
        /\ pc \in ReviewSteps /\ pc' \notin ReviewSteps
    BY <1>5 DEF RestoreJournal, End, ReviewSteps, database
  <2>2. QED BY <1>0, <2>1 DEF Behind
<1>6. CASE Reconcile \/ Recover
  <2>1. decision'[c] = decision[c] \/ decision'[c] = Latest(c)
    BY <1>6 DEF Reconcile, Recover, Reconciled
  <2>2. head' = head /\ journal' = journal
    BY <1>6 DEF Reconcile, Recover, Reconciled, tree
  <2>3. pc \notin ReviewSteps /\ pc' \notin ReviewSteps
    BY <1>6 DEF Reconcile, Recover, Reconciled, Go, End, ReviewSteps
  <2>4. Latest(c) # None => Latest(c).revision = Len(journal[c])
    BY DEF Latest
  <2>5. QED BY <1>0, <2>1, <2>2, <2>3, <2>4 DEF Behind, Uncommitted
<1>7. CASE Discard
  <2>1. decision'[c] = None /\ head' = head /\ journal' = journal
    BY <1>7 DEF Discard, tree
  <2>2. pc \notin ReviewSteps /\ pc' \notin ReviewSteps
    BY <1>7 DEF Discard, Go, ReviewSteps
  <2>3. QED BY <1>0, <2>1, <2>2 DEF Behind, Uncommitted
<1>8. CASE \/ WriteTemporary \/ WriteSidecar \/ WriteRoot \/ Fail \/ RestoreRoot \/ RestoreSidecar
  <2>1. UNCHANGED <<head, journal, review, decision>>
    BY <1>8 DEF WriteTemporary, WriteSidecar, WriteRoot, Fail, RestoreRoot, RestoreSidecar, Go,
                database
  <2>2. pc \in ReviewSteps /\ pc' \in Uncommitted
    BY <1>8 DEF WriteTemporary, WriteSidecar, WriteRoot, Fail, RestoreRoot, RestoreSidecar, Go,
                ReviewSteps, Uncommitted
  <2>3. QED BY <1>0, <2>1, <2>2 DEF Behind
<1>9. CASE Verify
  <2>1. UNCHANGED <<head, journal, decision>> /\ pc = "verify" /\ pc' \notin ReviewSteps
    BY <1>9 DEF Verify, Go, tree, database, ReviewSteps
  <2>2. QED BY <1>0, <2>1 DEF Behind, Uncommitted
<1>10. CASE \/ Project \/ Refresh \/ Rank \/ (\E k \in Candidates : Ingest(k))
            \/ IngestAgain \/ Reread \/ WriteManifest \/ CleanUp
  <2>1. UNCHANGED <<head, journal, decision>>
    BY <1>10 DEF Project, Refresh, Rank, Ingest, IngestAgain, Reread, WriteManifest, CleanUp,
                 tree, database
  <2>2. pc \notin ReviewSteps /\ pc' \notin ReviewSteps
    BY <1>10 DEF Project, Refresh, Rank, Ingest, IngestAgain, Reread, WriteManifest, CleanUp,
                 Go, End, ReviewSteps
  <2>3. QED BY <1>0, <2>1, <2>2 DEF Behind, Uncommitted
<1>11. CASE UNCHANGED vars
  BY <1>0, <1>11 DEF vars, tree, database, Behind
<1>12. QED
  BY <1>0, <1>1, <1>2, <1>3, <1>4, <1>5, <1>6, <1>7, <1>8, <1>9, <1>10, <1>11 DEF Next

\* As long as no command is killed and every failed review is undone, the
\* database learns of a decision after the commit that holds it, also when a
\* commit could not be read back and its record was taken out of the tree again.
THEOREM AlwaysCommittedFirst == Spec => []CommittedFirst
<1>1. CommitInv => CommittedFirst
  BY DEF CommitInv, CommittedFirst
<1>2. QED BY <1>1, InitCommit, NextCommit, InitTypeOK, NextTypeOK, PTL DEF Spec

-----------------------------------------------------------------------------
(* A tree that can be read, when every failed review is undone *)

\* What a review found could be read.
FoundReadable ==
    IF review.before.namespace
    THEN review.before.sidecar = review.before.journal
         /\ review.before.pointer = review.before.sidecar
    ELSE review.before.pointer = None

\* How far the tree of a review is, forward and back.
ReviewReadable ==
    /\ FoundReadable /\ namespace
    /\ pc = "root" => sidecar = journal
    /\ pc \in {"commit", "verify"} => sidecar = journal /\ pointer = sidecar
    /\ pc \in {"restore sidecar", "restore journal"} => pointer = review.before.pointer
    /\ pc = "restore journal" => sidecar = review.before.sidecar

ReadableInv ==
    crashes = 0 /\ ~unrestored =>
        /\ temporary = IF pc = "replace" THEN {"own"} ELSE {}
        /\ IF pc \in ReviewSteps THEN ReviewReadable ELSE Readable

LEMMA InitReadable == Init => ReadableInv
BY DEF Init, ReadableInv, Readable, ReviewSteps

LEMMA NextReadable == TypeOK /\ ReadableInv /\ [Next]_vars => ReadableInv'
<1> SUFFICES ASSUME TypeOK, ReadableInv, [Next]_vars, crashes' = 0, ~unrestored'
             PROVE  /\ temporary' = IF pc' = "replace" THEN {"own"} ELSE {}
                    /\ IF pc' \in ReviewSteps THEN ReviewReadable' ELSE Readable'
  BY DEF ReadableInv
<1>0. /\ temporary = IF pc = "replace" THEN {"own"} ELSE {}
      /\ IF pc \in ReviewSteps THEN ReviewReadable ELSE Readable
      /\ ~Crash /\ ~RestoreFails
  BY NoCrashBefore DEF ReadableInv
<1> DEFINE Goal == /\ temporary' = IF pc' = "replace" THEN {"own"} ELSE {}
                   /\ IF pc' \in ReviewSteps THEN ReviewReadable' ELSE Readable'
<1>1. ASSUME NEW k \in Candidates, NEW d \in Dispositions, Review(k, d) PROVE Goal
  BY <1>0, <1>1 DEF Review, Readable, ReviewReadable, FoundReadable, ReviewSteps
<1>2. CASE WriteTemporary
  BY <1>0, <1>2 DEF WriteTemporary, Go, ReviewReadable, FoundReadable, ReviewSteps
<1>3. CASE Replace
  BY <1>0, <1>3 DEF Replace, Go, ReviewReadable, FoundReadable, ReviewSteps
<1>4. CASE WriteSidecar
  BY <1>0, <1>4 DEF WriteSidecar, Go, ReviewReadable, FoundReadable, ReviewSteps
<1>5. CASE WriteRoot
  BY <1>0, <1>5 DEF WriteRoot, Go, ReviewReadable, FoundReadable, ReviewSteps
<1>6. CASE Commit
  BY <1>0, <1>6 DEF Commit, Go, tree, ReviewReadable, FoundReadable, ReviewSteps
<1>7. CASE Verify
  BY <1>0, <1>7 DEF Verify, Go, tree, ReviewReadable, Readable, ReviewSteps
<1>8. CASE Fail
  BY <1>0, <1>8 DEF Fail, ReviewReadable, FoundReadable, ReviewSteps
<1>9. CASE RestoreRoot
  BY <1>0, <1>9 DEF RestoreRoot, Go, ReviewReadable, FoundReadable, ReviewSteps
<1>10. CASE RestoreSidecar
  BY <1>0, <1>10 DEF RestoreSidecar, Go, ReviewReadable, FoundReadable, ReviewSteps
<1>11. CASE RestoreJournal
  BY <1>0, <1>11 DEF RestoreJournal, End, ReviewReadable, FoundReadable, Readable, ReviewSteps
<1>12. CASE CleanUp
  BY <1>0, <1>12 DEF CleanUp, ReviewSteps
<1>13. CASE WriteManifest
  BY <1>0, <1>13 DEF WriteManifest, Readable, ReviewSteps
<1>14. CASE \/ Project \/ Reconcile \/ Recover \/ Refresh \/ Rank \/ Publish
            \/ (\E k \in Candidates : Ingest(k)) \/ IngestAgain \/ Discard \/ Reread
  <2>1. UNCHANGED tree
    BY <1>14 DEF Project, Reconcile, Recover, Reconciled, Refresh, Rank, Publish, Ingest,
                 IngestAgain, Discard, Reread
  <2>2. pc \notin ReviewSteps /\ pc' \notin ReviewSteps
    BY <1>14 DEF Project, Reconcile, Recover, Reconciled, Refresh, Rank, Publish, Ingest,
                 IngestAgain, Discard, Reread, Go, End, ReviewSteps
  <2>3. pc # "replace" /\ pc' # "replace"
    BY <2>2 DEF ReviewSteps
  <2>4. QED BY <1>0, <2>1, <2>2, <2>3 DEF tree, Readable
<1>15. CASE UNCHANGED vars
  BY <1>0, <1>15 DEF vars, tree, Readable, ReviewReadable, FoundReadable
<1>16. QED
  BY <1>0, <1>1, <1>2, <1>3, <1>4, <1>5, <1>6, <1>7, <1>8, <1>9, <1>10, <1>11, <1>12, <1>13,
     <1>14, <1>15 DEF Next

\* Wherever reviews fail, and however often, the next command can read the tree,
\* unless a command was killed or a second error hit the undoing of a review.
THEOREM FailureAlwaysLeavesReadable == Spec => []FailureLeavesReadable
<1>1. ReadableInv => FailureLeavesReadable
  BY DEF ReadableInv, FailureLeavesReadable, ReviewSteps
<1>2. QED BY <1>1, InitReadable, NextReadable, InitTypeOK, NextTypeOK, PTL DEF Spec

=============================================================================
