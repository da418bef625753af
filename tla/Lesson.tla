------------------------------- MODULE Lesson -------------------------------
(***************************************************************************)
(* The lesson record of twill_lessons.py and its transitions.  A record     *)
(* keeps the text an operator reviews (summary, evidence and body as one    *)
(* value), the lifecycle state, routing.applied, routing.applied_at as the  *)
(* flag dated, routing.bead and the guard artifact it refers to.            *)
(***************************************************************************)
CONSTANTS
    Layer,      \* ROUTING_LAYERS
    Hook,       \* the layer with two guard templates
    Retrieval,  \* the retrieval_only layer, which changes nothing directly
    Gate,       \* the second template of Hook
    Bead,       \* owners of applied lessons
    Text,       \* what lessons say
    None        \* a null field

Template == Layer \cup {Gate}

\* The layer a guard template belongs to.
RequiredLayer(t) == IF t = Gate THEN Hook ELSE t

Terminal == {"resolved", "escalated", "retired"}

State == {"draft", "accepted", "applied"} \cup Terminal

Record == [text : Text, state : State, layer : Layer \cup {None}, dated : BOOLEAN,
           bead : Bead \cup {None}, guard : Template \cup {None}]

ASSUME LessonAssumption ==
    /\ Hook \in Layer
    /\ Retrieval \in Layer
    /\ Hook # Retrieval
    /\ Gate \notin Layer
    /\ None \notin Template \cup Bead

\* What a lesson is when Explain writes it.
Draft(t) == [text |-> t, state |-> "draft", layer |-> None, dated |-> FALSE,
             bead |-> None, guard |-> None]

\* The records load_lesson accepts.
Valid(r) ==
    /\ r.layer # None => r.dated
    /\ r.layer \notin {None, Retrieval} => r.bead # None
    /\ r.layer = Retrieval => r.bead = None
    /\ r.state \in {"applied"} \cup Terminal <=> r.layer # None

\* The states a named command may move a lesson to.
Legal(from) ==
    CASE from = "draft" -> {"accepted"}
      [] from = "accepted" -> {"applied"}
      [] from = "applied" -> Terminal \cup {"accepted"}
      [] OTHER -> {}

\* An operator may name an owner exactly when the layer changes something.
Owned(layer, bead) == layer = Retrieval <=> bead = None

\* Mutant: an owner from an earlier apply is kept when none is given.
AppliedKeepingOwner(r, layer, bead) ==
    [r EXCEPT !.state = "applied", !.layer = layer, !.dated = TRUE,
              !.bead = IF bead = None THEN r.bead ELSE bead]

Applied(r, layer, bead) ==
    [r EXCEPT !.state = "applied", !.layer = layer, !.dated = TRUE, !.bead = bead]

\* Un-applying clears routing.applied only.
Accepted(r) == [r EXCEPT !.state = "accepted", !.layer = None]

Resolved(r) == [r EXCEPT !.state = "resolved"]

\* The same apply again is no transition; a different bead is refused.
AlreadyApplied(r, layer, bead) ==
    /\ r.state = "applied"
    /\ r.layer = layer
    /\ bead \in {None, r.bead}

\* attach_guard: only for the layer the lesson is applied at.
Guarded(r, t) == [r EXCEPT !.guard = t]
=============================================================================
