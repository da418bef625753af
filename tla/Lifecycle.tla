----------------------------- MODULE Lifecycle ------------------------------
(***************************************************************************)
(* What the lesson files promise: each lesson is drafted once, accepted by  *)
(* an operator, applied at one layer, un-applied before it is applied at    *)
(* another, and resolved for good.                                          *)
(***************************************************************************)
CONSTANTS Lessons, Layer, None

VARIABLE stage  \* state and applied layer of each lesson

Init == stage = [l \in Lessons |-> <<"none", None>>]

Move(l, from, to) ==
    /\ stage[l] = from
    /\ stage' = [stage EXCEPT ![l] = to]

\* Explain drafts several lessons at once, or a part of them when it is killed.
DraftAll(batch) ==
    /\ \A l \in batch : stage[l] = <<"none", None>>
    /\ stage' = [l \in Lessons |-> IF l \in batch THEN <<"draft", None>> ELSE stage[l]]

Step(l) ==
    \/ Move(l, <<"draft", None>>, <<"accepted", None>>)
    \/ \E layer \in Layer :
          \/ Move(l, <<"accepted", None>>, <<"applied", layer>>)
          \/ Move(l, <<"applied", layer>>, <<"accepted", None>>)
          \/ Move(l, <<"applied", layer>>, <<"resolved", layer>>)

Next == (\E batch \in SUBSET Lessons : DraftAll(batch)) \/ \E l \in Lessons : Step(l)

Spec == Init /\ [][Next]_stage
=============================================================================
