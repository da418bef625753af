--------------------------- MODULE MCAdjudication ----------------------------
(* A small instance of Adjudication: two candidates whose transcripts change *)
(* twice, to an assessment that supports and to none.                        *)
EXTENDS Adjudication, TLC

CONSTANTS a, b

Assessments == <<"dismissed", "supported", None>>
Interchangeable == Permutations(Candidates)
=============================================================================
