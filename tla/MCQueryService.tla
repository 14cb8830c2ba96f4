--------------------------- MODULE MCQueryService ---------------------------
(***************************************************************************)
(* QueryService on small sets, for TLC.                                    *)
(***************************************************************************)
EXTENDS FeedbackProperties, TLC

(* Ids, requests and arms are interchangeable; scores are too. *)
Symmetry ==
  Permutations(Txns) \cup Permutations(Feedbacks) \cup Permutations(Arms)
    \cup Permutations(Scores)
=============================================================================
