--------------------------- MODULE MCSharedBandit ---------------------------
(***************************************************************************)
(* SharedBandit for TLC: instances are alike, and so are transactions.     *)
(***************************************************************************)
EXTENDS SharedBandit, TLC

Symmetry == Permutations(Instances) \cup Permutations(Txns)
=============================================================================
