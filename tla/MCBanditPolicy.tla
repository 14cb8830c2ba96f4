--------------------------- MODULE MCBanditPolicy ---------------------------
(***************************************************************************)
(* BanditPolicy for TLC.                                                   *)
(***************************************************************************)
EXTENDS BanditPolicy, TLC

MCDecay(e) == e \div 2

Symmetry ==
  Permutations(Txns) \cup Permutations(Contexts) \cup Permutations(Models)
=============================================================================
