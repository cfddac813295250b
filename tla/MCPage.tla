------------------------------- MODULE MCPage -------------------------------
(* Instance for model checking: the vault starts empty, with an entry of   *)
(* one site or with an entry of two; the sites are alike.                  *)
EXTENDS Page, TLC

CONSTANTS s1, s2, u1, t1

MCStart ==
  {[username |-> u1, password |-> 1, history |-> {}, urls |-> urls, provisional |-> FALSE] :
     urls \in (SUBSET Sites) \ {{}}}
PageSymmetry == Permutations(Sites)
=============================================================================
