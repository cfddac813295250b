------------------------------- MODULE MCStore ------------------------------
(* Small instances of Store for TLC. *)
EXTENDS Store, TLC

CONSTANTS c1, c2, r1, r2, h1
(* Devices, records and headers are interchangeable. *)
StoreSymmetry ==
  {p \in Permutations(Clients) : \A c \in HeaderLess : p[c] \in HeaderLess}
    \cup Permutations(Ids) \cup Permutations(Headers)
=============================================================================
