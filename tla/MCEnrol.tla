------------------------------- MODULE MCEnrol ------------------------------
(* A small instance of Enrol for TLC. *)
EXTENDS Enrol, TLC

(* Machines, device ids, codes and nonces are interchangeable. *)
EnrolSymmetry ==
  Permutations(Machines) \cup Permutations(Devices) \cup Permutations(Codes)
    \cup Permutations(Nonces)
=============================================================================
