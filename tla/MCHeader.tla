------------------------------ MODULE MCHeader ------------------------------
(* A small instance of Header for TLC. *)
EXTENDS Header, TLC

(* Machines and pages are interchangeable. *)
HeaderSymmetry == Permutations(Machines) \cup Permutations(Pages)
=============================================================================
