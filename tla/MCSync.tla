------------------------------- MODULE MCSync -------------------------------
(* Small instances of Sync for TLC. *)
EXTENDS SyncProps, TLC

CONSTANTS m1, m2
(* Machines are interchangeable. *)
MachineSymmetry == Permutations(Machines)

(* Storage is read by nothing but a restart: once the faults are used up,  *)
(* states that differ in it alone are one.                                 *)
Readable ==
  <<srv, vault, state, pc, job, minted, fresh, owed, ops, faults,
    IF faults.n < MaxFaults THEN disk ELSE {}>>
=============================================================================
