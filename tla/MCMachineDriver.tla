-------------------------- MODULE MCMachineDriver --------------------------
(* MachineDriver on a small instance. *)
EXTENDS MachineDriver, TLC

\* Instances are interchangeable, and so are machines; only for safety runs.
Symmetry == Permutations(VM) \cup Permutations(Machine)
============================================================================
