----------------------------- MODULE MCSimulation -----------------------------
(* Small instances of Simulation: processes and messages are interchangeable. *)
EXTENDS Simulation, TLC

Symmetry == Permutations(Message) \cup Permutations(Worker)
=============================================================================
