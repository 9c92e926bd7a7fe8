----------------------------- MODULE MCPushOutbox -----------------------------
(* Small instances of PushOutbox.                                           *)
EXTENDS PushOutbox, TLC

Symmetry == Permutations(Device) \cup Permutations(Message) \cup Permutations(Worker)
=============================================================================
