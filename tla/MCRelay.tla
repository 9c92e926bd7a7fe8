------------------------------ MODULE MCRelay ------------------------------
(* Small instances of Relay: bounds and symmetry.                          *)
EXTENDS Relay, TLC

\* Keys, gateways and contents are interchangeable; message ids are random.
Symmetry == Permutations(Message) \cup Permutations(Gateway)
=============================================================================
