------------------------------ MODULE MCInboxes ------------------------------
(* Inboxes on a small instance. *)
EXTENDS Inboxes, TLC

MCMessage == 1..3
Symmetry == Permutations(Inbox)
=============================================================================
