-------------------------- MODULE MCBackgroundQueue --------------------------
(* Constants of BackgroundQueue for TLC. *)
EXTENDS BackgroundQueue, TLC

\* Every delegation was asked from one conversation.
OneScope == [t \in Tasks |-> CHOOSE s \in Scopes : TRUE]

TaskSymmetry == Permutations(Tasks)
=============================================================================
