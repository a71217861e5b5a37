----------------------------- MODULE MCAgentTurn -----------------------------
(***************************************************************************)
(* AgentTurn for TLC: two messages and a notice of the dispatcher, or a    *)
(* message and a photo.                                                    *)
(***************************************************************************)
EXTENDS AgentTurn

CONSTANTS m1, m2, photo, n1

\* The bound on what arrives in one behavior.
PhotoOrRest == inbox[photo] = "new" \/ (inbox[m2] = "new" /\ inbox[n1] = "new")
=============================================================================
