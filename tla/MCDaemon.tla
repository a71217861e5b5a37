------------------------------- MODULE MCDaemon -------------------------------
(***************************************************************************)
(* Daemon for TLC: an agent with two blocks and two of the harness.  The   *)
(* loader refuses a second user; the factories refuse a model without its  *)
(* credential, and two big models in one process.                          *)
(***************************************************************************)
EXTENDS Daemon

MCDefault == [llm |-> 1, memories |-> 1, user |-> 1, providers |-> 2]
MCAgentKeys == {"llm", "memories"}
MCGlobalKeys == {"user", "providers"}
MCFixed == {"providers"}
MCConfigs == [{"llm", "memories", "user", "providers"} -> 1..2]
MCLoads == {c \in MCConfigs : c.user = 1}
MCBuilds == {c \in MCConfigs : c.llm <= c.providers /\ c.llm + c.memories <= 3}
=============================================================================
