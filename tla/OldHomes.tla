------------------------------- MODULE OldHomes -------------------------------
(***************************************************************************)
(* Homes an earlier version may have left, for TLC: every old path in the  *)
(* files it could be in, an agent that was deleted but for its secrets,    *)
(* and a store of the tools that was, or was not, migrated.                *)
(***************************************************************************)
EXTENDS TLC

Part(S, val) == {[k \in D |-> val] : D \in SUBSET S}

Globals ==
  {base @@ enrollment @@ [k \in {"photos.debug", "knowledge.threshold", "api_key"} |-> "x"] :
     base \in Part({"broadcast.behavior", "groups.behavior"}, "x"),
     enrollment \in Part({"photos.faces.enrollment_chats"}, "x")}
GlobalSecrets ==
  {base @@ ("api_key" :> "y") @@ block :
     base \in Part({"broadcast.behavior", "photos.enrollment_chats"}, "y"),
     block \in {<<>>, "tool_config" :> {"ns1"}}}
AgentFiles ==
  {"id" :> "x",
   "id" :> "x" @@ "groups.behavior" :> "z" @@ "broadcast.behavior" :> "x"}
AgentSecrets == {"api_key" :> "y", [k \in {"api_key", "broadcast.behavior"} |-> "y"]}

Optional(file, C) == {<<>>} \cup {file :> content : content \in C}
AllHomes ==
  {g @@ gs @@ a @@ as @@ tools :
     g \in {"global" :> content : content \in Globals},
     gs \in Optional("global.secrets", GlobalSecrets),
     a \in Optional("agent", AgentFiles), as \in Optional("agent.secrets", AgentSecrets),
     tools \in Optional("tool_config", {"tool_config" :> {"ns1"}})}

\* A secrets file that could not be migrated to groups is folded as it is, and the groups of its
\* main file win in the next start: no home here has the behavior in both.
Behaves(h, file) ==
  file \in DOMAIN h /\ DOMAIN h[file] \cap {"groups.behavior", "broadcast.behavior"} # {}
Homes ==
  {h \in AllHomes : \A main, secrets \in DOMAIN h :
     <<main, secrets>> \in {<<"global", "global.secrets">>, <<"agent", "agent.secrets">>}
     => ~(Behaves(h, main) /\ Behaves(h, secrets))}
=============================================================================
