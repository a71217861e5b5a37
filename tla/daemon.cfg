SPECIFICATION Spec
CONSTANTS
  Agents = {"a"}
  AgentKeys <- MCAgentKeys
  GlobalKeys <- MCGlobalKeys
  Fixed <- MCFixed
  None = None
  Values = {1, 2}
  Default <- MCDefault
  Loads <- MCLoads
  Builds <- MCBuilds
  MaxSets = 2
  MaxReloads = 1
  MaxEdits = 1
  MaxCrashes = 1
INVARIANTS RuntimeLayer
PROPERTIES AcceptedStarts ReloadHappens
CHECK_DEADLOCK FALSE
