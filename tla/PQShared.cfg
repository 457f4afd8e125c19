SPECIFICATION Spec
CONSTANTS
  node = node
  client = client
  channel = channel
  app = app
  nodeAct = nodeAct
  clientAct = clientAct
  nodePropose = nodePropose
  NoTask = NoTask
  Processes = {node, client}
  Remote = {client}
  Names = {channel, app}
  Tasks = {nodeAct, clientAct, nodePropose}
  ProcOf <- MCProcOf
  NamesOf <- MCNamesOf
  LockingService = TRUE
  Faults = {"refuse", "fail"}
INVARIANTS
  ThrewMeansNotDone
PROPERTIES
  SerialExecution
CHECK_DEADLOCK FALSE
