SPECIFICATION FairSpec
CONSTANTS
  node = node
  client = client
  channel = channel
  app = app
  nodeAct = nodeAct
  clientAct = clientAct
  nodePropose = nodePropose
  NoTask = NoTask
  Processes = {node, client}
  Remote = {client}
  Names = {channel, app}
  Tasks = {nodeAct, clientAct, nodePropose}
  ProcOf <- MCProcOf
  NamesOf <- MCNamesOf
  LockingService = TRUE
  Faults = {"expire", "unrelease"}
INVARIANTS
  SerialInProcess
PROPERTIES
  InCallOrder
  CallsSettle
CHECK_DEADLOCK FALSE
