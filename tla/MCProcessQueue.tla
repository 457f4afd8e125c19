--------------------------- MODULE MCProcessQueue ---------------------------
(***************************************************************************)
(* Instances of ProcessQueue for TLC: the calls of a node process and of a  *)
(* client on one channel, named by the locks they take.                     *)
(***************************************************************************)
EXTENDS ProcessQueue

CONSTANTS
  node, client,  \* the processes
  channel, app,  \* the lock names: a multisig address, an app instance id
  nodeAct, clientAct, nodePropose  \* the calls

\* Taking an action or uninstalling names the channel and the app; proposing
\* and installing name the channel.
MCProcOf ==
  [t \in Tasks |-> IF t \in {nodeAct, nodePropose} THEN node ELSE client]

MCNamesOf ==
  [t \in Tasks |-> IF t \in {nodeAct, clientAct} THEN {channel, app} ELSE {channel}]

=============================================================================
