-------------------------------- MODULE Hub --------------------------------
(***************************************************************************)
(* The hub and its clients: channels are opened, payments made through the   *)
(* hub and withdrawals submitted by it, next to each other. What they share   *)
(* is the table of channels and the process of the hub, which restarts.       *)
(***************************************************************************)
EXTENDS LinkedTransfers, UserWithdrawals

vars == <<hubChannelVars, paymentVars, withdrawalVars>>

Init == HubChannelsInit /\ LinkedTransfersInit /\ UserWithdrawalsInit

\* The process of the hub ends and starts again.
Restart ==
  /\ restarts < plan.restarts /\ restarts' = restarts + 1
  /\ CreationsLost /\ PaymentsLost /\ SubmissionsLost
  /\ UNCHANGED plan

Next ==
  \/ HubChannelsNext /\ UNCHANGED <<paymentVars, withdrawalVars>>
  \/ LinkedTransfersNext /\ UNCHANGED withdrawalVars
  \/ UserWithdrawalsNext /\ UNCHANGED paymentVars
  \/ Restart

Fairness ==
  HubChannelsFairness /\ LinkedTransfersFairness /\ UserWithdrawalsFairness

Spec == Init /\ [][Next]_vars
FairSpec == Spec /\ Fairness

\* The types of the variables.
TypeOK == HubChannelsTypeOK /\ LinkedTransfersTypeOK /\ UserWithdrawalsTypeOK
=============================================================================
