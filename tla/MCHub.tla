------------------------------- MODULE MCHub -------------------------------
(***************************************************************************)
(* Hub for TLC. alice pays bob, with a link or to him as recipient, and bob   *)
(* may ask for the payment twice; or he has to get a channel first; or        *)
(* somebody withdraws, before or after connecting, once or twice.            *)
(***************************************************************************)
EXTENDS Hub

CONSTANTS alice, bob, payment

AliceSends == [p \in Payments |-> alice]
BobReceives == [p \in Payments |-> bob]

Terms(app, addressed, deposit, amount, toSender) ==
  [app |-> app, addressed |-> addressed, deposit |-> deposit, counterDeposit |-> 0,
   amount |-> amount, toSender |-> toSender, toHub |-> 0]

\* What the client proposes, and what the hub must not install.
GoodAndBad ==
  {Terms("SimpleLinkedTransferApp", addressed, 1, 1, 1) : addressed \in BOOLEAN}
    \cup {Terms("SimpleLinkedTransferApp", FALSE, 1, 2, 1),
          Terms("SimpleTransferApp", FALSE, 1, 1, 1)}

\* No collateral in bob's channel.
NoCollateral ==
  [u \in Users |-> [hub |-> 0, user |-> IF u = alice THEN 2 ELSE 0]]

PlanOf(opened, connects, payments, resolves, withdrawals, stops, faults) ==
  [opened |-> opened, connects |-> connects, payments |-> payments,
   resolves |-> resolves, withdrawals |-> withdrawals,
   restarts |-> IF withdrawals > 0 /\ "submit" \notin faults THEN 0 ELSE 1,
   clientRestarts |-> stops, faults |-> faults]

\* The hub restarts in all but the last two.
FivePlans ==
  {PlanOf(Users, 0, Payments, 2, 0, 0, {"offline", "timeout", "missed", "deposit"}),
   PlanOf({alice}, 2, Payments, 1, 0, 0, {"offline", "timeout"}),
   PlanOf(Users, 0, {}, 0, 1, 3, {"submit", "timeout", "late"}),
   PlanOf({alice}, 1, {}, 0, 1, 3, {"late"}),
   PlanOf(Users, 0, {}, 0, 2, 1, {})}
=============================================================================
