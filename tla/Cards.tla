------------------------------- MODULE Cards -------------------------------
(***************************************************************************)
(* The cards of the wallet that pay and get paid with links: sendCard and     *)
(* redeemCard of modules/daicard, each with a state machine of its own        *)
(* (state/send.js, state/redeem.js), an event of which is heard in some of    *)
(* its states only.                                                         *)
(***************************************************************************)
EXTENDS Wallet

ASSUME SendCard == "send" \in Senders

VARIABLES
  send,     \* the send card: the state of its machine, its handler, the
            \* attempts the handler has made, the proposal of the one that went well
  redeem,   \* the redeem card: the state of its machine, its handler
  link      \* the payment behind the link: "PENDING", "mine", or "theirs"

cardVars == <<send, redeem, link>>

NotSending == [state |-> "idle", pc |-> "off", tries |-> 0, own |-> NoId]
NotRedeeming == [state |-> "idle", pc |-> "off"]

CardsInit == send = NotSending /\ redeem = NotRedeeming /\ link = "PENDING"

-----------------------------------------------------------------------------
(* sendCard: paymentHandler tries for a minute, with a new payment each time; *)
(* linkHandler once.                                                        *)

Pay(what, state) ==
  /\ Clicks(what) /\ root # "start" /\ send.state = "idle" /\ shown.dai > 0
  /\ send' = [state |-> state, pc |-> what, tries |-> 0, own |-> NoId]
  /\ UNCHANGED <<root, region, swapRate, shown, job, tips, late, upset, redeem, link>>

paymentHandler == Pay("p2p", "processingP2p")
linkHandler == Pay("link", "processingLink")

TryTransfer ==
  /\ send.pc \in {"p2p", "link"} /\ call["send"].at = "idle"
  /\ send.tries < (IF send.pc = "p2p" THEN MaxTries ELSE 1)
  /\ TransferCall("send", 1)
  /\ send' = [send EXCEPT !.tries = @ + 1]
  /\ UNCHANGED <<redeem, link>>

TransferDone ==
  /\ call["send"].at = "returned"
  /\ call' = [call EXCEPT !["send"] = Idle]
  /\ send' = [send EXCEPT !.pc = "off", !.own = call["send"].own,
                !.state = IF send.pc = "p2p" THEN "successP2p" ELSE "successLink"]
  /\ UNCHANGED <<redeem, link>>

TransferThrew ==
  /\ call["send"].at = "threw"
  /\ call' = [call EXCEPT !["send"] = Idle]
  /\ UNCHANGED <<send, redeem, link>>

\* Mutant of GiveUp: past the loop, all is taken to be well.
GiveUpHappily ==
  /\ send.pc # "off" /\ send.tries > 0 /\ call["send"].at = "idle"
  /\ send' = [send EXCEPT !.pc = "off", !.state = "successP2p"]
  /\ UNCHANGED <<redeem, link>>

\* The minute is over, or the one attempt at a link.
GiveUp ==
  /\ send.pc # "off" /\ send.tries > 0 /\ call["send"].at = "idle"
  /\ send' = [send EXCEPT !.pc = "off", !.state = "error"]
  /\ UNCHANGED <<redeem, link>>

closeModal ==
  /\ send.state \in {"successP2p", "successLink", "error"}
  /\ send' = NotSending
  /\ UNCHANGED <<redeem, link>>

-----------------------------------------------------------------------------
(* redeemCard: the link is looked up, and redeemed when the user confirms.   *)

Hears(event) ==
  LET to ==
        CASE redeem.state = "checking" /\ event = "VALIDATE" -> "ready"
          [] redeem.state = "checking" /\ event = "INVALIDATE" -> "invalid"
          [] redeem.state = "confirm" /\ event = "COLLATERALIZE" -> "collateralizing"
          [] redeem.state \in {"confirm", "collateralizing"} /\ event = "REDEEM"
               -> "redeeming"
          [] redeem.state \in {"collateralizing", "redeeming"} /\ event = "ERROR"
               -> "modal error"
          [] redeem.state = "redeeming" /\ event = "SUCCESS" -> "success"
          [] OTHER -> redeem.state
  IN [redeem EXCEPT !.state = to]

Modal == {"confirm", "collateralizing", "redeeming", "modal error", "success"}

\* validateLink, whenever the page shows the card and its channel is there.
CheckLink ==
  /\ "redeem" \in plan.clicks /\ root # "start" /\ redeem.state = "idle"
  /\ redeem' = [redeem EXCEPT !.state = "checking"]
  /\ UNCHANGED <<send, link>>

LinkChecked ==
  /\ redeem.state = "checking"
  /\ redeem' = Hears(IF link = "PENDING" THEN "VALIDATE" ELSE "INVALIDATE")
  /\ UNCHANGED <<send, link>>

Confirm ==
  /\ redeem.state = "ready" /\ redeem' = [redeem EXCEPT !.state = "confirm"]
  /\ UNCHANGED <<send, link>>

GoBack ==
  /\ redeem.state = "confirm" /\ redeem.pc = "off"
  /\ redeem' = [redeem EXCEPT !.state = "ready"]
  /\ UNCHANGED <<send, link>>

\* redeemPayment: collateral first, if the hub has too little for the payment.
\* One handler at a time is followed.
redeemPayment ==
  /\ redeem.state = "confirm" /\ redeem.pc = "off"
  /\ redeem' = IF bal["dai"].hub < 1
               THEN [Hears("COLLATERALIZE") EXCEPT !.pc = "collateral"]
               ELSE [Hears("REDEEM") EXCEPT !.pc = "resolve"]
  /\ UNCHANGED <<send, link>>

\* After an error here the handler goes on all the same.
LinkCollateral ==
  /\ redeem.pc = "collateral"
  /\ \/ /\ Collateralized("dai", 1)
        /\ redeem' = [redeem EXCEPT !.pc = "redeem"]
     \/ /\ bal' = bal
        /\ redeem' = [Hears("ERROR") EXCEPT !.pc = "redeem"]
  /\ UNCHANGED <<send, link>>

RedeemAfterCollateral ==
  /\ redeem.pc = "redeem"
  /\ redeem' = [Hears("REDEEM") EXCEPT !.pc = "resolve"]
  /\ UNCHANGED <<send, link>>

\* The hub pays (LinkedTransfers), once, if it can. Of a payment made it says
\* that it has been redeemed, until it has the sender's money; then that there
\* is no app for it.
HubResolves ==
  /\ redeem.pc = "resolve"
  /\ \/ /\ link = "PENDING" /\ bal["dai"].hub > 0
        /\ bal' = [bal EXCEPT !["dai"] = [user |-> @.user + 1, hub |-> @.hub - 1]]
        /\ link' = "mine"
        /\ \E pc \in {"paid", "failed"} : redeem' = [redeem EXCEPT !.pc = pc]
     \/ /\ link = "PENDING"
        /\ redeem' = [redeem EXCEPT !.pc = "failed"]
        /\ UNCHANGED <<bal, link>>
     \/ /\ link # "PENDING"
        /\ \E pc \in {"already", "failed"} : redeem' = [redeem EXCEPT !.pc = pc]
        /\ UNCHANGED <<bal, link>>
  /\ UNCHANGED send

\* "already been redeemed" is answered by an event the modal does not hear.
Redeemed ==
  /\ redeem.pc \in {"paid", "failed", "already"}
  /\ redeem' = [Hears(CASE redeem.pc = "paid" -> "SUCCESS"
                        [] redeem.pc = "failed" -> "ERROR"
                        [] redeem.pc = "already" -> "INVALIDATE")
                EXCEPT !.pc = "off"]
  /\ UNCHANGED <<send, link>>

\* A click beside the modal. It asks for "confirm", "collateralizing" and
\* "redeeming", which are "modal.confirm" and so on, and so always dismisses.
BackdropClick ==
  /\ redeem.state \in Modal
  /\ redeem' = [redeem EXCEPT !.state = "idle"]
  /\ UNCHANGED <<send, link>>

\* Somebody else redeems the link.
RedeemedElsewhere ==
  /\ Clicks("elsewhere") /\ link = "PENDING" /\ link' = "theirs"
  /\ UNCHANGED <<root, region, swapRate, shown, job, tips, late, upset, send, redeem>>
=============================================================================
