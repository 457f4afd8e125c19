--------------------------- MODULE LinkedTransfers ---------------------------
(***************************************************************************)
(* Linked transfers through the hub (modules/node, modules/client). The     *)
(* sender's client installs an app with the hub that pays out to whoever    *)
(* shows a pre-image; the hub, asked by someone who knows it, puts the same *)
(* money into an app with that user, unlocks it, and then unlocks the       *)
(* sender's app for itself.                                                 *)
(*                                                                         *)
(* A call of cf-core (propose, install, take action, uninstall, deposit) is *)
(* one step here, done or failed: inside them see ChannelProtocols and      *)
(* Funding. The steps between are what the hub's handlers do between two    *)
(* awaits, so that any number of them interleave. The channels are those of *)
(* the hub's own store.                                                     *)
(***************************************************************************)
EXTENDS HubChannels

CONSTANTS
  Payments,
  Sender, Recipient,  \* [Payments -> Users]
  Proposals,          \* the apps proposed to the hub for a payment
  Funds,              \* the free balances of a channel, at first
  MinimumMaintainedCollateral, AmountToCollateralize  \* the payment profile

Resolves == 1..Max({p.resolves : p \in Plans} \cup {0})

\* A row of the table linked_transfer.
Statuses == {"PENDING", "REDEEMED", "RECLAIMED"}
Rows == [status : Statuses, amount : Nat, recipient : BOOLEAN, receiverApp : Nat]

\* There are finitely many plans. Swaps, the other app that the hub installs,
\* are none of the proposals.
ASSUME LinkedTransfersConstants ==
  /\ None \notin Payments \cup Proposals \cup Nat \cup Rows
  /\ Resolves \subseteq Nat \ {0}
  /\ Sender \in [Payments -> Users] /\ Recipient \in [Payments -> Users]
  /\ Funds \in [Users -> [hub : Nat, user : Nat]]
  /\ \A bounds \in Plans : bounds.payments \subseteq Payments
  /\ MinimumMaintainedCollateral \in Nat /\ AmountToCollateralize \in Nat
  /\ \A q \in Proposals :
       /\ q.app \in STRING \ {"SimpleTwoPartySwapApp"} /\ q.addressed \in BOOLEAN
       /\ {q.deposit, q.counterDeposit, q.amount, q.toSender, q.toHub} \subseteq Nat

VARIABLES
  sending,   \* of every payment, where the sender's client has got to
  proposal,  \* what it proposed
  inbox,     \* payments whose PROPOSE_INSTALL event the hub has to handle
  saving,    \* payments whose app is installed and whose row is to be saved
  apps,      \* the linked transfer apps installed: [payment, by, unlocked]
  free,      \* the free balances of every user's channel with the hub
  row,       \* the table linked_transfer
  inFlight,  \* channel.collateralizationInFlight
  resolve,   \* the calls of resolveLinkedTransfer
  request,   \* the call of requestCollateral that each of them makes
  paid,      \* what users got from the hub's apps, of every payment
  taken      \* what the hub got from the sender's

senderVars == <<sending, proposal, inbox, saving>>
hubVars == <<row, inFlight, resolve, request>>
moneyVars == <<apps, free, paid, taken>>
paymentVars == <<senderVars, hubVars, moneyVars>>
paymentStepVars == <<paymentVars, hubChannelVars>>

NoResolve == [pc |-> "idle", payment |-> None, transfer |-> None,
              senderApp |-> None, alone |-> TRUE, marked |-> FALSE]
NoRequest == [pc |-> "idle", amount |-> 0]

LinkedTransfersInit ==
  /\ sending = [p \in Payments |-> "idle"]
  /\ proposal = [p \in Payments |-> None]
  /\ inbox = {} /\ saving = {}
  /\ apps = {} /\ free = Funds
  /\ row = [p \in Payments |-> None]
  /\ inFlight = [u \in Users |-> FALSE]
  /\ resolve = [r \in Resolves |-> NoResolve]
  /\ request = [r \in Resolves |-> NoRequest]
  /\ paid = [p \in Payments |-> 0] /\ taken = [p \in Payments |-> 0]

\* The app of payment p that the sender funds (by 0), or the hub for call r.
AppOf(p, by) == [payment |-> p, by |-> by, unlocked |-> FALSE]
Installed(p, by) == \E a \in apps : a.payment = p /\ a.by = by

-----------------------------------------------------------------------------
(***************************************************************************)
(* What a user's proposal must satisfy for the hub to install it.           *)
(***************************************************************************)
AllowNodeInstall(app) == app \in {"SimpleLinkedTransferApp", "SimpleTwoPartySwapApp"}

commonAppProposalValidation(u, q) ==
  /\ HasRow(u)
  /\ q.deposit > 0 \/ q.counterDeposit > 0
  /\ free[u].user >= q.deposit /\ free[u].hub >= q.counterDeposit

\* A mutant: any amount will do.
validateAnyLinkedTransfer(q) == q.counterDeposit = 0 /\ q.deposit > 0

validateSimpleLinkedTransfer(q) ==
  /\ q.counterDeposit = 0 /\ q.deposit > 0
  /\ q.amount = q.deposit
  /\ q.toSender > 0 /\ q.toSender = q.deposit
  /\ q.toHub = q.counterDeposit

verifyAppProposal(u, q) ==
  /\ AllowNodeInstall(q.app)
  /\ commonAppProposalValidation(u, q)
  /\ q.app = "SimpleLinkedTransferApp" => validateSimpleLinkedTransfer(q)

\* What the sender's app is worth to whoever has the pre-image: the link is a
\* hash over the amount too, which the hub takes to be the deposit.
Claim(p) == IF proposal[p].amount = proposal[p].deposit THEN proposal[p].toSender ELSE 0

-----------------------------------------------------------------------------
\* The sender's client proposes the app and waits for it to be installed. An
\* addressed payment is a LINKED_TRANSFER_TO_RECIPIENT.
Propose(p) ==
  /\ p \in plan.payments /\ Connected(Sender[p])
  /\ sending[p] = "idle"
  /\ \E q \in Proposals :
       /\ q.deposit <= free[Sender[p]].user
       /\ proposal' = [proposal EXCEPT ![p] = q]
  /\ sending' = [sending EXCEPT ![p] = "proposed"]
  /\ inbox' = inbox \cup {p}
  /\ UNCHANGED <<saving, hubVars, moneyVars, hubChannelVars>>

\* The hub installs what it finds valid, and rejects it otherwise or when the
\* protocol fails. The row is saved only after.
AllowOrReject(p) ==
  /\ p \in inbox
  /\ inbox' = inbox \ {p}
  /\ \/ /\ verifyAppProposal(Sender[p], proposal[p])
        /\ apps' = apps \cup {AppOf(p, 0)}
        /\ free' = [free EXCEPT ![Sender[p]].user = @ - proposal[p].deposit]
        /\ saving' = saving \cup {p}
        /\ UNCHANGED sending
     \/ /\ verifyAppProposal(Sender[p], proposal[p]) => Fault("offline")
        /\ sending' = [sending EXCEPT ![p] = IF @ = "proposed" THEN "failed" ELSE @]
        /\ UNCHANGED <<apps, free, saving>>
  /\ UNCHANGED <<proposal, hubVars, paid, taken, hubChannelVars>>

\* saveLinkedTransfer. The transfer is of what the app was funded with.
SaveLinkedTransfer(p) ==
  /\ p \in saving
  /\ saving' = saving \ {p}
  /\ row' = [row EXCEPT ![p] = [status |-> "PENDING", amount |-> proposal[p].deposit,
                                recipient |-> FALSE, receiverApp |-> 0]]
  /\ UNCHANGED <<sending, proposal, inbox, inFlight, resolve, request,
                 moneyVars, hubChannelVars>>

\* The hub's INSTALL event reaches the client, or 15 seconds are over.
InstallEvent(p) ==
  /\ sending[p] = "proposed" /\ Installed(p, 0)
  /\ sending' = [sending EXCEPT ![p] = "installed"]
  /\ UNCHANGED <<proposal, inbox, saving, hubVars, moneyVars, hubChannelVars>>

GiveUp(p) ==
  /\ Fault("timeout")
  /\ sending[p] = "proposed"
  /\ sending' = [sending EXCEPT ![p] = "failed"]
  /\ UNCHANGED <<proposal, inbox, saving, hubVars, moneyVars, hubChannelVars>>

\* setRecipientAndEncryptedPreImageOnLinkedTransfer. It throws when the row is
\* not saved yet, or the recipient has no channel; the pre-image is published
\* only after.
SetRecipient(p) ==
  /\ sending[p] = "installed" /\ proposal[p].addressed
  /\ \/ /\ row[p] = None \/ ~HasRow(Recipient[p])
        /\ sending' = [sending EXCEPT ![p] = "failed"]
        /\ UNCHANGED row
     \/ /\ row[p] # None /\ HasRow(Recipient[p])
        /\ sending' = [sending EXCEPT ![p] = "sent"]
        /\ row' = [row EXCEPT ![p].recipient = TRUE]
  /\ UNCHANGED <<proposal, inbox, saving, inFlight, resolve, request,
                 moneyVars, hubChannelVars>>

-----------------------------------------------------------------------------
(***************************************************************************)
(* requestCollateral, called by resolve r. A resolve that waits for its     *)
(* collateral is resumed by the confirmation of any deposit of the hub into *)
(* that channel, or when the call did not deposit at all.                   *)
(***************************************************************************)
UserOf(r) == Recipient[resolve[r].payment]
AmountOf(r) == resolve[r].transfer.amount

Resumed(r) == IF resolve[r].pc = "waiting" THEN [resolve[r] EXCEPT !.pc = "ready"]
                                           ELSE resolve[r]

NotDeposited(r) ==
  /\ request' = [request EXCEPT ![r].pc = "done"]
  /\ resolve' = [resolve EXCEPT ![r] = Resumed(r)]

ReadFlag(r) ==
  /\ request[r].pc = "asked"
  /\ \/ inFlight[UserOf(r)] /\ NotDeposited(r)
     \/ /\ ~inFlight[UserOf(r)]
        /\ request' = [request EXCEPT ![r].pc = "unflagged"]
        /\ UNCHANGED resolve
  /\ UNCHANGED <<senderVars, row, inFlight, moneyVars, hubChannelVars>>

CollateralNeeded(amount) == Max({MinimumMaintainedCollateral, amount})

AmountDeposit(needed, nodeFreeBalance) ==
  Max({needed, AmountToCollateralize}) - nodeFreeBalance

ReadBalance(r) ==
  LET needed == CollateralNeeded(AmountOf(r))
      nodeFreeBalance == free[UserOf(r)].hub IN
  /\ request[r].pc = "unflagged"
  /\ \/ nodeFreeBalance >= needed /\ NotDeposited(r)
     \/ /\ nodeFreeBalance < needed
        /\ request' = [request EXCEPT ![r] =
             [pc |-> "short", amount |-> AmountDeposit(needed, nodeFreeBalance)]]
        /\ UNCHANGED resolve
  /\ UNCHANGED <<senderVars, row, inFlight, moneyVars, hubChannelVars>>

\* Only now the flag is set, whatever it is.
SetInFlight(r) ==
  /\ request[r].pc = "short"
  /\ request' = [request EXCEPT ![r].pc = "depositing"]
  /\ inFlight' = [inFlight EXCEPT ![UserOf(r)] = TRUE]
  /\ UNCHANGED <<senderVars, row, resolve, moneyVars, hubChannelVars>>

DepositConfirmed(r) ==
  /\ request[r].pc = "depositing"
  /\ request' = [request EXCEPT ![r].pc = "confirmed"]
  /\ free' = [free EXCEPT ![UserOf(r)].hub = @ + request[r].amount]
  /\ resolve' = [s \in Resolves |->
       IF resolve[s].pc = "waiting" /\ UserOf(s) = UserOf(r) THEN Resumed(s)
                                                             ELSE resolve[s]]
  /\ UNCHANGED <<senderVars, row, inFlight, apps, paid, taken, hubChannelVars>>

\* A mutant: the flag stays.
DepositFailedOnly(r) ==
  /\ Fault("deposit")
  /\ request[r].pc = "depositing"
  /\ request' = [request EXCEPT ![r].pc = "done"]
  /\ resolve' = [resolve EXCEPT ![r].pc = IF @ = "waiting" THEN "failed" ELSE @]
  /\ UNCHANGED <<senderVars, row, inFlight, moneyVars, hubChannelVars>>

DepositFailed(r) ==
  /\ Fault("deposit")
  /\ request[r].pc = "depositing"
  /\ request' = [request EXCEPT ![r].pc = "done"]
  /\ inFlight' = [inFlight EXCEPT ![UserOf(r)] = FALSE]
  /\ resolve' = [resolve EXCEPT ![r].pc = IF @ = "waiting" THEN "failed" ELSE @]
  /\ UNCHANGED <<senderVars, row, moneyVars, hubChannelVars>>

\* The hub's own listener of DEPOSIT_CONFIRMED.
ClearCollateralizationInFlight(r) ==
  /\ request[r].pc = "confirmed"
  /\ request' = [request EXCEPT ![r].pc = "done"]
  /\ inFlight' = [inFlight EXCEPT ![UserOf(r)] = FALSE]
  /\ UNCHANGED <<senderVars, row, resolve, moneyVars, hubChannelVars>>

-----------------------------------------------------------------------------
(***************************************************************************)
(* resolveLinkedTransfer, await by await. Clients call it when they get the *)
(* message that a payment was sent, for every pending transfer when they    *)
(* start, and when a link is opened: perhaps more than once at a time.      *)
(***************************************************************************)
Goto(r, pc) == resolve' = [resolve EXCEPT ![r].pc = pc]

\* Past the check of the status, not yet REDEEMED in the table.
Accepted(s, p) ==
  /\ resolve[s].payment = p
  /\ resolve[s].pc \notin {"idle", "asked", "refused"}
  /\ ~resolve[s].marked

Ask(r, p) ==
  /\ r <= plan.resolves /\ Connected(Recipient[p])
  /\ resolve[r].pc = "idle" /\ \A s \in 1..(r - 1) : resolve[s].pc # "idle"
  /\ sending[p] = "sent" \/ (sending[p] = "installed" /\ ~proposal[p].addressed)
  /\ resolve' = [resolve EXCEPT ![r].pc = "asked", ![r].payment = p]
  /\ UNCHANGED <<senderVars, row, inFlight, request, moneyVars, hubChannelVars>>

\* A mutant: the status is not looked at.
FindAnyTransfer(r) ==
  LET p == resolve[r].payment IN
  /\ resolve[r].pc = "asked"
  /\ \/ row[p] = None /\ Goto(r, "refused")
     \/ /\ row[p] # None
        /\ resolve' = [resolve EXCEPT ![r].pc = "found", ![r].transfer = row[p],
             ![r].alone = \A s \in Resolves \ {r} : ~Accepted(s, p)]
  /\ UNCHANGED <<senderVars, row, inFlight, request, moneyVars, hubChannelVars>>

FindTransfer(r) ==
  LET p == resolve[r].payment IN
  /\ resolve[r].pc = "asked"
  /\ \/ row[p] = None /\ Goto(r, "refused")
     \/ row[p] # None /\ row[p].status = "REDEEMED" /\ Goto(r, "refused")
     \/ ~HasRow(Recipient[p]) /\ Goto(r, "refused")
     \/ /\ row[p] # None /\ row[p].status # "REDEEMED" /\ HasRow(Recipient[p])
        /\ resolve' = [resolve EXCEPT ![r].pc = "found", ![r].transfer = row[p],
             ![r].alone = \A s \in Resolves \ {r} : ~Accepted(s, p)]
  /\ UNCHANGED <<senderVars, row, inFlight, request, moneyVars, hubChannelVars>>

\* The first app in the store with that link, in whichever channel. Then the
\* free balance decides whether to wait for collateral.
FindSenderApp(r) ==
  LET p == resolve[r].payment
      linked == {a \in apps : a.payment = p} IN
  /\ resolve[r].pc = "found"
  /\ \/ linked = {} /\ Goto(r, "failed") /\ UNCHANGED request
     \/ /\ \E a \in linked :
             resolve' = [resolve EXCEPT
               ![r].senderApp = a.by,
               ![r].pc = IF free[Recipient[p]].hub < resolve[r].transfer.amount
                         THEN "waiting" ELSE "ready"]
        /\ request' = [request EXCEPT ![r].pc = "asked"]
  /\ UNCHANGED <<senderVars, row, inFlight, moneyVars, hubChannelVars>>

\* proposeInstallApp asserts that the hub has the money in its free balance.
ProposeInstall(r) ==
  /\ resolve[r].pc = "ready"
  /\ \/ free[UserOf(r)].hub >= AmountOf(r) /\ Goto(r, "proposed")
     \/ /\ free[UserOf(r)].hub < AmountOf(r) \/ Fault("offline")
        /\ Goto(r, "failed")
  /\ UNCHANGED <<senderVars, row, inFlight, request, moneyVars, hubChannelVars>>

\* A mutant: the money is not looked for.
ClientInstallsAnyway(r) ==
  /\ resolve[r].pc = "proposed"
  /\ apps' = apps \cup {AppOf(resolve[r].payment, r)}
  /\ free' = [free EXCEPT ![UserOf(r)].hub = @ - AmountOf(r)]
  /\ Goto(r, "installed")
  /\ UNCHANGED <<senderVars, row, inFlight, request, paid, taken, hubChannelVars>>

(***************************************************************************)
(* The client installs whatever linked transfer is proposed to it, and      *)
(* publishes that it did. The hub waits for that without a timer: for ever  *)
(* if the free balance is gone by then, or the message missed it.           *)
(***************************************************************************)
ClientInstalls(r) ==
  /\ resolve[r].pc = "proposed"
  /\ \/ /\ free[UserOf(r)].hub >= AmountOf(r)
        /\ apps' = apps \cup {AppOf(resolve[r].payment, r)}
        /\ free' = [free EXCEPT ![UserOf(r)].hub = @ - AmountOf(r)]
        /\ \/ Goto(r, "installed")
           \/ Fault("missed") /\ Goto(r, "stuck")
     \/ /\ free[UserOf(r)].hub < AmountOf(r) \/ Fault("offline")
        /\ Goto(r, "stuck")
        /\ UNCHANGED <<apps, free>>
  /\ UNCHANGED <<senderVars, row, inFlight, request, paid, taken, hubChannelVars>>

\* The row as it was read, with the receiver's app.
SaveTransfer(r) ==
  LET transfer == [resolve[r].transfer EXCEPT !.receiverApp = r] IN
  /\ resolve[r].pc = "installed"
  /\ row' = [row EXCEPT ![resolve[r].payment] = transfer]
  /\ resolve' = [resolve EXCEPT ![r].pc = "saved", ![r].transfer = transfer]
  /\ UNCHANGED <<senderVars, inFlight, request, moneyVars, hubChannelVars>>

\* takeAction with the pre-image, on an app that must be installed.
TakeAction(p, by) ==
  /\ Installed(p, by)
  /\ apps' = {IF a.payment = p /\ a.by = by THEN [a EXCEPT !.unlocked = TRUE]
                                            ELSE a : a \in apps}

\* The money goes to the other party if the app was unlocked, and back
\* otherwise.
UninstallApp(p, by) ==
  \E a \in apps :
    LET stake == IF by = 0 THEN proposal[p].deposit ELSE row[p].amount
        claim == IF by = 0 THEN Claim(p) ELSE stake
        moved == IF a.unlocked THEN claim ELSE 0 IN
    /\ a.payment = p /\ a.by = by
    /\ apps' = apps \ {a}
    /\ IF by = 0
       THEN /\ free' = [free EXCEPT ![Sender[p]] =
                          [hub |-> @.hub + moved, user |-> @.user + (stake - moved)]]
            /\ taken' = [taken EXCEPT ![p] = @ + moved]
            /\ UNCHANGED paid
       ELSE /\ free' = [free EXCEPT ![Recipient[p]] =
                          [hub |-> @.hub + (stake - moved), user |-> @.user + moved]]
            /\ paid' = [paid EXCEPT ![p] = @ + moved]
            /\ UNCHANGED taken

\* A mutant: the app is unlocked, but its uninstall is not waited for.
UnlockWithoutWaiting(r) ==
  LET p == resolve[r].payment IN
  /\ resolve[r].pc = "saved"
  /\ TakeAction(p, r) /\ Goto(r, "paid")
  /\ UNCHANGED <<senderVars, row, inFlight, request, free, paid, taken, hubChannelVars>>

UnlockReceiver(r) ==
  LET p == resolve[r].payment IN
  /\ resolve[r].pc = "saved"
  /\ \/ TakeAction(p, r) /\ Goto(r, "unlocked")
     \/ /\ ~Installed(p, r) \/ Fault("offline")
        /\ Goto(r, "failed") /\ UNCHANGED apps
  /\ UNCHANGED <<senderVars, row, inFlight, request, free, paid, taken, hubChannelVars>>

UninstallReceiver(r) ==
  LET p == resolve[r].payment IN
  /\ resolve[r].pc = "unlocked"
  /\ \/ UninstallApp(p, r) /\ Goto(r, "paid")
     \/ /\ ~Installed(p, r) \/ Fault("offline")
        /\ Goto(r, "failed") /\ UNCHANGED moneyVars
  /\ UNCHANGED <<senderVars, row, inFlight, request, hubChannelVars>>

\* markAsRedeemed, which nothing waits for.
MarkAsRedeemed(r) ==
  LET transfer == [resolve[r].transfer EXCEPT !.status = "REDEEMED"] IN
  /\ resolve[r].pc \in {"paid", "reclaiming", "reclaimed", "unreclaimed"}
  /\ ~resolve[r].marked
  /\ row' = [row EXCEPT ![resolve[r].payment] = transfer]
  /\ resolve' = [resolve EXCEPT ![r].transfer = transfer, ![r].marked = TRUE]
  /\ UNCHANGED <<senderVars, inFlight, request, moneyVars, hubChannelVars>>

\* The sender's app is unlocked in the background; a failure is only logged.
UnlockSender(r) ==
  LET p == resolve[r].payment
      by == resolve[r].senderApp IN
  /\ resolve[r].pc = "paid"
  /\ \/ TakeAction(p, by) /\ Goto(r, "reclaiming")
     \/ /\ ~Installed(p, by) \/ Fault("offline")
        /\ Goto(r, "unreclaimed") /\ UNCHANGED apps
  /\ UNCHANGED <<senderVars, row, inFlight, request, free, paid, taken, hubChannelVars>>

\* A mutant: the app is left installed.
LeaveSender(r) ==
  /\ resolve[r].pc = "reclaiming"
  /\ Goto(r, "reclaimed")
  /\ UNCHANGED <<senderVars, row, inFlight, request, moneyVars, hubChannelVars>>

UninstallSender(r) ==
  LET p == resolve[r].payment
      by == resolve[r].senderApp IN
  /\ resolve[r].pc = "reclaiming"
  /\ \/ UninstallApp(p, by) /\ Goto(r, "reclaimed")
     \/ /\ ~Installed(p, by) \/ Fault("offline")
        /\ Goto(r, "unreclaimed") /\ UNCHANGED moneyVars
  /\ UNCHANGED <<senderVars, row, inFlight, request, hubChannelVars>>

\* markAsReclaimed; two protocol runs take longer than the write before.
MarkAsReclaimed(r) ==
  LET transfer == [resolve[r].transfer EXCEPT !.status = "RECLAIMED"] IN
  /\ resolve[r].pc = "reclaimed" /\ resolve[r].marked
  /\ row' = [row EXCEPT ![resolve[r].payment] = transfer]
  /\ resolve' = [resolve EXCEPT ![r].transfer = transfer, ![r].pc = "done"]
  /\ UNCHANGED <<senderVars, inFlight, request, moneyVars, hubChannelVars>>

-----------------------------------------------------------------------------
Ended == {"idle", "refused", "failed", "stuck", "unreclaimed", "done", "lost"}

(***************************************************************************)
(* A restart of the hub keeps the tables and the channels; calls, listeners   *)
(* and events are lost, and nothing picks up where they were.                *)
(***************************************************************************)
PaymentsLost ==
  /\ inbox' = {} /\ saving' = {}
  /\ resolve' = [r \in Resolves |->
       IF resolve[r].pc \in Ended \ {"stuck", "unreclaimed"} THEN resolve[r]
       ELSE [resolve[r] EXCEPT !.pc = IF @ = "asked" THEN "refused" ELSE "lost"]]
  /\ request' = [r \in Resolves |->
       IF request[r].pc = "idle" THEN request[r] ELSE [request[r] EXCEPT !.pc = "done"]]
  /\ UNCHANGED <<sending, proposal, row, inFlight, moneyVars>>

ResolveStep(r) ==
  \/ FindTransfer(r) \/ FindSenderApp(r) \/ ProposeInstall(r) \/ ClientInstalls(r)
  \/ SaveTransfer(r) \/ UnlockReceiver(r) \/ UninstallReceiver(r)
  \/ MarkAsRedeemed(r) \/ UnlockSender(r) \/ UninstallSender(r) \/ MarkAsReclaimed(r)

RequestStep(r) ==
  \/ ReadFlag(r) \/ ReadBalance(r) \/ SetInFlight(r) \/ DepositConfirmed(r)
  \/ DepositFailed(r) \/ ClearCollateralizationInFlight(r)

LinkedTransfersNext ==
  \/ \E p \in Payments :
       \/ Propose(p) \/ AllowOrReject(p) \/ SaveLinkedTransfer(p)
       \/ InstallEvent(p) \/ GiveUp(p) \/ SetRecipient(p)
       \/ \E r \in Resolves : Ask(r, p)
  \/ \E r \in Resolves : ResolveStep(r) \/ RequestStep(r)

\* Handlers run on, protocols end one way or the other, deposits are mined.
LinkedTransfersFairness ==
  /\ \A p \in Payments : WF_paymentStepVars(SaveLinkedTransfer(p))
  /\ \A r \in Resolves : WF_paymentStepVars(ResolveStep(r) \/ RequestStep(r))

-----------------------------------------------------------------------------
Calls ==
  [pc : Ended \cup {"asked", "found", "waiting", "ready", "proposed", "installed",
                    "saved", "unlocked", "paid", "reclaiming", "reclaimed"},
   payment : Payments \cup {None}, transfer : Rows \cup {None},
   senderApp : Nat \cup {None}, alone : BOOLEAN, marked : BOOLEAN]

\* The types of the variables.
LinkedTransfersTypeOK ==
  /\ sending \in [Payments -> {"idle", "proposed", "installed", "sent", "failed"}]
  /\ proposal \in [Payments -> Proposals \cup {None}]
  /\ inbox \subseteq Payments /\ saving \subseteq Payments
  /\ apps \subseteq [payment : Payments, by : Nat, unlocked : BOOLEAN]
  /\ free \in [Users -> [hub : Nat, user : Nat]]
  /\ row \in [Payments -> Rows \cup {None}]
  /\ inFlight \in [Users -> BOOLEAN]
  /\ resolve \in [Resolves -> Calls]
  /\ request \in [Resolves ->
       [pc : {"idle", "asked", "unflagged", "short", "depositing", "confirmed", "done"},
        amount : Nat]]
  /\ paid \in [Payments -> Nat] /\ taken \in [Payments -> Nat]

-----------------------------------------------------------------------------
\* No call for the payment was accepted while another accepted before it had
\* not (or, failed or lost, never) marked the payment redeemed.
OneByOne(p) == \A r \in Resolves : resolve[r].payment = p => resolve[r].alone

Reclaimable(p) == IF Installed(p, 0) THEN Claim(p) ELSE 0

\* The hub is never out of pocket: whatever fails or restarts, what it paid
\* for a payment it got from the sender's app or can still get, as long as the
\* calls for that payment come one by one.
HubCovered ==
  \A p \in Payments : OneByOne(p) => paid[p] <= taken[p] + Reclaimable(p)

\* The sender's money is never taken before the same money has reached someone
\* who knew the pre-image, in whatever order the calls for it run.
PaidBeforeTaken == \A p \in Payments : taken[p] <= paid[p]

\* The table does not say redeemed of what was not paid, nor reclaimed of what
\* was not taken.
StatusMeansPaid ==
  \A p \in Payments : row[p] # None =>
    /\ row[p].status \in {"REDEEMED", "RECLAIMED"} => paid[p] >= row[p].amount
    /\ row[p].status = "RECLAIMED" /\ OneByOne(p) => taken[p] >= row[p].amount

\* The flag that bars collateral for a user stands for a deposit that is under
\* way or has just been confirmed, unless the hub was restarted meanwhile.
FlagMeansDeposit ==
  \A u \in Users : inFlight[u] /\ restarts = 0 =>
    \E r \in Resolves :
      /\ request[r].pc \in {"depositing", "confirmed"}
      /\ UserOf(r) = u

-----------------------------------------------------------------------------
\* What the hub has paid it gets back: when the calls for a payment come one
\* by one, the one that has paid ends with the sender's app gone, unless the
\* sender is offline then or the hub restarts.
ReclaimsInTheEnd ==
  \A r \in Resolves :
    (resolve[r].pc = "paid") ~>
      \/ ~Installed(resolve[r].payment, 0)
      \/ ~OneByOne(resolve[r].payment)
      \/ resolve[r].pc \in {"unreclaimed", "lost"}
=============================================================================
