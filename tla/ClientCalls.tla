---------------------------- MODULE ClientCalls ----------------------------
(***************************************************************************)
(* What a wallet asks of its channel (modules/client/src/controllers): swaps, *)
(* transfers, deposits and withdrawals, and the hub's answer to a proposed    *)
(* app (modules/node/src/appRegistry). One client, one hub, one channel.      *)
(*                                                                         *)
(* A protocol of the channel is one step here (see ChannelProtocols for its   *)
(* messages and its lock); between two awaits of a controller anything can    *)
(* happen. A controller keeps the id of the app it waits for in one field,    *)
(* appId, that all the calls under way in it share.                          *)
(***************************************************************************)
EXTENDS Integers, FiniteSetsExt

CONSTANTS
  Swappers,    \* the parts of the wallet that call swap()
  Senders,     \* those that call conditionalTransfer()
  Withdrawers, \* those that call withdraw()
  ALLOWED_DISCREPANCY_PCT

ASSUME KindsDiffer == Swappers \cap Senders = {}

Callers == Swappers \cup Senders
Kind(c) == IF c \in Swappers THEN "swap" ELSE "transfer"
Assets == {"eth", "dai", "tip"}
Parties == {"user", "hub"}

VARIABLES
  bal,       \* the free balance of the channel, by asset and party
  chain,     \* what the user's signing key owns on chain
  offers,    \* the proposed apps: id to terms
  apps,      \* the installed apps: id to terms
  numApps,   \* numProposedApps; the ids are taken from it
  desk,      \* what allowOrReject is doing about an offer
  notes,     \* ids whose installation the hub has announced
  hubRate,   \* the hub's latest rate, dai for one eth; 0 when it has none
  appId,     \* the field of SwapController and ConditionalTransferController
  call,      \* the swap or transfer of a caller
  deposit,   \* the call of DepositController
  withdrawal,\* the calls of WithdrawalController
  preImage,  \* how far the secret of a transfer has got, by the transfer's id: "told" to
             \* the recipient, "shown" by the hub to the app, the money "taken" by it
  silent,    \* ids the client will not hear of any more (for the properties)
  confused,  \* ids of a proposal and of another's that its caller took for it (same)
  stranded   \* ids of swaps that nobody will uninstall: the call has failed to, its
             \* page has gone, or its id has been overwritten (same)

channelVars == <<bal, offers, apps, numApps>>
historyVars == <<silent, confused, stranded>>
hubVars == <<desk, notes, hubRate, preImage, historyVars>>
swapVars == <<appId, call>>
callVars == <<channelVars, hubVars, swapVars, chain, deposit, withdrawal>>

Idle == [at |-> "idle"]
NoId == 0

ClientCallsInit(balances, owned, rate) ==
  /\ bal = balances /\ chain = owned
  /\ offers = <<>> /\ apps = <<>> /\ numApps = 0
  /\ desk = <<>> /\ notes = {} /\ hubRate = rate /\ preImage = <<>>
  /\ silent = {} /\ confused = {} /\ stranded = {}
  /\ appId = [k \in {"swap", "transfer"} |-> NoId]
  /\ call = [c \in Callers |-> Idle]
  /\ deposit = Idle /\ withdrawal = [c \in Withdrawers |-> Idle]

Without(f, id) == [x \in DOMAIN f \ {id} |-> f[x]]
With(f, id, value) == [x \in DOMAIN f \cup {id} |-> IF x = id THEN value ELSE f[x]]

\* A rate is a fraction; what it makes of an amount has no decimals.
calculateExchange(amount, rate) == (amount * rate[1]) \div rate[2]

\* The transfers whose secret has got so far.
Secrets(how) == {id \in DOMAIN preImage : preImage[id] = how}

\* A proposing client holds the lock of the channel until it has its id.
Locked == \E c \in Callers : call[c].at = "proposed"

-----------------------------------------------------------------------------
(* SwapController.swap and ConditionalTransferController.conditionalTransfer, *)
(* the two sides of an offer being what each party puts in.                  *)

Begins(c, from, to, pays, gets) ==
  call' = [call EXCEPT ![c] =
             [at |-> "from", kind |-> Kind(c), from |-> from, to |-> to, pays |-> pays,
              gets |-> gets, had |-> 0, has |-> 0, own |-> NoId, id |-> NoId]]

\* swap(): the balances are read one after the other.
SwapCall(c, from, to, pays, rate) ==
  Begins(c, from, to, pays, calculateExchange(pays, rate))

\* conditionalTransfer(): the sender pays in, the hub nothing.
TransferCall(c, pays) == Begins(c, "dai", "dai", pays, 0)

Becomes(c, at) == call' = [call EXCEPT ![c].at = at]
Otherwise(cond, at) == IF cond THEN at ELSE "threw"

ReadFrom(c) ==
  /\ call[c].at = "from"
  /\ LET mine == bal[call[c].from].user IN
     call' = [call EXCEPT ![c].had = mine,
                ![c].at = IF Kind(c) = "swap" THEN "to"
                          ELSE Otherwise(call[c].pays <= mine, "propose")]
  /\ UNCHANGED <<channelVars, hubVars, appId>>

\* The rate is positive wherever the wallet has one.
ReadTo(c) ==
  /\ call[c].at = "to"
  /\ LET s == call[c] IN
     call' = [call EXCEPT ![c].has = bal[s.to].user,
                ![c].at = Otherwise(s.pays <= s.had /\ s.pays > 0
                                      /\ s.gets <= bal[s.to].hub, "propose")]
  /\ UNCHANGED <<channelVars, hubVars, appId>>

Covered(o) == o.pays <= bal[o.from].user /\ o.gets <= bal[o.to].hub

\* assertSufficientFundsWithinFreeBalance, before the lock is asked for.
CheckFunds(c) ==
  /\ call[c].at = "propose"
  /\ Becomes(c, Otherwise(Covered(call[c]), "locking"))
  /\ UNCHANGED <<channelVars, hubVars, appId>>

\* The propose protocol: the hub hears of the offer.
Propose(c) ==
  /\ call[c].at = "locking" /\ ~Locked
  /\ LET s == call[c]
         id == numApps + 1
     IN /\ numApps' = id
        /\ offers' = With(offers, id, [kind |-> s.kind, from |-> s.from, to |-> s.to,
                                       pays |-> s.pays, gets |-> s.gets])
        /\ desk' = With(desk, id, "asked")
        /\ call' = [call EXCEPT ![c].at = "proposed", ![c].own = id]
  /\ UNCHANGED <<bal, apps, notes, hubRate, preImage, historyVars, appId>>

\* The proposals of the swaps that have got so far.
OwnOf(ats) == {call[c].own : c \in {d \in Swappers : call[d].at \in ats}}

\* The answer is the most recent proposal in the store, which throws when there
\* is none (any more). The call notes it in appId, where a swap that still needs the
\* field loses its own, and starts to listen.
AwaitInstall(c) ==
  /\ call[c].at = "proposed"
  /\ IF offers = <<>>
     THEN Becomes(c, "threw") /\ UNCHANGED <<appId, confused, stranded>>
     ELSE LET id == Max(DOMAIN offers) IN
          /\ appId' = [appId EXCEPT ![Kind(c)] = id]
          /\ call' = [call EXCEPT ![c].at = "installing", ![c].id = id]
          /\ confused' = IF id = call[c].own THEN confused
                         ELSE confused \cup {id, call[c].own}
          /\ stranded' = IF Kind(c) = "swap"
                         THEN stranded \cup OwnOf({"installing", "installed"}) ELSE stranded
  /\ UNCHANGED <<channelVars, desk, notes, hubRate, preImage, silent>>

\* Who listens to INSTALL and REJECT_INSTALL. They are called in the order in
\* which they have registered, which is that of their proposals: from a proposal
\* to the registration the channel is locked.
Ears == {c \in Callers : call[c].at = "installing"}
Wake(woken, at) == call' = [c \in Callers |-> IF c \in woken THEN [call[c] EXCEPT !.at = at]
                                              ELSE call[c]]

\* Mutant of resolveInstallSwap: whatever is installed, it is the one waited for.
resolveAnyInstall(id) == Wake(Ears \cap Swappers, "installed")

\* INSTALL: every swap that waits compares the app's id with the shared field.
resolveInstallSwap(id) ==
  Wake({c \in Ears \cap Swappers : appId["swap"] = id}, "installed")

\* Mutant of rejectInstall: nobody listens to the event.
rejectUnheard(id) == UNCHANGED <<call, silent>>

\* REJECT_INSTALL: the listeners are called in order. That of a transfer looks
\* for msg.data, which the event does not have, and so throws: it does not
\* notice, and the listeners after it are not called.
rejectInstall(id) ==
  LET before == {c \in Ears : \A d \in Ears :
                   call[d].own <= call[c].own => d \notin Senders}
      mine == {c \in Ears \cap Swappers : appId["swap"] = id}
  IN /\ Wake(mine \cap before, "threw")
     /\ silent' = IF mine \subseteq before THEN silent ELSE silent \cup {id}

\* uninstallApp(this.appId): each party gets what the other put in. A transfer
\* taken for a swap goes back, unless the hub has shown the app the secret.
UninstallSwap(c) ==
  /\ call[c].at = "installed" /\ Kind(c) = "swap" /\ ~Locked
  /\ LET id == appId["swap"] IN
     IF id \in DOMAIN apps
     THEN LET a == apps[id] IN
          /\ bal' = IF a.kind = "swap" \/ id \in Secrets("shown")
                    THEN [bal EXCEPT ![a.from].hub = @ + a.pays,
                                     ![a.to].user = @ + a.gets]
                    ELSE [bal EXCEPT ![a.from].user = @ + a.pays]
          /\ apps' = Without(apps, id)
          /\ Becomes(c, "check")
     ELSE Becomes(c, "threw") /\ UNCHANGED <<bal, apps>>
  /\ UNCHANGED <<offers, numApps, hubVars, appId>>

\* await proposeInstallVirtualApp or await uninstallApp throws, the lock refused or
\* a message not answered in time. What the channel is left with when the other
\* side had its part done already is in ChannelProtocols; here, as it was.
ProtocolFails(c) ==
  /\ \/ /\ call[c].at = "locking" /\ UNCHANGED stranded
     \/ /\ call[c].at = "installed" /\ Kind(c) = "swap"
        /\ stranded' = stranded \cup {call[c].own}
  /\ Becomes(c, "threw")
  /\ UNCHANGED <<channelVars, desk, notes, hubRate, preImage, silent, confused, appId>>

\* The sanity check of the swap.
CheckSwap(c) ==
  /\ call[c].at = "check"
  /\ LET s == call[c] IN
     Becomes(c, Otherwise(/\ s.had - bal[s.from].user = s.pays
                          /\ bal[s.to].user - s.has = s.gets, "returned"))
  /\ UNCHANGED <<channelVars, hubVars, appId>>

\* The hub's announcement resolves the race of a transfer.
resolveInstallTransfer(id) ==
  /\ id \in notes
  /\ notes' = notes \ {id}
  /\ Wake({c \in Ears \cap Senders : call[c].id = id /\ appId["transfer"] = id},
          "installed")
  /\ UNCHANGED <<channelVars, desk, hubRate, preImage, historyVars, appId>>

\* delayAndThrow: "App install took longer than 15 seconds".
TooLong(c) ==
  /\ call[c].at = "installing" /\ Kind(c) = "transfer"
  /\ Becomes(c, "threw")
  /\ UNCHANGED <<channelVars, hubVars, appId>>

\* After the installation a transfer to a recipient has the recipient and the
\* encrypted secret set at the hub, a request that can time out, handled or not.
\* The secret of a link is in the answer.
TransferEnds(c, addressed) ==
  /\ call[c].at = "installed" /\ Kind(c) = "transfer"
  /\ \/ Becomes(c, "returned") /\ preImage' = With(preImage, call[c].own, "told")
     \/ /\ addressed /\ Becomes(c, "threw")
        /\ preImage' \in {preImage, With(preImage, call[c].own, "told")}
  /\ UNCHANGED <<channelVars, desk, notes, hubRate, historyVars, appId>>

\* The recipient has redeemed the payment, and been paid (LinkedTransfers): the hub
\* takes its turn in the sender's app, and then uninstalls it. It waits for neither
\* and does not try again when one fails (takeActionAndUninstallLink).
HubTakesAction(id) ==
  /\ id \in Secrets("told") \cap DOMAIN apps /\ ~Locked
  /\ preImage' = [preImage EXCEPT ![id] = "shown"]
  /\ UNCHANGED <<channelVars, swapVars, desk, notes, hubRate, historyVars>>

HubUninstalls(id) ==
  /\ id \in Secrets("shown") \cap DOMAIN apps /\ ~Locked
  /\ bal' = [bal EXCEPT ![apps[id].from].hub = @ + apps[id].pays]
  /\ apps' = Without(apps, id)
  /\ preImage' = [preImage EXCEPT ![id] = "taken"]
  /\ UNCHANGED <<offers, numApps, swapVars, desk, notes, hubRate, historyVars>>

-----------------------------------------------------------------------------
(* AppRegistryService.allowOrReject, for every offer.                       *)

\* commonAppProposalValidation.
HasFunds(o) == (o.pays > 0 \/ o.gets > 0) /\ Covered(o)

\* validateSwap. The hub has rates between ether and dai only, and none while it
\* cannot read the price: nothing is compared then.
RatesOf(o) ==
  CASE o.from = "eth" /\ o.to = "dai" -> IF hubRate = 0 THEN {} ELSE {<<hubRate, 1>>}
    [] o.from = "dai" /\ o.to = "eth" -> IF hubRate = 0 THEN {} ELSE {<<1, hubRate>>}
    [] OTHER -> {}

Absolute(n) == IF n < 0 THEN -n ELSE n

\* |our rate - derived rate| * 100 / our rate, without the divisions.
validateSwap(o) ==
  \A rate \in RatesOf(o) :
    Absolute(rate[1] * o.pays - rate[2] * o.gets) * 100
      <= ALLOWED_DISCREPANCY_PCT * rate[1] * o.pays

verifyAppProposal(id) ==
  /\ id \in DOMAIN desk /\ desk[id] = "asked"
  /\ LET o == offers[id]
         allowed == HasFunds(o) /\ (o.kind = "swap" => validateSwap(o))
     IN desk' = [desk EXCEPT ![id] = IF allowed THEN "verified" ELSE "refused"]
  /\ UNCHANGED <<channelVars, swapVars, notes, hubRate, preImage, historyVars>>

\* installApp, which throws when the funds have gone in the meantime.
HubInstalls(id) ==
  /\ id \in DOMAIN desk /\ desk[id] = "verified" /\ ~Locked
  /\ LET o == offers[id] IN
     IF HasFunds(o)
     THEN /\ bal' = IF o.gets = 0 THEN [bal EXCEPT ![o.from].user = @ - o.pays]
                    ELSE [bal EXCEPT ![o.from].user = @ - o.pays,
                                     ![o.to].hub = @ - o.gets]
          /\ apps' = With(apps, id, o) /\ offers' = Without(offers, id)
          /\ desk' = Without(desk, id)
          /\ notes' = notes \cup {id}
          /\ resolveInstallSwap(id)
     ELSE /\ desk' = [desk EXCEPT ![id] = "refused"]
          /\ UNCHANGED <<bal, apps, offers, notes, call>>
  /\ UNCHANGED <<numApps, hubRate, preImage, historyVars, appId>>

\* rejectInstallApp, on which no lock is taken, and its event at the client.
HubRejects(id) ==
  /\ id \in DOMAIN desk /\ desk[id] = "refused"
  /\ offers' = Without(offers, id) /\ desk' = Without(desk, id)
  /\ rejectInstall(id)
  /\ UNCHANGED <<bal, apps, numApps, notes, hubRate, preImage, confused, stranded, appId>>

\* The hub restarts: the proposals it was considering stay in the stores, and
\* nobody takes them up again.
HubRestarts ==
  /\ desk # <<>>
  /\ silent' = silent \cup DOMAIN desk /\ desk' = <<>>
  /\ UNCHANGED <<channelVars, swapVars, notes, hubRate, preImage, confused, stranded>>

\* SwapRateService.getSwapRate, at every block.
getSwapRate(rate) ==
  /\ rate # hubRate /\ hubRate' = rate
  /\ UNCHANGED <<channelVars, swapVars, desk, notes, preImage, historyVars>>

\* requestCollateral: the hub deposits what is missing, or it does not.
Collateralized(asset, amount) ==
  bal' \in {bal} \cup (IF bal[asset].hub < amount
                       THEN {[bal EXCEPT ![asset].hub = amount]} ELSE {})

-----------------------------------------------------------------------------
(* DepositController.deposit and WithdrawalController.withdraw.             *)

DepositCall(asset, amount) ==
  deposit' = [at |-> "reading", asset |-> asset, amount |-> amount, had |-> 0]

ReadForDeposit ==
  /\ deposit.at = "reading"
  /\ LET d == deposit IN
     deposit' = [d EXCEPT !.had = bal[d.asset].user,
                   !.at = Otherwise(d.amount > 0 /\ d.amount <= chain[d.asset], "sending")]
  /\ UNCHANGED <<bal, chain, withdrawal>>

\* providerDeposit and the deposit of cf-core, whose transaction may fail.
DepositLands ==
  /\ deposit.at = "sending"
  /\ LET d == deposit IN
     /\ d.amount <= chain[d.asset]
     /\ chain' = [chain EXCEPT ![d.asset] = @ - d.amount]
     /\ bal' = [bal EXCEPT ![d.asset].user = @ + d.amount]
     /\ deposit' = [d EXCEPT !.at = "check"]
  /\ UNCHANGED withdrawal

DepositFails ==
  /\ deposit.at = "sending"
  /\ deposit' = [deposit EXCEPT !.at = "threw"]
  /\ UNCHANGED <<bal, chain, withdrawal>>

\* "My balance was not increased by the deposit amount."
CheckDeposit ==
  /\ deposit.at = "check"
  /\ LET d == deposit IN
     deposit' = [d EXCEPT !.at = Otherwise(bal[d.asset].user - d.had = d.amount, "returned")]
  /\ UNCHANGED <<bal, chain, withdrawal>>

WithdrawCall(c, asset, amount) ==
  withdrawal' = [withdrawal EXCEPT ![c] = [at |-> "reading", asset |-> asset,
                                           amount |-> amount]]

\* An amount of nothing is accepted.
ReadForWithdrawal(c) ==
  /\ withdrawal[c].at = "reading"
  /\ LET w == withdrawal[c] IN
     withdrawal' = [withdrawal EXCEPT ![c].at =
                      Otherwise(w.amount <= bal[w.asset].user, "committing")]
  /\ UNCHANGED <<bal, chain, deposit>>

\* withdrawCommitment checks the balance again; the protocol charges it.
CommitWithdrawal(c) ==
  /\ withdrawal[c].at = "committing" /\ ~Locked
  /\ LET w == withdrawal[c]
         covered == w.amount <= bal[w.asset].user
     IN /\ withdrawal' = [withdrawal EXCEPT ![c].at = Otherwise(covered, "submitting")]
        /\ bal' = IF covered THEN [bal EXCEPT ![w.asset].user = @ - w.amount] ELSE bal
  /\ UNCHANGED <<chain, deposit>>

CommitFails(c) ==
  /\ withdrawal[c].at = "committing"
  /\ withdrawal' = [withdrawal EXCEPT ![c].at = "threw"]
  /\ UNCHANGED <<bal, chain, deposit>>

\* The hub sends it, in the end or not (UserWithdrawals).
WithdrawalEnds(c) ==
  /\ withdrawal[c].at = "submitting"
  /\ \E at \in {"returned", "threw"} : withdrawal' = [withdrawal EXCEPT ![c].at = at]
  /\ UNCHANGED <<bal, chain, deposit>>
=============================================================================
