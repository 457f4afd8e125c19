------------------------------ MODULE Daicard ------------------------------
(***************************************************************************)
(* The wallet, its cards, the client and the hub it talks to, together.      *)
(***************************************************************************)
EXTENDS Cards

vars == <<callVars, walletVars, cardVars>>

Init ==
  /\ plan \in Plans
  /\ ClientCallsInit(plan.bal, plan.chain, plan.rate)
  /\ WalletInit /\ CardsInit

(* The controllers, and the hub's answer to an offer.                       *)

CallerStep(c) ==
  /\ \/ ReadFrom(c) \/ ReadTo(c) \/ CheckFunds(c) \/ Propose(c)
     \/ AwaitInstall(c) \/ UninstallSwap(c) \/ CheckSwap(c) \/ TooLong(c)
     \/ TransferEnds(c, send.pc = "p2p")
  /\ UNCHANGED <<chain, deposit, withdrawal, walletVars, cardVars>>

HubStep ==
  /\ \E id \in 1..numApps : \/ verifyAppProposal(id) \/ HubInstalls(id)
                            \/ HubRejects(id) \/ resolveInstallTransfer(id)
  /\ UNCHANGED <<chain, deposit, withdrawal, walletVars, cardVars>>

\* The payment of the send card, redeemed. Nobody has to redeem it.
HubReclaims ==
  /\ \E id \in DOMAIN preImage : HubTakesAction(id) \/ HubUninstalls(id)
  /\ UNCHANGED <<chain, deposit, withdrawal, walletVars, cardVars>>

DepositStep ==
  /\ ReadForDeposit \/ DepositLands \/ CheckDeposit
  /\ UNCHANGED <<offers, apps, numApps, hubVars, swapVars, walletVars, cardVars>>

WithdrawStep(w) ==
  /\ ReadForWithdrawal(w) \/ CommitWithdrawal(w) \/ WithdrawalEnds(w)
  /\ UNCHANGED <<offers, apps, numApps, hubVars, swapVars, walletVars, cardVars>>

\* What may go wrong, or change, by the plan.
Trouble ==
  \/ /\ \E j \in Jobs : RefreshFails(j)
     /\ UNCHANGED <<callVars, cardVars>>
  \/ /\ plan.failures > 0 /\ plan' = [plan EXCEPT !.failures = @ - 1]
     /\ \/ /\ \/ DepositFails \/ \E w \in Withdrawers : CommitFails(w)
           /\ UNCHANGED <<offers, apps, numApps, hubVars, swapVars>>
        \/ /\ \E c \in Callers : ProtocolFails(c)
           /\ UNCHANGED <<chain, deposit, withdrawal>>
     /\ UNCHANGED <<root, region, swapRate, shown, job, tips, late, upset, cardVars>>
  \/ /\ \/ Clicks("restart") /\ HubRestarts
        \/ \E rate \in plan.rates : /\ getSwapRate(rate)
                                    /\ plan' = [plan EXCEPT !.rates = @ \ {rate}]
     /\ UNCHANGED <<chain, deposit, withdrawal, root, region, swapRate, shown, job,
                    tips, late, upset, cardVars>>

-----------------------------------------------------------------------------
(* The jobs of the wallet, its user, and the cards.                         *)

JobStep(j) ==
  /\ \/ /\ ReadEther(j) \/ ReadTokens(j) \/ ShowBalances(j) \/ Swapped(j)
        /\ UNCHANGED callVars
     \/ /\ RequestCollateral(j)
        /\ UNCHANGED <<offers, apps, numApps, hubVars, swapVars, chain, deposit, withdrawal>>
     \/ /\ AutoSwap(j) \/ AfterSwap(j)
        /\ UNCHANGED <<channelVars, hubVars, appId, chain, deposit, withdrawal>>
  /\ UNCHANGED cardVars

PollerStep ==
  /\ \/ /\ Mount \/ PollAgain \/ SkipDeposit \/ Deposited \/ RateArrives
        /\ UNCHANGED callVars
     \/ /\ StartDeposit \/ AfterDeposit \/ DepositEtherToo
        /\ UNCHANGED <<channelVars, hubVars, swapVars, chain, withdrawal>>
  /\ UNCHANGED cardVars

CashoutStep ==
  /\ \/ /\ CashoutCollateral
        /\ UNCHANGED <<offers, apps, numApps, hubVars, swapVars, chain, deposit, withdrawal>>
     \/ /\ CashoutSwap
        /\ UNCHANGED <<channelVars, hubVars, appId, chain, deposit, withdrawal>>
     \/ /\ CashoutWithdraw \/ AfterCashout \/ AfterWithdrawSai
        /\ UNCHANGED <<channelVars, hubVars, swapVars, chain, deposit>>
  /\ UNCHANGED cardVars

UserStep ==
  /\ \/ /\ \/ \E o \in Operations : Dismiss(o)
           \/ \E what \in {"buyTips", "sellTips"} : buyTipsHandler(what)
        /\ UNCHANGED callVars
     \/ /\ \/ cashoutTokens(send.pc # "off") \/ cashoutEther(send.pc # "off")
           \/ withdrawSai
        /\ UNCHANGED <<channelVars, hubVars, swapVars, chain, deposit>>
     \/ /\ EtherArrives
        /\ UNCHANGED <<channelVars, hubVars, swapVars, deposit, withdrawal>>
  /\ UNCHANGED cardVars

TipsStep ==
  /\ \/ /\ TipsFail
        /\ UNCHANGED callVars
     \/ /\ AfterTips
        /\ UNCHANGED <<channelVars, hubVars, appId, chain, deposit, withdrawal>>
     \/ /\ TryTips
        /\ UNCHANGED <<offers, apps, numApps, hubVars, appId, chain, deposit, withdrawal>>
  /\ UNCHANGED cardVars

PaymentStep ==
  /\ \/ /\ PaymentStarts
        /\ UNCHANGED callVars
     \/ /\ PaymentEnds
        /\ UNCHANGED <<offers, apps, numApps, hubVars, swapVars, chain, deposit, withdrawal>>
  /\ UNCHANGED cardVars

CardStep ==
  \/ /\ paymentHandler \/ linkHandler \/ RedeemedElsewhere
     /\ UNCHANGED callVars
  \/ /\ \/ GiveUp \/ closeModal \/ CheckLink \/ LinkChecked \/ Confirm \/ GoBack \/ redeemPayment
        \/ RedeemAfterCollateral \/ Redeemed \/ BackdropClick
     /\ UNCHANGED <<callVars, walletVars>>
  \/ /\ TryTransfer \/ TransferDone \/ TransferThrew
     /\ UNCHANGED <<channelVars, hubVars, appId, chain, deposit, withdrawal,
                    walletVars>>
  \/ /\ LinkCollateral \/ HubResolves
     /\ UNCHANGED <<offers, apps, numApps, hubVars, swapVars, chain, deposit,
                    withdrawal, walletVars>>

\* What the browser had in memory is gone, and with it every call.
PageReload ==
  /\ Reload
  /\ appId' = [k \in {"swap", "transfer"} |-> NoId]
  /\ call' = [c \in Callers |-> Idle]
  /\ deposit' = Idle /\ withdrawal' = [c \in Withdrawers |-> Idle]
  /\ send' = NotSending /\ redeem' = NotRedeeming
  /\ stranded' = stranded \cup OwnOf({"proposed", "installing", "installed"})
  /\ UNCHANGED <<channelVars, desk, notes, hubRate, preImage, silent, confused, chain, link>>

Next ==
  \/ \E c \in Callers : CallerStep(c)
  \/ HubStep \/ HubReclaims \/ DepositStep \/ \E w \in Withdrawers : WithdrawStep(w)
  \/ Trouble
  \/ \E j \in Jobs : JobStep(j)
  \/ PollerStep \/ CashoutStep \/ UserStep \/ TipsStep \/ PaymentStep \/ CardStep
  \/ PageReload

\* A promise goes on when what it waits for has come, the poller's interval
\* comes round, and the hub answers. Nobody has to click, pay, or fail.
Fairness ==
  /\ \A c \in Callers : WF_vars(CallerStep(c))
  /\ WF_vars(HubStep) /\ WF_vars(DepositStep)
  /\ \A w \in Withdrawers : WF_vars(WithdrawStep(w))
  /\ \A j \in Jobs : WF_vars(JobStep(j))
  /\ WF_vars(PollerStep) /\ WF_vars(CashoutStep)

Spec == Init /\ [][Next]_vars /\ Fairness

-----------------------------------------------------------------------------
(* What the user relies on.                                                 *)

Waiting(c) == call[c].at = "installing"

\* The swaps that hold somebody's stakes, or are about to.
SwapApps == {id \in DOMAIN apps : apps[id].kind = "swap"}
              \cup {id \in DOMAIN desk : offers[id].kind = "swap"}

\* The stakes of a swap come back: every swap that is installed, or that the hub
\* may still install, has a call under way that is to uninstall it
\* (SwapController.swap), or is one that its caller is known to have let go: its
\* uninstallation has failed, the page was loaded again, its id was overwritten by
\* that of a later swap, or another's proposal was taken for it.
StakesComeBack ==
  SwapApps \subseteq OwnOf({"proposed", "installing", "installed"}) \cup stranded \cup confused

\* A cash-out finds what it asks for, and leaves no ether behind, unless it has
\* started next to something that does not wait for it (cashOutCard: "Put lock
\* on actions, no more autoswaps until we're done withdrawing").
CashoutCovered ==
  late = {} =>
    LET w == withdrawal["cashout"]
        s == call["cashout"]
    IN /\ w.at \in {"reading", "committing"} =>
            IF w.asset = "eth" THEN w.amount = bal["eth"].user
            ELSE w.amount <= bal["dai"].user
       /\ s.at = "from" => s.pays <= bal["dai"].user

\* What the cards say of a payment. Sent: the app of the attempt that went well
\* holds the money, whatever the attempts before it did, or the hub has it for the
\* secret, and so after the recipient was paid; unless the client took another
\* proposal for it, or it for a swap's. Redeemed: it was paid to this
\* channel, and to nobody else, whichever handler the card's machine hears of it
\* from.
PaidAsShown ==
  /\ send.state \in {"successP2p", "successLink"} =>
       send.own \in DOMAIN apps \cup Secrets("taken") \cup confused
  /\ redeem.state = "success" => link = "mine"

\* A swap ends, well or not, but for one whose proposal the hub forgets in a
\* restart or whose rejection is kept from it by the listener of a transfer:
\* nothing limits the time it waits.
SwapsEnd == \A c \in Swappers :
  Waiting(c) ~> (~Waiting(c) \/ appId["swap"] \in silent)

\* Ether that arrives on chain is deposited while there is room for it, unless a
\* job has failed or a swap hangs.
DepositsGetMade ==
  (root = "ready" /\ chain["eth"] > MinDeposit)
    ~> \/ root # "ready" \/ chain["eth"] <= MinDeposit
       \/ bal["eth"].user + bal["dai"].user \div swapRate >= MAX_CHANNEL_VALUE \div swapRate
       \/ upset \/ silent # {}
=============================================================================
