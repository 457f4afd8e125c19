------------------------------- MODULE Wallet -------------------------------
(***************************************************************************)
(* The wallet in the browser (modules/daicard): a poller that deposits what   *)
(* arrives on chain and swaps ether for tokens, the cards a user cashes out   *)
(* and buys tips with, and the state machine that tells them of each other    *)
(* (state/root.js).                                                         *)
(*                                                                         *)
(* A job is a chain of awaits. All jobs read and write one object with the    *)
(* balances that the wallet shows. A job whose call throws ends there: the    *)
(* poller for good (interval-promise stops on an error), and the operation    *)
(* it has announced to the state machine stays pending.                     *)
(***************************************************************************)
EXTENDS ClientCalls

CONSTANTS
  MAX_CHANNEL_VALUE, \* in dai
  MinDeposit,        \* what is left on chain for gas, in ether
  TipsRate,          \* tips for one dai
  MaxTries,          \* bound: how often the tips and the send card try
  Plans              \* which of the things that may happen do

Jobs == {"poller", "detached", "cashout"}
Operations == {"deposit", "swap", "withdraw", "receive"}

\* What the channel and the key own at first, and what may happen then.
Plan == [bal : [Assets -> [Parties -> Nat]], chain : [Assets -> Nat], rate : Nat \ {0},
         sai : Nat, clicks : SUBSET STRING, payments : Nat, incoming : Nat,
         failures : Nat, rates : SUBSET Nat]

ASSUME PartsOfTheWallet ==
  Jobs \cup {"tips"} \subseteq Swappers /\ {"cashout", "sai"} \subseteq Withdrawers
ASSUME WalletNumbers ==
  MAX_CHANNEL_VALUE \in Nat /\ MinDeposit \in Nat /\ TipsRate \in Nat \ {0}
ASSUME PlansTyped == Plans \subseteq Plan

VARIABLES
  plan,     \* an element of Plans; an action that happens takes from it
  root,     \* the state of the root machine
  region,   \* and of its region of every operation, while it is "ready"
  swapRate, \* the rate the wallet has
  shown,    \* the balances the wallet shows
  job,      \* the jobs
  tips,     \* the card that buys and sells tips
  late,     \* what the last cash-out did not hold back (for the properties)
  upset     \* whether a job has ended with an error (for the properties)

walletVars == <<plan, root, region, swapRate, shown, job, tips, late, upset>>

NoJob == [pc |-> "off"]
At(pc) == [pc |-> pc]
Nothing == [eth |-> 0, dai |-> 0, chainEth |-> 0, chainDai |-> 0]

WalletInit ==
  /\ root = "start" /\ region = [o \in Operations |-> "idle"]
  /\ swapRate = hubRate
  /\ shown = Nothing
  /\ job = [j \in Jobs |-> NoJob]
  /\ tips = [pc |-> "off", tries |-> 0] /\ late = {} /\ upset = FALSE

Least(a, b) == IF a < b THEN a ELSE b
Moves(j, to) == job' = [job EXCEPT ![j] = to]
Ends(j) == IF j = "poller" THEN At("again") ELSE NoJob
Dies(j) == IF j = "poller" THEN At("dead") ELSE NoJob

-----------------------------------------------------------------------------
(* state/root.js: an event is heard in some states only.                    *)

START(o) == IF root = "ready" /\ region[o] = "idle"
            THEN [region EXCEPT ![o] = "pending"] ELSE region
SUCCESS(o) == IF region[o] = "pending" THEN [region EXCEPT ![o] = "success"] ELSE region
ERROR(o) == IF region[o] = "pending" THEN [region EXCEPT ![o] = "error"] ELSE region

\* Mutant of Busy: a cash-out is not waited for.
BusyButCashingOut(r) == \E o \in {"deposit", "swap"} : r[o] = "pending"

Busy(r) == \E o \in {"deposit", "swap", "withdraw"} : r[o] = "pending"

\* A notice goes away after a minute, or a half-hour, or a click. Those of the
\* receive region look for "ready.receiving", a state the machine does not have.
Dismiss(o) ==
  /\ o # "receive" /\ region[o] \in {"success", "error"}
  /\ region' = [region EXCEPT ![o] = "idle"]
  /\ UNCHANGED <<plan, root, swapRate, shown, job, tips, late, upset>>

-----------------------------------------------------------------------------
(* The start, and refreshBalances, which every job but that of the tips runs. *)

Refresh(then) == [pc |-> "ether", then |-> then, eth |-> 0, dai |-> 0]

\* componentDidMount: the channel is there. Left-over SAI comes first.
Mount ==
  /\ root = "start"
  /\ root' = IF plan.sai > 0 THEN "sai" ELSE "ready"
  /\ Moves("poller", Refresh("autoDeposit"))
  /\ UNCHANGED <<plan, region, swapRate, shown, tips, late, upset>>

ReadEther(j) ==
  /\ job[j].pc = "ether"
  /\ Moves(j, [job[j] EXCEPT !.pc = "tokens", !.eth = bal["eth"].user])
  /\ UNCHANGED <<plan, root, region, swapRate, shown, tips, late, upset>>

ReadTokens(j) ==
  /\ job[j].pc = "tokens"
  /\ Moves(j, [job[j] EXCEPT !.pc = "show", !.dai = bal["dai"].user])
  /\ UNCHANGED <<plan, root, region, swapRate, shown, tips, late, upset>>

\* The balances on chain are read last; all are then written to the one object.
ShowBalances(j) ==
  /\ job[j].pc = "show"
  /\ shown' = [eth |-> job[j].eth, dai |-> job[j].dai,
               chainEth |-> chain["eth"], chainDai |-> chain["dai"]]
  /\ Moves(j, At(job[j].then))
  /\ late' = IF /\ j # "cashout" /\ job["cashout"] # NoJob
                /\ job[j].eth # bal["eth"].user \/ job[j].dai # bal["dai"].user
             THEN late \cup {"stale"} ELSE late
  /\ UNCHANGED <<plan, root, region, swapRate, tips, upset>>

\* A read of the chain fails.
RefreshFails(j) ==
  /\ job[j].pc = "show" /\ plan.failures > 0
  /\ plan' = [plan EXCEPT !.failures = @ - 1]
  /\ Moves(j, Dies(j)) /\ upset' = TRUE
  /\ UNCHANGED <<root, region, swapRate, shown, tips, late>>

\* The hub has a new rate; an undefined one is not taken over.
RateArrives ==
  /\ hubRate \notin {0, swapRate} /\ swapRate' = hubRate
  /\ UNCHANGED <<plan, root, region, shown, job, tips, late, upset>>

-----------------------------------------------------------------------------
(* autoSwap, of the poller and of the promise autoDeposit leaves behind.     *)

\* The part before its first await: nothing to do, or how much.
autoSwap(j, r) ==
  LET wei == Least(shown.eth, (MAX_CHANNEL_VALUE - shown.dai) \div swapRate) IN
  IF root # "ready" \/ Busy(r) \/ shown.dai >= MAX_CHANNEL_VALUE \/ wei = 0
  THEN Ends(j)
  ELSE [pc |-> "collateral", wei |-> wei, rate |-> swapRate,
        need |-> shown.dai + wei * swapRate]

\* The hub has too little: ask it for more, and leave it at that.
RequestCollateral(j) ==
  /\ job[j].pc = "collateral" /\ j # "cashout"
  /\ job[j].need > bal["dai"].hub
  /\ Collateralized("dai", job[j].need)
  /\ Moves(j, Ends(j))
  /\ UNCHANGED <<plan, root, region, swapRate, shown, tips, late, upset>>

AutoSwap(j) ==
  /\ job[j].pc = "collateral" /\ j # "cashout"
  /\ job[j].need <= bal["dai"].hub
  /\ region' = START("swap")
  /\ SwapCall(j, "eth", "dai", job[j].wei, <<job[j].rate, 1>>)
  /\ Moves(j, At("swapping"))
  /\ UNCHANGED <<plan, root, swapRate, shown, tips, late, upset>>

\* The swap of a job has ended, well or not.
AfterSwap(j) ==
  /\ job[j].pc = "swapping" /\ call[j].at \in {"returned", "threw"}
  /\ call' = [call EXCEPT ![j] = Idle]
  /\ Moves(j, IF call[j].at = "threw" THEN Dies(j)
              ELSE Refresh(IF j = "cashout" THEN "withdrawEther" ELSE "swapped"))
  /\ upset' = (upset \/ call[j].at = "threw")
  /\ UNCHANGED <<plan, root, region, swapRate, shown, tips, late>>

\* Mutant of Swapped: the machine is not told.
SwappedUntold(j) ==
  /\ job[j].pc = "swapped" /\ Moves(j, Ends(j))
  /\ UNCHANGED <<plan, root, region, swapRate, shown, tips, late, upset>>

Swapped(j) ==
  /\ job[j].pc = "swapped"
  /\ region' = SUCCESS("swap")
  /\ Moves(j, Ends(j))
  /\ UNCHANGED <<plan, root, swapRate, shown, tips, late, upset>>

\* The next turn of the interval.
PollAgain ==
  /\ job["poller"].pc = "again"
  /\ Moves("poller", Refresh("autoDeposit"))
  /\ UNCHANGED <<plan, root, region, swapRate, shown, tips, late, upset>>

-----------------------------------------------------------------------------
(* autoDeposit, of the poller. What follows it is autoSwap.                  *)

Total == shown.eth + shown.dai \div swapRate
Room == MAX_CHANNEL_VALUE \div swapRate - Total

NothingToDeposit ==
  \/ root # "ready" \/ Busy(region)
  \/ shown.chainEth = 0 \/ Room <= 0
  \/ shown.chainDai = 0 /\ shown.chainEth <= MinDeposit

SkipDeposit ==
  /\ job["poller"].pc = "autoDeposit" /\ NothingToDeposit
  /\ Moves("poller", autoSwap("poller", region))
  /\ UNCHANGED <<plan, root, region, swapRate, shown, tips, late, upset>>

StartDeposit ==
  /\ job["poller"].pc = "autoDeposit" /\ ~NothingToDeposit
  /\ region' = START("deposit")
  /\ IF shown.chainDai > 0
     THEN /\ DepositCall("dai", Least(Room * swapRate, shown.chainDai))
          /\ Moves("poller", At("depositingTokens"))
     ELSE /\ DepositCall("eth", Least(shown.chainEth - MinDeposit, Room))
          /\ Moves("poller", At("depositingEther"))
  /\ UNCHANGED <<plan, root, swapRate, shown, tips, late, upset>>

AfterDeposit ==
  /\ job["poller"].pc \in {"depositingTokens", "depositingEther"}
  /\ deposit.at \in {"returned", "threw"}
  /\ deposit' = Idle
  /\ Moves("poller",
           IF deposit.at = "threw" THEN Dies("poller")
           ELSE Refresh(IF job["poller"].pc = "depositingTokens" THEN "ether too"
                        ELSE "deposited"))
  /\ upset' = (upset \/ deposit.at = "threw")
  /\ UNCHANGED <<plan, root, region, swapRate, shown, tips, late>>

\* After the tokens, ether: what is above the minimum, which may be nothing.
DepositEtherToo ==
  /\ job["poller"].pc = "ether too"
  /\ IF Room <= 0 \/ shown.chainEth < MinDeposit
     THEN /\ region' = SUCCESS("deposit")
          /\ Moves("poller", autoSwap("poller", region'))
          /\ UNCHANGED deposit
     ELSE /\ DepositCall("eth", Least(shown.chainEth - MinDeposit, Room))
          /\ Moves("poller", At("depositingEther"))
          /\ UNCHANGED region
  /\ UNCHANGED <<plan, root, swapRate, shown, tips, late, upset>>

\* autoSwap() is called without an await, and again by the poller. A promise
\* left behind earlier is the only one that is followed.
Deposited ==
  /\ job["poller"].pc = "deposited"
  /\ region' = SUCCESS("deposit")
  /\ job' = [job EXCEPT !["poller"] = autoSwap("poller", region'),
               !["detached"] = IF @ = NoJob THEN autoSwap("detached", region') ELSE @]
  /\ UNCHANGED <<plan, root, swapRate, shown, tips, late, upset>>

-----------------------------------------------------------------------------
(* The cards: cashOutCard, withdrawSai, buyTipsCard; and payments received.   *)

Clicks(what) ==
  /\ what \in plan.clicks /\ plan' = [plan EXCEPT !.clicks = @ \ {what}]

\* What START_WITHDRAW does not hold back: a job past its check, the cards that
\* do not look, an offer the hub has not answered, whoever made it, the SAI, and
\* all if the machine does not hear it; what is shown may be old.
NotHeldBack(sending) ==
  {j \in Jobs \ {"cashout"} :
     \/ job[j].pc \in {"collateral", "swapping", "depositingTokens", "depositingEther",
                      "ether too"}
     \/ job[j].pc \in {"ether", "tokens", "show"} /\ job[j].then = "ether too"}
    \cup (IF \/ \E c \in Callers \ Jobs : call[c] # Idle
             \/ sending \/ tips.pc # "off" \/ plan.clicks \cap {"buyTips", "sellTips", "p2p", "link"} # {}
          THEN {"cards"} ELSE {})
    \cup (IF desk = <<>> THEN {} ELSE {"offer"})
    \cup (IF withdrawal["sai"] = Idle THEN {} ELSE {"sai"})
    \cup (IF region["withdraw"] = "idle" /\ root = "ready" THEN {} ELSE {"unheard"})
    \cup (IF shown.eth = bal["eth"].user /\ shown.dai = bal["dai"].user
          THEN {} ELSE {"stale"})

\* sending: the send card is in use, be it between two attempts.
StartCashout(what, sending) ==
  /\ Clicks(what) /\ job["cashout"] = NoJob /\ root # "start"
  /\ Total > 0
  /\ region' = START("withdraw") /\ late' = NotHeldBack(sending)

cashoutTokens(sending) ==
  /\ StartCashout("cashoutTokens", sending)
  /\ WithdrawCall("cashout", "dai", shown.dai)
  /\ Moves("cashout", At("withdrawing"))
  /\ UNCHANGED <<root, swapRate, shown, tips, upset>>

\* The tokens are swapped first, at the rate on the screen.
cashoutEther(sending) ==
  /\ StartCashout("cashoutEther", sending)
  /\ IF shown.dai > 0
     THEN /\ Moves("cashout", [pc |-> "collateral", rate |-> swapRate, need |-> Total])
          /\ UNCHANGED withdrawal
     ELSE /\ WithdrawCall("cashout", "eth", shown.eth)
          /\ Moves("cashout", At("withdrawing"))
  /\ UNCHANGED <<root, swapRate, shown, tips, upset>>

CashoutCollateral ==
  /\ job["cashout"].pc = "collateral"
  /\ Collateralized("eth", job["cashout"].need)
  /\ Moves("cashout", [job["cashout"] EXCEPT !.pc = "collateralized"])
  /\ UNCHANGED <<plan, root, region, swapRate, shown, tips, late, upset>>

CashoutSwap ==
  /\ job["cashout"].pc = "collateralized"
  /\ SwapCall("cashout", "dai", "eth", shown.dai, <<1, job["cashout"].rate>>)
  /\ Moves("cashout", At("swapping"))
  /\ UNCHANGED <<plan, root, region, swapRate, shown, tips, late, upset>>

CashoutWithdraw ==
  /\ job["cashout"].pc = "withdrawEther"
  /\ WithdrawCall("cashout", "eth", shown.eth)
  /\ Moves("cashout", At("withdrawing"))
  /\ UNCHANGED <<plan, root, region, swapRate, shown, tips, late, upset>>

AfterCashout ==
  /\ job["cashout"].pc = "withdrawing"
  /\ withdrawal["cashout"].at \in {"returned", "threw"}
  /\ withdrawal' = [withdrawal EXCEPT !["cashout"] = Idle]
  /\ Moves("cashout", NoJob)
  /\ region' = IF withdrawal["cashout"].at = "returned" THEN SUCCESS("withdraw") ELSE region
  /\ upset' = (upset \/ withdrawal["cashout"].at = "threw")
  /\ UNCHANGED <<plan, root, swapRate, shown, tips, late>>

\* withdrawSai: the amount of the SAI, of the token the channel uses now.
withdrawSai ==
  /\ Clicks("withdrawSai") /\ root = "sai"
  /\ root' = "ready" /\ region' = [region EXCEPT !["withdraw"] = "pending"]
  /\ WithdrawCall("sai", "dai", plan.sai)
  /\ UNCHANGED <<swapRate, shown, job, tips, late, upset>>

AfterWithdrawSai ==
  /\ withdrawal["sai"].at \in {"returned", "threw"}
  /\ withdrawal' = [withdrawal EXCEPT !["sai"] = Idle]
  /\ region' = IF withdrawal["sai"].at = "returned" THEN SUCCESS("withdraw") ELSE region
  /\ upset' = (upset \/ withdrawal["sai"].at = "threw")
  /\ UNCHANGED <<plan, root, swapRate, shown, job, tips, late>>

\* buyTipsHandler: one dai for tips, or the reverse, until a minute is over.
buyTipsHandler(what) ==
  /\ Clicks(what) /\ tips.pc = "off" /\ root # "start"
  /\ tips' = [pc |-> what, tries |-> 0]
  /\ UNCHANGED <<root, region, swapRate, shown, job, late, upset>>

TryTips ==
  /\ tips.pc \in {"buyTips", "sellTips"} /\ tips.tries < MaxTries
  /\ call["tips"].at = "idle"
  /\ IF tips.pc = "buyTips"
     THEN Collateralized("tip", TipsRate) /\ SwapCall("tips", "dai", "tip", 1, <<TipsRate, 1>>)
     ELSE bal' = bal /\ SwapCall("tips", "tip", "dai", TipsRate, <<1, TipsRate>>)
  /\ tips' = [tips EXCEPT !.tries = @ + 1]
  /\ UNCHANGED <<plan, root, region, swapRate, shown, job, late, upset>>

AfterTips ==
  /\ call["tips"].at \in {"returned", "threw"}
  /\ call' = [call EXCEPT !["tips"] = Idle]
  /\ tips' = IF call["tips"].at = "returned" THEN [pc |-> "off", tries |-> 0] ELSE tips
  /\ UNCHANGED <<plan, root, region, swapRate, shown, job, late, upset>>

TipsFail ==
  /\ tips.pc # "off" /\ tips.tries > 0 /\ call["tips"].at = "idle"
  /\ tips' = [pc |-> "off", tries |-> 0]
  /\ UNCHANGED <<plan, root, region, swapRate, shown, job, late, upset>>

\* resolveLinkedTransferToRecipient announces the payment before it asks the hub.
PaymentStarts ==
  /\ plan.payments > 0 /\ root # "start"
  /\ plan' = [plan EXCEPT !.payments = @ - 1, !.incoming = @ + 1]
  /\ region' = START("receive")
  /\ UNCHANGED <<root, swapRate, shown, job, tips, late, upset>>

PaymentEnds ==
  /\ plan.incoming > 0 /\ plan' = [plan EXCEPT !.incoming = @ - 1]
  /\ \/ /\ bal["dai"].hub > 0
        /\ bal' = [bal EXCEPT !["dai"] = [user |-> @.user + 1, hub |-> @.hub - 1]]
        /\ region' = SUCCESS("receive")
     \/ /\ bal' = bal
        /\ region' = ERROR("receive")
  /\ UNCHANGED <<root, swapRate, shown, job, tips, late, upset>>

\* Somebody sends ether to the wallet's address.
EtherArrives ==
  /\ Clicks("fund") /\ chain' = [chain EXCEPT !["eth"] = @ + 2]
  /\ UNCHANGED <<root, region, swapRate, shown, job, tips, late, upset>>

\* The page is loaded again: what was under way is forgotten, the channel not.
Reload ==
  /\ Clicks("reload") /\ root # "start"
  /\ root' = "start" /\ region' = [o \in Operations |-> "idle"]
  /\ job' = [j \in Jobs |-> NoJob] /\ shown' = Nothing
  /\ tips' = [pc |-> "off", tries |-> 0]
  /\ swapRate' = IF hubRate = 0 THEN swapRate ELSE hubRate
  /\ UNCHANGED <<late, upset>>
=============================================================================
