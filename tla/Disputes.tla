------------------------------ MODULE Disputes ------------------------------
(***************************************************************************)
(* A channel that is closed on chain. What the parties signed off chain is  *)
(* put into the ChallengeRegistry; when challenges have ended the multisig   *)
(* wallet executes the two commitments both signed: that of setup, paying   *)
(* out the free balance, and for every app installed its conditional        *)
(* transaction (ConditionalTransactionDelegateTarget).                      *)
(*                                                                         *)
(* One of the two is watchful: while no dispute is on, it signs; once one   *)
(* is, it signs no more and answers each challenge of an outdated version   *)
(* before the deadline. (cf-core itself never looks at the chain: being     *)
(* watchful is left to whoever runs it.) The other uses whatever both have  *)
(* signed, may keep to itself the update signed last, and may name in a call *)
(* to the registry another contract than the app's. What can be promised     *)
(* once it has done that is little, so that two variables record it.         *)
(***************************************************************************)
EXTENDS ChallengeRegistry, Sequences, FiniteSetsExt

CONSTANTS
  FB,         \* the free balance app
  Histories,  \* what the parties may sign off chain, one update after another
  Deposited,  \* the money in the multisig wallet
  Amounts,    \* what a SEND_MONEY action put on chain may send
  OwnOnly     \* the histories in which every call names the app's own contract:
              \* none, but for a bound that a run needs

ASSUME DisputesConstants ==
  /\ FB \in Apps /\ Deposited \in Nat /\ Amounts \subseteq Nat
  /\ \A h \in Histories :
       /\ h \in Seq({h[i] : i \in DOMAIN h})
       /\ \A i, j \in DOMAIN h :
            /\ h[i].app \in Apps /\ h[i].timeout \in Nat /\ h[i].version \in Nat \ {0}
            /\ h[i].app = h[j].app /\ i < j => h[i].version < h[j].version

\* What a state pays out.
Worth(state) == LET pays == ComputeOutcome(state).pays IN pays[P1] + pays[P2]

FreeBalances == [kind : {"identity"}, transfers : Money, activeApps : SUBSET (Apps \ {FB})]

\* An app has a pot that leaves the free balance when it is installed, and none
\* of its states pays out more. The free balance has a challenge period
\* (freeBalanceDefaultTimeout).
Covers(pot, h) ==
  \A i \in DOMAIN h :
    IF h[i].app = FB
    THEN /\ h[i].state \in FreeBalances /\ IsFiniteSet(h[i].state.activeApps)
         /\ h[i].timeout > 0
         /\ Worth(h[i].state) + MapThenSumSet(LAMBDA a : pot[a], h[i].state.activeApps)
              <= Deposited
    ELSE h[i].state \in AppStates /\ Worth(h[i].state) <= pot[h[i].app]

\* The parties sign nothing that is not covered.
ASSUME HistoriesCovered ==
  \A h \in Histories : \E pot \in [Apps -> 0..Deposited] : Covers(pot, h)

VARIABLES
  history,   \* the history of this behaviour
  watchful,  \* the party that watches the chain
  signed,    \* how many updates of the history someone holds signed by both
  held,      \* how many of them the watchful party holds
  published, \* signatures on actions that were used on chain
  wallet,    \* the balance of the multisig wallet
  executed,  \* isExecuted: the apps (FB: the free balance) paid out
  paid,      \* what each party got on chain
  otherState,   \* the apps a state was set for by a call naming another contract
  otherOutcome  \* the apps an outcome was set for by such a call

chainVars == <<wallet, executed, paid>>
named == <<otherState, otherOutcome>>
vars == <<registryVars, history, watchful, signed, held, published, chainVars, named>>

Init ==
  /\ RegistryInit
  /\ history \in Histories /\ watchful \in Parties
  /\ signed = 0 /\ held = 0
  /\ published = {}
  /\ wallet = Deposited /\ executed = {} /\ paid = [p \in Parties |-> 0]
  /\ otherState = {} /\ otherOutcome = {}

Updates(n) == {history[i] : i \in 1..n}
UpdatesOf(a, n) == {u \in Updates(n) : u.app = a}

\* The update of a highest version.
IsNewest(u, n) == \A v \in UpdatesOf(u.app, n) : v.version <= u.version

Usable(p) == IF p = watchful THEN {u \in Updates(held) : IsNewest(u, held)}
                             ELSE Updates(signed)

(***************************************************************************)
(* The protocols of cf-core sign one more update. In each of them one party *)
(* has both signatures before the other does, and need not send its own.    *)
(***************************************************************************)
CoSign ==
  /\ signed = held /\ signed < Len(history)
  /\ \A a \in Apps : challenge[a].status = "none"
  /\ signed' = signed + 1 /\ held' \in {held, signed + 1}
  /\ UNCHANGED <<registryVars, history, watchful, published, chainVars, named>>

\* The signature kept back arrives while it is still of use.
Deliver ==
  /\ held < signed
  /\ ~Ended(challenge[history[signed].app])
  /\ held' = signed
  /\ UNCHANGED <<registryVars, history, watchful, signed, published, chainVars, named>>

Submit(p, a) ==
  /\ \E u \in Usable(p) : u.app = a /\ SetState(u)
  /\ UNCHANGED <<history, watchful, signed, held, published, chainVars, named>>

\* The turn taker's signature on an action: its own, or one seen on chain.
\* With setStateWithAction it is of this state and version.
SubmitWithAction(p, a) ==
  /\ \E u \in Usable(p) : \E action \in Actions(u.state, Amounts) :
       LET signature == <<"update", u, action>> IN
       /\ u.app = a /\ SetStateWithAction(u, action)
       /\ TurnTaker(u.state) = p \/ signature \in published
       /\ published' = published \cup {signature}
  /\ UNCHANGED <<history, watchful, signed, held, chainVars, named>>

\* With respondToChallenge it is of the action alone. The watchful party
\* answers so what is outdated only.
Respond(p, a) ==
  /\ p = watchful => \E u \in UpdatesOf(a, held) : u.version > challenge[a].version
  /\ Open(challenge[a])
  /\ \E action \in Actions(challenge[a].state, Amounts) :
       LET turnTaker == TurnTaker(challenge[a].state)
           signature == <<"response", a, turnTaker, action>> IN
       /\ RespondToChallenge(a, action)
       /\ turnTaker = p \/ signature \in published
       /\ published' = published \cup {signature}
  /\ UNCHANGED <<history, watchful, signed, held, chainVars, named>>

Cancel(p, a) ==
  /\ p # watchful
  /\ \E u \in Usable(p) : u.app = a /\ CancelChallenge(u)
  /\ UNCHANGED <<history, watchful, signed, held, published, chainVars, named>>

StoreOutcome(a) ==
  /\ SetOutcome(a)
  /\ UNCHANGED <<history, watchful, signed, held, published, chainVars, named>>

(***************************************************************************)
(* The calls in which the party that is not watchful names another contract *)
(* than the app's. The state it acts on is one both have signed all the     *)
(* same; what it signs for that contract is no action of the app's.         *)
(***************************************************************************)
SubmitWithOtherAction(p, a) ==
  /\ p # watchful /\ history \notin OwnOnly
  /\ \E u \in Usable(p) : u.app = a /\ SetStateWithOtherAction(u)
  /\ otherState' = otherState \cup {a}
  /\ UNCHANGED <<history, watchful, signed, held, published, chainVars, otherOutcome>>

RespondOtherwise(p, a) ==
  /\ p # watchful /\ history \notin OwnOnly
  /\ RespondWithOtherAction(a)
  /\ UNCHANGED <<history, watchful, signed, held, published, chainVars, named>>

StoreOtherOutcome(a) ==
  /\ history \notin OwnOnly
  /\ SetOtherOutcome(a)
  /\ otherOutcome' = otherOutcome \cup {a}
  /\ UNCHANGED <<history, watchful, signed, held, published, chainVars, otherState>>

(***************************************************************************)
(* A new block, which does not end a challenge the watchful party would     *)
(* still answer.                                                            *)
(***************************************************************************)
Overdue(a) ==
  /\ challenge[a].status = "deadline" /\ challenge[a].left = 0
  /\ \E u \in UpdatesOf(a, held) : MaySet(challenge[a], u.version)

Mine ==
  /\ \E a \in Apps : Open(challenge[a])
  /\ \A a \in Apps : ~Overdue(a)
  /\ NextBlock
  /\ UNCHANGED <<history, watchful, signed, held, published, chainVars, named>>

(***************************************************************************)
(* execTransaction of the two commitments, once each. The interpreters pay  *)
(* with send, which does nothing when the wallet has too little, or, for a   *)
(* game, with transfer, which then reverts.                                 *)
(***************************************************************************)
Sent(pays) ==
  LET first == IF pays[P1] <= wallet THEN pays[P1] ELSE 0 IN
  [p \in Parties |->
     IF p = P1 THEN first
     ELSE IF pays[P2] <= wallet - first THEN pays[P2] ELSE 0]

Execute(a) ==
  /\ a \notin executed
  /\ IsStateFinalized(challenge[a]) /\ outcome[a] # None
  /\ LET sent == Sent(outcome[a].pays) IN
       /\ outcome[a].allOrNothing => sent = outcome[a].pays
       /\ wallet' = wallet - (sent[P1] + sent[P2])
       /\ paid' = [p \in Parties |-> paid[p] + sent[p]]
  /\ executed' = executed \cup {a}
  /\ UNCHANGED <<registryVars, history, watchful, signed, held, published, named>>

executeEffectOfFreeBalance == Execute(FB)

\* The apps the free balance that went into effect has funded.
Funded == IF outcome[FB] = None THEN {} ELSE outcome[FB].activeApps

\* A mutant: any app can go into effect.
executeAnyAppOutcome(a) == outcome[FB] # None /\ Execute(a)

executeEffectOfInterpretedAppOutcome(a) == a \in Funded /\ Execute(a)

Next ==
  \/ CoSign \/ Deliver \/ Mine
  \/ \E p \in Parties, a \in Apps :
       \/ Submit(p, a) \/ SubmitWithAction(p, a) \/ Respond(p, a) \/ Cancel(p, a)
       \/ SubmitWithOtherAction(p, a) \/ RespondOtherwise(p, a)
  \/ \E a \in Apps : StoreOutcome(a) \/ StoreOtherOutcome(a)
  \/ executeEffectOfFreeBalance
  \/ \E a \in Apps \ {FB} : executeEffectOfInterpretedAppOutcome(a)

\* The watchful party wants its money at last, and blocks are mined.
Fairness ==
  /\ WF_vars(Mine)
  /\ \A a \in Apps :
       /\ WF_vars(\E p \in Parties : p = watchful /\ Submit(p, a))
       /\ WF_vars(StoreOutcome(a))
       /\ WF_vars(a # FB /\ executeEffectOfInterpretedAppOutcome(a))
  /\ WF_vars(executeEffectOfFreeBalance)

Spec == Init /\ [][Next]_vars
FairSpec == Spec /\ Fairness

-----------------------------------------------------------------------------
\* What an app can be ended with by update u: the state signed, or what an
\* action put on chain makes of it.
FinalStates(u) ==
  {u.state} \cup
  {ApplyAction(u.state, x) :
     x \in {x \in Actions(u.state, Amounts) : HasTurns(u.state) /\ Accepts(u.state, x)}}

SignedStates == UNION {FinalStates(u) : u \in Updates(signed)}
States == SignedStates \cup OtherStates

\* The types of the variables.
TypeOK ==
  /\ history \in Histories /\ watchful \in Parties
  /\ signed \in 0..Len(history) /\ held \in {signed, signed - 1}
  /\ challenge \in [Apps -> [status : {"none", "deadline", "explicit"},
                            state : States \cup {None},
                            version : Nat, left : Nat \cup {-1}]]
  /\ \A a \in Apps : challenge[a].status # "none" => challenge[a].state # None
  /\ outcome \in [Apps -> {ComputeOutcome(s) : s \in States} \cup OtherOutcomes \cup {None}]
  /\ wallet \in Nat /\ executed \subseteq Apps /\ paid \in [Parties -> Nat]
  /\ otherState \subseteq Apps /\ otherOutcome \subseteq Apps

-----------------------------------------------------------------------------
\* An outdated version of a watchful party's app is not what a challenge ends
\* with: when a challenge whose updates have a deadline has ended, its version
\* is that of an update signed no earlier than the newest the party holds,
\* whatever contracts were named; and its state is that update's, or the effect
\* of one action on it, unless another contract was named to set one.
LatestIsFinal ==
  \A a \in Apps :
    Ended(challenge[a]) /\ (\A u \in UpdatesOf(a, signed) : u.timeout > 0) =>
      \E u \in UpdatesOf(a, signed) :
        /\ IsNewest(u, held) /\ u.version = challenge[a].version
        /\ a \in otherState \/ challenge[a].state \in FinalStates(u)

\* Every state and outcome set was made by the app's own contract. (To name
\* another when answering a challenge takes nothing from what follows.)
OwnContracts == otherState = {} /\ otherOutcome = {}

\* What a party may count on after n updates: its free balance, and of every
\* funded app the least of the outcomes it can end with. One without a
\* challenge period can end in any state ever signed.
MayEnd(a, n) ==
  {u \in UpdatesOf(a, n) : IsNewest(u, n) \/ u.timeout = 0}

Share(a, n, p) ==
  LET pays == UNION {{ComputeOutcome(s).pays[p] : s \in FinalStates(u)} : u \in MayEnd(a, n)}
  IN IF pays = {} THEN 0 ELSE Min(pays)

CountsOn(p, n) ==
  LET active == UNION {u.state.activeApps : u \in MayEnd(FB, n)} IN
  Share(FB, n, p) + MapThenSumSet(LAMBDA a : Share(a, n, p), active)

\* The dispute is over: the free balance and every app it funds are paid out.
Settled == FB \in executed /\ Funded \subseteq executed

\* Whatever the other party puts on chain, cancels, answers or keeps back, the
\* watchful one ends with at least what the channel gave it by the updates it
\* holds, or by the one more that it has signed too, as long as no state or
\* outcome was set by naming another contract than the app's.
NoLessThanAgreed ==
  OwnContracts /\ Settled =>
             \/ paid[watchful] >= CountsOn(watchful, held)
             \/ paid[watchful] >= CountsOn(watchful, signed)

\* What is still to be paid out by outcomes that are set never exceeds what the
\* wallet holds (the interpreters' sends would fail without a sign), as long as
\* every state and outcome set is that of the app's own contract.
Promised(a) == IF a \in executed \/ outcome[a] = None THEN 0
               ELSE outcome[a].pays[P1] + outcome[a].pays[P2]

EffectsCovered ==
  OwnContracts /\ outcome[FB] # None =>
    Promised(FB) + MapThenSumSet(Promised, Funded) <= wallet

\* The challenge an outcome was computed from stands for good, and so does the
\* outcome, on which the parties act, unless a call names another contract to
\* set it.
OutcomeStands ==
  [][\A a \in Apps : outcome[a] # None =>
       /\ challenge'[a] = challenge[a]
       /\ outcome'[a] = outcome[a] \/ a \in otherOutcome']_vars

-----------------------------------------------------------------------------
\* The version of a cancelled challenge stays, so what was cancelled last
\* cannot be submitted again.
Barred(a) ==
  /\ challenge[a].status = "none"
  /\ \E u \in UpdatesOf(a, held) : IsNewest(u, held) /\ u.version <= challenge[a].version

\* The party cannot show any state of the free balance or of an app funded (the
\* states of version 0, before the first update, cannot be submitted).
NothingToShow == \E a \in {FB} \cup Funded : UpdatesOf(a, held) = {}

\* The watchful party gets its channel settled, unless the other cancels the
\* challenge of its newest state, answers it again and again (by the app's
\* contract or by another), has a state or an outcome set by another contract,
\* or the party has no state to show of the free balance or of an app it funds.
SettlesUnlessStalled ==
  \/ <>Settled
  \/ <>~OwnContracts
  \/ <>[](\E a \in Apps : Barred(a))
  \/ \E a \in Apps :
       []<><<\E p \in Parties :
                p # watchful /\ (Respond(p, a) \/ RespondOtherwise(p, a))>>_vars
  \/ <>[]NothingToShow

=============================================================================
