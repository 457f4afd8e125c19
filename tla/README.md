# Indra in TLA+

A model of Indra: the state channels of two or three counterfactual nodes
(`modules/cf-core`), the chain contracts they fall back on, the hub
(`modules/node`) that opens channels, passes payments on and sends withdrawals for
its clients (`modules/client`), and the wallet in the browser that calls such a
client from several places at once (`modules/daicard`). The modules are written from the TypeScript and the
Solidity; `PROJECT.json` names the lines behind every definition.

Contents: [the system](#the-system) · [modules](#modules) ·
[what is checked](#what-is-checked) · [bounds](#bounds) ·
[fairness](#fairness) · [what is proved](#what-is-proved) ·
[findings](#findings) · [seen while modelling](#seen-while-modelling) ·
[abstractions](#abstractions) · [not modelled](#not-modelled) · [plan](#plan)

## The system

| component | state | operations | talks to |
|---|---|---|---|
| channel models (`cf-core/src/models`) | one immutable `StateChannel`: counter `monotonicNumProposedApps`, proposals, installed apps in insertion order, free balance app with its version, agreements of virtual apps | `addProposal`, `removeProposal`, `installApp`, `uninstallApp`, `setState`, add and remove agreements | protocols |
| protocols (`cf-core/src/protocol`) | none between runs; each half is a generator that computes the channel it will persist from the one it read when it started | setup, propose, install, uninstall, take-action, update, withdraw, install and uninstall of virtual apps | store, messaging |
| protocol runner and node (`machine/`, `node.ts`, `message-handling/`) | a deferral per processID that waits for an answer; timers of 60 s | `initiateProtocol`, `runProtocolWithMessage`, `IO_SEND`, `IO_SEND_AND_WAIT`, `PERSIST_STATE_CHANNEL` | messaging, store |
| methods (`methods/`) | none | one controller per call; `executeMethod` takes the locks the controller names | queues, protocol runner, chain |
| process queues (`process-queue.ts`, `methods/queued-execution.ts`) | a p-queue of concurrency 1 per lock name; a deferred per queue and task | `addTask`, `addToManyQueues` | locking service |
| locking service (`node/src/lock`, `node/src/redis`, `client/src/node.ts`) | leases in redis, 90 s | `lockedOperation` in the hub; acquire and release requests from a client, 35 s each | redis |
| store (`store.ts`) | the persisted channels and commitments | whole-channel writes | storage service |
| virtual apps (`install-virtual-app.ts`, `uninstall-virtual-app.ts`) | an app and a pass-through app between three parties, an agreement on each of the intermediary's two channels | eight messages to install, eight to uninstall | protocols |
| deposits and withdrawals (`methods/state-channel`, `protocol/withdraw.ts`) | refund app, threshold, withdrawal commitment | install refund app, pay, uninstall; six messages of withdraw, transaction | chain, protocols |
| contracts (`cf-funding-protocol-contracts`, `cf-adjudicator-contracts`, `contracts`) | challenges, outcomes, multisig | `setState`, `setStateWithAction`, `respondToChallenge`, `cancelChallenge`, `setOutcome`, `execTransaction` | chain |
| hub services (`node/src`) | rows of channels with the collateralization flag, of linked transfers, of transactions | `create`, `makeAvailable`, `requestCollateral`, `resolveLinkedTransfer`, `allowOrReject`, `withdrawForClient` | cf-core, client, chain |
| client (`client/src`) | the record of an open withdrawal in its store; in each controller a field with the app it waits for | `connect`, `conditionalTransfer`, `resolveCondition`, `swap`, `deposit`, `withdraw` with its retries; the listener's handlers | hub, cf-core |
| wallet (`daicard/src`) | one object of balances, the rate, a state machine for the whole and one each for the send and the redeem card | `startPoller`, `refreshBalances`, `autoDeposit`, `autoSwap`; the cards that pay, redeem, cash out and buy tips | client |

A call on a node goes: controller → the process queues of all the lock names it
needs → a lease of each → the initiating half of a protocol, which exchanges
messages with the responding half on the other node and persists. The responding
half is started by the first message, at once and in no queue of its own node:
only the initiator's lease keeps it apart from other runs on the channel. Both
halves write the whole channel, computed from what they read when they started.

What makes this hard is therefore: two runs interleaved on one channel; the two
halves of a run persisting at different moments and in an order that depends on
the protocol; lost messages, timers that beat an answer, restarts between one write
to the store and the next, none of which the protocols repair; calls that take fewer locks than
their writes touch; several locks asked for side by side, any of which can be
refused, expire or fail to be released. `PROJECT.json` lists each of these
hazards at its line with the properties aimed at it.

What makes each component correct:

- *models*: no balance becomes negative; money leaves the free balance only into
  the pot of an app it names as active, and comes back whole.
- *protocols*: no two doubly signed states with one version; no persisted state
  a party cannot enforce; no newer state overwritten by an older one; one history
  of the free balance for both parties; agreement when nothing is in progress;
  every call ends.
- *queues and locks*: tasks that share a lock name never overlap, in whichever
  process; calls are served in order; a call that throws did nothing; every call
  settles.
- *virtual apps*: the intermediary, who gives the same money twice, never has one
  side bound without the other; its two channels neither lose nor gain.
- *deposits and withdrawals*: the books never promise more than the wallet on the
  chain holds; what was deposited is credited.
- *contracts*: the last state both signed decides; an outcome stands; every
  challenge can be brought to an end. The registry takes the contract to ask from each
  call, so the first two are promised in part only.
- *hub*: it takes a sender's money only for what it has paid, and can get back all
  it has paid; one channel per user; no deposit for collateral beside another.
- *client*: a withdrawal that was charged is remembered until it is on the chain; the
  stakes of a swap come back; every call returns or throws.
- *wallet*: what its jobs do at the same time does not spend the same money twice; what
  arrives is deposited; the cards show of a payment what became of it.

## Modules

    StateChannel              data of a channel and its pure transitions
      └ ChannelProtocols      two nodes, six protocols, network, locks, faults
          └ refines SharedLedger
    ProcessQueue              queues and leases under the calls
      └ refines SerialExecution
    VirtualApps               three parties, two links, install and uninstall
    Funding                   deposits and withdrawals of a channel, and the wallet
    GameApps                  games on chain: moves and who won
      └ AppContracts          all apps on chain: turns, actions, outcomes
          └ ChallengeRegistry the transactions of the adjudicator
              └ Disputes      a channel with an app closed on chain
    HubChannels               creation of channels, hub and clients
      └ LinkedTransfers       payments through the hub, collateral
          └ UserWithdrawals   withdrawals the hub sends, with their retries
              └ Hub           all three together
    ClientCalls               swaps, transfers, deposits, withdrawals of one client
      └ Wallet                poller, jobs and root machine of the wallet
          └ Cards             the send and the redeem card
              └ Daicard       all three together
    MC*                       instances for TLC
    *Proofs                   theorems: ChannelProtocols (with StateChannel), ProcessQueue,
                              VirtualApps, Disputes, Funding, Hub, Daicard
    Sums                      lemmas on the sums over finite sets

**StateChannel** translates `state-channel.ts`, `free-balance.ts`,
`app-instance.ts` and the parts of `install.ts` and `uninstall.ts` that compute a
new channel. A channel is a record `[np, props, apps, fb]`. `apps` is a sequence
because the code keeps a `Map` and `mostRecentlyInstalledAppInstance` depends on
its order. Versions count as in the code: each of `setState`'s callers adds one,
so that installing and uninstalling add two to the free balance's version. What
can throw (`increment` with too small a balance) has a predicate (`CanDebit`).

**ChannelProtocols** has both halves of *propose*, *install*, *uninstall*,
*take-action*, *update* and *reject*:

| variable | in the code |
|---|---|
| `store[p]` | the `StateChannel` in `p`'s store |
| `past` | history: free balances that either party has persisted |
| `held[p]` | history: commitments `p` has had both signatures of |
| `ini[r]` | initiating generator of run `r` (a processID): `persist`, `wait2`, `written`, `wait4` are the `yield`s at which others can step in; `written` is between `WRITE_COMMITMENT` and `PERSIST_STATE_CHANNEL` |
| `rsp[r]` | responding generator: `verified` is between the check of the signature and the first write, `written` as above, `wait3` the install responder's wait |
| `net` | messages on their way, a set: their handlers interleave, so they can overtake one another |
| `locks` | leases of the locking service |

One action per segment between two `yield`s that others can observe: an
`XInitiator` starts a run (locks included), an `XResponder` handles the request,
`PersistAndReply` writes and answers, `XFinish` handles the answer. *Install*
has four messages and an action for each; *uninstall*, *take-action* and *update*
have the same message pattern, *propose* too except that its initiator persists
first, so they share `Respond`, `PersistAndReply` and `Finish`. *Install* and
*uninstall* write the signed commitment before the channel, each half in a step of its
own: `InstallCountersign` then `InstallPersist`, `InstallWrite` then `InstallComplete`,
`UninstallCountersign` then `UninstallFinish`, `UninstallWrite` then `PersistAndReply`.
A node can restart between the two; the half is then `torn`, which only properties
read. A half writes its channel and sends the next message in one step, and a restart
between the two is the step and the loss of the message, so that `Lose` may also happen
when nodes restart. `TimeoutInitiator`
and `TimeoutResponder` are the timer of `IO_SEND_AND_WAIT`; `IgnoreUnexpected` is
an answer whose deferral is gone; `Lose`, `LeaseExpires` and `Crash` are faults.
A signature is the commitment it signs, so checking one against the locally
computed commitment is membership.

**SharedLedger** is the abstract specification of what two parties of a channel
may rely on: a growing history of agreed free balances, with versions that never
branch, and for each party a view that is one of them and never goes back.
`OneHistory` in `ChannelProtocols` instantiates it with the balances that have been
persisted (`past`) and the two stores.

**ProcessQueue** has `queue[p][k]` (p-queue of name `k` in process `p`),
`entry[t][k]` (the promise `q.add` returned to task `t` for `k`), `lease[k]`,
`task[t]` (the memoised promise of the task), `call[t]` (what `addToManyQueues`
returned) and the history `called`. Each action is one callback: `AddTask`,
`Dequeue`, `Acquire` and `Refuse` (redlock), `RunTask` (the last deferred
resolves), `Complete`, `Release` and `LoseRelease`, `Expire`, `Return`, `Throw`.

**SerialExecution** is the abstract specification of the queues: tasks that share
a name are never in execution together, and each executes at most once.

**VirtualApps** has the three generators of each of the two virtual protocols, one
step per message. State: `store` (the channels each party has persisted: Ingrid two
links and the three-party channel, each user a link, that channel and the one between
the users), `run` (who started run r, with which parameters), `half` (how far each of
the three sides of a run is, the channels it is going to persist and which of them are
left), `net`, `given` and `got` (the signatures ever sent and received), `leases`,
`faults`. A link is its free balance and its agreements; the app between the users and
the pass-through app between all three keep versions, stakes and outcome. Each of the
channels a half persists is a write of its own, and so is the removal of the proposal.

**Funding** has the two halves of *install* and *uninstall* as far as the refund app
needs them, all six messages of *withdraw*, the two RPC calls, the retries of the
deposit transaction, and the multisig wallet with the transactions not yet mined. The
outcome of the refund app is computed by each party at its own moment from the wallet
as it finds it: `Outcome` is the contract's comparison with the threshold.

**GameApps** and **AppContracts** are the apps a channel can take to the chain, as
functions on small states: whose turn it is, which actions the contract accepts, the
state after one, the outcome. Transfer apps pay any split of their pot, the games all
of it to one player or half to each (`allOrNothing`, paid by the fixed-outcome
interpreter); the hash of a commitment is a constant operator, `Hash`.
**ChallengeRegistry** has the transactions of the registry, with `left` the blocks to
the deadline (`finalizesAt - block`). A challenge is filed under `appIdentityToHash`
(`MChallengeRegistryCore.sol:26`), which covers the nonce and the participants and not the
`appDefinition` of the call. So `setStateWithAction`, `respondToChallenge` and
`setOutcome` have two actions each: one in which the call names the app's own contract
(`AppContracts`), and one in which it names another (`SetStateWithOtherAction`,
`RespondWithOtherAction`, `SetOtherOutcome`), of which only what it may answer is known
(`OtherStates`, `OtherOutcomes`).
**Disputes** composes them
with the multisig: it starts from an off-chain history of doubly signed updates of the
free balance and one app, and lets either party submit any of them, act, respond,
cancel and execute, against one party that watches the chain. The other party may name
another contract when it acts or answers, and anybody when an outcome is set;
`otherState` and `otherOutcome` remember for which apps that was done. The watchful party
is no code of the repository, see [seen while modelling](#seen-while-modelling).

**HubChannels**, **LinkedTransfers** and **UserWithdrawals** have one action per stretch
between two `await`s of the hub's service methods and of the client's calls, so that
two calls of a method interleave wherever the database, cf-core or the chain is asked.
Rows are read into the call (`calls[c].row`) and written later, as TypeORM does.
`plan` is chosen at the start: which calls are made how often and which faults
happen; it keeps an instance small without leaving out what happens together.

**ClientCalls** has one action per stretch between two `await`s of the controllers
`SwapController`, `ConditionalTransferController`, `DepositController` and
`WithdrawalController`, of the hub's `allowOrReject` and of the client's listener; a
protocol is one step, that happens or throws (`ProtocolFails`, `CommitFails`). `preImage`
is how far the secret of a transfer has got: told to the recipient, shown by the hub to
the sender's app (`HubTakesAction`), the money taken (`HubUninstalls`); the hub does both
without awaiting them (`transfer.service.ts:311`). `call[c]` is the call that part `c` of the wallet has under way;
`appId[k]` is the one field of a controller, written by every call and read after
every `await`; `Ears` are the callers that listen for `REJECT_INSTALL`. They are
called in the order of their proposals (`own`), which is that of their registration,
and the first that throws keeps an event from the others.
**Wallet** has `root` and `region` (the machine of `state/root.js` with its regions of
deposit, swap, withdrawal and receipt), `job` (the chains of `await`s that run beside
each other: the poller, the swap it does not wait for, the cash-out), `shown` (the one
object of balances they all read and write), `swapRate` and `tips`. **Cards** adds
`send` and `redeem`, each with the state of its machine and where its handler is; an
event that the machine does not hear in its state changes nothing, as in xstate.
**Daicard** puts them together and adds a reload of the page, which ends all calls.
The variables `late`, `upset`, `silent`, `confused` and `stranded` are histories for the
provisos of properties: no guard reads them.

The **MC** modules give openings and call sets. Openings are channels the
protocols themselves reach, so that the bound on runs is spent where runs meet.
Operators marked as mutants in the modules are plausible bugs of the definition
named next to them; `PROJECT.json` pairs each with the property that notices it.

## What is checked

| run | properties | shows |
|---|---|---|
| `faulty` | `TypeOK`, `QuiescentAgreement`, `NoFork`, `BooksBalance`, `StoresGoForward`, `OneHistory` | Messages are lost and nodes restart anywhere. As long as no message is lost and no node restarts, the two stores are *equal* (counter, proposals, apps in order, free balance) whenever nothing is in progress, whatever the applications call and in whatever order. In every case two doubly signed states share a version only if a restart between writing a commitment and its channel has left one of them behind, and the run reaches that; books balance in each store; no write goes back behind an earlier one; the free balance that is persisted has one history (refinement of `SharedLedger`). |
| `anything` | `Enforceable`, `LocksComeFree` | Every protocol, also the two that do not lock the channel, and every fault (loss, late answers, leases that lapse, restarts). A party never persists a free balance without both signatures on it; every lock taken becomes free. |
| `queue_shared` | `ThrewMeansNotDone`, `SerialExecution` | Two processes, two lock names, refused leases, failing tasks: tasks that share a lock are serial across processes, and a call that throws for want of a lock never runs. |
| `queue_settles` | `SerialInProcess`, `InCallOrder`, `CallsSettle` | Calls over one and two locks in two processes, each of which may hold one that the other waits for; leases that expire early, releases that are lost: the process's own queues still keep its tasks apart and in call order, and every call returns or throws. |
| `virtual` | `SignsWhenCovered`, `MediatorNeutral`, `LinksBalance` | Two users install, move and uninstall virtual apps through Ingrid, with lost messages or a restart anywhere. She never signs the balance or the agreement of one link before she is given the other user's signature on that of the other; what she has in both links together neither shrinks nor grows, and no link loses or gains money, as long as an install is called again only after it threw. |
| `funding` | `Solvent`, `BooksAgree`, `Accounted`, `DepositCredited` | Deposits and withdrawals by both parties next to an app, with losses, a restart or failing transactions: the books never promise more than the wallet has or is sure to get; when nothing fails no coin is unaccounted for. |
| `disputes` | `LatestIsFinal`, `NoLessThanAgreed`, `EffectsCovered`, `OutcomeStands`, `SettlesUnlessStalled` | Against any order of the other party's transactions, with any contract named in them, no challenge ends with an older version than the watchful party's newest, and none whose outcome is set changes. As long as every state and outcome set is by the app's own contract, that party ends with its newest state and what it promises, and the wallet can pay. The channel settles unless the other party stalls in one of four named ways. |
| `hub` | `TypeOK`, `HubCovered`, `PaidBeforeTaken`, `StatusMeansPaid`, `FlagMeansDeposit`, `OneChannel`, `RecordedUntilSent`, `ReclaimsInTheEnd`, `NobodyShutOut`, `PaidInTheEnd` | The hub and two clients: channels are created, a payment is resolved up to twice at a time with collateral requested beside it, withdrawals are sent with retries; the hub and clients restart, go offline or time out. |
| `wallet` | `StakesComeBack`, `CashoutCovered`, `PaidAsShown`, `SwapsEnd`, `DepositsGetMade` | Days in the life of a wallet: what arrives is deposited and swapped while the user pays, redeems, cashes out, buys tips, reloads, and while the hub restarts or changes its rate. Every swap that is installed has a call that is to uninstall it, or is one of those known to be let go; a cash-out asks for no more than there is and leaves no ether; the cards do not claim what did not happen; swaps end; deposits are made. |
| `out_of_order_installs` | `AppsHaveConditional` violated | finding 1 |
| `unlocked_reject` | `NumProposedGrows` violated | finding 2 |
| `queue_two_names` | `CallsSettle` violated | finding 3 |

`NoFork` excepts the commitments that a restart has left between `WRITE_COMMITMENT` and
`PERSIST_STATE_CHANNEL` and whose balance no party has persisted since (`Torn`). Such a
fork is real: the store is still at the version before, and the next run on the channel
signs another balance under the version of the commitment left behind. `NoFork` says that
there is no other way to get one, and `OneHistory`, which has no such exception, that what
the parties persist does not branch even then.

`NoFork`, `StoresGoForward` and `OneHistory` are about runs that hold the lock of
the channel, hence without `update`, `reject`, lapsing leases or answers later
than the timer; with any of those they are false, which is what the hazards on
those lines say. `Enforceable` and `LocksComeFree` need none of these provisos.
`OneHistory` allows, and the runs reach, parties that differ for ever: after a
lost third message of *install* one party is at the new free balance, the other at
the one before, and no protocol on that channel succeeds any more. What
`OneHistory` excludes is that they continue to sign on both branches.

Several properties hold only under a proviso that is part of their statement, because
the code does break them otherwise; [seen while modelling](#seen-while-modelling) says
how. `HubCovered` and part of `StatusMeansPaid` assume that the calls for a payment come
one by one (`OneByOne`); `FlagMeansDeposit` that the hub has not restarted;
`MediatorNeutral` and `LinksBalance` that an install is called again only after it threw
(`OnlyRetries`); `Accounted` that nothing fails, that no app is
overwritten by a refund app, and it counts a withdrawal that cannot be paid twice;
`NoLessThanAgreed` and `EffectsCovered` that every state and outcome was set by the app's
own contract (`OwnContracts`), and one disjunct each of `LatestIsFinal` and `OutcomeStands`
that the state, or the outcome, was: what another contract returns is what the registry then
files, also in the place of an outcome already set, and no signature limits it.
`SettlesUnlessStalled` names its four escapes;
`PaidInTheEnd` is about users who come back and have a row; `NobodyShutOut` about hubs
that do not restart. `CashoutCovered` excepts a cash-out beside something that does not
wait for it (`late` says what: a job past its check or on its way to deposit ether too,
the tips card or the send card in use, be it between two attempts, an offer the hub has
not answered yet, left-over SAI, balances on the screen that are old);
`StakesComeBack` a swap whose uninstallation threw, whose page was loaded again or whose id
was overwritten (`stranded`), or for which another's proposal was taken; `PaidAsShown` a payment
whose app the client has confused with another call's (`confused`);
`SwapsEnd` a swap whose proposal the hub forgot in a restart
or whose rejection was kept from it (`silent`); `DepositsGetMade` a wallet one of whose
jobs ended with an error (`upset`), which stops the poller for good.

`VirtualApps`, `Funding`, `ProcessQueue`, `Disputes` also define a `TypeOK`: it documents
their variables, is part of the invariants that are proved, and is no property of a run.

Each run is `tlc -config <cfg> <module>` with the pair `PROJECT.json` names; the
proofs are checked with `tlapm ProcessQueueProofs.tla`, and so on.

## Bounds

- `MaxRuns` in `ChannelProtocols`: 3 in `faulty`, 2 in the others. Two
  are enough for every pair of interleaved protocols; a third continues from the
  half-finished state a failed one left, which is where a fork would be made; openings
  with proposals and installed apps stand for the runs before them.
- `Terms`: one unit staked by the proposer, or one and two, so that two proposals
  can differ and can together exceed a balance of two.
- `Defs`: one or two app definitions.
- Balances start at two each; the version of the free balance of an opening is the
  one its history gives it.
- `ProcessQueue`: two processes, the hub and a client; one or two names; three
  calls, each made at most once. With fewer than two names no task can wait
  for one lock while holding another; two of the calls, in different processes, take
  both. In `queue_settles` no lock is refused (the 350 tries of `redis.provider.ts` last
  longer than a lease of 90 s); what a refusal leaves is finding 3.
- `VirtualApps`: two runs at once (`MaxRuns`), one move of the app (`MaxPlays`), one
  restart, losses or restarts but not both; openings with three proposals, one of
  which the balances cannot carry after the two others, or with one app installed. The
  balances are large enough to take the stakes of an app twice.
- `Funding`: two runs, one app, amounts 1 and 2, one kind of fault per behaviour. Two runs
  are a deposit beside a withdrawal, or two of either; two amounts make equal and
  unequal withdrawals.
- `Disputes`: eight histories of up to three updates (three transfer apps, one of them
  also unmoved, an updated free balance, three games), either party the watchful one,
  an app period of one block and two for the free balance, which is the least that
  lets one answer come in time and the next too late. Another contract is named in three
  of them (all but `OwnOnly`): an app whose action on chain is still to come, one claimed,
  and a game; it returns one state and one outcome, both of which pay one
  party all there is.
- `Hub`: two users, one payment resolved up to twice, two withdrawals, three retries
  (as in the code), one restart of the hub, up to three of a client. `FivePlans` says
  which happen together: payments with collateral, channel creation with a payment,
  and withdrawals in three ways. Two calls for one payment are what the client
  really makes (a subscription and `reclaimPendingAsyncTransfers`).

- `Daicard`: thirteen plans (`Days`), each with what the channel and the key own at the
  start and which clicks, payments, failures and rates happen, every click once. They
  pair each job with each other one that it can meet: the poller's deposit and swap
  (twice over, with a restart of the hub), the cash-out in either asset with a swap, a
  payment, a link that is being sent or left-over SAI, tips bought and sold beside swaps, a link sent beside a swap, a payment tried
  twice (`MaxTries`), a link redeemed here or elsewhere, a reload. One ether is worth two
  dai, so that swaps have a remainder; `MAX_CHANNEL_VALUE` is 8 dai, which one plan
  reaches; the discrepancy of 5 % is the code's.

Deadlock is not checked (`CHECK_DEADLOCK FALSE`) because a system in which all the
calls have been made and settled may stop.

## Fairness

`ChannelProtocols!Fairness`: weak fairness of the steps of nodes (handlers, timers
included), of handling a message and of the end of a lease whose run is over. The event loop of a node
is never idle while a handler is ready, the timer of `IO_SEND_AND_WAIT` always
fires, and the key of a redlock lease has a TTL. Nothing is assumed of the
applications; a message may be lost instead of handled. `LocksComeFree` follows
because whoever waits has a timer; a lease that ends under a live call is a fault
that may happen, not something the property counts on.

`ProcessQueue!Fairness`: p-queue starts the next task when a slot is free; redlock
tries again with a free lease or stops trying; tasks end because everything they
wait for has a timer; leases end. Nobody has to make a call.

`Disputes!Fairness`: the watchful party submits and answers before a deadline passes
(that is what watching means), somebody stores outcomes and executes effects, blocks are
mined. Nothing is assumed of the other party.

`Hub!Fairness` is weak fairness of every step of a call that has begun, of the timers of
requests (`client/src/node.ts`, `connext.ts:173`), and of mining. Nobody needs to make a
call, to come online or to connect again: what depends on that is a proviso of the
property. `VirtualApps` and `Funding` state no liveness.

`Daicard!Fairness` is weak fairness of each caller, each job, each withdrawal, of the
deposit, of the hub's answers, of the poller (`interval` calls it again and
again, `App.js:423`) and of the cash-out. Nothing is assumed of clicks, payments, failures, restarts or
reloads, nor of the hub when a payment has been redeemed (`HubReclaims`): nobody waits for
it, and it does not try again.

## What is proved

The proofs are for every number of runs and calls, every opening, every set of
faults unless a theorem assumes otherwise. Constants have the assumptions
`PartiesDistinct`, `ConstantsType`, `QueueConstants` and `FundingConstants`, which say
only their types, and `OpeningNumbered`, one of `ChannelProtocols` and one of `Funding`:
in the opening channel sequence numbers are given to one app or proposal each and were
counted when they were given out; in the first also, the free balance names the
installed apps, and in the second no refund app is left over. That is so of a channel
just set up, and `ChannelProtocolsProofs` proves that the protocols keep it so. The same
for `VirtualApps` is `OpeningSettled`: the two links of an opening carry the same
agreements, each over the stakes of its app, and apps and proposals have identities.
`KindsDiffer`, `PartsOfTheWallet`, `SendCard`, `WalletNumbers` and `PlansTyped` say of
`Daicard` that nobody both swaps and sends, that the parts of the wallet are among the
callers, and that amounts and plans are of their types; a plan starts with any balances
and allows any clicks, payments, failures and rates.

**ProcessQueueProofs**

- `TypeCorrect`: `Spec => []TypeOK`.
- `SerialInEveryProcess`: `Spec => []SerialInProcess`, under every fault. A
  running task has all its entries `held`, an entry `held` is the only one of its
  process that takes the slot of its queue, hence two running tasks of one process
  share no name.
- `QueuesSerialise`: `Spec => SerialExecution`, assuming `LeasesLast` (a locking
  service and no lease that ends early) or a single process. With leases that last
  an entry is `held` only by the task in whose name the lease is.
- `ThrownCallsAreNotDone`: `Spec => []ThrewMeansNotDone`, with leases that last and
  releases that arrive: only then does a rejected entry mean a refused lease, and a
  refused lease keeps `RunTask` from ever being enabled.
- `ServedInCallOrder`: `Spec => InCallOrder`, under every fault. The invariant
  relates the order of the entries of each queue to the order of `called`.

The inductive invariant `IInv` of that module is the conjunction of the types with:
an entry exists exactly for the names of a task that has been called; a slot is
taken at most once; a task that has begun has no entry behind `held`. None of the
properties is inductive without these.

**ChannelProtocolsProofs** begins with lemmas on the transitions of `StateChannel`:
which of them stay a channel, under which guard (`DebitType` needs `CanDebit`), and
what they do to the version of the free balance. `MostRecentlyInstalledType` shows that
the `CHOOSE` behind it has a value whenever there is an app.

- `TypeCorrect`: `Spec => []TypeOK`: whatever happens, no store has a negative
  balance or an app that pays more than its pot.
- `PersistedIsEnforceable`: `Spec => []Enforceable`, for every set of faults, every
  set of protocols and with or without a locking service.

`IInv` there adds to the two: a half has the app whose state it signs (`IniCanSign`,
`RspCanSign`); a half of a protocol that leaves the free balance alone has computed
its channel from an enforceable one and its party still has the signatures
(`IniHas`, `RspHas`); a responding half or a first message belongs to a run that
has begun, by the other party (`Begun`), so that starting a run disturbs neither.
`Enforceable` alone is not inductive: what will be written was computed several
steps earlier. `RunStep` says once what a step of one run must establish; each
action then has a lemma.

The second part of that module is about what the lock of the channel is for. Its five
theorems assume
`UnderLock`: a locking service, no lease that ends under a live run and no answer that
takes effect after its sender gave up, and only the four protocols that lock the channel;
messages may be lost and nodes restart at any step. Without any of these the properties
are false, see below the table of runs.

- `BooksAlwaysBalance` (`BooksBalance`), `NoForkEver` (`NoFork`), `StoresOnlyGoForward`
  (`StoresGoForward`), `QuiescentNodesAgree` (`QuiescentAgreement`). In `NoFork` a
  commitment just written counts from when it is written; the run that wrote it still
  has the lock until it has persisted or its node restarts.
- `ProtocolsImplementLedger` (`OneHistory`): a step in which a party persists a free
  balance that is new appends it to the ledger; one in which it persists what the other
  already has moves its view; all others stutter (`LedgerStep`).

The invariant is `LInv`: `IInv` with `Hist`, `Agreeing`, `Backed` and the
books. `Serial` is mutual exclusion: whatever can still persist something holds the lock.
`Going` is about the one run that is then live: where its two halves and its one message
are (`Phase`), and that what each half will persist, and what each has signed, is what
the *store* makes of the operation (`IniReady`, `RspReady`, `Requested`, `Replied`),
although it was computed earlier; this is where an unlocked write breaks the proof. `Balances`
and `AppStates` say that the latest agreed state of the free balance, and of each app,
is in the store of some party, or written by a half that is about to store it (`Written`),
so that the next version signed is new; one that a restart has kept from being stored
(`Noted`) is in `Torn`, and `Backed` says that there is no third kind. After a lost
message the parties differ for ever, and then `Replied` (the other signs only what its
own store gives, too) is what keeps them from agreeing on a second branch. An app installed
by one party only is the subtle case: `Foreign` and `Installing` say that the other
cannot sign a first state of it again once a later one exists. `Agreeing` carries
`Same`: as long as no call
has failed, the stores are equal but for the steps in the middle of a run.
Before it was proved each part was checked by TLC on the instance of `faulty`.
`Fade` and `LiveStep` say once what a step that gives up, and one of the live run,
must establish.

**VirtualAppsProofs**, with the lemmas of **Sums**: three properties, for any number of
runs and any opening that is settled.

- `MediationIsCovered` (`SignsWhenCovered`), under every fault. `IInv` is the shape of the
  state, that a run has begun before others take part in it, that Ingrid frees the links
  only with the responder's signature at hand (`FreesWith`), and `FreesWhenCovered`;
  `AInv` is the same for the agreements: what Ingrid is going to sign, and the message
  it answers, agree on capital and pass-through app.
- `LinksBalanced` (`LinksBalance`) and `HubStaysNeutral` (`MediatorNeutral`), for lost
  messages and runs that overlap, but no restart (`"crash" \notin faults`): the argument
  below needs that a half that has begun to persist writes all its channels. With a
  restart in between the two are checked by TLC only.

The invariant of the two is `Sound`, in three parts. `Base`: channels are well formed
(`Known`), one run at a time has its initiator at work (`Serial`), and every run is
*still*, *early* (one message on its way, nothing persisted) or *late* (the responder has
begun to persist), with what the halves and the message then hold (`Flow`). `NoDup`: an
agreement was there at the opening or has the install that made it, so that an install
called again after it threw finds no agreement of its own. `Books`: what is persisted,
and what a late run is about to persist, is worth what the opening was.

What makes it hard is that a run that threw at one party lives on at the others, so that a
new run may be computed from books that an older one is still writing. `EarlyInv` says
that an early run was either computed by all three from what they keep now (`AllFresh`),
or is bound to fail: two of its drafts of one link have, or will have, different versions,
and a signature on the one is refused by whoever computed the other (`D1`, `D2`, `D3`).
`Trail` relates such a run to the one still writing. Ingrid's two links are written one
after the other; `HubStore` says that they are even, or that one is the draft of a late
run and the other is still to be written. `HubAdds` and `HubRemoves` are what
installing and removing do to the two together; that a draft lacks exactly the stake that
was taken twice, `HubShort`, is what refutes a late run with such a draft: the users, whose
drafts lack nothing, would not have signed it.
Each action is proved once to be one of seven kinds of steps (`Calm`, `Counts`), and
the books are proved for the kinds.

**DisputesProofs**: four properties, for any apps, deposit and periods, and any
histories that are numbered (`DisputesConstants`) and covered (`HistoriesCovered`).
The latter says what installing and the app contracts keep: an app has a pot that the
free balance gives up when the app is installed (`StateChannel.installApp`), no state of
it pays more, and the free balance has a challenge period (`freeBalanceDefaultTimeout`).
TLC evaluates both on the histories of the run.

- `LatestStateIsFinal` (`LatestIsFinal`) and `OutcomesStand` (`OutcomeStands`). `IInv`:
  challenges are of updates that have been signed, with the state of a call that named
  another contract (`Made`), what the watchful party has
  answered stays answered until the deadline (`Answered`), and outcomes are those of
  challenges that have ended, or another contract's (`Drawn`). Nothing is assumed of
  what another contract returns but that the app's interpreter can read the outcome
  (`OtherContracts`).
- `EffectsStayCovered` (`EffectsCovered`). That a state pays no more than its pot is
  assumed of what is signed only; that an action put on chain keeps it so is proved
  for each app (`TransferKeeps`, `LinkPays`, `GamePays`, `MoveKeeps`). `Backing`: the wallet
  holds the free balances not yet paid out and the pots of the apps not executed.
  Executing one takes no more than its pot, so `Sent` is what the outcome says
  (`SentIs`) and neither `send` nor `transfer` fails.
- `AlwaysWhatWasAgreed` (`NoLessThanAgreed`). `PaidOut`: a party has been paid the sum of
  what the outcomes executed give it. All challenges ended with what the updates up to
  *one* number `n` may end with, `held` or `signed` (`EndsAlike`): the two differ by one
  update, which is of one app, and the others end the same either way. The free balance of
  those `n` is unique because it has a challenge period (`OneFreeBalance`), so the apps it
  funds are those the party counted on, and the sums are compared app by app.

The last two are about disputes in which `OwnContracts` holds; what they rest on is an
invariant while it does. `Backing` and `PaidOut` were checked by TLC on the run's instance before they were proved.

**FundingProofs**, with the lemmas of **Sums**: `BalancesAreNatural` (`TypeOK`) holds
whatever the calls and the faults. The other four assume `UnderLock`, as the run does: no
"withdraw", which waits for no lock of the channel, and no lease that ends before
its call. Messages may be lost, transactions fail or be sent again, and a node restart.

- `WalletCoversBooks` (`Solvent`). `HasRoom` says of every channel that a party has
  persisted, or has computed and may persist later, that with what is owed to withdrawals
  it leaves room in the wallet. For the books inside a deposit this is not
  inductive by itself: what the refund app will credit is the wallet's balance
  above its threshold, so the room must be there *below the threshold*, and stays there
  when a withdrawal is mined. For those inside a withdrawal the amount already taken from
  them is kept reserved (`Uncharged`) until the commitment with both signatures counts as
  owed. `Rooms(o, b)` has the debt and the balance as parameters, so that
  the steps of the chain, which move both, follow from one lemma (`RoomMoves`).
- `BooksAgreed` (`BooksAgree`). `Agreed`: without faults each message says where the two
  halves of its run are (`Talk`), and that what the one has persisted and the other will
  persist are the same channel; only the answer to an uninstall can be refused, when
  the chain has shown the parties different balances.
- `DepositsCredited` (`DepositCredited`, an action property). `Credits`, under every fault:
  while a deposit is on its way its app is in the caller's books with a threshold that the
  wallet has not gone below unless a withdrawal was mined (`raced`); once the transaction
  is mined the wallet is above it by the amount (`Claiming`); and a countersignature is of the books the responder has persisted.
- `EveryCoinAccounted` (`Accounted`). `Exact` turns the inequality of `HasRoom` into
  an equation at every step of a call, when nothing goes wrong. It needs that numbers are not
  used twice (`Numbered`), so that installing an app replaces none, and that at most one
  refund app is installed (`Refunding`, `Plain`).

All rest on `Lock`: one lease, one message on its way, and none while a call waits for
the chain.

`Sums` has what TLC computes by folding: a sum over a finite set can be
taken apart at any element (`TotalAt`), proved from the least
counterexample among the subsets, since induction takes no predicate here.

**HubProofs** has two parts, channels and withdrawals, and payments, for any
users, payments, proposals, plans and bounds.

- `OneChannelEach` (`OneChannel`): no user has two rows, no channel has a row before it
  is in the hub's store; the channel is created by at most one call at a time, whatever
  timed out (`Alone`), and rows follow the events of finished creations.
- `WithdrawalsAreRecorded` (`RecordedUntilSent`): by the steps of the client's call, the
  record is written before the request leaves and survives until a transaction of that
  withdrawal has been sent.
- `PaymentsPaidFirst` (`PaidBeforeTaken`), `StatusIsPaid` (`StatusMeansPaid`),
  `HubIsCovered` (`HubCovered`): `PayInv` says for each payment separately how its row,
  its calls, the apps of its sender and receivers and the money fit together, and, if
  the calls come one by one, that only one was accepted. `Frame` says that a step
  concerns one payment at a time, so that each action is proved for that one.
- `FlagsAreDeposits` (`FlagMeansDeposit`): the flag of a user is set by the one request
  that has passed the check, and stands until its deposit ends.
- `HubTypes` (`TypeOK`): money is drawn from a free balance only when it is there;
  the checks are made under the same await as the write.

The constants are assumed to be of their types, that clients ask for what they
have been sent, and that a payment is made by someone else than its recipient;
`LinkedTransfers` and `UserWithdrawals` state it as named `ASSUME`s.

**DaicardProofs**, for any callers, plans, rates and numbers of tries.

- `AlwaysTyped` (`Typed`). The types of all variables, from which no balance is taken
  below nothing. They are not inductive by themselves: whether a job's next step is
  possible depends on the call it waits for. `Waited` says that a job has a swap, deposit
  or withdrawal under way exactly while its `pc` waits for one, and `Ids` that an id is
  offered, installed or gone, never two of them, and not above the counter.
- `StakesComeBackAlways` (`StakesComeBack`). `SwapsHeld` adds to the property which call
  holds a swap and that the shared field still has its id (`HeldBy`): the call that
  proposed it, then waits for it, then is about to uninstall it. Each step in which a call
  stops holding one either takes the app out of the channel or puts it in `stranded` or
  `confused`. That the field of one swap is not another's rests on `Books`: calls wait for
  ids of their own kind (`Asked`, `SharedId`).
- `PaidAsShownAlways` (`PaidAsShown`). From `Sent`, since the send card says success only
  after a call has returned, and an app that is `Kept` stays (`KeptStays`): only swaps are
  uninstalled by the wallet, a swap's id is a swap's, and the hub has a transfer's money
  only through the secret, which nobody is told before the transfer has ended (`Told`).
  The redeem card's part is by the states of
  its machine: no event but `SUCCESS` leads to success (`HearsIs`).
- `CashoutCoveredAlways` (`CashoutCovered`). `CashingOut` says of a cash-out under way with
  nothing in `late` that the rest of the wallet is held (`WalletHeld`: the region is
  pending, no other job holds money, no card is in use), that the hub considers no
  other offer (`CallsHeld`), and what its next step asks for is there (`Enough`). Each step
  of another part either is impossible then (`OthersWait`, `HeldTips`) or only adds
  money; each step of the cash-out itself keeps `Enough`; and a cash-out that begins
  establishes all three (`CashoutStarts`).

The attempt to prove these showed that `CashoutCovered` and `PaidAsShown` were false
beyond the plans then checked; [seen while modelling](#seen-while-modelling) has the
traces, two of the plans (`LinkCashedOut`, `SaiCashedOut`) were added for them.

Only model-checked: the liveness properties (`LocksComeFree`, `CallsSettle`,
`SettlesUnlessStalled`, `ReclaimsInTheEnd`, `NobodyShutOut`, `PaidInTheEnd`,
`SwapsEnd`, `DepositsGetMade`), since the prover has no rules for fairness;
`MediatorNeutral` and `LinksBalance` when somebody restarts.

## Findings

1. **An app without its conditional transaction** (`out_of_order_installs`).
   `install.ts:512` takes the app with the greatest sequence number for the one
   being installed. If the newer of two proposals is installed first, installing the
   older makes both parties sign the newer one's conditional transaction again; its
   own, "for the as-yet un-funded newly proposed AppInstance" (`install.ts:38`),
   never exists.
2. **Rejecting goes past the queue** (`unlocked_reject`).
   `reject-install/controller.ts:18` registers `executeMethodImplementation` itself
   as the RPC method, where the other controllers register `executeMethod`, which
   queues it. The lock it names is never taken; the whole-channel write then undoes
   a proposal persisted meanwhile, with its counter.
3. **A refused lock blocks the other queues** (`queue_two_names`). When one of the
   `q.add` promises of `addToManyQueues` rejects, the functions in the other queues
   wait for ever for a deferred that is never resolved.

## Seen while modelling

What the code does and no document contradicts, or what lies outside a run; each was
met by a trace of a model or decided how something is modelled.

*Queues.* `lock.service.ts:54` resolves, when unlocking fails after the TTL, only `if
(retVal)`: a task that threw after its lease was gone leaves the promise pending
(`SettledLate` has it as `hung`). `getQueueNamesListByProtocolName`, which a comment
says names the queues "that the client must halt execution on" for a protocol
(`handle-protocol-message.ts:268`), has no caller.

*Virtual apps.* What Ingrid is given by the responder of an installation is in the memory of her
half until after m5; the commitment she then writes for the responder's link carries the
signatures of the other link (`install-virtual-app.ts:470`) and is overwritten by the next (501), the
initiator's link has none written, and uninstalling writes none at all (TODO at
`uninstall-virtual-app.ts:32`). After a restart she cannot enforce what `SignsWhenCovered` says she
was given. The responder and Ingrid answer before they persist, so that the
initiator's next call can meet the old channel and be overwritten even when nothing
fails. The proposal is removed in a write of its own after the protocol: a restart
between the two lets one app be installed, and its stakes be taken, twice. So does a
run of three installs in which nothing fails: the initiator of the second has still to
write, as the responder of the first, the channel it read before the second, and with
it puts back the proposal the second removed (and forgets its app). The final state of the
pass-through app is signed with the app's sequence number as version. Ingrid stores
the conditional commitment of one link under the other's
(`install-virtual-app.ts:470-480`). A conditional transaction names the pass-through
app (`install-virtual-app.ts:84-97`), which is not among the active apps of the free
balance, so that `ConditionalTransactionDelegateTarget` would call it "not funded".

*Deposits and withdrawals.* The refund app takes the number of the last *proposed* app
and replaces an installed app of that number. Two equal withdrawals have one multisig
hash: the second is charged and never paid. The RPC `WITHDRAW` takes no lock and makes
none of the checks (a run with it, or with leases that expire, breaks `Solvent`). A
withdrawal mined during a deposit makes the deposit count less, or the two parties
compute different outcomes and the refund app stays. An error after the transaction
was broadcast makes the retry deposit twice. A lost last message of *withdraw*, or a
restart between writing the commitment and persisting, leaves the two books apart.

*Install and uninstall.* A restart between `WRITE_COMMITMENT` and `PERSIST_STATE_CHANNEL`
(`uninstall.ts:81` and `127`, `install.ts:147`) leaves a balance with both signatures that no
store knows. Nothing reads it again, and the next run on the channel signs another balance under
the same version: two that the registry would take. `NoFork` excepts just these.

*Disputes.* Either party alone can cancel a challenge, because the signatures asked for
are those of the update (`MixinCancelChallenge.sol:13` says "Unanimously"). Every app of
the client and the hub is proposed with a period of zero
(`ConditionalTransferController.ts:210`, `transfer.service.ts:376`), so that any signed
state of it is final at once. Answering a challenge deletes its version; an action's
signature names no state and can be replayed. Version 0 is never signed. The contract that a call to the registry asks is the one the call
names: `appIdentityToHash` is over the nonce and the participants (`MChallengeRegistryCore.sol:27`,
`cf-core/src/ethereum/utils/app-identity.ts:8`), so that an outcome may be computed, an action
applied or a turn taker named by another contract than the app's, and an outcome may be set
again. Nothing in
cf-core watches the chain, and take-action, update and the virtual protocols store no
commitment to answer with. `TwoPartyFixedOutcomeInterpreter.sol:62` pays the first
player the full amount of a token when it should be split.

*Payments.* Two calls for one payment both pass the status check
(`transfer.service.ts:188`): the hub pays twice and reclaims once. The sender's app is
looked for by its hash among all apps and may be another call's receiver app. The
wait for an install has no timer (`transfer.service.ts:387-395`), nobody reclaims from
a sender who was offline (TODO at line 310), and a row is only saved after the
install. The collateralization flag is read at `channel.service.ts:80` and set at 119:
two requests make two deposits; a restart in between leaves it set for ever.

*Channels.* A hub that stops between storing a channel and making it available never
makes it available: later calls find the channel and emit no event, and the client
times out after 30 s each time. A client's event comes before the hub's row.

*Withdrawals through the hub.* `onchainTransaction.repository.ts:32-33` calls `where`
twice, so that the latest withdrawal of *any* user is returned. A client that stops
between the protocol and `store.set` has been charged for a withdrawal nobody
remembers; a second `withdraw()` overwrites the only record. After three retries a
client cannot connect any more, also when the hub did send the transaction and the
estimate for sending it again fails.

*Swaps.* `validateSwap` (`appRegistry.service.ts`) compares the deposits with a rate that
may be undefined, and every comparison with `NaN` lets the swap through. The client gets the
id of its proposal as the most recent proposal in the store
(`propose-install/controller.ts:140`), which another call may have made meanwhile, and
keeps it in a field of the controller (`SwapController.ts:176`) that the next call
overwrites: overlapping swaps end by uninstalling one another's app, or a transfer's.
The timeout of a swap is commented out (`SwapController.ts:183`). When `uninstallApp` throws
(`SwapController.ts:62`), or the page is loaded again before it, nothing uninstalls the swap any more and
both stakes stay in it. `rejectInstallTransfer`
reads `msg.data`, which the event does not have: it throws, and the listeners registered
after it never hear of the rejection. Proposals that the hub was considering when it
restarted stay in both stores.

*Wallet.* `interval-promise` stops at the first error, and with it all deposits and
swaps, until the page is loaded again; the operation the poller had announced stays
pending. `autoDeposit` calls `autoSwap` without awaiting it and the poller calls it again
(`App.js:580`). Each refresh writes the balances it has read one after the other into the
object the cards read. `START_WITHDRAW` is not heard while an earlier notice is still
shown, and then the cash-out holds nothing back. The send card makes a new payment of
every attempt, and shows an error although an earlier attempt may yet be installed. The
notices of received payments look for a state the machine does not have
(`ready.receiving`) and do not go away by themselves. `withdrawSai` withdraws the amount of
the old token in the new one. A cash-out asks for what is on the screen, and three things
take from it that it neither waits for nor holds back: a transfer that timed out after
15 s and whose offer is still on the hub's desk, which is installed in the middle of the
cash-out; the send card between two attempts; and the withdrawal of left-over SAI. A poller
that refreshes the balances between its two deposits deposits ether whatever has begun
since. A call whose own proposal is rejected before it reads "the most recent proposal"
takes another call's for its own, and the send card then reports a success that is the
tips card's swap.

*Games.* The registry asks nowhere whether a state is terminal: in TicTacToe the loser of
a game whose last move also fills the board can answer with `DRAW` and halve the stake.
TicTacToe in progress and Nim pay whoever is to move, in Nim also after the last object has been
taken, that is, the loser of normal play. HighRoller's dice show 0 to 5
(`HighRollerApp.sol:266` says 1 to 6). The interpreter of virtual apps in one asset cannot be
reached, as conditional transactions name the pass-through app; that in several assets only reverts.

## Abstractions

- One asset; an app state is the amount it would pay its proposer; an action moves
  part of it. Contract calls (`applyAction`, `computeOutcome`) are that arithmetic.
- An app is identified by its sequence number: `appIdentityToHash` hashes the number
  and the participants, and the participants' keys are derived from the number.
- `Start` takes all the locks of a call in one step. `ProcessQueue` has the steps
  between and `QueuesSerialise` says that this is sound while leases last; lapsing
  leases are a fault of both modules.
- A handler's segment without an `await` that others can observe is one step.
  `InstallComplete` joins the responder's last write with the removal of the
  proposal after the protocol. The two `WRITE_COMMITMENT`s of *install*'s initiator are
  one step (the first, of the conditional transaction, is worth nothing without the
  second), and so are a write of the channel and the message after it, see
  `ChannelProtocols`.
- *Install* and *reject* are called by the party a proposal was made to, as the
  client and the hub do.
- A run's initiator after a restart is lost; the store survives entirely.

- `Disputes` gives every signed update to both parties, and what the other party signs for
  another contract is no action of the app's own; a `setOutcome` that reverts, because the
  contract named cannot read the state, is left out; who stores which commitment is
  left out, and so are virtual apps. Versions are not cut to 128 bits, `finalizesAt` not
  to 248.
- The hash of a commitment in HighRoller is injective and shows nothing; what the dice
  show is a constant. Stakes of a game are two units, piles at most one object.
- In `ClientCalls` a protocol is one step, taken when no other call holds the channel's lock
  (`Locked`), which happens or throws as a whole: what a protocol that failed halfway leaves
  in the stores is in `ChannelProtocols`; a rate is a fraction of whole numbers and an exchange rounds down, as the code does
  with wei.
- In `Hub`, cf-core's calls succeed or throw as a whole: their inside is
  `ChannelProtocols` and `Funding`. Amounts are 0 to 2, a pre-image is right or wrong.

## Not modelled

The payment bot, the dashboard and deployment; of the wallet all presentation, wallet
connect and several redemptions at once (`dc-wallet/src/App.js` is the same file as the
daicard's); signing and hashing themselves; the encoding of messages and states; event
names and logging. Of the contracts: tokens, the interpreters of virtual apps, the proxy
factory. Of the hub and the client: authentication, the admin service, transfers through
virtual apps, restoring a client's state. `client-bundle.js` is a build of the client. `PROJECT.json` lists every component with its
status.

## Plan

1. `LinksBalance` and `MediatorNeutral` as theorems also when somebody restarts.
2. Virtual apps in a dispute: the pass-through app and its switch-over time.
3. Transfers through virtual apps (`TransferController`) and the restoration of a client's
   state from the hub's.
