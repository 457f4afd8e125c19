------------------------------ MODULE Funding ------------------------------
(***************************************************************************)
(* How money enters and leaves a channel: the deposit and withdraw calls of *)
(* modules/cf-core/src/methods/state-channel, the withdraw protocol, the    *)
(* installation of the balance refund app by a deposit, and the multisig    *)
(* wallet on the chain that the channel's books speak of.                   *)
(*                                                                         *)
(* A deposit installs a refund app that remembers the balance of the wallet *)
(* (its threshold), sends its transaction, and uninstalls the app: each     *)
(* party credits the depositor with what it then sees above the threshold.  *)
(* A withdrawal installs a refund app that takes the amount from the free   *)
(* balance, has the transaction of the wallet signed by both, and           *)
(* uninstalls the app with nothing to pay; all in one protocol that         *)
(* persists at its end only.                                                *)
(***************************************************************************)
EXTENDS Naturals, FiniteSetsExt

CONSTANTS
  Alice, Bob,
  MaxRuns,   \* bound: how many deposits and withdrawals are called
  MaxApps,   \* bound: how many ordinary apps are proposed
  Amounts,   \* what a call deposits or withdraws
  Calls,     \* which of "deposit", "withdrawCommitment", "withdraw" are made
  Opening,   \* the channel both parties have persisted to begin with
  FaultCases \* sets of faults a behaviour can have

Parties == {Alice, Bob}
Runs == 1..MaxRuns
Other(p) == IF p = Alice THEN Bob ELSE Alice

\* CoinBalanceRefundApp of a deposit and of a withdrawal; any other app.
Kinds == {"deposit", "withdrawal", "app"}

\* `pot` left the free balance when the app was installed; `threshold` is the
\* wallet's balance when a deposit began.
App == [id : Nat, kind : Kinds, by : Parties, pot : Nat, threshold : Nat]

Proposal == [id : Nat, by : Parties, pot : Nat]

\* The app instances are a Map from identities, hence from sequence numbers.
Channel == [np : Nat, props : SUBSET Proposal, apps : SUBSET App, ver : Nat,
            bal : [Parties -> Nat]]

ASSUME FundingConstants ==
  /\ Alice # Bob
  /\ MaxRuns \in Nat /\ MaxApps \in Nat /\ Amounts \subseteq Nat \ {0}
  /\ Calls \subseteq {"deposit", "withdrawCommitment", "withdraw"}
  /\ Opening \in Channel
  /\ FaultCases \subseteq SUBSET {"loss", "crash", "expire", "send"}

\* An app instance is kept under one number, which was given out to it or to a
\* proposal and not to both; no refund app is left from before.
ASSUME OpeningNumbered ==
  /\ IsFiniteSet(Opening.apps)
  /\ \A a \in Opening.apps : a.kind = "app" /\ a.id <= Opening.np
  /\ \A a, b \in Opening.apps : a.id = b.id => a = b
  /\ \A q \in Opening.props : q.id <= Opening.np
  /\ \A q \in Opening.props, a \in Opening.apps : q.id # a.id

VARIABLES
  store,    \* store[p]: the channel p has persisted
  run,      \* run[r]: the call behind run r
  ini,      \* ini[r]: the calling half of the run
  rsp,      \* rsp[r]: the responding half
  net,      \* messages sent and not yet handled
  leases,   \* runs that hold the lock of the channel
  slot,     \* slot[p]: the withdrawal commitment p stored last
  wallet,   \* the multisig on the chain
  txs,      \* transactions sent and not yet mined
  mishaps,  \* what has happened that the books cannot follow (history)
  faults    \* what can go wrong in this behaviour; never changes

chain == <<wallet, txs>>
vars == <<store, run, ini, rsp, net, leases, slot, chain, mishaps, faults>>

-----------------------------------------------------------------------------
(* The channel's transitions.                                               *)

HasRefundApp(c) == \E a \in c.apps : a.kind # "app"

\* FreeBalanceClass.increment throws when a balance would become negative.
CanCharge(c, p, amount) == amount <= c.bal[p]

\* installApp adds two to the version of the free balance, removes the
\* proposal of that identity, and overwrites the app of that identity.
InstallAs(c, a) ==
  [c EXCEPT !.props  = {q \in @ : q.id # a.id},
            !.apps   = {b \in @ : b.id # a.id} \cup {a},
            !.ver    = @ + 2,
            !.bal[a.by] = @ - a.pot]

\* Both refund apps take the number of the last proposal for their own.
InstallRefundApp(c, kind, p, pot, threshold) ==
  InstallAs(c, [id |-> c.np, kind |-> kind, by |-> p, pot |-> pot,
                threshold |-> threshold])

Uninstall(c, id, p, increment) ==
  [c EXCEPT !.apps = {b \in @ : b.id # id}, !.ver = @ + 2,
            !.bal[p] = @ + increment]

\* What the books say is in the wallet.
Worth(c) ==
  c.bal[Alice] + c.bal[Bob] + MapThenSumSet(LAMBDA a : a.pot, c.apps)

\* getAppInstanceOfKind throws unless there is exactly one.
DepositApps(c) == {a \in c.apps : a.kind # "app"}

TheRefundApp(c) == CHOOSE a \in c.apps : a.kind # "app"

\* The app a refund app would be mistaken for.
NameTaken(c) == \E a \in c.apps : a.id = c.np

-----------------------------------------------------------------------------
(* What is signed, and how calls and messages are told apart.               *)

FreeBalance(c) ==
  [kind |-> "freeBalance", ver |-> c.ver, bal |-> c.bal,
   active |-> {a.id : a \in c.apps}]

Conditional(c) == [kind |-> "conditional", id |-> c.np]

\* A transaction of the wallet is its recipient and its value: the multisig
\* does not distinguish two that are equal in both.
Withdrawal(r) == [kind |-> "withdrawal", to |-> run[r].by, amount |-> run[r].amount]

\* Whether the call takes the lock of the channel: the RPC WITHDRAW does not,
\* because its getRequiredLockNames is static and never called.
LockNames(call) == call # "withdraw"

Caller(r) == run[r].by
Responder(r) == Other(run[r].by)

Ends == {"returned", "threw", "crashed"}

IniWaits == {"i2", "i4", "u2", "w2", "w4", "w6"}
RspWaits == {"i3", "w3", "w5"}

\* The call has started its first protocol and has not ended.
IniGoing(r) == ini[r].pc \in IniWaits \cup {"send", "mine", "save", "submit"}

Half(pc, post) == [pc |-> pc, post |-> post, tries |-> 0]

Message(r, n, to, sigs) == [run |-> r, n |-> n, to |-> to, sigs |-> sigs]

\* The calling half of run r goes on, and so does the responding one.
IniGoes(r, h) == ini' = [ini EXCEPT ![r] = h]
RspGoes(r, h) == rsp' = [rsp EXCEPT ![r] = h]

Persist(p, c) == store' = [store EXCEPT ![p] = c]

Leave(r, how) ==
  /\ IniGoes(r, Half(how, Opening))
  /\ leases' = leases \ {r}

\* Message m is handled: the half answers with message n.
Answer(m, n, to, sigs) ==
  net' = (net \ {m}) \cup {Message(m.run, n, to, sigs)}

-----------------------------------------------------------------------------
(* The calls.                                                               *)

\* What the controllers check before they ask for the lock.
Accepted(p, call, amount) ==
  /\ call # "withdraw" => ~HasRefundApp(store[p])
  /\ call = "withdrawCommitment" => CanCharge(store[p], p, amount)

Call(r, p, call, amount) ==
  /\ ini[r].pc = "idle"
  /\ \A s \in 1..(r - 1) : ini[s].pc # "idle"
  /\ Accepted(p, call, amount)
  /\ run' = [run EXCEPT ![r] = [by |-> p, call |-> call, amount |-> amount,
                                   threshold |-> 0]]
  /\ IniGoes(r, Half("queued", Opening))
  /\ UNCHANGED <<store, rsp, net, leases, slot, chain, mishaps>>

\* The call gets its lock, if it needs it, and starts its first protocol.
Begins(r, post, n, threshold) ==
  /\ ini[r].pc = "queued"
  /\ IF LockNames(run[r].call)
       THEN leases = {} /\ leases' = {r}
       ELSE UNCHANGED leases
  /\ IniGoes(r, Half(IF n = "i1" THEN "i2" ELSE "w2", post))
  /\ run' = [run EXCEPT ![r].threshold = threshold]
  /\ net' = net \cup {Message(r, n, Responder(r), {Conditional(post)})}
  /\ mishaps' = mishaps \cup IF NameTaken(store[Caller(r)]) THEN {"renamed"} ELSE {}
  /\ UNCHANGED <<store, rsp, slot, chain>>

\* Mutant of Threshold: what the books of the channel add up to.
ThresholdOfBooks(p) == store[p].bal[Alice] + store[p].bal[Bob]

\* getDepositContext reads the balance of the wallet.
Threshold(p) == wallet.balance

DepositBegins(r) ==
  LET p == Caller(r)
      post == InstallRefundApp(store[p], "deposit", p, 0, Threshold(p))
  IN  /\ run[r].call = "deposit"
      /\ Begins(r, post, "i1", Threshold(p))

WithdrawalBegins(r) ==
  LET p == Caller(r)
      post == InstallRefundApp(store[p], "withdrawal", p, run[r].amount, 0)
  IN  /\ run[r].call # "deposit"
      /\ CanCharge(store[p], p, run[r].amount)
      /\ Begins(r, post, "w1", 0)

\* increment throws although the balance was checked when the call was made.
WithdrawalThrows(r) ==
  /\ ini[r].pc = "queued" /\ run[r].call # "deposit"
  /\ LockNames(run[r].call) => leases = {}
  /\ ~CanCharge(store[Caller(r)], Caller(r), run[r].amount)
  /\ Leave(r, "threw")
  /\ UNCHANGED <<store, run, rsp, net, slot, chain, mishaps>>

-----------------------------------------------------------------------------
(* What a message must carry.                                               *)

\* Mutant of Uncharged: the refund app pays out like that of a deposit.
UnchargedWithRefund(r, post) == Uninstall(post, post.np, Caller(r), run[r].amount)

\* The refund app of a withdrawal is worth nothing once the withdrawal is
\* signed: it is uninstalled with no increments.
Uncharged(r, post) == Uninstall(post, post.np, Caller(r), 0)

\* The signatures that the half which waits for message n has computed itself.
Expected(r, n) ==
  CASE n \in {"i2", "w2"} -> {Conditional(ini[r].post), FreeBalance(ini[r].post)}
    [] n = "u2" -> {FreeBalance(ini[r].post)}
    [] n = "w4" -> {Withdrawal(r), FreeBalance(Uncharged(r, ini[r].post))}
    [] n \in {"i3", "w5"} -> {FreeBalance(rsp[r].post)}
    [] n = "w3" -> {FreeBalance(rsp[r].post), Withdrawal(r)}
    [] OTHER -> {}

Awaited(m) ==
  \/ m.n \in IniWaits /\ ini[m.run].pc = m.n
  \/ m.n \in RspWaits /\ rsp[m.run].pc = m.n

Valid(m) == Expected(m.run, m.n) \subseteq m.sigs

\* A half waits for message m, and every signature it checks is there.
Handles(m, n) == m.n = n /\ Awaited(m) /\ Valid(m)

-----------------------------------------------------------------------------
(* Installing the refund app of a deposit: the install protocol.            *)

\* The responding half computes what it expects from its own store.
RefundAppAtResponder(r) ==
  LET deposit == run[r].call = "deposit"
  IN  InstallRefundApp(store[Responder(r)], IF deposit THEN "deposit" ELSE "withdrawal",
                       Caller(r), IF deposit THEN 0 ELSE run[r].amount,
                       run[r].threshold)

CanSign(m) ==
  LET r == m.run
  IN  /\ run[r].call # "deposit" =>
           CanCharge(store[Responder(r)], Caller(r), run[r].amount)
      /\ Conditional(RefundAppAtResponder(r)) \in m.sigs

\* i1 -> i2 and w1 -> w2.
ResponderSigns(m, first, answer, wait) ==
  LET r    == m.run
      post == RefundAppAtResponder(r)
  IN  /\ m.n = first /\ CanSign(m)
      /\ RspGoes(r, Half(wait, post))
      /\ Answer(m, answer, Caller(r), {Conditional(post), FreeBalance(post)})
      /\ UNCHANGED <<store, run, ini, leases, slot, chain, mishaps>>

\* i2 -> i3: the caller persists before the responder can.
CallerInstalls(m) ==
  LET r    == m.run
      post == ini[r].post
  IN  /\ Handles(m, "i2")
      /\ Persist(Caller(r), post)
      /\ IniGoes(r, Half("i4", post))
      /\ Answer(m, "i3", Responder(r), {FreeBalance(post)})
      /\ UNCHANGED <<run, rsp, leases, slot, chain, mishaps>>

\* i3 -> i4.
ResponderInstalls(m) ==
  LET r    == m.run
      post == rsp[r].post
  IN  /\ Handles(m, "i3")
      /\ Persist(Responder(r), post)
      /\ RspGoes(r, Half("done", Opening))
      /\ Answer(m, "i4", Caller(r), {})
      /\ UNCHANGED <<run, ini, leases, slot, chain, mishaps>>

-----------------------------------------------------------------------------
(* Making the deposit.                                                      *)

DEPOSIT_RETRY_COUNT == 3

DepositInstalled(m) ==
  /\ Handles(m, "i4")
  /\ IniGoes(m.run, [Half("send", Opening) EXCEPT !.tries = DEPOSIT_RETRY_COUNT])
  /\ net' = net \ {m}
  /\ UNCHANGED <<store, run, rsp, leases, slot, chain, mishaps>>

Transaction(r, kind, n, amount) ==
  [run |-> r, kind |-> kind, n |-> n, amount |-> amount]

DepositTransaction(r) == Transaction(r, "deposit", ini[r].tries, run[r].amount)

SendTransaction(r) ==
  /\ ini[r].pc = "send"
  /\ txs' = txs \cup {DepositTransaction(r)}
  /\ IniGoes(r, [ini[r] EXCEPT !.pc = "mine"])
  /\ UNCHANGED <<store, run, rsp, net, leases, slot, wallet, mishaps>>

\* sendTransaction throws, whether the transaction has been sent or not.  It
\* is tried again, unless the signer rejected it.
SendThrows(r) ==
  \E sent, rejected \in BOOLEAN :
    /\ "send" \in faults
    /\ ini[r].pc = "send"
    /\ ~(sent /\ rejected)
    /\ txs' = IF sent THEN txs \cup {DepositTransaction(r)} ELSE txs
    /\ IF rejected \/ ini[r].tries = 1
         THEN Leave(r, "threw")
         ELSE IniGoes(r, [ini[r] EXCEPT !.tries = @ - 1]) /\ UNCHANGED leases
    /\ UNCHANGED <<store, run, rsp, net, slot, wallet, mishaps>>

\* Mutant of Confirmed: the transaction need not be mined.
ConfirmedAtOnce(r) == ini[r].pc = "mine"

\* txResponse.wait returns.
Confirmed(r) == ini[r].pc = "mine" /\ DepositTransaction(r) \notin txs

-----------------------------------------------------------------------------
(* Uninstalling the refund app of a deposit: the uninstall protocol.        *)

\* computeOutcome of the refund app, when it is called: SafeMath reverts below
\* the threshold.
Outcome(a) == wallet.balance - a.threshold

\* handleRefundAppOutcomeSpecialCase asks for the outcome until it is not zero,
\* ten times.
HasOutcome(a) == wallet.balance > a.threshold

CanUninstall(c) ==
  /\ Cardinality(DepositApps(c)) = 1
  /\ HasOutcome(TheRefundApp(c))

UninstallBegins(r) ==
  LET p    == Caller(r)
      a    == TheRefundApp(store[p])
      post == Uninstall(store[p], a.id, a.by, Outcome(a))
  IN  /\ Confirmed(r)
      /\ CanUninstall(store[p])
      /\ IniGoes(r, Half("u2", post))
      /\ net' = net \cup {Message(r, "u1", Responder(r), {FreeBalance(post)})}
      /\ UNCHANGED <<store, run, rsp, leases, slot, chain, mishaps>>

UninstallThrows(r) ==
  /\ Confirmed(r)
  /\ ~CanUninstall(store[Caller(r)])
  /\ Leave(r, "threw")
  /\ UNCHANGED <<store, run, rsp, net, slot, chain, mishaps>>

\* The responder looks at the chain itself.
UninstalledAtResponder(r) ==
  LET c == store[Responder(r)]
      a == TheRefundApp(c)
  IN  Uninstall(c, a.id, a.by, Outcome(a))

CanCountersign(m) ==
  /\ CanUninstall(store[Responder(m.run)])
  /\ FreeBalance(UninstalledAtResponder(m.run)) \in m.sigs

\* u1 -> u2.
ResponderUninstalls(m) ==
  LET r    == m.run
      p    == Responder(r)
      post == UninstalledAtResponder(r)
  IN  /\ m.n = "u1" /\ CanCountersign(m)
      /\ Persist(p, post)
      /\ RspGoes(r, Half("done", Opening))
      /\ Answer(m, "u2", Caller(r), {FreeBalance(post)})
      /\ UNCHANGED <<run, ini, leases, slot, chain, mishaps>>

DepositReturns(m) ==
  LET r    == m.run
      post == ini[r].post
  IN  /\ Handles(m, "u2")
      /\ Persist(Caller(r), post)
      /\ Leave(r, "returned")
      /\ net' = net \ {m}
      /\ UNCHANGED <<run, rsp, slot, chain, mishaps>>

-----------------------------------------------------------------------------
(* The withdraw protocol after its first message.                           *)

\* w2 -> w3.
CallerCharges(m) ==
  LET r    == m.run
      post == ini[r].post
  IN  /\ Handles(m, "w2")
      /\ IniGoes(r, Half("w4", post))
      /\ Answer(m, "w3", Responder(r), {FreeBalance(post), Withdrawal(r)})
      /\ UNCHANGED <<store, run, rsp, leases, slot, chain, mishaps>>

\* w3 -> w4: the responder stores the withdrawal, which now has both
\* signatures.
ResponderReleases(m) ==
  LET r    == m.run
      post == Uncharged(r, rsp[r].post)
  IN  /\ Handles(m, "w3")
      /\ slot' = [slot EXCEPT ![Responder(r)] = r]
      /\ RspGoes(r, Half("w5", post))
      /\ Answer(m, "w4", Caller(r), {Withdrawal(r), FreeBalance(post)})
      /\ UNCHANGED <<store, run, ini, leases, chain, mishaps>>

\* w4 -> w5.
CallerSettles(m) ==
  LET r    == m.run
      post == Uncharged(r, ini[r].post)
  IN  /\ Handles(m, "w4")
      /\ IniGoes(r, Half("w6", post))
      /\ Answer(m, "w5", Responder(r), {FreeBalance(post)})
      /\ UNCHANGED <<store, run, rsp, leases, slot, chain, mishaps>>

\* w5 -> w6: dataPersisted.
ResponderSettles(m) ==
  LET r    == m.run
      post == rsp[r].post
  IN  /\ Handles(m, "w5")
      /\ Persist(Responder(r), post)
      /\ RspGoes(r, Half("done", Opening))
      /\ Answer(m, "w6", Caller(r), {})
      /\ UNCHANGED <<run, ini, leases, slot, chain, mishaps>>

\* The caller stores the withdrawal, and then persists the channel.
CallerStoresWithdrawal(m) ==
  /\ Handles(m, "w6")
  /\ slot' = [slot EXCEPT ![Caller(m.run)] = m.run]
  /\ IniGoes(m.run, [ini[m.run] EXCEPT !.pc = "save"])
  /\ net' = net \ {m}
  /\ UNCHANGED <<store, run, rsp, leases, chain, mishaps>>

\* Mutant of CallerSaves: the last PERSIST_STATE_CHANNEL is missing.
CallerSavesNothing(r) ==
  /\ ini[r].pc = "save"
  /\ IniGoes(r, Half("submit", Opening))
  /\ UNCHANGED <<store, run, rsp, net, leases, slot, chain, mishaps>>

CallerSaves(r) ==
  /\ ini[r].pc = "save"
  /\ Persist(Caller(r), ini[r].post)
  /\ IniGoes(r, Half("submit", Opening))
  /\ UNCHANGED <<run, rsp, net, leases, slot, chain, mishaps>>

\* The call reads the commitment stored for the channel, and returns it; it is
\* sent by the hub (withdrawForClient) or by the call itself.
WithdrawalReturns(r) ==
  LET w == slot[Caller(r)]
  IN  /\ ini[r].pc = "submit"
      /\ txs' = txs \cup {Transaction(w, "withdrawal", 0, run[w].amount)}
      /\ Leave(r, "returned")
      /\ UNCHANGED <<store, run, rsp, net, slot, wallet, mishaps>>

-----------------------------------------------------------------------------
(* The chain.                                                               *)

\* Transactions of one sender are mined in the order they were sent.
MineDeposit(t) ==
  /\ t.kind = "deposit"
  /\ \A u \in txs : u.run = t.run => u.n <= t.n
  /\ txs' = txs \ {t}
  /\ wallet' = [wallet EXCEPT !.balance = @ + t.amount]
  /\ UNCHANGED mishaps

\* A deposit has read its threshold and not yet its outcome on both sides.
Depositing(r) == run[r].call = "deposit" /\ IniGoing(r)

\* execTransaction of a transaction that is not yet executed.
MineWithdrawal(t) ==
  /\ t.kind = "withdrawal"
  /\ [to |-> run[t.run].by, amount |-> t.amount] \notin wallet.executed
  /\ t.amount <= wallet.balance
  /\ txs' = txs \ {t}
  /\ wallet' = [wallet EXCEPT
       !.balance = @ - t.amount,
       !.executed = @ \cup {[to |-> run[t.run].by, amount |-> t.amount]}]
  /\ mishaps' = mishaps \cup IF \E r \in Runs : Depositing(r) THEN {"raced"} ELSE {}

\* The wallet has executed an equal transaction, or cannot pay.
RevertWithdrawal(t) ==
  /\ t.kind = "withdrawal"
  /\ \/ [to |-> run[t.run].by, amount |-> t.amount] \in wallet.executed
     \/ t.amount > wallet.balance
  /\ txs' = txs \ {t}
  /\ wallet' = [wallet EXCEPT !.reverted = @ + t.amount]
  /\ UNCHANGED mishaps

Mine(t) ==
  /\ MineDeposit(t) \/ MineWithdrawal(t) \/ RevertWithdrawal(t)
  /\ UNCHANGED <<store, run, ini, rsp, net, leases, slot>>

-----------------------------------------------------------------------------
(* Other apps of the channel, by protocols that hold its lock; see          *)
(* ChannelProtocols for their steps.                                        *)

BothHave(c) ==
  /\ leases = {} /\ store[Alice] = store[Bob]
  /\ store' = [p \in Parties |-> c]
  /\ UNCHANGED <<run, ini, rsp, net, leases, slot, chain, mishaps>>

ProposeApp(p, pot) ==
  LET c == store[p]
  IN  /\ c.np < Opening.np + MaxApps
      /\ BothHave([c EXCEPT !.np = @ + 1,
                            !.props = @ \cup {[id |-> c.np + 1, by |-> p, pot |-> pot]}])

InstallApp(q) ==
  LET c == store[q.by]
  IN  /\ CanCharge(c, q.by, q.pot)
      /\ BothHave(InstallAs(c, [id |-> q.id, kind |-> "app", by |-> q.by,
                                pot |-> q.pot, threshold |-> 0]))

UninstallApp(a, p) ==
  /\ a.kind = "app"
  /\ BothHave(Uninstall(store[p], a.id, p, a.pot))

-----------------------------------------------------------------------------
(* What goes wrong.                                                         *)

\* The half that would handle m: the first messages of a protocol start it.
Refused(m) ==
  CASE m.n \in {"i1", "w1"} -> ~CanSign(m)
    [] m.n = "u1" -> ~CanCountersign(m)
    [] OTHER -> ~(Awaited(m) /\ Valid(m))

\* The handler of m throws, which ends the half that waited for it, or nobody
\* waits for it any more.
Refuse(m) ==
  /\ Refused(m)
  /\ net' = net \ {m}
  /\ IF Awaited(m) /\ m.n \in IniWaits THEN Leave(m.run, "threw")
                                      ELSE UNCHANGED <<ini, leases>>
  /\ IF Awaited(m) /\ m.n \in RspWaits THEN RspGoes(m.run, Half("done", Opening))
                                      ELSE UNCHANGED rsp
  /\ UNCHANGED <<store, run, slot, chain, mishaps>>

\* No message of run r is on its way.
Quiet(r) == \A m \in net : m.run # r

CallerTimesOut(r) ==
  /\ ini[r].pc \in IniWaits /\ Quiet(r)
  /\ Leave(r, "threw")
  /\ UNCHANGED <<store, run, rsp, net, slot, chain, mishaps>>

ResponderTimesOut(r) ==
  /\ rsp[r].pc \in RspWaits /\ Quiet(r)
  /\ RspGoes(r, Half("done", Opening))
  /\ UNCHANGED <<store, run, ini, net, leases, slot, chain, mishaps>>

Lose(m) ==
  /\ "loss" \in faults
  /\ net' = net \ {m}
  /\ UNCHANGED <<store, run, ini, rsp, leases, slot, chain, mishaps>>

\* p restarts: what it has stored survives, its calls do not.  Bound: one
\* restart.
Crash(p) ==
  /\ "crash" \in faults /\ "crashed" \notin mishaps
  /\ ini' = [r \in Runs |-> IF Caller(r) = p /\ (IniGoing(r) \/ ini[r].pc = "queued")
                             THEN Half("crashed", Opening) ELSE ini[r]]
  /\ rsp' = [r \in Runs |-> IF Responder(r) = p /\ rsp[r].pc \in RspWaits
                             THEN Half("done", Opening) ELSE rsp[r]]
  /\ <<ini', rsp'>> # <<ini, rsp>>
  /\ mishaps' = mishaps \cup {"crashed"}
  /\ UNCHANGED <<store, run, net, leases, slot, chain>>

\* The lease of a call that was lost in a restart ends; after 90 s so does that
\* of one still going on, a deposit that waits for its transaction say.
LeaseExpires(r) ==
  /\ r \in leases
  /\ "expire" \in faults \/ (~IniGoing(r) /\ Quiet(r))
  /\ leases' = leases \ {r}
  /\ UNCHANGED <<store, run, ini, rsp, net, slot, chain, mishaps>>

-----------------------------------------------------------------------------

Init ==
  /\ store = [p \in Parties |-> Opening]
  /\ run = [r \in Runs |-> [by |-> Alice, call |-> "deposit", amount |-> 0,
                              threshold |-> 0]]
  /\ ini = [r \in Runs |-> Half("idle", Opening)]
  /\ rsp = [r \in Runs |-> Half("idle", Opening)]
  /\ net = {} /\ leases = {}
  /\ slot = [p \in Parties |-> 0]
  /\ wallet = [balance |-> Worth(Opening), executed |-> {}, reverted |-> 0]
  /\ txs = {}
  /\ mishaps = {}
  /\ faults \in FaultCases

\* Calls the applications make.
Ask ==
  \/ \E r \in Runs, p \in Parties, call \in Calls, amount \in Amounts :
       Call(r, p, call, amount)
  \/ \E p \in Parties, pot \in Amounts : ProposeApp(p, pot)
  \/ \E p \in Parties, q \in store[Alice].props : InstallApp(q)
  \/ \E p \in Parties, a \in store[Alice].apps : UninstallApp(a, p)

\* What a call that has been made does by itself.
Proceed(r) ==
  \/ DepositBegins(r) \/ WithdrawalBegins(r) \/ WithdrawalThrows(r)
  \/ SendTransaction(r) \/ SendThrows(r)
  \/ UninstallBegins(r) \/ UninstallThrows(r)
  \/ CallerSaves(r) \/ WithdrawalReturns(r)

Handle(m) ==
  \/ ResponderSigns(m, "i1", "i2", "i3") \/ ResponderSigns(m, "w1", "w2", "w3")
  \/ CallerInstalls(m) \/ ResponderInstalls(m) \/ DepositInstalled(m)
  \/ ResponderUninstalls(m) \/ DepositReturns(m)
  \/ CallerCharges(m) \/ ResponderReleases(m) \/ CallerSettles(m)
  \/ ResponderSettles(m) \/ CallerStoresWithdrawal(m)
  \/ Refuse(m)

TimesOut(r) == CallerTimesOut(r) \/ ResponderTimesOut(r) \/ LeaseExpires(r)

Step ==
  \/ Ask
  \/ \E r \in Runs : Proceed(r) \/ TimesOut(r)
  \/ \E m \in net : Handle(m) \/ Lose(m)
  \/ \E t \in txs : Mine(t)
  \/ \E p \in Parties : Crash(p)

Next == Step /\ UNCHANGED faults

Spec == Init /\ [][Next]_vars

-----------------------------------------------------------------------------
(* Properties.                                                              *)

\* Types.  That balances are natural numbers says that no free balance is ever
\* overdrawn, although the balance of a withdrawal is checked before its call
\* waits for the lock.
TypeOK ==
  /\ store \in [Parties -> Channel]
  /\ run \in [Runs -> [by : Parties, call : {"deposit", "withdrawCommitment", "withdraw"},
                       amount : Nat, threshold : Nat]]
  /\ \A r \in Runs :
       /\ ini[r].pc \in {"idle", "queued"} \cup Ends \/ IniGoing(r)
       /\ rsp[r].pc \in {"idle", "done"} \cup RspWaits
       /\ ini[r].post \in Channel /\ rsp[r].post \in Channel
  /\ leases \subseteq Runs
  /\ slot \in [Parties -> Runs \cup {0}]
  /\ wallet.balance \in Nat /\ wallet.reverted \in Nat
  /\ mishaps \subseteq {"raced", "renamed", "crashed"}

\* What the wallet still owes on withdrawals that have been returned.
Owed == MapThenSumSet(LAMBDA t : t.amount, {t \in txs : t.kind = "withdrawal"})

\* Whatever is lost, crashes, is sent twice or overtakes: the books of neither
\* party promise more than the wallet has after the withdrawals on their way.
Solvent == \A p \in Parties : Worth(store[p]) + Owed <= wallet.balance

\* A deposit that returns has credited its caller with what was asked for, in
\* the books of both, unless a withdrawal was mined meanwhile
\* ("My balance was not increased by the deposit amount.").
DepositCredited ==
  [][\A r \in Runs :
       LET p == Caller(r)
       IN  /\ run[r].call = "deposit"
           /\ ini[r].pc # "returned" /\ ini'[r].pc = "returned"
           /\ "raced" \notin mishaps
           => /\ store'[p].bal[p] >= store[p].bal[p] + run[r].amount
              /\ store'[Other(p)].bal = store'[p].bal]_vars

\* Nothing is on its way.
AtRest ==
  /\ net = {}
  /\ \A r \in Runs : ini[r].pc \in {"idle", "queued"} \cup Ends
  /\ \A r \in Runs : rsp[r].pc \in {"idle", "done"}

\* When every call has returned, and no withdrawal was mined during a deposit
\* nor an app overwritten, every coin of the wallet is in the books, on its way
\* out, or in a withdrawal the wallet refused to execute a second time.
Accounted ==
  /\ faults = {} /\ mishaps = {} /\ AtRest
  /\ \A r \in Runs : ini[r].pc \in {"idle", "queued", "returned"}
  => \A p \in Parties :
       Worth(store[p]) + Owed + wallet.reverted = wallet.balance

\* When nothing is lost, the parties agree between calls.
BooksAgree == faults = {} /\ AtRest => store[Alice] = store[Bob]

=============================================================================
