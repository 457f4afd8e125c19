---------------------------- MODULE StateChannel ----------------------------
(***************************************************************************)
(* The data a counterfactual node keeps about one two-party channel, and    *)
(* the pure transitions on it: modules/cf-core/src/models/state-channel.ts, *)
(* free-balance.ts and app-instance.ts.  Every transition returns a new     *)
(* channel, exactly as StateChannel.build does; the ones that can throw     *)
(* have a predicate next to them that says when they do not.                *)
(*                                                                         *)
(* Abstractions: one asset; an app definition stands for the contract, its  *)
(* encodings and its timeout; the state of an app is the amount it would    *)
(* pay to the party that proposed it, the rest of the pot going to the      *)
(* other party.                                                             *)
(***************************************************************************)
EXTENDS Naturals, Sequences

CONSTANTS
  Alice, Bob,   \* the two participants, in the order of userNeuteredExtendedKeys
  Defs          \* app definitions that can be proposed

ASSUME PartiesDistinct == Alice # Bob

Parties == {Alice, Bob}

Other(p) == IF p = Alice THEN Bob ELSE Alice

(***************************************************************************)
(* identityHash is a hash of the sequence number (the channel nonce) and of *)
(* the signing keys derived for it, and of nothing else: in one channel the *)
(* sequence number IS the identity.  The comment over its Solidity twin     *)
(* calls it unique; it is when no two apps share a sequence number.         *)
(***************************************************************************)
AppId == Nat

\* An AppInstanceProposal: `own` is the deposit of its proposer `by`.
Proposal == [id : AppId, def : Defs, by : Parties, own : Nat, other : Nat]

AppRecord == [id : AppId, def : Defs, by : Parties, own : Nat, other : Nat,
              ver : Nat, st : Nat]

Pot(a) == a.own + a.other

App == {a \in AppRecord : a.st <= Pot(a)}

FreeBalance == [ver : Nat, bal : [Parties -> Nat], active : SUBSET AppId]

\* `np` is monotonicNumProposedApps.  `apps` is a sequence because the code
\* keeps a Map and depends on its insertion order.
Channel == [np : Nat, props : SUBSET Proposal, apps : Seq(App),
            fb : FreeBalance]

-----------------------------------------------------------------------------
(* Reading a channel.                                                       *)

HasProposal(c, id) == \E q \in c.props : q.id = id

GetProposal(c, id) == CHOOSE q \in c.props : q.id = id

AppIds(c) == {c.apps[i].id : i \in DOMAIN c.apps}

HasApp(c, id) == \E i \in DOMAIN c.apps : c.apps[i].id = id

GetApp(c, id) == c.apps[CHOOSE i \in DOMAIN c.apps : c.apps[i].id = id]

\* mostRecentlyInstalledAppInstance: the app with the greatest sequence
\* number, the earliest in the Map among equals.  Not the last one installed.
MostRecentlyInstalled(c) ==
  c.apps[CHOOSE i \in DOMAIN c.apps :
           \A j \in DOMAIN c.apps :
             \/ c.apps[j].id < c.apps[i].id
             \/ c.apps[j].id = c.apps[i].id /\ i <= j]

MostRecentlyProposed(c) ==
  CHOOSE q \in c.props : \A r \in c.props : r.id <= q.id

\* setupChannel and createFreeBalance: nothing in it, and the first sequence
\* number is taken, by the free balance.
SetupChannel ==
  [np |-> 1, props |-> {}, apps |-> <<>>,
   fb |-> [ver |-> 0, bal |-> [p \in Parties |-> 0], active |-> {}]]

-----------------------------------------------------------------------------
(* The free balance app.  Each of the calls below goes through              *)
(* toAppInstance, hence AppInstance.setState, which adds one to the version.*)

\* Mutant of CanDebit: only one of the balances is checked.
CanDebitEither(fb, amount) == \E p \in Parties : amount[p] <= fb.bal[p]

\* FreeBalanceClass.increment throws when a balance would become negative.
CanDebit(fb, amount) == \A p \in Parties : amount[p] <= fb.bal[p]

Debit(fb, amount) ==
  [fb EXCEPT !.ver = @ + 1,
             !.bal = [p \in Parties |-> fb.bal[p] - amount[p]]]

Credit(fb, amount) ==
  [fb EXCEPT !.ver = @ + 1,
             !.bal = [p \in Parties |-> fb.bal[p] + amount[p]]]

AddActiveApp(fb, id) == [fb EXCEPT !.ver = @ + 1, !.active = @ \cup {id}]

RemoveActiveApp(fb, id) == [fb EXCEPT !.ver = @ + 1, !.active = @ \ {id}]

-----------------------------------------------------------------------------
(* Transitions.                                                             *)

\* The proposal the next propose protocol of this channel creates.
NextProposal(c, d, by, own, other) ==
  [id |-> c.np + 1, def |-> d, by |-> by, own |-> own, other |-> other]

AddProposal(c, q) ==
  [c EXCEPT !.np = @ + 1,
            !.props = {r \in c.props : r.id # q.id} \cup {q}]

RemoveProposal(c, id) == [c EXCEPT !.props = {q \in c.props : q.id # id}]

\* What an app of these terms takes out of each party's free balance.
Deposits(q) == [p \in Parties |-> IF p = q.by THEN q.own ELSE q.other]

\* What computeTokenIndexedFreeBalanceIncrements finds in the app's state.
Outcome(a) == [p \in Parties |-> IF p = a.by THEN a.st ELSE Pot(a) - a.st]

\* The instance at version 0: each party would get its own deposit back.
FreshApp(q) == [id |-> q.id, def |-> q.def, by |-> q.by, own |-> q.own,
                other |-> q.other, ver |-> 0, st |-> q.own]

CanInstallApp(c, q) == CanDebit(c.fb, Deposits(q))

\* appInstances.set appends a new key and overwrites an old one in place.
PutApp(apps, a) ==
  IF \E i \in DOMAIN apps : apps[i].id = a.id
    THEN [i \in DOMAIN apps |-> IF apps[i].id = a.id THEN a ELSE apps[i]]
    ELSE Append(apps, a)

\* Mutant of InstallApp: the proposal stays, to be removed by the caller.
InstallAppKeepingProposal(c, q) ==
  [c EXCEPT !.apps = PutApp(@, FreshApp(q)),
            !.fb   = AddActiveApp(Debit(@, Deposits(q)), q.id)]

InstallApp(c, q) ==
  [c EXCEPT !.apps  = PutApp(@, FreshApp(q)),
            !.props = {r \in c.props : r.id # q.id},
            !.fb    = AddActiveApp(Debit(@, Deposits(q)), q.id)]

\* appInstances.delete of a key that is there.
DropApp(apps, id) ==
  LET i == CHOOSE j \in DOMAIN apps : apps[j].id = id
  IN  SubSeq(apps, 1, i - 1) \o SubSeq(apps, i + 1, Len(apps))

UninstallApp(c, id) ==
  [c EXCEPT !.apps = DropApp(@, id),
            !.fb   = Credit(RemoveActiveApp(@, id), Outcome(GetApp(c, id)))]

\* AppInstance.setState.
NextVersion(a, st) == [a EXCEPT !.ver = @ + 1, !.st = st]

SetState(c, id, st) ==
  [c EXCEPT !.apps = PutApp(@, NextVersion(GetApp(c, id), st))]

-----------------------------------------------------------------------------
(* What the properties say of a channel.                                    *)

\* Both free balances and the pots of the installed apps.
Worth(c) ==
  LET pots[i \in 0..Len(c.apps)] ==
        IF i = 0 THEN c.fb.bal[Alice] + c.fb.bal[Bob]
                 ELSE pots[i - 1] + Pot(c.apps[i])
  IN  pots[Len(c.apps)]

\* A step of the counter, of the free balance or of an app goes forward:
\* persisting a channel computed earlier never undoes what was persisted
\* meanwhile.
NeverRegresses(c, d) ==
  /\ c.np <= d.np
  /\ c.fb.ver <= d.fb.ver
  /\ \A i \in DOMAIN c.apps : \A j \in DOMAIN d.apps :
       c.apps[i].id = d.apps[j].id => c.apps[i].ver <= d.apps[j].ver

=============================================================================
