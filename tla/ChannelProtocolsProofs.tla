----------------------- MODULE ChannelProtocolsProofs -----------------------
(***************************************************************************)
(* Proofs about the channel and its protocols, for any opening channel, any *)
(* number of runs and every fault.  First what the transitions of           *)
(* StateChannel return: they stay within the types (no balance becomes      *)
(* negative), and they move the version of the free balance as the          *)
(* protocols rely on.  Then the types of ChannelProtocols and that what the *)
(* parties persist can be enforced; beside its type, the invariant says     *)
(* that a half always has the app it will sign a state of.  The last part   *)
(* is about what the lock of the channel is for.                            *)
(***************************************************************************)
EXTENDS ChannelProtocols, SequenceTheorems, WellFoundedInduction, TLAPS

-----------------------------------------------------------------------------
(* What the transitions of the channel return.                              *)

\* There are two parties, and each is the other's other.
LEMMA TwoParties ==
  ASSUME NEW p \in Parties
  PROVE  /\ Other(p) \in Parties /\ Other(p) # p /\ Other(Other(p)) = p
         /\ Parties = {p, Other(p)}
BY PartiesDistinct DEF Parties, Other

LEMMA ChannelFields ==
  ASSUME NEW c \in Channel
  PROVE  /\ c.np \in Nat /\ c.props \in SUBSET Proposal /\ c.apps \in Seq(App)
         /\ c.fb \in FreeBalance
         /\ c.fb.ver \in Nat /\ c.fb.bal \in [Parties -> Nat]
         /\ c.fb.active \in SUBSET AppId
         /\ c = [np |-> c.np, props |-> c.props, apps |-> c.apps, fb |-> c.fb]
BY DEF Channel, FreeBalance

LEMMA AppFields ==
  ASSUME NEW a \in App
  PROVE  /\ a.id \in AppId /\ a.def \in Defs /\ a.by \in Parties /\ a.own \in Nat /\ a.other \in Nat
         /\ a.ver \in Nat /\ a.st \in Nat /\ a.st <= Pot(a) /\ Pot(a) \in Nat
BY DEF App, AppRecord, Pot

-----------------------------------------------------------------------------
(* Proposals.                                                               *)

LEMMA NextProposalType ==
  ASSUME NEW c \in Channel, NEW d \in Defs, NEW by \in Parties,
         NEW own \in Nat, NEW other \in Nat
  PROVE  NextProposal(c, d, by, own, other) \in Proposal
BY ChannelFields DEF NextProposal, Proposal, AppId

LEMMA AddProposalType ==
  ASSUME NEW c \in Channel, NEW q \in Proposal
  PROVE  AddProposal(c, q) \in Channel /\ AddProposal(c, q).fb = c.fb
<1> DEFINE ps == {r \in c.props : r.id # q.id} \cup {q}
           d == [c EXCEPT !.np = @ + 1]
<1>1. ps \in SUBSET Proposal BY ChannelFields
<1>2. d \in Channel /\ d.fb = c.fb BY ChannelFields DEF Channel
<1>3. AddProposal(c, q) = [d EXCEPT !.props = ps]
  BY DEF AddProposal
<1> HIDE DEF ps, d
<1> QED BY <1>1, <1>2, <1>3, ChannelFields DEF Channel

LEMMA RemoveProposalType ==
  ASSUME NEW c \in Channel, NEW id
  PROVE  RemoveProposal(c, id) \in Channel /\ RemoveProposal(c, id).fb = c.fb
<1> DEFINE ps == {q \in c.props : q.id # id}
<1>1. ps \in SUBSET Proposal BY ChannelFields
<1>2. RemoveProposal(c, id) = [c EXCEPT !.props = ps]
  BY DEF RemoveProposal
<1> HIDE DEF ps
<1> QED BY <1>1, <1>2, ChannelFields DEF Channel

-----------------------------------------------------------------------------
(* Installed apps.                                                          *)

LEMMA GetAppType ==
  ASSUME NEW c \in Channel, NEW id, HasApp(c, id)
  PROVE  GetApp(c, id) \in App /\ GetApp(c, id).id = id
<1> DEFINE i == CHOOSE j \in DOMAIN c.apps : c.apps[j].id = id
<1>1. i \in DOMAIN c.apps /\ c.apps[i].id = id BY DEF HasApp
<1>2. c.apps \in Seq(App) BY ChannelFields
<1> HIDE DEF i
<1>3. c.apps[i] \in App BY <1>1, <1>2
<1> QED BY <1>1, <1>3 DEF GetApp, i

LEMMA LeastExists ==
  ASSUME NEW S \in SUBSET Nat, S # {}
  PROVE  \E m \in S : \A k \in S : m <= k
<1>1. PICK m \in S : \A k \in S : ~(<<k, m>> \in OpToRel(<, Nat))
  BY NatLessThanWellFounded, WFMin
<1>2. \A k \in S : ~(k < m)
  BY <1>1 DEF OpToRel
<1> QED BY <1>2

\* A sequence of numbers that is not empty has a greatest one.
LEMMA GreatestExists ==
  ASSUME NEW n \in Nat, n >= 1, NEW f \in [1..n -> Nat]
  PROVE  \E i \in 1..n : \A j \in 1..n : f[j] <= f[i]
<1> DEFINE Has(k) == \E i \in 1..k : \A j \in 1..k : f[j] <= f[i]
           Bad == {k \in 1..n : ~Has(k)}
<1>1. SUFFICES ASSUME n \in Bad PROVE FALSE
  OBVIOUS
<1>2. PICK m \in Bad : \A k \in Bad : m <= k
  <2> HIDE DEF Has
  <2>1. Bad \in SUBSET Nat /\ Bad # {} BY <1>1
  <2> QED BY <2>1, LeastExists
<1>3. m # 1 BY <1>2
<1>4. /\ m \in 1..n /\ m - 1 \in 1..n /\ m - 1 < m
      /\ ~Has(m)
  BY <1>2, <1>3
<1> HIDE DEF Has
<1>8. m - 1 \notin Bad BY <1>2, <1>4
<1>5. PICK i \in 1..(m - 1) : \A j \in 1..(m - 1) : f[j] <= f[i]
  BY <1>4, <1>8 DEF Has
<1>6. m \in 1..n /\ i \in 1..n /\ f[m] \in Nat /\ f[i] \in Nat BY <1>2, <1>4
<1>7. Has(m)
  <2>1. CASE f[m] <= f[i]
    <3>1. \A j \in 1..m : f[j] <= f[i] BY <1>5, <1>6, <2>1
    <3>2. i \in 1..m BY <1>6
    <3> QED BY <3>1, <3>2 DEF Has
  <2>2. CASE f[i] < f[m]
    <3>1. ASSUME NEW j \in 1..m PROVE f[j] <= f[m]
      <4>1. CASE j = m BY <1>6, <4>1
      <4>2. CASE j # m
        <5>1. j \in 1..(m - 1) /\ f[j] \in Nat BY <1>6, <4>2
        <5>2. f[j] <= f[i] BY <1>5, <5>1
        <5> QED BY <1>6, <2>2, <5>1, <5>2
      <4> QED BY <4>1, <4>2
    <3>2. m \in 1..m BY <1>6
    <3> QED BY <3>1, <3>2 DEF Has
  <2> QED BY <1>6, <2>1, <2>2
<1> QED BY <1>4, <1>7

\* The app with the greatest sequence number exists, and is the first of them.
LEMMA MostRecentlyInstalledType ==
  ASSUME NEW c \in Channel, c.apps # <<>>
  PROVE  MostRecentlyInstalled(c) \in App
<1> DEFINE n == Len(c.apps)
           seq == [i \in 1..n |-> c.apps[i].id]
           Top == {i \in 1..n : \A j \in 1..n : seq[j] <= seq[i]}
<1>1. /\ c.apps \in Seq(App) /\ n \in Nat /\ n >= 1 /\ DOMAIN c.apps = 1..n
      /\ \A i \in 1..n : c.apps[i] \in App
  BY ChannelFields, LenProperties, EmptySeq, ElementOfSeq
<1> HIDE DEF n
<1>2. seq \in [1..n -> Nat] BY <1>1, AppFields DEF AppId
<1>3. PICK t \in Top : TRUE BY <1>1, <1>2, GreatestExists
<1>4. Top \in SUBSET Nat BY <1>1
<1>5. PICK i \in Top : \A k \in Top : i <= k BY <1>3, <1>4, LeastExists
<1>6. \A j \in DOMAIN c.apps :
        \/ c.apps[j].id < c.apps[i].id
        \/ c.apps[j].id = c.apps[i].id /\ i <= j
  <2> TAKE j \in DOMAIN c.apps
  <2>1. j \in 1..n /\ i \in 1..n /\ seq[j] \in Nat /\ seq[i] \in Nat /\ seq[j] <= seq[i]
        /\ seq[j] = c.apps[j].id /\ seq[i] = c.apps[i].id
    BY <1>1, <1>2
  <2>2. CASE seq[j] < seq[i] BY <2>1, <2>2
  <2>3. CASE seq[j] = seq[i]
    <3>1. j \in Top BY <2>1, <2>3
    <3> QED BY <1>5, <2>1, <2>3, <3>1
  <2> QED BY <2>1, <2>2, <2>3
<1>7. i \in DOMAIN c.apps BY <1>1
<1> QED BY <1>1, <1>6, <1>7 DEF MostRecentlyInstalled

\* Setting an app leaves a sequence of apps that holds it.
LEMMA PutAppType ==
  ASSUME NEW apps \in Seq(App), NEW a \in App
  PROVE  /\ PutApp(apps, a) \in Seq(App)
         /\ \E i \in DOMAIN PutApp(apps, a) : PutApp(apps, a)[i].id = a.id
<1> DEFINE n == Len(apps)
<1>1. /\ n \in Nat /\ DOMAIN apps = 1..n /\ \A i \in 1..n : apps[i] \in App
  OBVIOUS
<1> HIDE DEF n
<1>2. CASE \E i \in DOMAIN apps : apps[i].id = a.id
  <2> DEFINE put == [i \in DOMAIN apps |-> IF apps[i].id = a.id THEN a ELSE apps[i]]
  <2>1. PutApp(apps, a) = put BY <1>2 DEF PutApp
  <2>2. put \in [1..n -> App] BY <1>1
  <2>3. put \in Seq(App) BY <1>1, <2>2, SeqDef
  <2>4. PICK i \in DOMAIN apps : apps[i].id = a.id BY <1>2
  <2>5. i \in DOMAIN put /\ put[i] = a BY <2>4
  <2> HIDE DEF put
  <2> QED BY <2>1, <2>3, <2>5
<1>3. CASE ~\E i \in DOMAIN apps : apps[i].id = a.id
  <2>1. PutApp(apps, a) = Append(apps, a) BY <1>3 DEF PutApp
  <2>2. Append(apps, a) \in Seq(App) OBVIOUS
  <2>3. n + 1 \in DOMAIN Append(apps, a) /\ Append(apps, a)[n + 1] = a
    BY <1>1 DEF n
  <2> QED BY <2>1, <2>2, <2>3
<1> QED BY <1>2, <1>3

LEMMA DropAppType ==
  ASSUME NEW apps \in Seq(App), NEW id, \E i \in DOMAIN apps : apps[i].id = id
  PROVE  DropApp(apps, id) \in Seq(App)
<1> DEFINE i == CHOOSE j \in DOMAIN apps : apps[j].id = id
           n == Len(apps)
<1>1. i \in DOMAIN apps OBVIOUS
<1>2. /\ n \in Nat /\ DOMAIN apps = 1..n /\ \A j \in 1..n : apps[j] \in App
  OBVIOUS
<1>3. DropApp(apps, id) = SubSeq(apps, 1, i - 1) \o SubSeq(apps, i + 1, n)
  BY DEF DropApp
<1> HIDE DEF i, n
<1>4. SubSeq(apps, 1, i - 1) \in Seq(App)
  <2>1. \A j \in 1..(i - 1) : apps[j] \in App BY <1>1, <1>2
  <2> QED BY <1>1, <1>2, <2>1, SubSeqProperties
<1>5. SubSeq(apps, i + 1, n) \in Seq(App)
  <2>1. \A j \in (i + 1)..n : apps[j] \in App BY <1>1, <1>2
  <2> QED BY <1>1, <1>2, <2>1, SubSeqProperties
<1> QED BY <1>3, <1>4, <1>5, ConcatProperties

-----------------------------------------------------------------------------
(* The free balance.                                                        *)

LEMMA DebitType ==
  ASSUME NEW fb \in FreeBalance, NEW amount \in [Parties -> Nat], CanDebit(fb, amount)
  PROVE  Debit(fb, amount) \in FreeBalance /\ Debit(fb, amount).ver = fb.ver + 1
<1> DEFINE b == [p \in Parties |-> fb.bal[p] - amount[p]]
           f == [fb EXCEPT !.ver = @ + 1]
<1>1. b \in [Parties -> Nat] BY DEF FreeBalance, CanDebit
<1>2. f \in FreeBalance /\ f.ver = fb.ver + 1 BY DEF FreeBalance
<1>3. Debit(fb, amount) = [f EXCEPT !.bal = b] BY DEF Debit
<1> HIDE DEF b, f
<1> QED BY <1>1, <1>2, <1>3 DEF FreeBalance

LEMMA CreditType ==
  ASSUME NEW fb \in FreeBalance, NEW amount \in [Parties -> Nat]
  PROVE  Credit(fb, amount) \in FreeBalance /\ Credit(fb, amount).ver = fb.ver + 1
<1> DEFINE b == [p \in Parties |-> fb.bal[p] + amount[p]]
           f == [fb EXCEPT !.ver = @ + 1]
<1>1. b \in [Parties -> Nat] BY DEF FreeBalance
<1>2. f \in FreeBalance /\ f.ver = fb.ver + 1 BY DEF FreeBalance
<1>3. Credit(fb, amount) = [f EXCEPT !.bal = b] BY DEF Credit
<1> HIDE DEF b, f
<1> QED BY <1>1, <1>2, <1>3 DEF FreeBalance

LEMMA ActiveAppType ==
  ASSUME NEW fb \in FreeBalance, NEW id \in AppId
  PROVE  /\ AddActiveApp(fb, id) \in FreeBalance
         /\ AddActiveApp(fb, id).ver = fb.ver + 1
         /\ RemoveActiveApp(fb, id) \in FreeBalance
         /\ RemoveActiveApp(fb, id).ver = fb.ver + 1
<1> DEFINE f == [fb EXCEPT !.ver = @ + 1]
<1>1. f \in FreeBalance /\ f.ver = fb.ver + 1 /\ f.active = fb.active
  BY DEF FreeBalance
<1>2. /\ AddActiveApp(fb, id) = [f EXCEPT !.active = fb.active \cup {id}]
      /\ RemoveActiveApp(fb, id) = [f EXCEPT !.active = fb.active \ {id}]
  BY DEF AddActiveApp, RemoveActiveApp
<1>3. fb.active \cup {id} \in SUBSET AppId /\ fb.active \ {id} \in SUBSET AppId
  BY DEF FreeBalance
<1> HIDE DEF f
<1> QED BY <1>1, <1>2, <1>3 DEF FreeBalance

-----------------------------------------------------------------------------
(* Installing, uninstalling, setting a state.                               *)

LEMMA InstallAppType ==
  ASSUME NEW c \in Channel, NEW q \in Proposal, CanInstallApp(c, q)
  PROVE  /\ InstallApp(c, q) \in Channel
         /\ InstallApp(c, q).apps # <<>>
         /\ InstallApp(c, q).fb.ver = c.fb.ver + 2
<1> DEFINE inst == PutApp(c.apps, FreshApp(q))
           ps == {r \in c.props : r.id # q.id}
           fb == AddActiveApp(Debit(c.fb, Deposits(q)), q.id)
           d == [c EXCEPT !.apps = inst]
           e == [d EXCEPT !.props = ps]
<1>1. FreshApp(q) \in App BY DEF Proposal, FreshApp, App, AppRecord, Pot
<1>2. inst \in Seq(App) /\ inst # <<>>
  <2>1. inst \in Seq(App) /\ \E i \in DOMAIN inst : inst[i].id = FreshApp(q).id
    BY <1>1, ChannelFields, PutAppType
  <2> HIDE DEF inst
  <2>2. Len(inst) \in Nat /\ DOMAIN inst = 1..Len(inst) BY <2>1, LenProperties
  <2> QED BY <2>1, <2>2, EmptySeq
<1>3. ps \in SUBSET Proposal BY ChannelFields
<1>4. Deposits(q) \in [Parties -> Nat] BY DEF Deposits, Proposal
<1>5. fb \in FreeBalance /\ fb.ver = c.fb.ver + 2
  <2>1. q.id \in AppId BY DEF Proposal
  <2>2. /\ Debit(c.fb, Deposits(q)) \in FreeBalance
        /\ Debit(c.fb, Deposits(q)).ver = c.fb.ver + 1
    BY <1>4, ChannelFields, DebitType DEF CanInstallApp
  <2>3. fb \in FreeBalance /\ fb.ver = Debit(c.fb, Deposits(q)).ver + 1
    BY <2>1, <2>2, ActiveAppType
  <2> QED BY <2>2, <2>3, ChannelFields
<1>6. InstallApp(c, q) = [e EXCEPT !.fb = fb] BY DEF InstallApp
<1> HIDE DEF inst, ps, fb
<1>7. d \in Channel /\ d.apps = inst BY <1>2 DEF Channel
<1> HIDE DEF d
<1>8. e \in Channel /\ e.apps = inst BY <1>3, <1>7 DEF Channel
<1> HIDE DEF e
<1>9. InstallApp(c, q) \in Channel /\ InstallApp(c, q).apps = inst /\ InstallApp(c, q).fb = fb
  BY <1>5, <1>6, <1>8 DEF Channel
<1> QED BY <1>2, <1>5, <1>9

LEMMA UninstallAppType ==
  ASSUME NEW c \in Channel, NEW id \in AppId, HasApp(c, id)
  PROVE  /\ UninstallApp(c, id) \in Channel
         /\ UninstallApp(c, id).fb.ver = c.fb.ver + 2
<1> DEFINE inst == DropApp(c.apps, id)
           a == GetApp(c, id)
           fb == Credit(RemoveActiveApp(c.fb, id), Outcome(a))
           d == [c EXCEPT !.apps = inst]
<1>1. inst \in Seq(App) BY ChannelFields, DropAppType DEF HasApp
<1>2. a \in App BY GetAppType
<1> HIDE DEF a
<1>3. Outcome(a) \in [Parties -> Nat] BY <1>2, AppFields DEF Outcome
<1>4. fb \in FreeBalance /\ fb.ver = c.fb.ver + 2
  <2>1. /\ RemoveActiveApp(c.fb, id) \in FreeBalance
        /\ RemoveActiveApp(c.fb, id).ver = c.fb.ver + 1
    BY ChannelFields, ActiveAppType
  <2>2. fb \in FreeBalance /\ fb.ver = RemoveActiveApp(c.fb, id).ver + 1
    BY <1>3, <2>1, CreditType
  <2> QED BY <2>1, <2>2, ChannelFields
<1>5. UninstallApp(c, id) = [d EXCEPT !.fb = fb] BY DEF UninstallApp, a
<1> HIDE DEF inst, fb
<1>6. d \in Channel BY <1>1 DEF Channel
<1> HIDE DEF d
<1>7. UninstallApp(c, id) \in Channel /\ UninstallApp(c, id).fb = fb
  BY <1>4, <1>5, <1>6 DEF Channel
<1> QED BY <1>4, <1>7

LEMMA SetStateType ==
  ASSUME NEW c \in Channel, NEW id, HasApp(c, id), NEW st \in Nat, st <= Pot(GetApp(c, id))
  PROVE  /\ SetState(c, id, st) \in Channel
         /\ HasApp(SetState(c, id, st), id)
         /\ SetState(c, id, st).fb = c.fb
<1> DEFINE a == GetApp(c, id)
           new == NextVersion(a, st)
           inst == PutApp(c.apps, new)
<1>1. a \in App /\ a.id = id BY GetAppType
<1>2. st <= Pot(a) OBVIOUS
<1>3. SetState(c, id, st) = [c EXCEPT !.apps = inst] BY DEF SetState
<1> HIDE DEF a
<1>4. /\ a.ver + 1 \in Nat
      /\ new = [[a EXCEPT !.ver = a.ver + 1] EXCEPT !.st = st]
  BY <1>1, AppFields DEF NextVersion, App, AppRecord
<1>5. new \in App /\ new.id = id BY <1>1, <1>2, <1>4 DEF App, AppRecord, Pot
<1> HIDE DEF new
<1>6. inst \in Seq(App) /\ \E i \in DOMAIN inst : inst[i].id = id
  BY <1>5, ChannelFields, PutAppType
<1> HIDE DEF inst
<1>7. /\ SetState(c, id, st) \in Channel /\ SetState(c, id, st).apps = inst
      /\ SetState(c, id, st).fb = c.fb
  BY <1>3, <1>6 DEF Channel
<1> QED BY <1>6, <1>7 DEF HasApp


-----------------------------------------------------------------------------
(* The apps of a channel, found by their identity.                          *)

\* No two apps of the channel have the same identity.
Distinct(c) ==
  \A i, j \in DOMAIN c.apps : c.apps[i].id = c.apps[j].id => i = j

\* Where identities are distinct, an app is found by its own.
LEMMA GetAppIs ==
  ASSUME NEW c, Distinct(c), NEW i \in DOMAIN c.apps
  PROVE  HasApp(c, c.apps[i].id) /\ GetApp(c, c.apps[i].id) = c.apps[i]
<1> DEFINE k == CHOOSE j \in DOMAIN c.apps : c.apps[j].id = c.apps[i].id
<1>1. k \in DOMAIN c.apps /\ c.apps[k].id = c.apps[i].id OBVIOUS
<1> HIDE DEF k
<1>2. k = i BY <1>1 DEF Distinct
<1> QED BY <1>2 DEF GetApp, HasApp, k

LEMMA AppsRange ==
  ASSUME NEW c \in Channel
  PROVE  /\ Len(c.apps) \in Nat /\ DOMAIN c.apps = 1..Len(c.apps)
         /\ \A i \in 1..Len(c.apps) : c.apps[i] \in App
BY ChannelFields, LenProperties, ElementOfSeq

\* Installing an app of a new identity appends it.
LEMMA AppendApp ==
  ASSUME NEW apps \in Seq(App), NEW a \in App, \A i \in DOMAIN apps : apps[i].id # a.id
  PROVE  /\ PutApp(apps, a) = Append(apps, a)
         /\ Len(PutApp(apps, a)) = Len(apps) + 1
         /\ DOMAIN PutApp(apps, a) = 1..(Len(apps) + 1)
         /\ \A i \in 1..(Len(apps) + 1) :
              PutApp(apps, a)[i] = IF i = Len(apps) + 1 THEN a ELSE apps[i]
<1>1. PutApp(apps, a) = Append(apps, a) BY DEF PutApp
<1>2. Len(apps) \in Nat /\ DOMAIN apps = 1..Len(apps) BY LenProperties
<1>3. /\ Append(apps, a) \in Seq(App) /\ Len(Append(apps, a)) = Len(apps) + 1
      /\ \A i \in 1..Len(apps) : Append(apps, a)[i] = apps[i]
      /\ Append(apps, a)[Len(apps) + 1] = a
  BY AppendProperties
<1>4. DOMAIN Append(apps, a) = 1..(Len(apps) + 1) BY <1>3, LenProperties
<1> QED BY <1>1, <1>2, <1>3, <1>4

\* Setting an app that is there overwrites it where it is.
LEMMA OverwriteApp ==
  ASSUME NEW apps \in Seq(App), NEW a, \E i \in DOMAIN apps : apps[i].id = a.id
  PROVE  /\ DOMAIN PutApp(apps, a) = DOMAIN apps
         /\ \A i \in DOMAIN apps :
              PutApp(apps, a)[i] = IF apps[i].id = a.id THEN a ELSE apps[i]
BY DEF PutApp

\* Deleting an app closes the gap.
LEMMA DeleteApp ==
  ASSUME NEW apps \in Seq(App), NEW id, \E i \in DOMAIN apps : apps[i].id = id
  PROVE  \E k \in 1..Len(apps) :
           /\ apps[k].id = id
           /\ Len(DropApp(apps, id)) = Len(apps) - 1
           /\ DOMAIN DropApp(apps, id) = 1..(Len(apps) - 1)
           /\ \A i \in 1..(Len(apps) - 1) :
                DropApp(apps, id)[i] = IF i < k THEN apps[i] ELSE apps[i + 1]
<1> DEFINE k == CHOOSE j \in DOMAIN apps : apps[j].id = id
           n == Len(apps)
           before == SubSeq(apps, 1, k - 1)
           after == SubSeq(apps, k + 1, n)
<1>1. k \in DOMAIN apps /\ apps[k].id = id OBVIOUS
<1>2. n \in Nat /\ DOMAIN apps = 1..n /\ \A j \in 1..n : apps[j] \in App
  BY LenProperties, ElementOfSeq
<1>3. DropApp(apps, id) = before \o after BY DEF DropApp
<1>9. DropApp(apps, id) \in Seq(App) BY DropAppType
<1> HIDE DEF k, n
<1>4. k \in 1..n BY <1>1, <1>2
<1>5. /\ before \in Seq(App) /\ Len(before) = k - 1
      /\ \A i \in 1..(k - 1) : before[i] = apps[i]
  <2>1. \A j \in 1..(k - 1) : apps[j] \in App BY <1>2, <1>4
  <2>2. /\ before \in Seq(App)
        /\ Len(before) = IF 1 <= k - 1 THEN (k - 1) - 1 + 1 ELSE 0
        /\ \A i \in 1..((k - 1) - 1 + 1) : before[i] = apps[1 + i - 1]
    BY <1>4, <2>1, SubSeqProperties
  <2> HIDE DEF before
  <2>3. \A i \in 1..(k - 1) : i \in 1..((k - 1) - 1 + 1) /\ 1 + i - 1 = i BY <1>4
  <2> QED BY <1>4, <2>2, <2>3
<1>6. /\ after \in Seq(App) /\ Len(after) = n - k
      /\ \A i \in 1..(n - k) : after[i] = apps[k + i]
  <2>1. \A j \in (k + 1)..n : apps[j] \in App BY <1>2, <1>4
  <2>2. /\ after \in Seq(App)
        /\ Len(after) = IF k + 1 <= n THEN n - (k + 1) + 1 ELSE 0
        /\ \A i \in 1..(n - (k + 1) + 1) : after[i] = apps[(k + 1) + i - 1]
    BY <1>2, <1>4, <2>1, SubSeqProperties
  <2> HIDE DEF after
  <2>3. \A i \in 1..(n - k) : i \in 1..(n - (k + 1) + 1) /\ (k + 1) + i - 1 = k + i
    BY <1>2, <1>4
  <2>4. Len(after) = n - k BY <1>2, <1>4, <2>2
  <2> QED BY <2>2, <2>3, <2>4
<1> HIDE DEF before, after
<1>7. /\ Len(before \o after) = n - 1
      /\ \A i \in 1..(n - 1) : (before \o after)[i] = IF i < k THEN apps[i] ELSE apps[i + 1]
  <2>1. Len(before \o after) = Len(before) + Len(after) BY <1>5, <1>6, ConcatProperties
  <2>2. \A i \in 1..(Len(before) + Len(after)) :
          (before \o after)[i] = IF i <= Len(before) THEN before[i] ELSE after[i - Len(before)]
    BY <1>5, <1>6, ConcatProperties
  <2>3. Len(before) + Len(after) = n - 1 BY <1>2, <1>4, <1>5, <1>6
  <2>4. ASSUME NEW i \in 1..(n - 1)
        PROVE  (before \o after)[i] = IF i < k THEN apps[i] ELSE apps[i + 1]
    <3>1. CASE i < k
      <4>1. i \in 1..(k - 1) /\ i <= Len(before) BY <1>2, <1>4, <1>5, <3>1
      <4> QED BY <1>5, <2>2, <2>3, <3>1, <4>1
    <3>2. CASE ~(i < k)
      <4>1. i - (k - 1) \in 1..(n - k) /\ k + (i - (k - 1)) = i + 1 /\ ~(i <= Len(before))
        BY <1>2, <1>4, <1>5, <3>2
      <4>2. (before \o after)[i] = after[i - (k - 1)] BY <1>5, <2>2, <2>3, <4>1
      <4> QED BY <1>6, <3>2, <4>1, <4>2
    <3> QED BY <3>1, <3>2
  <2> QED BY <2>1, <2>3, <2>4
<1>8. DOMAIN DropApp(apps, id) = 1..(n - 1)
  BY <1>3, <1>7, <1>9, LenProperties
<1> QED BY <1>1, <1>3, <1>4, <1>7, <1>8 DEF n

-----------------------------------------------------------------------------
(* The fields of the channels that the transitions return.                  *)

LEMMA AddProposalFields ==
  ASSUME NEW c \in Channel, NEW q \in Proposal
  PROVE  /\ AddProposal(c, q).np = c.np + 1
         /\ AddProposal(c, q).props = {r \in c.props : r.id # q.id} \cup {q}
         /\ AddProposal(c, q).apps = c.apps
<1> DEFINE ps == {r \in c.props : r.id # q.id} \cup {q}
           d == [c EXCEPT !.np = @ + 1]
<1>1. /\ d = [np |-> c.np + 1, props |-> c.props, apps |-> c.apps, fb |-> c.fb]
  BY ChannelFields DEF Channel
<1>2. AddProposal(c, q) = [d EXCEPT !.props = ps]
  BY DEF AddProposal
<1> HIDE DEF ps, d
<1>3. AddProposal(c, q) = [np |-> c.np + 1, props |-> ps, apps |-> c.apps, fb |-> c.fb]
  BY <1>1, <1>2
<1> QED BY <1>3 DEF ps

LEMMA RemoveProposalFields ==
  ASSUME NEW c \in Channel, NEW id
  PROVE  /\ RemoveProposal(c, id).np = c.np
         /\ RemoveProposal(c, id).props = {q \in c.props : q.id # id}
         /\ RemoveProposal(c, id).apps = c.apps
<1> DEFINE ps == {q \in c.props : q.id # id}
<1>1. RemoveProposal(c, id) = [c EXCEPT !.props = ps] BY DEF RemoveProposal
<1> HIDE DEF ps
<1>2. RemoveProposal(c, id) = [np |-> c.np, props |-> ps, apps |-> c.apps, fb |-> c.fb]
  BY <1>1, ChannelFields DEF Channel
<1> QED BY <1>2 DEF ps

LEMMA InstallAppFields ==
  ASSUME NEW c \in Channel, NEW q \in Proposal
  PROVE  /\ InstallApp(c, q).np = c.np
         /\ InstallApp(c, q).props = {r \in c.props : r.id # q.id}
         /\ InstallApp(c, q).apps = PutApp(c.apps, FreshApp(q))
         /\ InstallApp(c, q).fb = AddActiveApp(Debit(c.fb, Deposits(q)), q.id)
<1> DEFINE inst == PutApp(c.apps, FreshApp(q))
           ps == {r \in c.props : r.id # q.id}
           fb == AddActiveApp(Debit(c.fb, Deposits(q)), q.id)
           d == [c EXCEPT !.apps = inst]
           e == [d EXCEPT !.props = ps]
<1>1. InstallApp(c, q) = [e EXCEPT !.fb = fb] BY DEF InstallApp
<1> HIDE DEF inst, ps, fb
<1>4. d = [np |-> c.np, props |-> c.props, apps |-> inst, fb |-> c.fb]
  BY ChannelFields DEF Channel
<1> HIDE DEF d
<1>2. e = [np |-> c.np, props |-> ps, apps |-> inst, fb |-> c.fb]
  BY <1>4
<1> HIDE DEF e
<1>3. InstallApp(c, q) = [np |-> c.np, props |-> ps, apps |-> inst, fb |-> fb]
  BY <1>1, <1>2
<1> QED BY <1>3 DEF inst, ps, fb

LEMMA UninstallAppFields ==
  ASSUME NEW c \in Channel, NEW id
  PROVE  /\ UninstallApp(c, id).np = c.np
         /\ UninstallApp(c, id).props = c.props
         /\ UninstallApp(c, id).apps = DropApp(c.apps, id)
         /\ UninstallApp(c, id).fb = Credit(RemoveActiveApp(c.fb, id), Outcome(GetApp(c, id)))
<1> DEFINE inst == DropApp(c.apps, id)
           fb == Credit(RemoveActiveApp(c.fb, id), Outcome(GetApp(c, id)))
           d == [c EXCEPT !.apps = inst]
<1>1. UninstallApp(c, id) = [d EXCEPT !.fb = fb] BY DEF UninstallApp
<1> HIDE DEF inst, fb
<1>2. d = [np |-> c.np, props |-> c.props, apps |-> inst, fb |-> c.fb]
  BY ChannelFields DEF Channel
<1> HIDE DEF d
<1>3. UninstallApp(c, id) = [np |-> c.np, props |-> c.props, apps |-> inst, fb |-> fb]
  BY <1>1, <1>2
<1> QED BY <1>3 DEF inst, fb

LEMMA SetStateFields ==
  ASSUME NEW c \in Channel, NEW id, NEW st
  PROVE  /\ SetState(c, id, st).np = c.np
         /\ SetState(c, id, st).props = c.props
         /\ SetState(c, id, st).apps = PutApp(c.apps, NextVersion(GetApp(c, id), st))
         /\ SetState(c, id, st).fb = c.fb
<1> DEFINE inst == PutApp(c.apps, NextVersion(GetApp(c, id), st))
<1>1. SetState(c, id, st) = [c EXCEPT !.apps = inst] BY DEF SetState
<1> HIDE DEF inst
<1>2. SetState(c, id, st) = [np |-> c.np, props |-> c.props, apps |-> inst, fb |-> c.fb]
  BY <1>1, ChannelFields DEF Channel
<1> QED BY <1>2 DEF inst

-----------------------------------------------------------------------------
(* What the transitions do to the apps.                                     *)

LEMMA FreshAppType ==
  ASSUME NEW q \in Proposal
  PROVE  /\ FreshApp(q) \in App /\ FreshApp(q).id = q.id /\ FreshApp(q).ver = 0
         /\ Pot(FreshApp(q)) = q.own + q.other /\ q.id \in AppId
         /\ q.by \in Parties /\ q.own \in Nat /\ q.other \in Nat
BY DEF Proposal, FreshApp, App, AppRecord, Pot

\* A fresh app joins the ones that are there.
LEMMA InstallJoins ==
  ASSUME NEW c \in Channel, NEW q \in Proposal, Distinct(c), ~HasApp(c, q.id)
  PROVE  LET d == InstallApp(c, q)
         IN  /\ Distinct(d)
             /\ HasApp(d, q.id) /\ GetApp(d, q.id) = FreshApp(q)
             /\ \A id : HasApp(d, id) <=> HasApp(c, id) \/ id = q.id
             /\ \A id : HasApp(c, id) => GetApp(d, id) = GetApp(c, id)
<1> DEFINE d == InstallApp(c, q)
           n == Len(c.apps)
           a == FreshApp(q)
<1>1. a \in App /\ a.id = q.id BY FreshAppType
<1>2. n \in Nat /\ DOMAIN c.apps = 1..n /\ c.apps \in Seq(App) BY AppsRange, ChannelFields
<1>3. \A i \in DOMAIN c.apps : c.apps[i].id # a.id BY <1>1 DEF HasApp
<1>4. d.apps = PutApp(c.apps, a) BY InstallAppFields
<1> HIDE DEF d, a
<1>5. /\ DOMAIN d.apps = 1..(n + 1)
      /\ \A i \in 1..(n + 1) : d.apps[i] = IF i = n + 1 THEN a ELSE c.apps[i]
  <2>1. /\ DOMAIN PutApp(c.apps, a) = 1..(n + 1)
        /\ \A i \in 1..(n + 1) : PutApp(c.apps, a)[i] = IF i = n + 1 THEN a ELSE c.apps[i]
    <3> HIDE DEF n
    <3>1. n = Len(c.apps) BY DEF n
    <3> QED BY ONLY <1>1, <1>2, <1>3, <3>1, AppendApp
  <2> QED BY <1>4, <2>1
<1> HIDE DEF n
<1>6. \A i \in 1..n : i \in 1..(n + 1) /\ i # n + 1 /\ d.apps[i] = c.apps[i]
  BY <1>2, <1>5
<1>7. n + 1 \in 1..(n + 1) /\ d.apps[n + 1] = a BY <1>2, <1>5
<1>8. \A i \in 1..(n + 1) : i = n + 1 \/ i \in 1..n BY <1>2
<1>9. Distinct(d)
  BY <1>1, <1>2, <1>3, <1>5, <1>6, <1>7, <1>8 DEF Distinct
<1>10. HasApp(d, q.id) /\ GetApp(d, q.id) = a
  BY <1>1, <1>5, <1>7, <1>9, GetAppIs
<1>11. \A id : HasApp(d, id) <=> HasApp(c, id) \/ id = q.id
  BY <1>1, <1>2, <1>5, <1>6, <1>7, <1>8 DEF HasApp
<1>12. ASSUME NEW id, HasApp(c, id) PROVE GetApp(d, id) = GetApp(c, id)
  <2>1. PICK i \in 1..n : c.apps[i].id = id BY <1>2, <1>12 DEF HasApp
  <2>2. i \in DOMAIN d.apps /\ i \in DOMAIN c.apps /\ d.apps[i] = c.apps[i]
    BY <1>2, <1>5, <1>6
  <2> QED BY <1>9, <2>1, <2>2, GetAppIs
<1> QED BY <1>9, <1>10, <1>11, <1>12 DEF d, a

\* The app leaves, the others stay as they are.
LEMMA UninstallLeaves ==
  ASSUME NEW c \in Channel, NEW gone, Distinct(c), HasApp(c, gone)
  PROVE  LET d == UninstallApp(c, gone)
         IN  /\ Distinct(d)
             /\ \A id : HasApp(d, id) <=> HasApp(c, id) /\ id # gone
             /\ \A id : HasApp(d, id) => GetApp(d, id) = GetApp(c, id)
<1> DEFINE d == UninstallApp(c, gone)
           n == Len(c.apps)
<1>1. n \in Nat /\ DOMAIN c.apps = 1..n /\ c.apps \in Seq(App) BY AppsRange, ChannelFields
<1>2. d.apps = DropApp(c.apps, gone) BY UninstallAppFields
<1> HIDE DEF d, n
<1>3. PICK k \in 1..n :
        /\ c.apps[k].id = gone
        /\ DOMAIN d.apps = 1..(n - 1)
        /\ \A i \in 1..(n - 1) : d.apps[i] = IF i < k THEN c.apps[i] ELSE c.apps[i + 1]
  <2>1. \E i \in DOMAIN c.apps : c.apps[i].id = gone BY DEF HasApp
  <2>2. PICK k \in 1..Len(c.apps) :
          /\ c.apps[k].id = gone
          /\ DOMAIN DropApp(c.apps, gone) = 1..(Len(c.apps) - 1)
          /\ \A i \in 1..(Len(c.apps) - 1) :
               DropApp(c.apps, gone)[i] = IF i < k THEN c.apps[i] ELSE c.apps[i + 1]
    BY ONLY <1>1, <2>1, DeleteApp
  <2> QED BY <1>2, <2>2 DEF n
<1> DEFINE was(i) == IF i < k THEN i ELSE i + 1
<1>4. \A i \in 1..(n - 1) : was(i) \in 1..n /\ was(i) # k /\ d.apps[i] = c.apps[was(i)]
  BY <1>1, <1>3
<1>5. \A i, j \in 1..(n - 1) : was(i) = was(j) => i = j BY <1>1, <1>3
<1>6. \A j \in 1..n : j # k => \E i \in 1..(n - 1) : was(i) = j
  <2> TAKE j \in 1..n
  <2>1. CASE j < k
    <3>1. j \in 1..(n - 1) /\ was(j) = j BY <1>1, <1>3, <2>1
    <3> QED BY <3>1
  <2>2. CASE j > k
    <3>1. j - 1 \in 1..(n - 1) /\ was(j - 1) = j BY <1>1, <1>3, <2>2
    <3> QED BY <3>1
  <2> QED BY <1>1, <1>3, <2>1, <2>2
<1> HIDE DEF was
<1>7. Distinct(d)
  <2>1. \A i, j \in 1..(n - 1) : d.apps[i].id = d.apps[j].id => was(i) = was(j)
    BY <1>1, <1>4 DEF Distinct
  <2>2. \A i, j \in DOMAIN d.apps : i \in 1..(n - 1) /\ j \in 1..(n - 1) BY <1>3
  <2> QED BY <1>5, <2>1, <2>2 DEF Distinct
<1>8. ASSUME NEW id PROVE HasApp(d, id) <=> HasApp(c, id) /\ id # gone
  <2>1. ASSUME HasApp(d, id) PROVE HasApp(c, id) /\ id # gone
    <3>1. PICK i \in 1..(n - 1) : d.apps[i].id = id BY <1>3, <2>1 DEF HasApp
    <3>2. was(i) \in 1..n /\ was(i) # k /\ c.apps[was(i)].id = id BY <1>4, <3>1
    <3>3. id # gone BY <1>1, <1>3, <3>2 DEF Distinct
    <3> QED BY <1>1, <3>2, <3>3 DEF HasApp
  <2>2. ASSUME HasApp(c, id), id # gone PROVE HasApp(d, id)
    <3>1. PICK j \in 1..n : c.apps[j].id = id BY <1>1, <2>2 DEF HasApp
    <3>2. j # k BY <1>3, <2>2, <3>1
    <3>3. PICK i \in 1..(n - 1) : was(i) = j BY <1>6, <3>2
    <3> QED BY <1>3, <1>4, <3>1, <3>3 DEF HasApp
  <2> QED BY <2>1, <2>2
<1>9. ASSUME NEW id, HasApp(d, id) PROVE GetApp(d, id) = GetApp(c, id)
  <2>1. PICK i \in 1..(n - 1) : d.apps[i].id = id BY <1>3, <1>9 DEF HasApp
  <2>2. was(i) \in DOMAIN c.apps /\ d.apps[i] = c.apps[was(i)] /\ i \in DOMAIN d.apps
    BY <1>1, <1>3, <1>4, <2>1
  <2> QED BY <1>7, <2>1, <2>2, GetAppIs
<1> QED BY <1>7, <1>8, <1>9 DEF d

\* The app goes to its next version, the others stay as they are.
LEMMA SetStateMoves ==
  ASSUME NEW c \in Channel, NEW moved, Distinct(c), HasApp(c, moved),
         NEW st \in Nat, st <= Pot(GetApp(c, moved))
  PROVE  LET d == SetState(c, moved, st)
             a == GetApp(c, moved)
             b == GetApp(d, moved)
         IN  /\ Distinct(d)
             /\ \A id : HasApp(d, id) <=> HasApp(c, id)
             /\ \A id : HasApp(c, id) /\ id # moved => GetApp(d, id) = GetApp(c, id)
             /\ b.id = moved /\ b.ver = a.ver + 1 /\ b.st = st /\ Pot(b) = Pot(a)
             /\ DOMAIN d.apps = DOMAIN c.apps
             /\ \A i \in DOMAIN c.apps : Pot(d.apps[i]) = Pot(c.apps[i])
<1> DEFINE d == SetState(c, moved, st)
           a == GetApp(c, moved)
           b == NextVersion(a, st)
<1>1. a \in App /\ a.id = moved BY GetAppType
<1>2. c.apps \in Seq(App) BY ChannelFields
<1>3. d.apps = PutApp(c.apps, b) BY SetStateFields
<1>4. /\ b.id = moved /\ b.ver = a.ver + 1 /\ b.st = st /\ Pot(b) = Pot(a)
  BY <1>1 DEF NextVersion, App, AppRecord, Pot
<1>5. PICK k \in DOMAIN c.apps : c.apps[k].id = moved BY DEF HasApp
<1>6. c.apps[k] = a BY <1>5, GetAppIs
<1> HIDE DEF d, a, b
<1>7. /\ DOMAIN d.apps = DOMAIN c.apps
      /\ \A i \in DOMAIN c.apps : d.apps[i] = IF c.apps[i].id = moved THEN b ELSE c.apps[i]
  BY <1>2, <1>3, <1>4, <1>5, OverwriteApp
<1>8. \A i \in DOMAIN c.apps : d.apps[i].id = c.apps[i].id BY <1>4, <1>7
<1>9. Distinct(d) BY <1>7, <1>8 DEF Distinct
<1>10. \A id : HasApp(d, id) <=> HasApp(c, id) BY <1>7, <1>8 DEF HasApp
<1>11. ASSUME NEW id, HasApp(c, id), id # moved PROVE GetApp(d, id) = GetApp(c, id)
  <2>1. PICK i \in DOMAIN c.apps : c.apps[i].id = id BY <1>11 DEF HasApp
  <2>2. d.apps[i] = c.apps[i] /\ i \in DOMAIN d.apps BY <1>7, <1>11, <2>1
  <2> QED BY <1>9, <2>1, <2>2, GetAppIs
<1>12. GetApp(d, moved) = b
  <2>1. k \in DOMAIN d.apps /\ d.apps[k] = b BY <1>5, <1>7
  <2> QED BY <1>4, <1>9, <2>1, GetAppIs
<1>13. \A i \in DOMAIN c.apps : Pot(d.apps[i]) = Pot(c.apps[i])
  <2>1. \A i \in DOMAIN c.apps : c.apps[i].id = moved => c.apps[i] = a
    BY <1>5, <1>6 DEF Distinct
  <2> QED BY <1>4, <1>7, <2>1
<1> QED BY <1>4, <1>7, <1>9, <1>10, <1>11, <1>12, <1>13 DEF d, a


-----------------------------------------------------------------------------
(* Sums of pots.                                                            *)

\* Two sums that grow by the same terms: f from a on, g from b on, where they
\* differ by x and y, for n terms.
Parallel(f, a, x, g, b, y, n) ==
  /\ n \in Nat /\ a \in Nat /\ b \in Nat /\ x \in Nat /\ y \in Nat
  /\ \A i \in 0..n : f[a + i] \in Nat /\ g[b + i] \in Nat
  /\ f[a] + x = g[b] + y
  /\ \A i \in 1..n : f[a + i] + g[b + i - 1] = g[b + i] + f[a + i - 1]

LEMMA SumsShift ==
  ASSUME NEW f, NEW a, NEW x, NEW g, NEW b, NEW y, NEW n, Parallel(f, a, x, g, b, y, n)
  PROVE  f[a + n] + x = g[b + n] + y
<1> DEFINE Bad == {i \in 0..n : f[a + i] + x # g[b + i] + y}
<1>1. /\ n \in Nat /\ a \in Nat /\ b \in Nat /\ x \in Nat /\ y \in Nat
      /\ \A i \in 0..n : f[a + i] \in Nat /\ g[b + i] \in Nat
      /\ f[a + 0] + x = g[b + 0] + y
  BY DEF Parallel
<1>2. Bad = {}
  <2> SUFFICES ASSUME Bad # {} PROVE FALSE OBVIOUS
  <2>1. PICK i \in Bad : \A k \in Bad : i <= k
    <3>1. Bad \in SUBSET Nat BY <1>1
    <3> QED BY <3>1, LeastExists
  <2>2. i \in 1..n /\ i - 1 \in 0..n /\ i - 1 \notin Bad
    <3>1. 0 \notin Bad BY <1>1
    <3> QED BY <1>1, <2>1, <3>1
  <2>3. f[a + (i - 1)] + x = g[b + (i - 1)] + y BY <2>2
  <2>4. f[a + i] + g[b + (i - 1)] = g[b + i] + f[a + (i - 1)]
    <3>1. b + (i - 1) = b + i - 1 /\ a + (i - 1) = a + i - 1 BY <1>1, <2>2
    <3> QED BY <2>2, <3>1 DEF Parallel
  <2> DEFINE u == f[a + i]
             v == g[b + i]
             u1 == f[a + (i - 1)]
             v1 == g[b + (i - 1)]
  <2>5. u \in Nat /\ v \in Nat /\ u1 \in Nat /\ v1 \in Nat BY <1>1, <2>2
  <2>6. u1 + x = v1 + y /\ u + v1 = v + u1 BY <2>3, <2>4
  <2> HIDE DEF u, v, u1, v1
  <2>7. u + x = v + y BY <1>1, <2>5, <2>6
  <2> USE DEF u, v
  <2> QED BY <2>1, <2>7
<1>3. n \in 0..n BY <1>1
<1> QED BY <1>2, <1>3

\* The running sums of the pots of the apps, from what the free balance holds.
Held(c) == c.fb.bal[Alice] + c.fb.bal[Bob]

PotSums(f, c) ==
  /\ f \in [0..Len(c.apps) -> Nat]
  /\ f[0] = Held(c)
  /\ \A i \in 1..Len(c.apps) : f[i] = f[i - 1] + Pot(c.apps[i])

LEMMA HeldType ==
  ASSUME NEW c \in Channel
  PROVE  /\ Held(c) \in Nat /\ c.fb.bal[Alice] \in Nat /\ c.fb.bal[Bob] \in Nat
         /\ Len(c.apps) \in Nat
         /\ \A i \in 1..Len(c.apps) : c.apps[i] \in App /\ Pot(c.apps[i]) \in Nat
<1>1. c.fb \in FreeBalance BY ChannelFields
<1>2. c.fb.bal[Alice] \in Nat /\ c.fb.bal[Bob] \in Nat BY <1>1 DEF FreeBalance, Parties
<1> QED BY <1>2, AppsRange, AppFields DEF Held

LEMMA PotSumsExist ==
  ASSUME NEW c \in Channel
  PROVE  \E f : PotSums(f, c)
<1> DEFINE n == Len(c.apps)
           Upto(k, f) == /\ f \in [0..k -> Nat] /\ f[0] = Held(c)
                         /\ \A i \in 1..k : f[i] = f[i - 1] + Pot(c.apps[i])
           Bad == {k \in 0..n : ~\E f : Upto(k, f)}
<1>1. /\ n \in Nat /\ Held(c) \in Nat /\ \A i \in 1..n : Pot(c.apps[i]) \in Nat
  BY HeldType
<1> HIDE DEF n
<1>2. Bad = {}
  <2> SUFFICES ASSUME Bad # {} PROVE FALSE OBVIOUS
  <2>1. PICK k \in Bad : \A j \in Bad : k <= j
    <3> HIDE DEF Upto
    <3>1. Bad \in SUBSET Nat BY <1>1
    <3> QED BY <3>1, LeastExists
  <2>2. k # 0
    <3>1. Upto(0, [i \in 0..0 |-> Held(c)]) BY <1>1
    <3> QED BY <2>1, <3>1
  <2>3. k \in 1..n /\ k - 1 \in 0..n /\ k - 1 \notin Bad
    <3> HIDE DEF Upto
    <3>1. k \in 1..n /\ k - 1 \in 0..n /\ k - 1 < k BY <1>1, <2>1, <2>2
    <3> QED BY <2>1, <3>1
  <2>4. PICK f : Upto(k - 1, f) BY <2>3
  <2> DEFINE g == [i \in 0..k |-> IF i = k THEN f[k - 1] + Pot(c.apps[k]) ELSE f[i]]
  <2>5. f[k - 1] \in Nat /\ Pot(c.apps[k]) \in Nat BY <1>1, <2>3, <2>4
  <2>6. g \in [0..k -> Nat]
    <3>1. \A i \in 0..k : i # k => i \in 0..(k - 1) BY <2>3
    <3> QED BY <2>4, <2>5, <3>1
  <2>7. g[0] = Held(c) BY <2>3, <2>4
  <2>8. \A i \in 1..k : g[i] = g[i - 1] + Pot(c.apps[i])
    <3> TAKE i \in 1..k
    <3>1. CASE i = k BY <2>3, <3>1
    <3>2. CASE i # k
      <4>1. i \in 1..(k - 1) /\ i - 1 \in 0..k /\ i - 1 # k /\ i \in 0..k BY <2>3, <3>2
      <4>2. f[i] = f[i - 1] + Pot(c.apps[i]) BY <2>4, <4>1
      <4> QED BY <3>2, <4>1, <4>2
    <3> QED BY <3>1, <3>2
  <2> HIDE DEF g
  <2>9. Upto(k, g) BY <2>6, <2>7, <2>8
  <2> QED BY <2>1, <2>9
<1>3. n \notin Bad /\ n \in 0..n BY <1>1, <1>2
<1>4. \E f : Upto(n, f) BY <1>3
<1> QED BY <1>4 DEF PotSums, n

\* Worth is the last of the running sums.
LEMMA WorthIsSum ==
  ASSUME NEW c \in Channel
  PROVE  \E f : PotSums(f, c) /\ Worth(c) = f[Len(c.apps)]
<1> DEFINE n == Len(c.apps)
           Rec(f) == f = [i \in 0..n |-> IF i = 0 THEN c.fb.bal[Alice] + c.fb.bal[Bob]
                                                  ELSE f[i - 1] + Pot(c.apps[i])]
           pots == CHOOSE f : Rec(f)
<1>1. n \in Nat BY HeldType
<1>2. PICK f : PotSums(f, c) BY PotSumsExist
<1>3. Rec(f)
  <2>1. f \in [0..n -> Nat] BY <1>2 DEF PotSums
  <2>2. \A i \in 0..n : f[i] = IF i = 0 THEN Held(c) ELSE f[i - 1] + Pot(c.apps[i])
    BY <1>1, <1>2 DEF PotSums
  <2> HIDE DEF n
  <2> QED BY <2>1, <2>2 DEF Held
<1>4. Rec(pots)
  <2> HIDE DEF Rec
  <2> QED BY <1>3
<1>5. PotSums(pots, c)
  <2> HIDE DEF pots
  <2>1. pots = [i \in 0..n |-> IF i = 0 THEN Held(c) ELSE pots[i - 1] + Pot(c.apps[i])]
    BY <1>4 DEF Held
  <2> HIDE DEF Rec
  <2>2. /\ pots[0] = Held(c)
        /\ \A i \in 1..n : pots[i] = pots[i - 1] + Pot(c.apps[i])
    BY <1>1, <2>1
  <2>3. \A i \in 0..n : pots[i] \in Nat
    <3> DEFINE Bad == {i \in 0..n : pots[i] \notin Nat}
    <3> SUFFICES ASSUME Bad # {} PROVE FALSE OBVIOUS
    <3>1. PICK i \in Bad : \A k \in Bad : i <= k
      <4>1. Bad \in SUBSET Nat BY <1>1
      <4> QED BY <4>1, LeastExists
    <3>2. i # 0 BY <2>2, <3>1, HeldType
    <3>3. i \in 1..n /\ i - 1 \in 0..n /\ i - 1 \notin Bad BY <1>1, <3>1, <3>2
    <3>4. pots[i - 1] \in Nat /\ Pot(c.apps[i]) \in Nat BY <3>3, HeldType
    <3>5. pots[i] \in Nat BY <2>2, <3>3, <3>4
    <3> QED BY <3>1, <3>5
  <2>4. pots \in [0..n -> Nat] BY <2>1, <2>3
  <2> QED BY <2>2, <2>4 DEF PotSums
<1>6. Worth(c) = pots[n] BY DEF Worth
<1> QED BY <1>5, <1>6

\* The running sums without their type.
LEMMA PotSumsSteps ==
  ASSUME NEW c \in Channel, NEW f, PotSums(f, c), NEW n, n = Len(c.apps)
  PROVE  /\ n \in Nat /\ f[0] = Held(c) /\ f[0] \in Nat
         /\ \A i \in 0..n : f[i] \in Nat
         /\ \A i \in 1..n : f[i] = f[i - 1] + Pot(c.apps[i])
         /\ \A i \in 1..n : Pot(c.apps[i]) \in Nat
BY HeldType DEF PotSums

\* Apps of the same pots over the same free balance are worth the same.
LEMMA WorthKept ==
  ASSUME NEW c \in Channel, NEW d \in Channel, Held(d) = Held(c),
         Len(d.apps) = Len(c.apps),
         \A i \in 1..Len(c.apps) : Pot(d.apps[i]) = Pot(c.apps[i])
  PROVE  Worth(d) = Worth(c)
<1> DEFINE n == Len(c.apps)
<1>1. PICK f : PotSums(f, c) /\ Worth(c) = f[n] BY WorthIsSum
<1>2. PICK g : PotSums(g, d) /\ Worth(d) = g[n] BY WorthIsSum
<1>3. \A i \in 1..n : Pot(d.apps[i]) = Pot(c.apps[i]) /\ n = Len(d.apps) OBVIOUS
<1> HIDE DEF n
<1>4. /\ n \in Nat /\ f[0] = Held(c) /\ f[0] \in Nat
      /\ \A i \in 0..n : f[i] \in Nat
      /\ \A i \in 1..n : f[i] = f[i - 1] + Pot(c.apps[i])
      /\ \A i \in 1..n : Pot(c.apps[i]) \in Nat
  BY <1>1, PotSumsSteps DEF n
<1>5. /\ g[0] = Held(d)
      /\ \A i \in 0..n : g[i] \in Nat
      /\ \A i \in 1..n : g[i] = g[i - 1] + Pot(d.apps[i])
  <2>1. n = Len(d.apps) BY DEF n
  <2> QED BY <1>2, <2>1, PotSumsSteps
<1>6. Parallel(f, 0, 0, g, 0, 0, n)
  <2>1. \A i \in 0..n : f[0 + i] \in Nat /\ g[0 + i] \in Nat BY <1>4, <1>5
  <2>2. \A i \in 1..n : f[0 + i] + g[0 + i - 1] = g[0 + i] + f[0 + i - 1]
    <3> TAKE i \in 1..n
    <3>1. /\ f[i - 1] \in Nat /\ g[i - 1] \in Nat /\ Pot(c.apps[i]) \in Nat
          /\ f[i] = f[i - 1] + Pot(c.apps[i]) /\ g[i] = g[i - 1] + Pot(c.apps[i])
          /\ 0 + i = i
      BY <1>3, <1>4, <1>5
    <3> QED BY <3>1
  <2> QED BY <1>4, <1>5, <2>1, <2>2 DEF Parallel
<1>7. f[0 + n] + 0 = g[0 + n] + 0 BY <1>6, SumsShift
<1>8. f[n] \in Nat /\ g[n] \in Nat /\ 0 + n = n BY <1>4, <1>5
<1> QED BY <1>1, <1>2, <1>7, <1>8

\* An app appended for its pot.
LEMMA WorthAppended ==
  ASSUME NEW c \in Channel, NEW d \in Channel, NEW pot \in Nat,
         Held(c) = Held(d) + pot, Len(d.apps) = Len(c.apps) + 1,
         \A i \in 1..Len(c.apps) : d.apps[i] = c.apps[i],
         Pot(d.apps[Len(c.apps) + 1]) = pot
  PROVE  Worth(d) = Worth(c)
<1> DEFINE n == Len(c.apps)
           l == n + 1
<1>0. /\ \A i \in 1..n : d.apps[i] = c.apps[i]
      /\ Pot(d.apps[l]) = pot /\ l = Len(d.apps)
  OBVIOUS
<1>1. PICK f : PotSums(f, c) /\ Worth(c) = f[n] BY WorthIsSum
<1>2. PICK g : PotSums(g, d) /\ Worth(d) = g[l] BY WorthIsSum
<1>3. /\ n \in Nat /\ f[0] = Held(c) /\ f[0] \in Nat
      /\ \A i \in 0..n : f[i] \in Nat
      /\ \A i \in 1..n : f[i] = f[i - 1] + Pot(c.apps[i])
      /\ \A i \in 1..n : Pot(c.apps[i]) \in Nat
  BY <1>1, PotSumsSteps
<1>4. /\ g[0] = Held(d) /\ g[0] \in Nat
      /\ \A i \in 0..l : g[i] \in Nat
      /\ \A i \in 1..l : g[i] = g[i - 1] + Pot(d.apps[i])
  <2> HIDE DEF l
  <2> QED BY <1>0, <1>2, PotSumsSteps
<1>5. l = n + 1 /\ n \in 0..l /\ l \in 1..l /\ l - 1 = n BY <1>3
<1> HIDE DEF n, l
<1>6. Parallel(f, 0, 0, g, 0, pot, n)
  <2>1. \A i \in 0..n : f[0 + i] \in Nat /\ g[0 + i] \in Nat
    <3> TAKE i \in 0..n
    <3>1. i \in 0..l /\ 0 + i = i BY <1>3, <1>5
    <3> QED BY <1>3, <1>4, <3>1
  <2>2. \A i \in 1..n : f[0 + i] + g[0 + i - 1] = g[0 + i] + f[0 + i - 1]
    <3> TAKE i \in 1..n
    <3>1. i \in 1..l /\ i - 1 \in 0..n /\ i - 1 \in 0..l /\ 0 + i = i BY <1>3, <1>5
    <3>2. /\ f[i - 1] \in Nat /\ g[i - 1] \in Nat /\ Pot(c.apps[i]) \in Nat
          /\ f[i] = f[i - 1] + Pot(c.apps[i]) /\ g[i] = g[i - 1] + Pot(c.apps[i])
      BY <1>0, <1>3, <1>4, <3>1
    <3> QED BY <3>1, <3>2
  <2>3. f[0] + 0 = g[0] + pot BY <1>3, <1>4
  <2> QED BY <1>3, <2>1, <2>2, <2>3 DEF Parallel
<1>7. f[0 + n] + 0 = g[0 + n] + pot BY <1>6, SumsShift
<1>8. f[n] \in Nat /\ g[n] \in Nat /\ 0 + n = n BY <1>3, <1>4, <1>5
<1>9. g[l] = g[n] + pot
  <2>1. g[l] = g[l - 1] + Pot(d.apps[l]) BY <1>4, <1>5
  <2> QED BY <1>0, <1>5, <2>1
<1> QED BY <1>1, <1>2, <1>7, <1>8, <1>9

\* An app deleted, and its pot credited.
LEMMA WorthDropped ==
  ASSUME NEW c \in Channel, NEW d \in Channel, NEW k \in 1..Len(c.apps),
         Held(d) = Held(c) + Pot(c.apps[k]), Len(d.apps) = Len(c.apps) - 1,
         \A i \in 1..(Len(c.apps) - 1) :
           d.apps[i] = IF i < k THEN c.apps[i] ELSE c.apps[i + 1]
  PROVE  Worth(d) = Worth(c)
<1> DEFINE n == Len(c.apps)
           pot == Pot(c.apps[k])
           j == k - 1
           l == n - 1
           rest == n - k
<1>1. PICK f : PotSums(f, c) /\ Worth(c) = f[n] BY WorthIsSum
<1>2. PICK g : PotSums(g, d) /\ Worth(d) = g[l] BY WorthIsSum
<1>3. /\ n \in Nat /\ f[0] = Held(c) /\ f[0] \in Nat
      /\ \A i \in 0..n : f[i] \in Nat
      /\ \A i \in 1..n : f[i] = f[i - 1] + Pot(c.apps[i])
      /\ \A i \in 1..n : Pot(c.apps[i]) \in Nat
  BY <1>1, PotSumsSteps
<1>4. /\ g[0] = Held(d) /\ g[0] \in Nat
      /\ \A i \in 0..l : g[i] \in Nat
      /\ \A i \in 1..l : g[i] = g[i - 1] + Pot(d.apps[i])
  <2>1. l = Len(d.apps) OBVIOUS
  <2> HIDE DEF l
  <2> QED BY <1>2, <2>1, PotSumsSteps
<1>5. /\ \A i \in 1..l : d.apps[i] = IF i < k THEN c.apps[i] ELSE c.apps[i + 1]
      /\ g[0] = f[0] + pot
  BY <1>3, <1>4
<1>6. /\ k \in 1..n /\ j \in Nat /\ l \in Nat /\ rest \in Nat
      /\ j = k - 1 /\ l = n - 1 /\ k + rest = n /\ j + rest = l
  <2>1. n \in Nat /\ k \in 1..n BY <1>3
  <2> HIDE DEF n, pot
  <2>2. k \in Nat /\ k >= 1 /\ k <= n BY <2>1
  <2>3. j \in Nat /\ l \in Nat /\ rest \in Nat BY <2>1, <2>2
  <2> QED BY <2>1, <2>2, <2>3
<1>7. pot \in Nat /\ f[k] = f[j] + pot BY <1>3, <1>6
<1> HIDE DEF n, pot, j, l, rest
<1>8. f[j] + pot = g[j] + 0
  <2>1. Parallel(f, 0, pot, g, 0, 0, j)
    <3>1. \A i \in 0..j : f[0 + i] \in Nat /\ g[0 + i] \in Nat
      <4> TAKE i \in 0..j
      <4>1. i \in 0..l /\ i \in 0..n /\ 0 + i = i BY <1>3, <1>6
      <4> QED BY <1>3, <1>4, <4>1
    <3>2. \A i \in 1..j : f[0 + i] + g[0 + i - 1] = g[0 + i] + f[0 + i - 1]
      <4> TAKE i \in 1..j
      <4>1. /\ i \in 1..l /\ i \in 1..n /\ i - 1 \in 0..n /\ i - 1 \in 0..l /\ 0 + i = i
            /\ i < k
        BY <1>3, <1>6
      <4>2. /\ f[i - 1] \in Nat /\ g[i - 1] \in Nat /\ Pot(c.apps[i]) \in Nat
            /\ f[i] = f[i - 1] + Pot(c.apps[i]) /\ g[i] = g[i - 1] + Pot(c.apps[i])
        BY <1>3, <1>4, <1>5, <4>1
      <4> QED BY <4>1, <4>2
    <3>3. f[0] + pot = g[0] + 0 BY <1>3, <1>4, <1>5
    <3> QED BY <1>6, <1>7, <3>1, <3>2, <3>3 DEF Parallel
  <2>2. f[0 + j] + pot = g[0 + j] + 0 BY <2>1, SumsShift
  <2> QED BY <1>6, <2>2
<1>9. f[j] \in Nat /\ g[j] \in Nat /\ f[k] \in Nat BY <1>3, <1>4, <1>6
<1>10. Parallel(f, k, 0, g, j, 0, rest)
  <2>1. \A i \in 0..rest : f[k + i] \in Nat /\ g[j + i] \in Nat
    <3> TAKE i \in 0..rest
    <3>1. k + i \in 0..n /\ j + i \in 0..l BY <1>3, <1>6
    <3> QED BY <1>3, <1>4, <3>1
  <2>2. \A i \in 1..rest : f[k + i] + g[j + i - 1] = g[j + i] + f[k + i - 1]
    <3> TAKE i \in 1..rest
    <3> DEFINE u == k + i
               v == j + i
    <3>1. /\ u \in 1..n /\ u - 1 \in 0..n /\ v \in 1..l /\ v - 1 \in 0..l
          /\ ~(v < k) /\ v + 1 = u
      BY <1>3, <1>6
    <3>5. k + i - 1 = u - 1 /\ j + i - 1 = v - 1 /\ k + i = u /\ j + i = v
      BY <1>6
    <3> HIDE DEF u, v
    <3>2. /\ f[u - 1] \in Nat /\ g[v - 1] \in Nat /\ Pot(c.apps[u]) \in Nat
          /\ f[u] = f[u - 1] + Pot(c.apps[u]) /\ g[v] = g[v - 1] + Pot(d.apps[v])
      BY <1>3, <1>4, <3>1
    <3>3. d.apps[v] = c.apps[u] BY <1>5, <3>1
    <3>4. f[u] + g[v - 1] = g[v] + f[u - 1]
      <4> DEFINE a == f[u - 1]
                 b == g[v - 1]
                 pc == Pot(c.apps[u])
      <4>1. a \in Nat /\ b \in Nat /\ pc \in Nat /\ f[u] = a + pc /\ g[v] = b + pc
        BY <3>2, <3>3
      <4> HIDE DEF a, b, pc
      <4>2. f[u] + b = g[v] + a BY <4>1
      <4> QED BY <4>2 DEF a, b
    <3> QED BY <3>4, <3>5
  <2>3. f[k] + 0 = g[j] + 0 BY <1>7, <1>8, <1>9
  <2> QED BY <1>6, <2>1, <2>2, <2>3 DEF Parallel
<1>11. f[k + rest] + 0 = g[j + rest] + 0 BY <1>10, SumsShift
<1>12. f[n] \in Nat /\ g[l] \in Nat
  <2>1. n \in 0..n /\ l \in 0..l BY <1>3, <1>6
  <2> QED BY <1>3, <1>4, <2>1
<1> QED BY <1>1, <1>2, <1>6, <1>11, <1>12

-----------------------------------------------------------------------------
(* What the transitions keep.                                               *)

\* What a step may make of a channel: no value is created or destroyed, the
\* free balance keeps naming the installed apps, and nothing goes back.
Goes(c, d) ==
  /\ NeverRegresses(c, d)
  /\ Worth(d) = Worth(c)
  /\ c.fb.active = AppIds(c) => d.fb.active = AppIds(d)
  /\ d.fb = c.fb \/ d.fb.ver = c.fb.ver + 2

\* Nothing goes back when no app of the same identity does.
LEMMA Forward ==
  ASSUME NEW c \in Channel, NEW d \in Channel, Distinct(c), Distinct(d),
         c.np <= d.np, c.fb.ver <= d.fb.ver,
         \A id : HasApp(c, id) /\ HasApp(d, id) => GetApp(c, id).ver <= GetApp(d, id).ver
  PROVE  NeverRegresses(c, d)
<1>1. SUFFICES ASSUME NEW i \in DOMAIN c.apps, NEW j \in DOMAIN d.apps,
                      c.apps[i].id = d.apps[j].id
               PROVE  c.apps[i].ver <= d.apps[j].ver
  BY DEF NeverRegresses
<1>2. HasApp(c, c.apps[i].id) /\ GetApp(c, c.apps[i].id) = c.apps[i] BY GetAppIs
<1>3. HasApp(d, d.apps[j].id) /\ GetApp(d, d.apps[j].id) = d.apps[j] BY GetAppIs
<1> QED BY <1>1, <1>2, <1>3

LEMMA AppIdsAre ==
  ASSUME NEW c
  PROVE  AppIds(c) = {id \in AppIds(c) : TRUE} /\ \A id : id \in AppIds(c) <=> HasApp(c, id)
BY DEF AppIds, HasApp

\* The apps and the free balance stay.
LEMMA GoesSame ==
  ASSUME NEW c \in Channel, NEW d \in Channel, Distinct(c),
         c.np <= d.np, d.apps = c.apps, d.fb = c.fb
  PROVE  Goes(c, d)
<1>1. NeverRegresses(c, d)
  <2>1. Distinct(d) BY DEF Distinct
  <2>2. \A id : GetApp(d, id) = GetApp(c, id) BY DEF GetApp
  <2>3. \A id : HasApp(c, id) => GetApp(c, id).ver \in Nat BY GetAppType, AppFields
  <2>4. c.fb.ver <= d.fb.ver BY ChannelFields
  <2>5. \A id : HasApp(c, id) => GetApp(c, id).ver <= GetApp(d, id).ver BY <2>2, <2>3
  <2> QED BY <2>1, <2>4, <2>5, Forward
<1>2. Worth(d) = Worth(c)
  <2>1. Held(d) = Held(c) /\ Len(d.apps) = Len(c.apps) BY DEF Held
  <2>2. \A i \in 1..Len(c.apps) : Pot(d.apps[i]) = Pot(c.apps[i]) OBVIOUS
  <2> QED BY <2>1, <2>2, WorthKept
<1>3. AppIds(d) = AppIds(c) BY DEF AppIds
<1> QED BY <1>1, <1>2, <1>3 DEF Goes

\* What leaves the free balance is what the pot of the app holds.
LEMMA DebitHeld ==
  ASSUME NEW c \in Channel, NEW q \in Proposal, CanInstallApp(c, q)
  PROVE  LET fb == AddActiveApp(Debit(c.fb, Deposits(q)), q.id)
         IN  /\ c.fb.bal[Alice] + c.fb.bal[Bob] = fb.bal[Alice] + fb.bal[Bob] + (q.own + q.other)
             /\ fb.active = c.fb.active \cup {q.id}
<1> DEFINE dep == Deposits(q)
           bal == [p \in Parties |-> c.fb.bal[p] - dep[p]]
           f == [c.fb EXCEPT !.ver = @ + 1]
           g == [f EXCEPT !.bal = bal]
           fb == AddActiveApp(g, q.id)
<1>1. q.by \in Parties /\ q.own \in Nat /\ q.other \in Nat BY FreshAppType
<1>2. /\ dep[Alice] \in Nat /\ dep[Bob] \in Nat /\ dep[Alice] + dep[Bob] = q.own + q.other
      /\ Alice \in Parties /\ Bob \in Parties
  BY <1>1, PartiesDistinct DEF Deposits, Parties
<1>3. c.fb.bal[Alice] \in Nat /\ c.fb.bal[Bob] \in Nat BY HeldType
<1>4. dep[Alice] <= c.fb.bal[Alice] /\ dep[Bob] <= c.fb.bal[Bob]
  BY <1>2 DEF CanInstallApp, CanDebit
<1>5. c.fb \in FreeBalance BY ChannelFields
<1>6. Debit(c.fb, dep) = g BY DEF Debit
<1> HIDE DEF dep, bal
<1>7. f = [ver |-> c.fb.ver + 1, bal |-> c.fb.bal, active |-> c.fb.active]
  BY <1>5 DEF FreeBalance
<1> HIDE DEF f
<1>8. g = [ver |-> c.fb.ver + 1, bal |-> bal, active |-> c.fb.active] BY <1>7
<1> HIDE DEF g
<1>9. fb.bal = bal /\ fb.active = c.fb.active \cup {q.id} BY <1>8 DEF AddActiveApp
<1>10. bal[Alice] = c.fb.bal[Alice] - dep[Alice] /\ bal[Bob] = c.fb.bal[Bob] - dep[Bob]
  BY <1>2 DEF bal
<1>11. c.fb.bal[Alice] + c.fb.bal[Bob] = bal[Alice] + bal[Bob] + (q.own + q.other)
  BY <1>1, <1>2, <1>3, <1>4, <1>10
<1> QED BY <1>6, <1>9, <1>11 DEF dep

\* What an app pays is what its pot holds.
LEMMA CreditHeld ==
  ASSUME NEW c \in Channel, NEW a \in App, NEW id \in AppId
  PROVE  LET fb == Credit(RemoveActiveApp(c.fb, id), Outcome(a))
         IN  /\ fb.bal[Alice] + fb.bal[Bob] = c.fb.bal[Alice] + c.fb.bal[Bob] + Pot(a)
             /\ fb.active = c.fb.active \ {id}
<1> DEFINE out == Outcome(a)
           f0 == [c.fb EXCEPT !.ver = @ + 1]
           f == [f0 EXCEPT !.active = @ \ {id}]
           bal == [p \in Parties |-> f.bal[p] + out[p]]
           g == [f EXCEPT !.ver = @ + 1]
           fb == [g EXCEPT !.bal = bal]
<1>1. a.by \in Parties /\ a.st \in Nat /\ a.st <= Pot(a) /\ Pot(a) \in Nat BY AppFields
<1>2. /\ out[Alice] \in Nat /\ out[Bob] \in Nat /\ out[Alice] + out[Bob] = Pot(a)
      /\ Alice \in Parties /\ Bob \in Parties
  BY <1>1, PartiesDistinct DEF Outcome, Parties
<1>3. c.fb.bal[Alice] \in Nat /\ c.fb.bal[Bob] \in Nat BY HeldType
<1>5. c.fb \in FreeBalance BY ChannelFields
<1>6. RemoveActiveApp(c.fb, id) = f BY DEF RemoveActiveApp
<1>7. Credit(f, out) = fb BY DEF Credit
<1> HIDE DEF out
<1>8. f0 = [ver |-> c.fb.ver + 1, bal |-> c.fb.bal, active |-> c.fb.active]
  BY <1>5 DEF FreeBalance
<1> HIDE DEF f0
<1>9. f = [ver |-> c.fb.ver + 1, bal |-> c.fb.bal, active |-> c.fb.active \ {id}]
  <2>1. c.fb.active \ {id} = f0.active \ {id} BY <1>8
  <2> DEFINE rest == f0.active \ {id}
  <2>2. f = [f0 EXCEPT !.active = rest] OBVIOUS
  <2> HIDE DEF rest, f
  <2>3. f = [ver |-> c.fb.ver + 1, bal |-> c.fb.bal, active |-> rest] BY <1>8, <2>2
  <2> QED BY <2>1, <2>3 DEF rest
<1> HIDE DEF f
<1>10. bal[Alice] = c.fb.bal[Alice] + out[Alice] /\ bal[Bob] = c.fb.bal[Bob] + out[Bob]
  BY <1>2, <1>9
<1> HIDE DEF bal
<1>11. g = [ver |-> c.fb.ver + 1 + 1, bal |-> c.fb.bal, active |-> c.fb.active \ {id}] BY <1>9
<1> HIDE DEF g
<1>12. fb.bal = bal /\ fb.active = c.fb.active \ {id} BY <1>11
<1>13. bal[Alice] + bal[Bob] = c.fb.bal[Alice] + c.fb.bal[Bob] + Pot(a)
  BY <1>1, <1>2, <1>3, <1>10
<1> QED BY <1>6, <1>7, <1>12, <1>13 DEF out

\* Installing moves the deposits into the pot.
LEMMA InstallGoes ==
  ASSUME NEW c \in Channel, NEW q \in Proposal, CanInstallApp(c, q), Distinct(c),
         ~HasApp(c, q.id)
  PROVE  Goes(c, InstallApp(c, q))
<1> DEFINE d == InstallApp(c, q)
           n == Len(c.apps)
           a == FreshApp(q)
<1>1. /\ d \in Channel /\ d.np = c.np /\ d.apps = PutApp(c.apps, a)
      /\ d.fb.ver = c.fb.ver + 2 /\ c.fb.ver \in Nat /\ c.np \in Nat
  BY InstallAppType, InstallAppFields, ChannelFields
<1>2. /\ Distinct(d) /\ \A id : HasApp(d, id) <=> HasApp(c, id) \/ id = q.id
      /\ \A id : HasApp(c, id) => GetApp(d, id) = GetApp(c, id)
  BY InstallJoins
<1>3. /\ Held(c) = Held(d) + (q.own + q.other)
      /\ d.fb.active = c.fb.active \cup {q.id}
  <2>1. d.fb = AddActiveApp(Debit(c.fb, Deposits(q)), q.id) BY InstallAppFields
  <2> HIDE DEF d
  <2> QED BY <2>1, DebitHeld DEF Held
<1>4. /\ a \in App /\ a.id = q.id /\ Pot(a) = q.own + q.other /\ q.own + q.other \in Nat
  BY FreshAppType
<1>5. n \in Nat /\ DOMAIN c.apps = 1..n /\ c.apps \in Seq(App) BY AppsRange, ChannelFields
<1>6. /\ Len(d.apps) = n + 1
      /\ \A i \in 1..(n + 1) : d.apps[i] = IF i = n + 1 THEN a ELSE c.apps[i]
  <2>1. \A i \in DOMAIN c.apps : c.apps[i].id # a.id BY <1>4 DEF HasApp
  <2> HIDE DEF d, a
  <2> QED BY <1>1, <1>4, <1>5, <2>1, AppendApp
<1> HIDE DEF d, a
<1>7. Worth(d) = Worth(c)
  <2>1. \A i \in 1..Len(c.apps) : d.apps[i] = c.apps[i] BY <1>5, <1>6
  <2>2. Pot(d.apps[Len(c.apps) + 1]) = q.own + q.other BY <1>4, <1>5, <1>6
  <2> QED BY <1>1, <1>3, <1>4, <1>6, <2>1, <2>2, WorthAppended
<1>8. NeverRegresses(c, d)
  <2>1. \A id : HasApp(c, id) => GetApp(c, id).ver \in Nat BY GetAppType, AppFields
  <2>2. \A id : HasApp(c, id) => GetApp(c, id).ver <= GetApp(d, id).ver BY <1>2, <2>1
  <2>3. c.np <= d.np /\ c.fb.ver <= d.fb.ver BY <1>1
  <2> QED BY <1>1, <1>2, <2>2, <2>3, Forward
<1>9. AppIds(d) = AppIds(c) \cup {q.id} BY <1>2, AppIdsAre
<1>10. Goes(c, d) BY <1>1, <1>3, <1>7, <1>8, <1>9 DEF Goes
<1> QED BY <1>10 DEF d

\* Uninstalling moves the pot back.
LEMMA UninstallGoes ==
  ASSUME NEW c \in Channel, NEW gone \in AppId, Distinct(c), HasApp(c, gone)
  PROVE  Goes(c, UninstallApp(c, gone))
<1> DEFINE d == UninstallApp(c, gone)
           n == Len(c.apps)
<1>1. /\ d \in Channel /\ d.np = c.np /\ d.apps = DropApp(c.apps, gone)
      /\ d.fb.ver = c.fb.ver + 2 /\ c.fb.ver \in Nat /\ c.np \in Nat
  BY UninstallAppType, UninstallAppFields, ChannelFields
<1>2. /\ Distinct(d) /\ \A id : HasApp(d, id) <=> HasApp(c, id) /\ id # gone
      /\ \A id : HasApp(d, id) => GetApp(d, id) = GetApp(c, id)
  BY UninstallLeaves
<1>3. /\ Held(d) = Held(c) + Pot(GetApp(c, gone))
      /\ d.fb.active = c.fb.active \ {gone}
  <2>1. d.fb = Credit(RemoveActiveApp(c.fb, gone), Outcome(GetApp(c, gone)))
    BY UninstallAppFields
  <2>2. GetApp(c, gone) \in App BY GetAppType
  <2> HIDE DEF d
  <2> QED BY <2>1, <2>2, CreditHeld DEF Held
<1>5. n \in Nat /\ DOMAIN c.apps = 1..n /\ c.apps \in Seq(App) BY AppsRange, ChannelFields
<1> HIDE DEF d
<1>6. PICK k \in 1..n :
        /\ c.apps[k].id = gone /\ Len(d.apps) = n - 1
        /\ \A i \in 1..(n - 1) : d.apps[i] = IF i < k THEN c.apps[i] ELSE c.apps[i + 1]
  <2> DEFINE apps == c.apps
  <2>1. apps \in Seq(App) /\ \E i \in DOMAIN apps : apps[i].id = gone BY <1>5 DEF HasApp
  <2> HIDE DEF apps
  <2>2. \E k \in 1..Len(apps) :
          /\ apps[k].id = gone
          /\ Len(DropApp(apps, gone)) = Len(apps) - 1
          /\ DOMAIN DropApp(apps, gone) = 1..(Len(apps) - 1)
          /\ \A i \in 1..(Len(apps) - 1) :
               DropApp(apps, gone)[i] = IF i < k THEN apps[i] ELSE apps[i + 1]
    BY ONLY <2>1, DeleteApp
  <2>3. n = Len(apps) /\ apps = c.apps /\ d.apps = DropApp(apps, gone) BY <1>1 DEF apps, n
  <2> QED BY <2>2, <2>3
<1>7. Worth(d) = Worth(c)
  <2>1. GetApp(c, gone) = c.apps[k] BY <1>5, <1>6, GetAppIs
  <2> QED BY <1>1, <1>3, <1>6, <2>1, WorthDropped
<1>8. NeverRegresses(c, d)
  <2>1. \A id : HasApp(c, id) => GetApp(c, id).ver \in Nat BY GetAppType, AppFields
  <2>2. \A id : HasApp(c, id) /\ HasApp(d, id) => GetApp(c, id).ver <= GetApp(d, id).ver
    BY <1>2, <2>1
  <2>3. c.np <= d.np /\ c.fb.ver <= d.fb.ver BY <1>1
  <2> QED BY <1>1, <1>2, <2>2, <2>3, Forward
<1>9. AppIds(d) = AppIds(c) \ {gone} BY <1>2, AppIdsAre
<1>10. Goes(c, d) BY <1>1, <1>3, <1>7, <1>8, <1>9 DEF Goes
<1> QED BY <1>10 DEF d

\* A state of an app shares the same pot.
LEMMA SetStateGoes ==
  ASSUME NEW c \in Channel, NEW moved, Distinct(c), HasApp(c, moved),
         NEW st \in Nat, st <= Pot(GetApp(c, moved))
  PROVE  Goes(c, SetState(c, moved, st))
<1> DEFINE d == SetState(c, moved, st)
<1>1. /\ d \in Channel /\ d.np = c.np /\ d.fb = c.fb /\ c.np \in Nat /\ c.fb.ver \in Nat
  BY SetStateType, SetStateFields, ChannelFields
<1>2. /\ Distinct(d) /\ \A id : HasApp(d, id) <=> HasApp(c, id)
      /\ \A id : HasApp(c, id) /\ id # moved => GetApp(d, id) = GetApp(c, id)
      /\ GetApp(d, moved).ver = GetApp(c, moved).ver + 1
      /\ DOMAIN d.apps = DOMAIN c.apps
      /\ \A i \in DOMAIN c.apps : Pot(d.apps[i]) = Pot(c.apps[i])
  BY SetStateMoves
<1> HIDE DEF d
<1>3. Worth(d) = Worth(c)
  <2>1. /\ Len(c.apps) \in Nat /\ DOMAIN c.apps = 1..Len(c.apps)
        /\ Len(d.apps) \in Nat /\ DOMAIN d.apps = 1..Len(d.apps)
    BY <1>1, AppsRange
  <2>2. Len(d.apps) = Len(c.apps)
    <3> DEFINE m == Len(c.apps)
               n == Len(d.apps)
    <3>1. m \in Nat /\ n \in Nat /\ 1..n = 1..m BY <1>2, <2>1
    <3> HIDE DEF m, n
    <3>2. m < n => n \in 1..n /\ n \notin 1..m BY <3>1
    <3>3. n < m => m \in 1..m /\ m \notin 1..n BY <3>1
    <3>4. n = m BY <3>1, <3>2, <3>3
    <3> QED BY <3>4 DEF m, n
  <2>3. Held(d) = Held(c) BY <1>1 DEF Held
  <2>4. \A i \in 1..Len(c.apps) : Pot(d.apps[i]) = Pot(c.apps[i]) BY <1>2, <2>1
  <2> QED BY <1>1, <2>2, <2>3, <2>4, WorthKept
<1>4. NeverRegresses(c, d)
  <2>1. \A id : HasApp(c, id) => GetApp(c, id).ver \in Nat BY GetAppType, AppFields
  <2>2. \A id : HasApp(c, id) => GetApp(c, id).ver <= GetApp(d, id).ver
    <3> TAKE id
    <3> HAVE HasApp(c, id)
    <3>1. CASE id = moved BY <1>2, <2>1, <3>1
    <3>2. CASE id # moved BY <1>2, <2>1, <3>2
    <3> QED BY <3>1, <3>2
  <2>3. c.np <= d.np /\ c.fb.ver <= d.fb.ver BY <1>1
  <2> QED BY <1>1, <1>2, <2>2, <2>3, Forward
<1>5. AppIds(d) = AppIds(c) BY <1>2, AppIdsAre
<1>6. Goes(c, d) BY <1>1, <1>3, <1>4, <1>5 DEF Goes
<1> QED BY <1>6 DEF d

-----------------------------------------------------------------------------
(* The latest of the apps and of the proposals.                             *)

\* The app installed last, by sequence number, is one of the apps.
LEMMA MostRecentlyInstalledIs ==
  ASSUME NEW c \in Channel, c.apps # <<>>
  PROVE  HasApp(c, MostRecentlyInstalled(c).id)
<1> DEFINE n == Len(c.apps)
           seq == [i \in 1..n |-> c.apps[i].id]
           Top == {i \in 1..n : \A j \in 1..n : seq[j] <= seq[i]}
<1>1. /\ c.apps \in Seq(App) /\ n \in Nat /\ n >= 1 /\ DOMAIN c.apps = 1..n
      /\ \A i \in 1..n : c.apps[i] \in App
  BY ChannelFields, LenProperties, EmptySeq, ElementOfSeq
<1> HIDE DEF n
<1>2. seq \in [1..n -> Nat] BY <1>1, AppFields DEF AppId
<1>3. PICK t \in Top : TRUE BY <1>1, <1>2, GreatestExists
<1>4. Top \in SUBSET Nat BY <1>1
<1>5. PICK i \in Top : \A k \in Top : i <= k BY <1>3, <1>4, LeastExists
<1>6. \A j \in DOMAIN c.apps :
        \/ c.apps[j].id < c.apps[i].id
        \/ c.apps[j].id = c.apps[i].id /\ i <= j
  <2> TAKE j \in DOMAIN c.apps
  <2>1. j \in 1..n /\ i \in 1..n /\ seq[j] \in Nat /\ seq[i] \in Nat /\ seq[j] <= seq[i]
        /\ seq[j] = c.apps[j].id /\ seq[i] = c.apps[i].id
    BY <1>1, <1>2
  <2>2. CASE seq[j] < seq[i] BY <2>1, <2>2
  <2>3. CASE seq[j] = seq[i]
    <3>1. j \in Top BY <2>1, <2>3
    <3> QED BY <1>5, <2>1, <2>3, <3>1
  <2> QED BY <2>1, <2>2, <2>3
<1>7. i \in DOMAIN c.apps BY <1>1
<1> DEFINE k == CHOOSE h \in DOMAIN c.apps :
                  \A j \in DOMAIN c.apps :
                    \/ c.apps[j].id < c.apps[h].id
                    \/ c.apps[j].id = c.apps[h].id /\ h <= j
<1>8. k \in DOMAIN c.apps BY <1>6, <1>7
<1>9. MostRecentlyInstalled(c) = c.apps[k] BY DEF MostRecentlyInstalled
<1> HIDE DEF k
<1> QED BY <1>8, <1>9 DEF HasApp

\* A removal of what is not there.
LEMMA NothingRemoved ==
  ASSUME NEW c \in Channel, NEW id, \A q \in c.props : q.id # id
  PROVE  RemoveProposal(c, id) = c
<1> DEFINE d == RemoveProposal(c, id)
<1>1. d.np = c.np /\ d.props = c.props /\ d.apps = c.apps /\ d.fb = c.fb /\ d \in Channel
  <2>1. {q \in c.props : q.id # id} = c.props OBVIOUS
  <2> QED BY <2>1, RemoveProposalFields, RemoveProposalType
<1>2. d = [np |-> d.np, props |-> d.props, apps |-> d.apps, fb |-> d.fb]
  BY <1>1, ChannelFields
<1> HIDE DEF d
<1>3. d = c BY <1>1, <1>2, ChannelFields
<1> QED BY <1>3 DEF d

\* The proposal made last is the one whose sequence number was counted last.
LEMMA ProposedLast ==
  ASSUME NEW c \in Channel, \A t \in c.props : t.id <= c.np,
         NEW q \in Proposal, q.id = c.np + 1
  PROVE  /\ MostRecentlyProposed(AddProposal(c, q)).id = q.id
         /\ AddProposal(c, q).np = q.id
<1> DEFINE d == AddProposal(c, q)
           Top(t) == \A u \in d.props : u.id <= t.id
<1>1. d.np = c.np + 1 /\ d.props = {r \in c.props : r.id # q.id} \cup {q}
  BY AddProposalFields
<1>2. c.np \in Nat /\ \A t \in c.props : t.id \in Nat
  BY ChannelFields DEF Proposal, AppId
<1> HIDE DEF d
<1>3. q \in d.props /\ Top(q) BY <1>1, <1>2
<1> DEFINE last == CHOOSE t \in d.props : Top(t)
<1>4. last \in d.props /\ Top(last) BY <1>3
<1>5. MostRecentlyProposed(d) = last BY DEF MostRecentlyProposed
<1> HIDE DEF last
<1>6. last.id = q.id
  <2>1. q.id <= last.id /\ last.id <= q.id BY <1>3, <1>4
  <2>2. last.id \in Nat /\ q.id \in Nat BY <1>1, <1>2, <1>4
  <2> QED BY <2>1, <2>2
<1> QED BY <1>1, <1>5, <1>6 DEF d

-----------------------------------------------------------------------------
(* The protocols: types, and what is persisted.                             *)

\* The channel holds what a half of this operation signs.
CanSign(op, c) ==
  /\ op.proto \in {"takeAction", "update"} => HasApp(c, op.id)
  /\ op.proto = "install" => c.apps # <<>>

TwoMessage == {"propose", "uninstall", "takeAction", "update"}

\* Protocols that write a commitment before they persist.
Writing == {"install", "uninstall"}

IniFits(half) ==
  /\ CanSign(half.op, half.post)
  /\ half.pc = "written" => half.op.proto \in Writing

RspFits(half) ==
  /\ CanSign(half.op, half.post)
  /\ half.pc = "verified" => half.op.proto \in TwoMessage \cup {"reject"}
  /\ half.pc = "wait3" => half.op.proto = "install"
  /\ half.pc = "written" => half.op.proto \in Writing

Fits == \A r \in Runs : IniFits(ini[r]) /\ RspFits(rsp[r])

\* The party has both signatures on the free balance of this channel.
Has(p, c) == SetFreeBalance(c) \in held[p] \cup {SetFreeBalance(Opening)}

\* Protocols that leave the free balance alone.
KeepBalance == {"propose", "takeAction", "update", "reject"}

\* The half is about to persist, in a run that leaves the free balance alone
\* or with the commitment written.
IniSettled(half) ==
  \/ half.pc \in {"persist", "wait2"} /\ half.op.proto \in KeepBalance
  \/ half.pc = "written"

RspSettled(half) ==
  \/ half.pc = "verified" /\ half.op.proto \in KeepBalance
  \/ half.pc = "written"

IniHas == \A r \in Runs : IniSettled(ini[r]) => Has(ini[r].by, ini[r].post)

RspHas == \A r \in Runs : RspSettled(rsp[r]) => Has(Responder(r), rsp[r].post)

\* A responding half, and the message that starts it, belong to a run that
\* has been started, by the other party.
Begun ==
  /\ \A r \in Runs : rsp[r].pc # "idle" => ini[r].pc # "idle"
  /\ \A m \in net : m.n = 1 => /\ m.to = Responder(m.run)
                               /\ ini[m.run].pc # "idle"

IInv ==
  /\ TypeOK /\ Fits
  /\ Enforceable /\ IniHas /\ RspHas /\ Begun

IniHalf == [by : Parties, pc : IniPc, op : Op, post : Channel]
RspHalf == [pc : RspPc, op : Op, post : Channel]
Lock == [name : {ChannelLock} \cup ({"app"} \X AppId), run : Runs]

-----------------------------------------------------------------------------
(* Commitments, locks and messages are of their types.                      *)

LEMMA OpFields ==
  ASSUME NEW op \in Op
  PROVE  /\ op.proto = "propose" => op.def \in Defs /\ op.own \in Nat /\ op.other \in Nat
         /\ op.proto = "install" => op.q \in Proposal
         /\ op.proto \in {"uninstall", "reject", "takeAction", "update"} => op.id \in AppId
         /\ op.proto = "takeAction" => op.amount \in Nat
         /\ op.proto = "update" => op.st \in Nat
         /\ op.proto \in {"none", "propose", "install", "uninstall", "reject", "takeAction", "update"}
BY DEF Op, NoOp

LEMMA BlankType == Blank \in Channel /\ CanSign(NoOp, Blank) /\ NoOp \in Op
<1>1. <<>> \in Seq(App) OBVIOUS
<1>2. Blank \in Channel BY <1>1 DEF Blank, Channel, FreeBalance
<1> QED BY <1>2 DEF CanSign, NoOp, Op

LEMMA IdleTypes ==
  /\ IdleIni \in IniHalf /\ IdleRsp \in RspHalf
  /\ DoneRsp \in RspHalf /\ RspFits(DoneRsp) /\ ~RspSettled(DoneRsp)
  /\ \A p \in Parties, pc \in IniPc :
       /\ NoHalf(p, pc) \in IniHalf
       /\ pc # "written" => IniFits(NoHalf(p, pc))
BY BlankType
DEF IdleIni, NoHalf, IdleRsp, DoneRsp, IniHalf, RspHalf, IniPc, RspPc, Parties,
    IniFits, RspFits, RspSettled

LEMMA LockNamesType ==
  ASSUME NEW op \in Op
  PROVE  LockNames(op) \subseteq {ChannelLock} \cup ({"app"} \X AppId)
BY OpFields DEF LockNames, AppLock

LEMMA FreeBalanceCommitment ==
  ASSUME NEW c \in Channel
  PROVE  SetFreeBalance(c) \in Commitment
BY ChannelFields DEF SetFreeBalance, Commitment

LEMMA ConditionalType ==
  ASSUME NEW c \in Channel, c.apps # <<>>
  PROVE  Conditional(c) \in Commitment
<1> DEFINE a == MostRecentlyInstalled(c)
<1>1. a \in App BY MostRecentlyInstalledType
<1> HIDE DEF a
<1>2. a.id \in AppId /\ Pot(a) \in Nat BY <1>1, AppFields
<1> QED BY <1>2 DEF Conditional, Commitment, a

LEMMA SignedType ==
  ASSUME NEW op \in Op, NEW c \in Channel, CanSign(op, c), op.proto \in TwoMessage
  PROVE  Signed(op, c) \in Commitment
<1>1. CASE op.proto = "propose"
  <2>1. Signed(op, c) = [kind |-> "app", id |-> c.np, ver |-> 0, st |-> op.own]
    BY <1>1 DEF Signed
  <2> QED BY <1>1, <2>1, OpFields, ChannelFields DEF Commitment, AppId
<1>2. CASE op.proto = "uninstall"
  BY <1>2, FreeBalanceCommitment DEF Signed
<1>3. CASE op.proto \in {"takeAction", "update"}
  <2> DEFINE a == GetApp(c, op.id)
  <2>1. a \in App BY <1>3, GetAppType DEF CanSign
  <2>2. Signed(op, c) = SetAppState(a) BY <1>3 DEF Signed
  <2> HIDE DEF a
  <2> QED BY <2>1, <2>2, AppFields DEF SetAppState, Commitment
<1> QED BY <1>1, <1>2, <1>3 DEF TwoMessage

LEMMA RequestType ==
  ASSUME NEW r \in Runs, NEW p \in Parties, NEW op \in Op, NEW sigs \in SUBSET Commitment
  PROVE  Request(r, p, op, sigs) \in Messages
BY TwoParties DEF Request, Message, Messages

LEMMA ReplyType ==
  ASSUME NEW r \in Runs, NEW n \in 1..4, NEW p \in Parties, NEW sigs \in SUBSET Commitment
  PROVE  Reply(r, n, p, sigs) \in Messages
BY BlankType DEF Reply, Message, Messages

-----------------------------------------------------------------------------
(* What the steps have in common.                                           *)

\* A signature more never hurts, nor does a write of what is enforceable.
LEMMA StillHas ==
  ASSUME NEW p \in Parties, NEW c, NEW d, Has(p, c), held[p] \subseteq held'[p], d.fb = c.fb
  PROVE  Has(p, d)'
BY DEF Has, SetFreeBalance

LEMMA Apart ==
  ASSUME IInv
  PROVE  /\ store \in [Parties -> Channel]
         /\ past \subseteq FreeBalance
         /\ held \in [Parties -> SUBSET Commitment]
         /\ ini \in [Runs -> IniHalf]
         /\ rsp \in [Runs -> RspHalf]
         /\ net \subseteq Messages
         /\ locks \subseteq Lock
         /\ \A p \in Parties : Has(p, store[p])
BY DEF IInv, TypeOK, IniHalf, RspHalf, Lock, Enforceable, Has

LEMMA HalvesFit ==
  ASSUME IInv, NEW r \in Runs
  PROVE  /\ IniFits(ini[r]) /\ RspFits(rsp[r])
         /\ IniSettled(ini[r]) => Has(ini[r].by, ini[r].post)
         /\ RspSettled(rsp[r]) => Has(Responder(r), rsp[r].post)
BY DEF IInv, Fits, IniHas, RspHas

\* What a step of run r must do to keep the invariant.
LEMMA RunStep ==
  ASSUME IInv, NEW r \in Runs,
         store' \in [Parties -> Channel],
         \A F \in past' : F \in past \/ \E p \in Parties : F = store'[p].fb,
         held' \in [Parties -> SUBSET Commitment],
         \A p \in Parties : held[p] \subseteq held'[p],
         \A p \in Parties : Has(p, store[p])',
         ini' \in [Runs -> IniHalf],
         \A s \in Runs \ {r} : ini'[s] = ini[s],
         IniFits(ini'[r]),
         IniSettled(ini'[r]) => Has(ini[r].by, ini[r].post)',
         ini'[r].pc # "idle",
         ini[r].pc = "idle" \/ ini'[r].by = ini[r].by,
         rsp' \in [Runs -> RspHalf],
         \A s \in Runs \ {r} : rsp'[s] = rsp[s],
         RspFits(rsp'[r]),
         RspSettled(rsp'[r]) => Has(Other(ini[r].by), rsp[r].post)',
         net' \subseteq Messages,
         \A m \in net' \ net : m.n = 1 => m.run = r /\ m.to = Other(ini'[r].by),
         locks' \subseteq Lock
  PROVE  IInv'
<1>1. TypeOK'
  <2>1. past' \subseteq FreeBalance BY Apart, ChannelFields
  <2> QED BY <2>1 DEF TypeOK, IniHalf, RspHalf, Lock
<1>2. Fits'
  BY DEF IInv, Fits, IniFits, RspFits
<1>4. Enforceable'
  BY DEF Enforceable, Has
<1>5. \A s \in Runs : /\ ini[s].by \in Parties /\ Responder(s) \in Parties
                      /\ s # r => Responder(s)' = Responder(s)
  BY Apart, TwoParties DEF IniHalf, Responder
<1>6. IniHas'
  <2>1. ASSUME NEW s \in Runs \ {r}, IniSettled(ini[s])
        PROVE  Has(ini[s].by, ini[s].post)'
    <3>1. Has(ini[s].by, ini[s].post) BY <2>1, HalvesFit
    <3> QED BY <1>5, <3>1 DEF Has
  <2> QED BY <2>1 DEF IniHas, IniSettled
<1>7. RspHas'
  <2>1. ASSUME NEW s \in Runs \ {r}, RspSettled(rsp[s])
        PROVE  Has(Responder(s), rsp[s].post)'
    <3>1. Has(Responder(s), rsp[s].post) BY <2>1, HalvesFit
    <3> QED BY <1>5, <3>1 DEF Has
  <2> QED BY <2>1 DEF RspHas, Responder, RspSettled
<1>8. Begun'
  <2>1. \A s \in Runs : rsp'[s].pc # "idle" => ini'[s].pc # "idle"
    BY DEF IInv, Begun
  <2>2. ASSUME NEW m \in net', m.n = 1
        PROVE  m.to = Responder(m.run)' /\ ini'[m.run].pc # "idle"
    <3>1. CASE m \in net
      <4>1. m.run \in Runs BY <3>1, Apart DEF Messages
      <4>2. m.to = Responder(m.run) /\ ini[m.run].pc # "idle"
        BY <2>2, <3>1 DEF IInv, Begun
      <4> QED BY <4>1, <4>2 DEF Responder
    <3>2. CASE m \notin net BY <2>2, <3>2 DEF Responder
    <3> QED BY <3>1, <3>2
  <2> QED BY <2>1, <2>2 DEF Begun
<1> QED BY <1>1, <1>2, <1>4, <1>6, <1>7, <1>8 DEF IInv

\* What persisting does.
LEMMA Persisting ==
  ASSUME IInv, NEW p \in Parties, NEW c \in Channel, Persist(p, c)
  PROVE  /\ store' \in [Parties -> Channel]
         /\ store' = [store EXCEPT ![p] = c]
         /\ store'[p] = c /\ past' = past \cup {c.fb}
BY Apart DEF Persist

-----------------------------------------------------------------------------
(* Calls.                                                                   *)

\* A run that has not begun has no message and no responding half.
LEMMA Fresh ==
  ASSUME IInv, NEW r \in Runs, ini[r].pc = "idle"
  PROVE  rsp[r].pc = "idle"
BY DEF IInv, Begun

LEMMA StartKeeps ==
  ASSUME IInv, NEW r \in Runs, NEW p \in Parties, NEW op \in Op,
         NEW pc \in {"persist", "wait2"}, NEW post \in Channel,
         CanSign(op, post), op.proto \in KeepBalance => Has(p, post),
         Start(r, p, op, pc, post),
         \/ net' = net
         \/ \E sigs \in SUBSET Commitment : net' = net \cup {Request(r, p, op, sigs)},
         UNCHANGED <<store, past, held, rsp>>
  PROVE  IInv'
<1> DEFINE half == [by |-> p, pc |-> pc, op |-> op, post |-> post]
<1>1. half \in IniHalf /\ half.pc # "idle" BY DEF IniHalf, IniPc
<1>2. ini' = [ini EXCEPT ![r] = half] /\ ini[r].pc = "idle" BY DEF Start
<1>3. half.by = p /\ half.pc = pc /\ half.op = op /\ half.post = post OBVIOUS
<1> HIDE DEF half
<1>4. /\ ini' \in [Runs -> IniHalf] /\ ini'[r] = half
      /\ \A s \in Runs \ {r} : ini'[s] = ini[s]
  BY <1>1, <1>2, Apart
<1>5. locks' \subseteq Lock
  <2>1. \A n \in LockNames(op) : [name |-> n, run |-> r] \in Lock
    BY LockNamesType DEF Lock
  <2> QED BY <2>1, Apart DEF Start
<1>6. /\ net' \subseteq Messages
      /\ \A m \in net' \ net : m.n = 1 => m.run = r /\ m.to = Other(p)
  <2>1. ASSUME NEW sigs \in SUBSET Commitment
        PROVE  /\ Request(r, p, op, sigs) \in Messages
               /\ Request(r, p, op, sigs).run = r
               /\ Request(r, p, op, sigs).to = Other(p)
    BY RequestType DEF Request, Message
  <2> QED BY <2>1, Apart
<1>7. /\ IniFits(half)
      /\ IniSettled(half) => Has(ini[r].by, ini[r].post)'
  BY <1>3, <1>4 DEF Has, IniFits, IniSettled
<1>8. \A q \in Parties : Has(q, store[q])'
  BY Apart DEF Has
<1>9. /\ rsp \in [Runs -> RspHalf] /\ RspFits(rsp[r]) /\ ~RspSettled(rsp[r])
  BY <1>2, Apart, Fresh, HalvesFit DEF RspSettled
<1> QED
  BY <1>1, <1>2, <1>3, <1>4, <1>5, <1>6, <1>7, <1>8, <1>9, Apart, RunStep

LEMMA AppIdsType ==
  ASSUME NEW c \in Channel, NEW id \in AppIds(c)
  PROVE  id \in AppId /\ HasApp(c, id)
BY ChannelFields, AppFields DEF AppIds, HasApp

LEMMA ApplyActionType ==
  ASSUME NEW c \in Channel, NEW id, HasApp(c, id),
         NEW amount \in Nat, amount <= GetApp(c, id).st
  PROVE  /\ ApplyAction(c, id, amount) \in Channel
         /\ HasApp(ApplyAction(c, id, amount), id)
         /\ ApplyAction(c, id, amount).fb = c.fb
<1> DEFINE left == GetApp(c, id).st - amount
<1>1. left \in Nat /\ left <= Pot(GetApp(c, id))
  BY GetAppType, AppFields
<1> HIDE DEF left
<1> QED BY <1>1, SetStateType DEF ApplyAction, left

LEMMA CallKeeps ==
  ASSUME IInv, NEW r \in Runs, NEW p \in Parties, Call(r, p)
  PROVE  IInv'
<1>1. store[p] \in Channel /\ Has(p, store[p]) BY Apart
<1>2. CASE ProposeInitiator(r, p)
  <2>1. PICK d \in Defs, t \in Terms :
          LET op == [proto |-> "propose", def |-> d, own |-> t.own, other |-> t.other]
              q  == NextProposal(store[p], d, p, t.own, t.other)
          IN  /\ Start(r, p, op, "persist", AddProposal(store[p], q))
              /\ UNCHANGED <<store, past, held, rsp, net>>
    BY <1>2 DEF ProposeInitiator
  <2> DEFINE op == [proto |-> "propose", def |-> d, own |-> t.own, other |-> t.other]
             post == AddProposal(store[p], NextProposal(store[p], d, p, t.own, t.other))
  <2>2. t.own \in Nat /\ t.other \in Nat BY ConstantsType
  <2>3. post \in Channel /\ Has(p, post)
    BY <1>1, <2>2, NextProposalType, AddProposalType DEF Has, SetFreeBalance
  <2>4. op \in Op /\ CanSign(op, post) BY <2>2 DEF Op, CanSign
  <2>5. Start(r, p, op, "persist", post) /\ UNCHANGED <<store, past, held, rsp, net>>
    BY <2>1
  <2> HIDE DEF op, post
  <2> QED BY <2>3, <2>4, <2>5, StartKeeps
<1>3. CASE InstallInitiator(r, p)
  <2>1. PICK q \in store[p].props :
          LET op   == [proto |-> "install", q |-> q]
              post == InstallApp(store[p], q)
          IN  /\ q.by = Other(p)
              /\ CanInstallApp(store[p], q)
              /\ Start(r, p, op, "wait2", post)
              /\ net' = net \cup {Request(r, p, op, {Conditional(post)})}
              /\ UNCHANGED <<store, past, held, rsp>>
    BY <1>3 DEF InstallInitiator
  <2> DEFINE op == [proto |-> "install", q |-> q]
             post == InstallApp(store[p], q)
  <2>2. q \in Proposal BY <1>1, ChannelFields
  <2>3. post \in Channel /\ post.apps # <<>>
    BY <1>1, <2>1, <2>2, InstallAppType
  <2>4. op \in Op /\ CanSign(op, post) /\ op.proto = "install"
    BY <2>2, <2>3 DEF Op, CanSign
  <2>5. /\ Start(r, p, op, "wait2", post) /\ UNCHANGED <<store, past, held, rsp>>
        /\ net' = net \cup {Request(r, p, op, {Conditional(post)})}
    BY <2>1
  <2> HIDE DEF op, post
  <2>6. {Conditional(post)} \in SUBSET Commitment BY <2>3, ConditionalType
  <2>7. op.proto \notin KeepBalance BY <2>4 DEF KeepBalance
  <2> QED BY <2>3, <2>4, <2>5, <2>6, <2>7, StartKeeps
<1>4. CASE UninstallInitiator(r, p)
  <2>1. PICK op \in UninstallParams(store[p]) :
          /\ Start(r, p, op, "wait2", UninstallApp(store[p], op.id))
          /\ SendRequest(r, p, op, UninstallApp(store[p], op.id))
          /\ UNCHANGED <<store, past, held, rsp>>
    BY <1>4 DEF UninstallInitiator
  <2> DEFINE post == UninstallApp(store[p], op.id)
  <2>2. op.proto = "uninstall" /\ op.id \in AppIds(store[p])
        /\ op = [proto |-> "uninstall", id |-> op.id]
    BY <2>1 DEF UninstallParams
  <2>3. op.id \in AppId /\ HasApp(store[p], op.id) BY <1>1, <2>2, AppIdsType
  <2>4. post \in Channel BY <1>1, <2>3, UninstallAppType
  <2>5. op \in Op /\ CanSign(op, post)
    BY <2>2, <2>3 DEF Op, CanSign
  <2> HIDE DEF post
  <2>6. {Signed(op, post)} \in SUBSET Commitment
    BY <2>2, <2>4, <2>5, SignedType DEF TwoMessage
  <2>7. op.proto \notin KeepBalance BY <2>2 DEF KeepBalance
  <2>8. /\ Start(r, p, op, "wait2", post) /\ UNCHANGED <<store, past, held, rsp>>
        /\ SendRequest(r, p, op, post)
    BY <2>1 DEF post
  <2> QED BY <2>4, <2>5, <2>6, <2>7, <2>8, StartKeeps DEF SendRequest
<1>5. CASE TakeActionInitiator(r, p)
  <2>1. PICK op \in TakeActionParams(store[p]) :
          /\ Start(r, p, op, "wait2", ApplyAction(store[p], op.id, op.amount))
          /\ SendRequest(r, p, op, ApplyAction(store[p], op.id, op.amount))
          /\ UNCHANGED <<store, past, held, rsp>>
    BY <1>5 DEF TakeActionInitiator
  <2> DEFINE post == ApplyAction(store[p], op.id, op.amount)
  <2>2. PICK id \in AppIds(store[p]), amount \in Int :
          /\ amount \in 1..GetApp(store[p], id).st
          /\ op = [proto |-> "takeAction", id |-> id, amount |-> amount]
    BY <2>1 DEF TakeActionParams
  <2>3. id \in AppId /\ HasApp(store[p], id) BY <1>1, AppIdsType
  <2>4. /\ amount \in Nat /\ amount <= GetApp(store[p], id).st
        /\ GetApp(store[p], id).st \in Nat
    BY <1>1, <2>2, <2>3, GetAppType, AppFields
  <2>5. post \in Channel /\ HasApp(post, id) /\ post.fb = store[p].fb
    BY <1>1, <2>2, <2>3, <2>4, ApplyActionType
  <2>6. op \in Op /\ op.proto = "takeAction" /\ op.id = id
    BY <2>2, <2>3, <2>4 DEF Op
  <2> HIDE DEF post
  <2>7. CanSign(op, post) /\ Has(p, post)
    BY <1>1, <2>5, <2>6 DEF CanSign, Has, SetFreeBalance
  <2>8. {Signed(op, post)} \in SUBSET Commitment
    BY <2>5, <2>6, <2>7, SignedType DEF TwoMessage
  <2>9. /\ Start(r, p, op, "wait2", post) /\ UNCHANGED <<store, past, held, rsp>>
        /\ SendRequest(r, p, op, post)
    BY <2>1 DEF post
  <2> QED BY <2>5, <2>6, <2>7, <2>8, <2>9, StartKeeps DEF SendRequest
<1>6. CASE UpdateInitiator(r, p)
  <2>1. PICK op \in UpdateParams(store[p]) :
          /\ Start(r, p, op, "wait2", SetState(store[p], op.id, op.st))
          /\ SendRequest(r, p, op, SetState(store[p], op.id, op.st))
          /\ UNCHANGED <<store, past, held, rsp>>
    BY <1>6 DEF UpdateInitiator
  <2> DEFINE post == SetState(store[p], op.id, op.st)
  <2>2. PICK id \in AppIds(store[p]), st \in Int :
          /\ st \in 0..Pot(GetApp(store[p], id))
          /\ op = [proto |-> "update", id |-> id, st |-> st]
    BY <2>1 DEF UpdateParams
  <2>3. id \in AppId /\ HasApp(store[p], id) BY <1>1, AppIdsType
  <2>4. /\ st \in Nat /\ st <= Pot(GetApp(store[p], id))
        /\ GetApp(store[p], id).st \in Nat
    BY <1>1, <2>2, <2>3, GetAppType, AppFields
  <2>5. post \in Channel /\ HasApp(post, id) /\ post.fb = store[p].fb
    BY <1>1, <2>2, <2>3, <2>4, SetStateType
  <2>6. op \in Op /\ op.proto = "update" /\ op.id = id
    BY <2>2, <2>3, <2>4 DEF Op
  <2> HIDE DEF post
  <2>7. CanSign(op, post) /\ Has(p, post)
    BY <1>1, <2>5, <2>6 DEF CanSign, Has, SetFreeBalance
  <2>8. {Signed(op, post)} \in SUBSET Commitment
    BY <2>5, <2>6, <2>7, SignedType DEF TwoMessage
  <2>9. /\ Start(r, p, op, "wait2", post) /\ UNCHANGED <<store, past, held, rsp>>
        /\ SendRequest(r, p, op, post)
    BY <2>1 DEF post
  <2> QED BY <2>5, <2>6, <2>7, <2>8, <2>9, StartKeeps DEF SendRequest
<1>7. CASE RejectInitiator(r, p)
  <2>1. PICK q \in store[p].props :
          /\ Start(r, p, [proto |-> "reject", id |-> q.id], "persist",
                   RemoveProposal(store[p], q.id))
          /\ UNCHANGED <<store, past, held, rsp, net>>
    BY <1>7 DEF RejectInitiator
  <2> DEFINE op == [proto |-> "reject", id |-> q.id]
             post == RemoveProposal(store[p], q.id)
  <2>2. q.id \in AppId BY <1>1, ChannelFields DEF Proposal
  <2>3. post \in Channel /\ Has(p, post)
    BY <1>1, RemoveProposalType DEF Has, SetFreeBalance
  <2>4. op \in Op /\ CanSign(op, post) BY <2>2 DEF Op, CanSign
  <2>5. Start(r, p, op, "persist", post) /\ UNCHANGED <<store, past, held, rsp, net>>
    BY <2>1
  <2> HIDE DEF op, post
  <2> QED BY <2>3, <2>4, <2>5, StartKeeps
<1> QED BY <1>2, <1>3, <1>4, <1>5, <1>6, <1>7 DEF Call

-----------------------------------------------------------------------------
(* Steps of the initiating half.                                            *)

\* A step of the initiating half: it goes on to `half`, with nothing else
\* changed but what its party persists, holds and sends.
LEMMA InitiatorKeeps ==
  ASSUME IInv, NEW r \in Runs, NEW half \in IniHalf, IniFits(half),
         ini[r].pc # "idle",
         ini' = [ini EXCEPT ![r] = half], half.by = ini[r].by, half.pc # "idle",
         IniSettled(half) =>
           SetFreeBalance(half.post) \in held'[half.by] \cup {SetFreeBalance(Opening)},
         \/ UNCHANGED <<store, past>>
         \/ \E c \in Channel : /\ Persist(ini[r].by, c)
                               /\ SetFreeBalance(c) \in held'[ini[r].by] \cup
                                                         {SetFreeBalance(Opening)},
         held' \in [Parties -> SUBSET Commitment],
         \A p \in Parties : held[p] \subseteq held'[p],
         net' \subseteq Messages,
         \A m \in net' \ net : m.n = 1 => m.run = r /\ m.to = Other(ini[r].by),
         locks' \subseteq locks,
         UNCHANGED rsp
  PROVE  IInv'
<1>1. ini[r].by \in Parties /\ Other(ini[r].by) \in Parties
  BY Apart, TwoParties DEF IniHalf
<1>2. /\ ini' \in [Runs -> IniHalf] /\ ini'[r] = half
      /\ \A s \in Runs \ {r} : ini'[s] = ini[s]
  BY Apart
<1>3. /\ store' \in [Parties -> Channel]
      /\ \A p \in Parties : Has(p, store[p])'
      /\ \A F \in past' : F \in past \/ \E p \in Parties : F = store'[p].fb
  <2>1. CASE UNCHANGED <<store, past>> BY <2>1, Apart DEF Has
  <2>2. ASSUME NEW c \in Channel, Persist(ini[r].by, c),
               SetFreeBalance(c) \in held'[ini[r].by] \cup {SetFreeBalance(Opening)}
        PROVE  /\ store' \in [Parties -> Channel]
               /\ \A p \in Parties : Has(p, store[p])'
               /\ \A F \in past' : F \in past \/ \E p \in Parties : F = store'[p].fb
    BY <1>1, <2>2, Persisting, Apart DEF Has
  <2> QED BY <2>1, <2>2
<1>4. IniSettled(half) => Has(ini[r].by, ini[r].post)'
  BY <1>2 DEF Has
<1>5. /\ rsp \in [Runs -> RspHalf] /\ RspFits(rsp[r])
      /\ RspSettled(rsp[r]) => Has(Other(ini[r].by), rsp[r].post)
  BY Apart, HalvesFit DEF Responder
<1>6. Has(Other(ini[r].by), rsp[r].post) => Has(Other(ini[r].by), rsp[r].post)'
  BY <1>1, <1>2 DEF Has
<1> QED BY <1>1, <1>2, <1>3, <1>4, <1>5, <1>6, Apart, RunStep

\* The initiator leaves, after it has persisted c or has persisted nothing.
LEMMA LeaveKeeps ==
  ASSUME IInv, NEW r \in Runs, NEW how \in {"returned", "threw"},
         Leave(r, how),
         \/ UNCHANGED <<store, past>>
         \/ \E c \in Channel : /\ Persist(ini[r].by, c)
                               /\ SetFreeBalance(c) \in held'[ini[r].by] \cup
                                                         {SetFreeBalance(Opening)},
         held' \in [Parties -> SUBSET Commitment],
         \A p \in Parties : held[p] \subseteq held'[p],
         net' \subseteq Messages,
         \A m \in net' \ net : m.n = 1 => m.run = r /\ m.to = Other(ini[r].by),
         ini[r].pc # "idle",
         UNCHANGED rsp
  PROVE  IInv'
<1> DEFINE half == NoHalf(ini[r].by, how)
<1>1. ini[r].by \in Parties /\ how \in IniPc BY Apart DEF IniHalf, IniPc
<1>2. half \in IniHalf /\ IniFits(half) BY <1>1, IdleTypes
<1>3. half.by = ini[r].by /\ half.pc = how /\ ~IniSettled(half)
  BY DEF NoHalf, IniSettled
<1>4. ini' = [ini EXCEPT ![r] = half] /\ locks' \subseteq locks BY DEF Leave
<1> HIDE DEF half
<1> QED BY <1>2, <1>3, <1>4, InitiatorKeeps

LEMMA TimeoutInitiatorKeeps ==
  ASSUME IInv, NEW r \in Runs, TimeoutInitiator(r)
  PROVE  IInv'
BY LeaveKeeps, Apart DEF TimeoutInitiator

\* What both sides sign of the channel the initiator will persist.
LEMMA IniSigns ==
  ASSUME IInv, NEW r \in Runs, ini[r].op.proto \in TwoMessage
  PROVE  Signed(ini[r].op, ini[r].post) \in Commitment
<1>1. ini[r].op \in Op /\ ini[r].post \in Channel BY Apart DEF IniHalf
<1>2. CanSign(ini[r].op, ini[r].post) BY HalvesFit DEF IniFits
<1> QED BY <1>1, <1>2, SignedType

\* A commitment more in the hands of the initiator.
LEMMA InitiatorHolding ==
  ASSUME IInv, NEW r \in Runs, NEW cs \in SUBSET Commitment, InitiatorHolds(r, cs)
  PROVE  /\ held' \in [Parties -> SUBSET Commitment]
         /\ \A q \in Parties : held[q] \subseteq held'[q]
         /\ held'[ini[r].by] = held[ini[r].by] \cup cs
BY Apart DEF InitiatorHolds, IniHalf

\* The initiator has written the commitment and is about to persist.
LEMMA WrittenKeeps ==
  ASSUME IInv, NEW r \in Runs, ini[r].pc = "wait2", ini[r].op.proto \in Writing,
         NEW cs \in SUBSET Commitment, InitiatorHolds(r, cs),
         SetFreeBalance(ini[r].post) \in cs,
         ini' = [ini EXCEPT ![r].pc = "written"], net' \subseteq net,
         UNCHANGED <<store, past, rsp, locks>>
  PROVE  IInv'
<1> DEFINE half == [ini[r] EXCEPT !.pc = "written"]
<1>1. ini[r] \in IniHalf BY Apart
<1>2. /\ half \in IniHalf /\ half.by = ini[r].by /\ half.op = ini[r].op
      /\ half.post = ini[r].post /\ half.pc = "written"
  BY <1>1 DEF IniHalf, IniPc
<1>3. ini' = [ini EXCEPT ![r] = half] BY <1>1, Apart
<1> HIDE DEF half
<1>4. IniFits(half) BY <1>2, HalvesFit DEF IniFits
<1> QED BY <1>2, <1>3, <1>4, InitiatorHolding, InitiatorKeeps, Apart

LEMMA FinishKeeps ==
  ASSUME IInv, NEW r \in Runs, NEW proto \in KeepBalance, proto # "reject",
         Finish(r, proto)
  PROVE  IInv'
<1> DEFINE p == ini[r].by
           post == ini[r].post
           sig == Signed(ini[r].op, ini[r].post)
<1>1. /\ ini[r].pc = "wait2" /\ ini[r].op.proto = proto
      /\ p \in Parties /\ post \in Channel
  BY Apart DEF Finish, IniHalf
<1>2. sig \in Commitment BY <1>1, IniSigns DEF KeepBalance, TwoMessage
<1>3. /\ net' \subseteq net /\ UNCHANGED rsp
      /\ \/ /\ UNCHANGED <<store, past>> \/ Persist(p, post)
            /\ InitiatorHolds(r, {sig})
            /\ Leave(r, "returned")
         \/ Leave(r, "threw") /\ UNCHANGED <<store, past, held>>
  BY DEF Finish
<1>4. Has(p, post)
  BY <1>1, HalvesFit DEF IniSettled
<1> HIDE DEF sig
<1>6. CASE Leave(r, "threw") /\ UNCHANGED <<store, past, held>>
  BY <1>1, <1>3, <1>6, Apart, LeaveKeeps
<1>7. CASE /\ UNCHANGED <<store, past>> \/ Persist(p, post)
           /\ InitiatorHolds(r, {sig})
           /\ Leave(r, "returned")
  <2>1. /\ held' \in [Parties -> SUBSET Commitment]
        /\ \A q \in Parties : held[q] \subseteq held'[q]
    BY <1>2, <1>7, InitiatorHolding
  <2>2. SetFreeBalance(post) \in held'[p] \cup {SetFreeBalance(Opening)}
    BY <1>1, <1>4, <2>1 DEF Has
  <2> QED BY <1>1, <1>3, <1>7, <2>1, <2>2, Apart, LeaveKeeps
<1> QED BY <1>3, <1>6, <1>7

LEMMA ProposePersistKeeps ==
  ASSUME IInv, NEW r \in Runs, ProposePersist(r)
  PROVE  IInv'
<1> DEFINE p == ini[r].by
           post == ini[r].post
           half == [ini[r] EXCEPT !.pc = "wait2"]
<1>1. /\ ini[r] \in IniHalf /\ p \in Parties /\ post \in Channel /\ ini[r].op \in Op
      /\ ini[r].pc = "persist" /\ ini[r].op.proto = "propose"
      /\ CanSign(ini[r].op, post)
  BY Apart, HalvesFit DEF ProposePersist, IniHalf, IniFits
<1>2. /\ half \in IniHalf /\ half.by = p /\ half.op = ini[r].op /\ half.post = post
      /\ half.pc = "wait2"
  BY <1>1 DEF IniHalf, IniPc
<1>3. ini' = [ini EXCEPT ![r] = half]
  BY <1>1, Apart DEF ProposePersist
<1> HIDE DEF half
<1>4. IniFits(half) BY <1>1, <1>2 DEF IniFits
<1>5. SetFreeBalance(post) \in held[p] \cup {SetFreeBalance(Opening)}
  BY <1>1, HalvesFit DEF Has, IniSettled, KeepBalance
<1>6. Persist(p, post) /\ UNCHANGED <<held, rsp, locks>>
  BY DEF ProposePersist
<1>8. /\ net' \subseteq Messages
      /\ \A m \in net' \ net : m.n = 1 => m.run = r /\ m.to = Other(p)
  <2> DEFINE req == Request(r, p, ini[r].op, {Signed(ini[r].op, post)})
  <2>1. req \in Messages BY <1>1, IniSigns, RequestType DEF TwoMessage
  <2>2. req.run = r /\ req.to = Other(p) BY DEF Request, Message
  <2>3. net' = net \cup {req} BY DEF ProposePersist, SendRequest
  <2> HIDE DEF req
  <2> QED BY <2>1, <2>2, <2>3, Apart
<1> QED
  BY <1>1, <1>2, <1>3, <1>4, <1>5, <1>6, <1>8, Apart, InitiatorKeeps

LEMMA UninstallCountersignKeeps ==
  ASSUME IInv, NEW r \in Runs, UninstallCountersign(r)
  PROVE  IInv'
<1> DEFINE fb == SetFreeBalance(ini[r].post)
<1>1. /\ ini[r].pc = "wait2" /\ ini[r].op.proto = "uninstall"
      /\ net' \subseteq net /\ UNCHANGED <<store, past, rsp>>
  BY DEF UninstallCountersign
<1>2. fb \in Commitment BY Apart, FreeBalanceCommitment DEF IniHalf
<1> HIDE DEF fb
<1>3. CASE Leave(r, "threw") /\ UNCHANGED held
  BY <1>1, <1>3, Apart, LeaveKeeps
<1>4. CASE /\ InitiatorHolds(r, {fb})
           /\ ini' = [ini EXCEPT ![r].pc = "written"]
           /\ UNCHANGED locks
  BY <1>1, <1>2, <1>4, WrittenKeeps DEF Writing, fb
<1> QED BY <1>3, <1>4 DEF UninstallCountersign, fb

\* What is written is held.
LEMMA WrittenHas ==
  ASSUME IInv, NEW r \in Runs, ini[r].pc = "written"
  PROVE  /\ ini[r] \in IniHalf /\ ini[r].by \in Parties /\ ini[r].post \in Channel
         /\ SetFreeBalance(ini[r].post) \in held[ini[r].by] \cup {SetFreeBalance(Opening)}
BY Apart, HalvesFit DEF IniHalf, IniSettled, Has

LEMMA UninstallFinishKeeps ==
  ASSUME IInv, NEW r \in Runs, UninstallFinish(r)
  PROVE  IInv'
BY WrittenHas, LeaveKeeps, Apart DEF UninstallFinish

LEMMA InstallFinishKeeps ==
  ASSUME IInv, NEW r \in Runs, InstallFinish(r)
  PROVE  IInv'
<1> DEFINE p == ini[r].by
           c == RemoveProposal(store[p], ini[r].op.q.id)
<1>1. p \in Parties /\ store[p] \in Channel /\ ini[r].pc = "wait4"
  BY Apart DEF InstallFinish, IniHalf
<1>2. c \in Channel /\ SetFreeBalance(c) \in held[p] \cup {SetFreeBalance(Opening)}
  BY <1>1, Apart, RemoveProposalType DEF Has, SetFreeBalance
<1>3. /\ Persist(p, c) /\ Leave(r, "returned")
      /\ net' \subseteq net /\ UNCHANGED <<held, rsp>>
  BY DEF InstallFinish
<1> HIDE DEF c
<1> QED BY <1>1, <1>2, <1>3, Apart, LeaveKeeps

LEMMA RejectPersistKeeps ==
  ASSUME IInv, NEW r \in Runs, RejectPersist(r)
  PROVE  IInv'
<1> DEFINE p == ini[r].by
           c == ini[r].post
           req == Request(r, p, ini[r].op, {})
<1>1. /\ p \in Parties /\ c \in Channel /\ ini[r].op \in Op
      /\ ini[r].pc = "persist" /\ ini[r].op.proto = "reject"
  BY Apart DEF RejectPersist, IniHalf
<1>2. SetFreeBalance(c) \in held[p] \cup {SetFreeBalance(Opening)}
  BY <1>1, HalvesFit DEF IniSettled, KeepBalance, Has
<1>3. /\ Persist(p, c) /\ Leave(r, "returned")
      /\ net' = net \cup {req} /\ UNCHANGED <<held, rsp>>
  BY DEF RejectPersist
<1>4. req \in Messages /\ req.run = r /\ req.to = Other(p)
  BY <1>1, RequestType DEF Request, Message
<1> HIDE DEF req
<1>5. /\ net' \subseteq Messages
      /\ \A m \in net' \ net : m.n = 1 => m.run = r /\ m.to = Other(p)
  BY <1>3, <1>4, Apart
<1> QED BY <1>1, <1>2, <1>3, <1>5, Apart, LeaveKeeps

LEMMA InstallCountersignKeeps ==
  ASSUME IInv, NEW r \in Runs, InstallCountersign(r)
  PROVE  IInv'
<1> DEFINE post == ini[r].post
           ct == Conditional(post)
           both == {ct, SetFreeBalance(post)}
<1>1. /\ ini[r].pc = "wait2" /\ ini[r].op.proto = "install"
      /\ post \in Channel /\ post.apps # <<>>
      /\ UNCHANGED <<store, past, rsp>>
  BY Apart, HalvesFit DEF InstallCountersign, IniHalf, IniFits, CanSign
<1>2. ct \in Commitment /\ both \in SUBSET Commitment
  BY <1>1, ConditionalType, FreeBalanceCommitment
<1>3. PICK m \in net :
        /\ net' = net \ {m}
        /\ \/ /\ InitiatorHolds(r, both)
              /\ ini' = [ini EXCEPT ![r].pc = "written"]
              /\ UNCHANGED locks
           \/ InitiatorHolds(r, {ct} \cap m.sigs) /\ Leave(r, "threw")
  BY DEF InstallCountersign
<1>4. SetFreeBalance(post) \in both OBVIOUS
<1> HIDE DEF ct, both
<1>7. CASE /\ InitiatorHolds(r, both)
           /\ ini' = [ini EXCEPT ![r].pc = "written"]
           /\ UNCHANGED locks
  BY <1>1, <1>2, <1>3, <1>4, <1>7, WrittenKeeps DEF Writing
<1>8. CASE InitiatorHolds(r, {ct} \cap m.sigs) /\ Leave(r, "threw")
  <2>1. {ct} \cap m.sigs \in SUBSET Commitment BY <1>2
  <2> QED BY <1>1, <1>3, <1>8, <2>1, InitiatorHolding, Apart, LeaveKeeps
<1> QED BY <1>3, <1>7, <1>8

LEMMA InstallPersistKeeps ==
  ASSUME IInv, NEW r \in Runs, InstallPersist(r)
  PROVE  IInv'
<1> DEFINE post == ini[r].post
           rep == Reply(r, 3, Responder(r), {SetFreeBalance(post)})
           half == [ini[r] EXCEPT !.pc = "wait4"]
<1>1. /\ ini[r].pc = "written" /\ Persist(ini[r].by, post)
      /\ ini' = [ini EXCEPT ![r].pc = "wait4"] /\ net' = net \cup {rep}
      /\ UNCHANGED <<held, rsp, locks>>
  BY DEF InstallPersist
<1>2. /\ half \in IniHalf /\ half.by = ini[r].by /\ half.op = ini[r].op
      /\ half.post = post /\ half.pc = "wait4"
      /\ ini' = [ini EXCEPT ![r] = half]
  BY <1>1, WrittenHas, Apart DEF IniHalf, IniPc
<1>3. rep \in Messages /\ rep.n = 3
  <2>1. {SetFreeBalance(post)} \in SUBSET Commitment
    BY <1>1, WrittenHas, FreeBalanceCommitment
  <2>2. Responder(r) \in Parties BY <1>1, WrittenHas, TwoParties DEF Responder
  <2> QED BY <2>1, <2>2, ReplyType DEF Reply, Message
<1> HIDE DEF rep, half
<1>4. IniFits(half) /\ ~IniSettled(half)
  BY <1>2, HalvesFit DEF IniFits, IniSettled
<1>5. net' \subseteq Messages /\ \A m \in net' \ net : m.n # 1
  BY <1>1, <1>3, Apart
<1> QED BY <1>1, <1>2, <1>4, <1>5, WrittenHas, InitiatorKeeps, Apart

LEMMA InitiatorStepKeeps ==
  ASSUME IInv, NEW r \in Runs, InitiatorStep(r)
  PROVE  IInv'
<1>1. CASE ProposeFinish(r)
  BY <1>1, FinishKeeps DEF ProposeFinish, KeepBalance
<1>3. CASE TakeActionFinish(r)
  BY <1>3, FinishKeeps DEF TakeActionFinish, KeepBalance
<1>4. CASE UpdateFinish(r)
  BY <1>4, FinishKeeps DEF UpdateFinish, KeepBalance
<1> QED
  BY <1>1, <1>3, <1>4, ProposePersistKeeps, InstallCountersignKeeps,
     InstallPersistKeeps, InstallFinishKeeps, UninstallCountersignKeeps,
     UninstallFinishKeeps, RejectPersistKeeps, TimeoutInitiatorKeeps
  DEF InitiatorStep

-----------------------------------------------------------------------------
(* Steps of the responding half.                                            *)

\* The responding half of run r goes on to `half`, with nothing else changed
\* but what its party persists and holds.
LEMMA ResponderKeeps ==
  ASSUME IInv, NEW r \in Runs, NEW half \in RspHalf, RspFits(half),
         ini[r].pc # "idle",
         rsp' = [rsp EXCEPT ![r] = half] \/ rsp' = rsp,
         RspSettled(half) =>
           SetFreeBalance(half.post) \in held'[Responder(r)] \cup {SetFreeBalance(Opening)},
         \/ UNCHANGED <<store, past>>
         \/ \E c \in Channel : /\ Persist(Responder(r), c)
                               /\ SetFreeBalance(c) \in held'[Responder(r)] \cup
                                                         {SetFreeBalance(Opening)},
         held' \in [Parties -> SUBSET Commitment],
         \A p \in Parties : held[p] \subseteq held'[p],
         net' \subseteq Messages,
         \A m \in net' \ net : m.n # 1,
         UNCHANGED <<ini, locks>>
  PROVE  IInv'
<1>1. ini[r] \in IniHalf /\ ini[r].by \in Parties /\ Responder(r) \in Parties
  BY Apart, TwoParties DEF IniHalf, Responder
<1>2. /\ rsp' \in [Runs -> RspHalf]
      /\ rsp'[r] = half \/ rsp'[r] = rsp[r]
      /\ \A s \in Runs \ {r} : rsp'[s] = rsp[s]
  BY Apart
<1>3. /\ store' \in [Parties -> Channel]
      /\ \A p \in Parties : Has(p, store[p])'
      /\ \A F \in past' : F \in past \/ \E p \in Parties : F = store'[p].fb
  <2>1. CASE UNCHANGED <<store, past>> BY <2>1, Apart DEF Has
  <2>2. ASSUME NEW c \in Channel, Persist(Responder(r), c),
               SetFreeBalance(c) \in held'[Responder(r)] \cup {SetFreeBalance(Opening)}
        PROVE  /\ store' \in [Parties -> Channel]
               /\ \A p \in Parties : Has(p, store[p])'
               /\ \A F \in past' : F \in past \/ \E p \in Parties : F = store'[p].fb
    BY <1>1, <2>2, Persisting, Apart DEF Has
  <2> QED BY <2>1, <2>2
<1>4. RspFits(rsp'[r]) BY <1>2, HalvesFit
<1>5. RspSettled(rsp'[r]) => Has(Other(ini[r].by), rsp[r].post)'
  <2>1. CASE rsp'[r] = half
    BY <1>1, <2>1 DEF Has, Responder
  <2>2. CASE rsp'[r] = rsp[r]
    BY <1>1, <2>2, HalvesFit DEF Has, Responder
  <2> QED BY <1>2, <2>1, <2>2
<1>6. IniFits(ini[r]) /\ (IniSettled(ini[r]) => Has(ini[r].by, ini[r].post))
  BY HalvesFit
<1>7. Has(ini[r].by, ini[r].post) => Has(ini[r].by, ini[r].post)'
  BY <1>1 DEF Has
<1> QED
  BY <1>1, <1>2, <1>3, <1>4, <1>5, <1>6, <1>7, Apart, RunStep

\* The first message of a run.
LEMMA FirstMessage ==
  ASSUME IInv, NEW m \in net, m.n = 1
  PROVE  /\ m \in Messages /\ m.run \in Runs /\ m.op \in Op
         /\ m.to \in Parties /\ m.to = Responder(m.run)
         /\ ini[m.run].pc # "idle"
         /\ store[m.to] \in Channel /\ Has(m.to, store[m.to])
BY Apart DEF IInv, Begun, Messages

LEMMA RespondKeeps ==
  ASSUME IInv, NEW m \in net, m.n = 1, NEW possible, NEW post \in Channel,
         CanSign(m.op, post), m.op.proto \in TwoMessage \cup {"reject"},
         m.op.proto \in KeepBalance => Has(m.to, post),
         Respond(m, possible, post)
  PROVE  IInv'
<1> DEFINE half == [pc |-> "verified", op |-> m.op, post |-> post]
           r == m.run
<1>1. half \in RspHalf /\ half.op = m.op /\ half.post = post /\ half.pc = "verified"
  BY FirstMessage DEF RspHalf, RspPc
<1>2. rsp' = [rsp EXCEPT ![r] = half] \/ rsp' = rsp
  BY DEF Respond
<1>3. net' \subseteq net /\ UNCHANGED <<store, past, held, ini, locks>>
  BY DEF Respond
<1> HIDE DEF half
<1>4. RspFits(half) BY <1>1 DEF RspFits
<1>5. RspSettled(half) =>
        SetFreeBalance(half.post) \in held'[Responder(r)] \cup {SetFreeBalance(Opening)}
  BY <1>1, <1>3, FirstMessage DEF RspSettled, Has
<1> QED BY <1>1, <1>2, <1>3, <1>4, <1>5, FirstMessage, Apart, ResponderKeeps

\* A request that cannot be served starts nothing.
LEMMA RefuseKeeps ==
  ASSUME IInv, net' \subseteq net, UNCHANGED <<store, past, held, ini, rsp, locks>>
  PROVE  IInv'
<1>1. TypeOK' BY DEF IInv, TypeOK
<1>2. Fits' BY DEF IInv, Fits, IniFits, RspFits
<1>3. Enforceable' BY DEF IInv, Enforceable
<1>4. IniHas' /\ RspHas'
  BY DEF IInv, IniHas, RspHas, IniSettled, RspSettled, Has, Responder
<1>5. Begun' BY DEF IInv, Begun, Responder
<1> QED BY <1>1, <1>2, <1>3, <1>4, <1>5 DEF IInv

LEMMA InstallResponderKeeps ==
  ASSUME IInv, NEW m \in net, InstallResponder(m)
  PROVE  IInv'
<1> DEFINE me == m.to
           r == m.run
           post == InstallApp(store[me], m.op.q)
           ct == Conditional(post)
           rep == Reply(r, 2, Other(me), {ct, SetFreeBalance(post)})
           half == [pc |-> "wait3", op |-> m.op, post |-> post]
<1>1. /\ m.op.proto = "install" /\ m.n = 1 /\ m.op.q \in Proposal
      /\ m.op \in Op /\ r \in Runs /\ me \in Parties /\ ini[r].pc # "idle"
      /\ store[me] \in Channel
  BY FirstMessage, OpFields DEF InstallResponder
<1>2. CASE /\ CanInstallApp(store[me], m.op.q)
           /\ rsp' = [rsp EXCEPT ![r] = half]
           /\ held' = [held EXCEPT ![me] = @ \cup {ct}]
           /\ net' = (net \ {m}) \cup {rep}
           /\ UNCHANGED <<store, past, ini, locks>>
  <2>1. post \in Channel /\ post.apps # <<>>
    BY <1>1, <1>2, InstallAppType
  <2> HIDE DEF post
  <2>2. ct \in Commitment /\ SetFreeBalance(post) \in Commitment
    BY <2>1, ConditionalType, FreeBalanceCommitment
  <2> HIDE DEF ct
  <2>3. rep \in Messages /\ rep.n = 2
    BY <1>1, <2>2, TwoParties, ReplyType DEF Reply, Message
  <2>4. half \in RspHalf /\ RspFits(half) /\ ~RspSettled(half)
    BY <1>1, <2>1 DEF RspHalf, RspPc, CanSign, RspFits, RspSettled
  <2> HIDE DEF rep, half
  <2>5. /\ held' \in [Parties -> SUBSET Commitment]
        /\ \A p \in Parties : held[p] \subseteq held'[p]
    BY <1>1, <1>2, <2>2, Apart
  <2>6. net' \subseteq Messages /\ \A n \in net' \ net : n.n # 1
    BY <1>2, <2>3, Apart
  <2> QED BY <1>1, <1>2, <2>4, <2>5, <2>6, Apart, ResponderKeeps
<1>3. CASE net' = net \ {m} /\ UNCHANGED <<store, past, held, ini, rsp, locks>>
  BY <1>3, RefuseKeeps
<1> QED BY <1>2, <1>3 DEF InstallResponder

LEMMA ReceiveKeeps ==
  ASSUME IInv, NEW m \in net, Receive(m)
  PROVE  IInv'
<1> DEFINE c == store[m.to]
<1>1. CASE ProposeResponder(m)
  <2> DEFINE q == NextProposal(c, m.op.def, Other(m.to), m.op.own, m.op.other)
             post == AddProposal(c, q)
  <2>1. m.n = 1 /\ m.op.proto = "propose" /\ Respond(m, TRUE, post)
    BY <1>1 DEF ProposeResponder
  <2>2. q \in Proposal
    BY <2>1, FirstMessage, OpFields, TwoParties, NextProposalType
  <2> HIDE DEF q
  <2>3. post \in Channel /\ Has(m.to, post)
    BY <2>1, <2>2, FirstMessage, AddProposalType DEF Has, SetFreeBalance
  <2> HIDE DEF post
  <2>4. CanSign(m.op, post) BY <2>1 DEF CanSign
  <2> QED BY <2>1, <2>3, <2>4, RespondKeeps DEF TwoMessage
<1>2. CASE UninstallResponder(m)
  <2> DEFINE post == UninstallApp(c, m.op.id)
  <2>1. /\ m.n = 1 /\ m.op.proto = "uninstall"
        /\ \/ HasApp(c, m.op.id) /\ Respond(m, TRUE, post)
           \/ Respond(m, FALSE, Blank)
    BY <1>2 DEF UninstallResponder
  <2>2. HasApp(c, m.op.id) => post \in Channel
    BY <2>1, FirstMessage, OpFields, UninstallAppType
  <2> HIDE DEF post
  <2>3. CanSign(m.op, post) BY <2>1 DEF CanSign
  <2>4. CASE HasApp(c, m.op.id) /\ Respond(m, TRUE, post)
    BY <2>1, <2>2, <2>3, <2>4, RespondKeeps DEF TwoMessage, KeepBalance
  <2>5. CASE Respond(m, FALSE, Blank)
    BY <2>5, RefuseKeeps DEF Respond
  <2> QED BY <2>1, <2>4, <2>5
<1>3. CASE TakeActionResponder(m)
  <2> DEFINE post == ApplyAction(c, m.op.id, m.op.amount)
  <2>1. /\ m.n = 1 /\ m.op.proto = "takeAction"
        /\ \/ /\ HasApp(c, m.op.id) /\ m.op.amount <= GetApp(c, m.op.id).st
              /\ Respond(m, TRUE, post)
           \/ Respond(m, FALSE, Blank)
    BY <1>3 DEF TakeActionResponder
  <2>2. CASE /\ HasApp(c, m.op.id) /\ m.op.amount <= GetApp(c, m.op.id).st
             /\ Respond(m, TRUE, post)
    <3>1. /\ post \in Channel /\ HasApp(post, m.op.id) /\ post.fb = c.fb
      BY <2>1, <2>2, FirstMessage, OpFields, ApplyActionType
    <3> HIDE DEF post
    <3>2. CanSign(m.op, post) /\ Has(m.to, post)
      BY <2>1, <3>1, FirstMessage DEF CanSign, Has, SetFreeBalance
    <3> QED BY <2>1, <2>2, <3>1, <3>2, RespondKeeps DEF TwoMessage
  <2>3. CASE Respond(m, FALSE, Blank)
    BY <2>3, RefuseKeeps DEF Respond
  <2> QED BY <2>1, <2>2, <2>3
<1>4. CASE UpdateResponder(m)
  <2> DEFINE post == SetState(c, m.op.id, m.op.st)
  <2>1. /\ m.n = 1 /\ m.op.proto = "update"
        /\ \/ /\ HasApp(c, m.op.id) /\ m.op.st <= Pot(GetApp(c, m.op.id))
              /\ Respond(m, TRUE, post)
           \/ Respond(m, FALSE, Blank)
    BY <1>4 DEF UpdateResponder
  <2>2. CASE /\ HasApp(c, m.op.id) /\ m.op.st <= Pot(GetApp(c, m.op.id))
             /\ Respond(m, TRUE, post)
    <3>1. /\ post \in Channel /\ HasApp(post, m.op.id) /\ post.fb = c.fb
      BY <2>1, <2>2, FirstMessage, OpFields, SetStateType
    <3> HIDE DEF post
    <3>2. CanSign(m.op, post) /\ Has(m.to, post)
      BY <2>1, <3>1, FirstMessage DEF CanSign, Has, SetFreeBalance
    <3> QED BY <2>1, <2>2, <3>1, <3>2, RespondKeeps DEF TwoMessage
  <2>3. CASE Respond(m, FALSE, Blank)
    BY <2>3, RefuseKeeps DEF Respond
  <2> QED BY <2>1, <2>2, <2>3
<1>5. CASE RejectReceived(m)
  <2> DEFINE post == RemoveProposal(c, m.op.id)
             possible == HasProposal(c, m.op.id) \/ HasApp(c, m.op.id)
  <2>1. m.n = 1 /\ m.op.proto = "reject" /\ Respond(m, possible, post)
    BY <1>5 DEF RejectReceived
  <2>2. post \in Channel /\ Has(m.to, post)
    BY <2>1, FirstMessage, RemoveProposalType DEF Has, SetFreeBalance
  <2> HIDE DEF post, possible
  <2>3. CanSign(m.op, post) BY <2>1 DEF CanSign
  <2> QED BY <2>1, <2>2, <2>3, RespondKeeps
<1>6. CASE IgnoreUnexpected(m)
  BY <1>6, RefuseKeeps DEF IgnoreUnexpected
<1> QED
  BY <1>1, <1>2, <1>3, <1>4, <1>5, <1>6, InstallResponderKeeps DEF Receive

\* A commitment more in the hands of the responder.
LEMMA ResponderHolding ==
  ASSUME IInv, NEW r \in Runs, NEW cs \in SUBSET Commitment, ResponderHolds(r, cs)
  PROVE  /\ held' \in [Parties -> SUBSET Commitment]
         /\ \A q \in Parties : held[q] \subseteq held'[q]
         /\ held'[Responder(r)] = held[Responder(r)] \cup cs
BY Apart, TwoParties DEF ResponderHolds, IniHalf, Responder

\* The responder has written the commitment and is about to persist.
LEMMA RspWrittenKeeps ==
  ASSUME IInv, NEW r \in Runs, rsp[r].pc # "idle", rsp[r].op.proto \in Writing,
         ResponderHolds(r, {SetFreeBalance(rsp[r].post)}),
         rsp' = [rsp EXCEPT ![r].pc = "written"], net' \subseteq net,
         UNCHANGED <<store, past, ini, locks>>
  PROVE  IInv'
<1> DEFINE half == [rsp[r] EXCEPT !.pc = "written"]
<1>1. rsp[r] \in RspHalf /\ ini[r].pc # "idle" BY Apart DEF IInv, Begun
<1>2. /\ half \in RspHalf /\ half.op = rsp[r].op
      /\ half.post = rsp[r].post /\ half.pc = "written"
  BY <1>1 DEF RspHalf, RspPc
<1>3. rsp' = [rsp EXCEPT ![r] = half] BY <1>1, Apart
<1> HIDE DEF half
<1>4. RspFits(half) BY <1>2, HalvesFit DEF RspFits
<1>5. {SetFreeBalance(rsp[r].post)} \in SUBSET Commitment
  BY <1>1, FreeBalanceCommitment DEF RspHalf
<1>6. /\ held' \in [Parties -> SUBSET Commitment]
      /\ \A q \in Parties : held[q] \subseteq held'[q]
      /\ SetFreeBalance(half.post) \in held'[Responder(r)]
  BY <1>2, <1>5, ResponderHolding
<1>7. net' \subseteq Messages /\ \A m \in net' \ net : m.n # 1 BY Apart
<1> QED BY <1>1, <1>2, <1>3, <1>4, <1>6, <1>7, ResponderKeeps

LEMMA UninstallWriteKeeps ==
  ASSUME IInv, NEW r \in Runs, UninstallWrite(r)
  PROVE  IInv'
<1>1. /\ rsp[r].pc = "verified" /\ rsp[r].op.proto = "uninstall"
      /\ Signed(rsp[r].op, rsp[r].post) = SetFreeBalance(rsp[r].post)
  BY DEF UninstallWrite, Signed
<1> QED BY <1>1, RspWrittenKeeps DEF UninstallWrite, Writing

\* The responder is done with the run.
LEMMA RspLeaves ==
  ASSUME IInv, NEW r \in Runs
  PROVE  /\ DoneRsp \in RspHalf /\ RspFits(DoneRsp) /\ ~RspSettled(DoneRsp)
         /\ rsp[r] \in RspHalf /\ rsp[r].post \in Channel /\ rsp[r].op \in Op
         /\ Responder(r) \in Parties /\ ini[r].by \in Parties
         /\ rsp[r].pc # "idle" => ini[r].pc # "idle"
BY Apart, IdleTypes, TwoParties DEF RspHalf, IniHalf, Responder, IInv, Begun

LEMMA PersistAndReplyKeeps ==
  ASSUME IInv, NEW r \in Runs, PersistAndReply(r)
  PROVE  IInv'
<1> DEFINE me == Responder(r)
           op == rsp[r].op
           post == rsp[r].post
           sig == Signed(op, post)
           rep == Reply(r, 2, ini[r].by, {sig})
<1>1. /\ op \in Op /\ post \in Channel /\ CanSign(op, post) /\ op.proto # "install"
      /\ rsp[r].pc = IF op.proto = "uninstall" THEN "written" ELSE "verified"
      /\ op.proto \in TwoMessage \cup {"reject"}
      /\ me \in Parties /\ ini[r].by \in Parties
  BY RspLeaves, HalvesFit DEF PersistAndReply, RspFits, Writing, TwoMessage
<1>2. ini[r].pc # "idle" BY <1>1 DEF IInv, Begun
<1>3. /\ Persist(me, post)
      /\ rsp' = [rsp EXCEPT ![r] = DoneRsp] /\ UNCHANGED <<ini, locks>>
      /\ IF op.proto = "reject"
           THEN UNCHANGED <<held, net>>
           ELSE ResponderHolds(r, {sig}) /\ net' = net \cup {rep}
  BY DEF PersistAndReply
<1>4. Has(me, post)
  BY <1>1, HalvesFit DEF RspSettled, KeepBalance, TwoMessage
<1>5. CASE op.proto = "reject"
  <2>1. SetFreeBalance(post) \in held'[me] \cup {SetFreeBalance(Opening)}
    BY <1>3, <1>4, <1>5 DEF Has
  <2> QED
    BY <1>1, <1>2, <1>3, <1>5, <2>1, RspLeaves, Apart, ResponderKeeps
<1>6. CASE op.proto # "reject"
  <2>1. sig \in Commitment BY <1>1, <1>6, SignedType
  <2> HIDE DEF sig
  <2>3. /\ held' \in [Parties -> SUBSET Commitment]
        /\ \A p \in Parties : held[p] \subseteq held'[p]
    BY <1>3, <1>6, <2>1, ResponderHolding
  <2>4. SetFreeBalance(post) \in held'[me] \cup {SetFreeBalance(Opening)}
    BY <1>1, <1>4, <2>3 DEF Has
  <2>5. rep \in Messages /\ rep.n = 2
    BY <1>1, <2>1, ReplyType DEF Reply, Message
  <2> HIDE DEF rep
  <2>6. net' \subseteq Messages /\ \A m \in net' \ net : m.n # 1
    BY <1>3, <1>6, <2>5, Apart
  <2> QED
    BY <1>1, <1>2, <1>3, <2>3, <2>4, <2>6, RspLeaves, Apart, ResponderKeeps
<1> QED BY <1>5, <1>6

LEMMA InstallWriteKeeps ==
  ASSUME IInv, NEW r \in Runs, InstallWrite(r)
  PROVE  IInv'
<1>1. /\ rsp[r].pc = "wait3" /\ rsp[r].op.proto = "install"
      /\ net' \subseteq net /\ UNCHANGED <<store, past, ini, locks>>
  BY HalvesFit DEF InstallWrite, RspFits
<1>2. CASE /\ ResponderHolds(r, {SetFreeBalance(rsp[r].post)})
           /\ rsp' = [rsp EXCEPT ![r].pc = "written"]
  BY <1>1, <1>2, RspWrittenKeeps DEF Writing
<1>3. CASE rsp' = [rsp EXCEPT ![r] = DoneRsp] /\ UNCHANGED held
  BY <1>1, <1>3, RspLeaves, Apart, ResponderKeeps
<1> QED BY <1>2, <1>3 DEF InstallWrite

LEMMA InstallCompleteKeeps ==
  ASSUME IInv, NEW r \in Runs, InstallComplete(r)
  PROVE  IInv'
<1> DEFINE me == Responder(r)
           post == rsp[r].post
           c == RemoveProposal(post, EventApp(rsp[r].op, post))
           ack == Reply(r, 4, ini[r].by, {})
<1>1. /\ post \in Channel /\ rsp[r].pc = "written" /\ ini[r].pc # "idle"
      /\ me \in Parties /\ ini[r].by \in Parties /\ Has(me, post)
  BY RspLeaves, HalvesFit DEF InstallComplete, RspSettled
<1>3. /\ Persist(me, c) /\ net' = net \cup {ack}
      /\ rsp' = [rsp EXCEPT ![r] = DoneRsp] /\ UNCHANGED <<held, ini, locks>>
  BY DEF InstallComplete
<1>5. c \in Channel /\ SetFreeBalance(c) = SetFreeBalance(post)
  BY <1>1, RemoveProposalType DEF SetFreeBalance
<1>6. ack \in Messages /\ ack.n = 4
  BY <1>1, ReplyType DEF Reply, Message
<1> HIDE DEF c, ack
<1>7. SetFreeBalance(c) \in held'[me] \cup {SetFreeBalance(Opening)}
  BY <1>1, <1>3, <1>5 DEF Has
<1>8. net' \subseteq Messages /\ \A n \in net' \ net : n.n # 1
  BY <1>3, <1>6, Apart
<1> QED
  BY <1>1, <1>3, <1>5, <1>7, <1>8, RspLeaves, Apart, ResponderKeeps

LEMMA ResponderStepKeeps ==
  ASSUME IInv, NEW r \in Runs, ResponderStep(r)
  PROVE  IInv'
<1>1. CASE TimeoutResponder(r)
  <2>1. ini[r].pc # "idle" BY <1>1 DEF TimeoutResponder, IInv, Begun
  <2> QED
    BY <1>1, <2>1, RspLeaves, Apart, ResponderKeeps DEF TimeoutResponder
<1> QED
  BY <1>1, UninstallWriteKeeps, PersistAndReplyKeeps, InstallWriteKeeps,
     InstallCompleteKeeps DEF ResponderStep

-----------------------------------------------------------------------------
(* The rest, and the theorems.                                              *)

\* What a restart makes of a half.
IniCrashed(half) ==
  IF half.pc = "written" THEN [half EXCEPT !.pc = "torn"] ELSE NoHalf(half.by, "crashed")

RspCrashed(half) ==
  IF half.pc = "written" THEN [half EXCEPT !.pc = "torn"] ELSE DoneRsp

LEMMA CrashedHalves ==
  ASSUME IInv, NEW r \in Runs
  PROVE  /\ IniCrashed(ini[r]) \in IniHalf /\ IniFits(IniCrashed(ini[r]))
         /\ ~IniSettled(IniCrashed(ini[r])) /\ IniCrashed(ini[r]).by = ini[r].by
         /\ IniCrashed(ini[r]).pc \in {"crashed", "torn"}
         /\ IniCrashed(ini[r]).pc = "torn" => ini[r].pc = "written"
         /\ RspCrashed(rsp[r]) \in RspHalf /\ RspFits(RspCrashed(rsp[r]))
         /\ ~RspSettled(RspCrashed(rsp[r]))
         /\ RspCrashed(rsp[r]).pc \in {"done", "torn"}
         /\ RspCrashed(rsp[r]).pc = "torn" => rsp[r].pc = "written"
<1>1. ini[r] \in IniHalf /\ rsp[r] \in RspHalf BY Apart
<1>2. ini[r].by \in Parties BY <1>1 DEF IniHalf
<1>3. /\ IniCrashed(ini[r]) \in IniHalf /\ IniFits(IniCrashed(ini[r]))
      /\ ~IniSettled(IniCrashed(ini[r])) /\ IniCrashed(ini[r]).by = ini[r].by
      /\ IniCrashed(ini[r]).pc \in {"crashed", "torn"}
      /\ IniCrashed(ini[r]).pc = "torn" => ini[r].pc = "written"
  <2>1. CASE ini[r].pc = "written"
    <3> DEFINE half == [ini[r] EXCEPT !.pc = "torn"]
    <3>1. IniCrashed(ini[r]) = half BY <2>1 DEF IniCrashed
    <3>2. /\ half \in IniHalf /\ half.pc = "torn" /\ half.by = ini[r].by
          /\ half.op = ini[r].op /\ half.post = ini[r].post
      BY <1>1 DEF IniHalf, IniPc
    <3> HIDE DEF half
    <3>3. IniFits(half) /\ ~IniSettled(half)
      BY <3>2, HalvesFit DEF IniFits, IniSettled
    <3> QED BY <2>1, <3>1, <3>2, <3>3
  <2>2. CASE ini[r].pc # "written"
    <3> DEFINE half == NoHalf(ini[r].by, "crashed")
    <3>1. IniCrashed(ini[r]) = half /\ half.pc = "crashed" /\ half.by = ini[r].by
      BY <2>2 DEF IniCrashed, NoHalf
    <3>2. half \in IniHalf /\ IniFits(half) BY <1>2, IdleTypes DEF IniPc
    <3> HIDE DEF half
    <3>3. ~IniSettled(half) BY <3>1 DEF IniSettled
    <3> QED BY <3>1, <3>2, <3>3
  <2> QED BY <2>1, <2>2
<1>4. /\ RspCrashed(rsp[r]) \in RspHalf /\ RspFits(RspCrashed(rsp[r]))
      /\ ~RspSettled(RspCrashed(rsp[r]))
      /\ RspCrashed(rsp[r]).pc \in {"done", "torn"}
      /\ RspCrashed(rsp[r]).pc = "torn" => rsp[r].pc = "written"
  <2>1. CASE rsp[r].pc = "written"
    <3> DEFINE half == [rsp[r] EXCEPT !.pc = "torn"]
    <3>1. RspCrashed(rsp[r]) = half BY <2>1 DEF RspCrashed
    <3>2. /\ half \in RspHalf /\ half.pc = "torn"
          /\ half.op = rsp[r].op /\ half.post = rsp[r].post
      BY <1>1 DEF RspHalf, RspPc
    <3> HIDE DEF half
    <3>3. RspFits(half) /\ ~RspSettled(half)
      BY <3>2, HalvesFit DEF RspFits, RspSettled
    <3> QED BY <2>1, <3>1, <3>2, <3>3
  <2>2. CASE rsp[r].pc # "written"
    <3>1. RspCrashed(rsp[r]) = DoneRsp /\ DoneRsp.pc = "done"
      BY <2>2 DEF RspCrashed, DoneRsp
    <3> QED BY <3>1, IdleTypes
  <2> QED BY <2>1, <2>2
<1> QED BY <1>3, <1>4

\* A restart of p: its halves end, and nothing else changes.
LEMMA CrashIs ==
  ASSUME IInv, NEW p \in Parties, Crash(p)
  PROVE  /\ \A r \in Runs :
              /\ \/ ini'[r] = ini[r]
                 \/ Active(r) /\ ini'[r] = IniCrashed(ini[r])
              /\ \/ rsp'[r] = rsp[r]
                 \/ /\ rsp[r].pc \in {"verified", "wait3", "written"}
                    /\ rsp'[r] = RspCrashed(rsp[r])
         /\ ini' \in [Runs -> IniHalf] /\ rsp' \in [Runs -> RspHalf]
         /\ UNCHANGED <<store, past, held, net, locks>>
<1> DEFINE mine(r) == Active(r) /\ ini[r].by = p
           its(r)  == Responder(r) = p /\ rsp[r].pc \in {"verified", "wait3", "written"}
<1>1. /\ ini' = [r \in Runs |-> IF ~mine(r) THEN ini[r] ELSE IniCrashed(ini[r])]
      /\ rsp' = [r \in Runs |-> IF ~its(r) THEN rsp[r] ELSE RspCrashed(rsp[r])]
      /\ UNCHANGED <<store, past, held, net, locks>>
  BY DEF Crash, IniCrashed, RspCrashed
<1>2. /\ \A r \in Runs : IniCrashed(ini[r]) \in IniHalf /\ RspCrashed(rsp[r]) \in RspHalf
      /\ ini \in [Runs -> IniHalf] /\ rsp \in [Runs -> RspHalf]
  BY Apart, CrashedHalves
<1>3. \A r \in Runs : /\ mine(r) => Active(r)
                      /\ its(r) => rsp[r].pc \in {"verified", "wait3", "written"}
  OBVIOUS
<1> HIDE DEF mine, its
<1> QED BY <1>1, <1>2, <1>3

LEMMA CrashKeeps ==
  ASSUME IInv, NEW p \in Parties, Crash(p)
  PROVE  IInv'
<1>1. \A r \in Runs :
        /\ ini'[r].by = ini[r].by /\ Responder(r)' = Responder(r)
        /\ IniFits(ini'[r]) /\ RspFits(rsp'[r])
        /\ IniSettled(ini'[r]) => ini'[r] = ini[r]
        /\ RspSettled(rsp'[r]) => rsp'[r] = rsp[r]
        /\ ini[r].pc # "idle" => ini'[r].pc # "idle"
        /\ rsp'[r].pc # "idle" => rsp[r].pc # "idle"
  BY CrashIs, CrashedHalves, HalvesFit DEF Responder
<1>2. /\ UNCHANGED <<store, past, held, net, locks>>
      /\ ini' \in [Runs -> IniHalf] /\ rsp' \in [Runs -> RspHalf]
  BY CrashIs
<1>7. TypeOK'
  BY <1>2 DEF IInv, TypeOK, IniHalf, RspHalf
<1>8. Fits' BY <1>1 DEF Fits, IniFits, RspFits
<1>10. Enforceable' BY <1>2 DEF IInv, Enforceable
<1>11. IniHas'
  <2>1. ASSUME NEW r \in Runs, IniSettled(ini'[r])
        PROVE  Has(ini[r].by, ini[r].post)'
    BY <1>1, <1>2, <2>1, HalvesFit DEF Has
  <2> QED BY <2>1 DEF IniHas, IniSettled
<1>12. RspHas'
  <2>1. ASSUME NEW r \in Runs, RspSettled(rsp'[r])
        PROVE  Has(Responder(r), rsp[r].post)'
    BY <1>1, <1>2, <2>1, HalvesFit DEF Has
  <2> QED BY <2>1 DEF RspHas, RspSettled
<1>13. Begun'
  <2>1. Begun BY DEF IInv
  <2>3. \A r \in Runs : rsp'[r].pc # "idle" => ini'[r].pc # "idle"
    BY <1>1, <2>1 DEF Begun
  <2>4. ASSUME NEW m \in net, m.n = 1
        PROVE  m.to = Responder(m.run)' /\ ini'[m.run].pc # "idle"
    <3>1. m.run \in Runs BY Apart DEF Messages
    <3>2. m.to = Responder(m.run) /\ ini[m.run].pc # "idle" BY <2>1, <2>4 DEF Begun
    <3> QED BY <1>1, <3>1, <3>2
  <2> QED BY <1>2, <2>3, <2>4 DEF Begun
<1> QED BY <1>7, <1>8, <1>10, <1>11, <1>12, <1>13 DEF IInv

LEMMA InitIInv == Init => IInv
<1> SUFFICES ASSUME Init PROVE IInv OBVIOUS
<1>1. /\ store \in [Parties -> Channel] /\ held \in [Parties -> SUBSET Commitment]
      /\ \A p \in Parties : store[p] = Opening
      /\ past \subseteq FreeBalance
  BY ConstantsType, ChannelFields DEF Init
<1>2. \A r \in Runs : /\ ini[r] = IdleIni /\ rsp[r] = IdleRsp
                      /\ ini[r].pc = "idle" /\ rsp[r].pc = "idle"
                      /\ CanSign(ini[r].op, ini[r].post) /\ CanSign(rsp[r].op, rsp[r].post)
  BY BlankType DEF Init, IdleIni, IdleRsp, NoHalf
<1>3. ini \in [Runs -> IniHalf] /\ rsp \in [Runs -> RspHalf]
  BY IdleTypes DEF Init
<1>4. TypeOK
  BY <1>1, <1>3 DEF Init, TypeOK, IniHalf, RspHalf
<1> QED
  BY <1>1, <1>2, <1>4
  DEF IInv, Fits, IniFits, RspFits, Enforceable, IniHas, RspHas, IniSettled,
      RspSettled, Begun, Init

LEMMA NextIInv == IInv /\ [Next]_vars => IInv'
<1> SUFFICES ASSUME IInv, [Next]_vars PROVE IInv' OBVIOUS
<1>1. CASE UNCHANGED vars
  BY <1>1, RefuseKeeps DEF vars
<1>2. ASSUME NEW m \in net, Lose(m) PROVE IInv'
  BY <1>2, RefuseKeeps DEF Lose
<1>3. ASSUME NEW k \in locks, LeaseExpires(k) PROVE IInv'
  <2>1. locks' \subseteq locks /\ UNCHANGED <<store, past, held, ini, rsp, net>>
    BY <1>3 DEF LeaseExpires
  <2>2. TypeOK' BY <2>1 DEF IInv, TypeOK
  <2>3. (Fits /\ Enforceable)'
    BY <2>1 DEF IInv, Fits, IniFits, RspFits, Enforceable
  <2>4. IniHas' /\ RspHas' /\ Begun'
    BY <2>1 DEF IInv, IniHas, RspHas, IniSettled, RspSettled, Begun, Has, Responder
  <2> QED BY <2>2, <2>3, <2>4 DEF IInv
<1> QED
  BY <1>1, <1>2, <1>3, CallKeeps, InitiatorStepKeeps, ResponderStepKeeps,
     ReceiveKeeps, CrashKeeps DEF Next

LEMMA Invariance == Spec => []IInv
BY InitIInv, NextIInv, PTL DEF Spec

\* No fault and no order of the steps takes a variable out of its type: in
\* particular no party's balance ever becomes negative in its own books.
THEOREM TypeCorrect == Spec => []TypeOK
<1>1. IInv => TypeOK BY DEF IInv
<1> QED BY <1>1, Invariance, PTL

\* Whatever is lost, late, restarted or overwritten, and with or without a
\* locking service, a party never persists a free balance it could not
\* enforce: both signatures are in its hands before it writes.
THEOREM PersistedIsEnforceable == Spec => []Enforceable
<1>1. IInv => Enforceable BY DEF IInv
<1> QED BY <1>1, Invariance, PTL

-----------------------------------------------------------------------------
(***************************************************************************)
(* What the lock of the channel is for.  While it is held the two halves of *)
(* a run are the only ones that can persist, and the channels they are      *)
(* about to persist are still what the stores make of the operation.  From  *)
(* this follow, for any opening channel and any number of runs, the single  *)
(* history of the free balance, the absence of forks and of stale writes,   *)
(* the balance of the books, and the agreement of the two nodes.            *)
(***************************************************************************)

\* The regime of the theorems.  The nodes share a locking service and no run
\* outlives its leases; nothing takes effect after its sender gave up, while
\* messages may be lost and nodes may restart; and only calls that take the
\* lock of the channel are made, which update and reject do not.
UnderLock ==
  /\ SharedLocks = TRUE
  /\ Faults \subseteq {"loss", "crash"}
  /\ Started \subseteq {"propose", "install", "uninstall", "takeAction"}

-----------------------------------------------------------------------------
(* The invariant.                                                           *)

\* What the operation makes of the channel, when p asked for it.
Result(op, p, c) ==
  CASE op.proto = "propose" ->
         AddProposal(c, NextProposal(c, op.def, p, op.own, op.other))
    [] op.proto = "install" -> InstallApp(c, op.q)
    [] op.proto = "uninstall" -> UninstallApp(c, op.id)
    [] OTHER -> ApplyAction(c, op.id, op.amount)

\* The channel allows it.
Possible(op, c) ==
  /\ op.proto \in {"propose", "install", "uninstall", "takeAction"}
  /\ op.proto = "install" => CanInstallApp(c, op.q)
  /\ op.proto \in {"uninstall", "takeAction"} => HasApp(c, op.id)
  /\ op.proto = "takeAction" => op.amount <= GetApp(c, op.id).st

\* Run r can still make a party persist something.
Live(r) == Active(r) \/ ~Quiet(r)

\* The lease of the channel's lock that run r takes.
Lease(r) == [name |-> ChannelLock, run |-> r]

\* One run at a time: what can still persist holds the lock of the channel.
Serial ==
  /\ \A r \in Runs : Live(r) => Lease(r) \in locks
  /\ \A r, s \in Runs : Lease(r) \in locks /\ Lease(s) \in locks => r = s

\* The responding half of run r has still to give its first signature away.
Answering(r) ==
  \/ rsp[r].pc = "verified"
  \/ rsp[r].pc = "written" /\ rsp[r].op.proto = "uninstall"

\* The responding half of run r installs what the initiating half has installed.
Completing(r) == rsp[r].pc = "written" /\ rsp[r].op.proto = "install"

\* Where the two halves of the live run r are, and the one message on its way.
Phase(r) ==
  /\ \A m, n \in net : m = n
  /\ ini[r].pc = "persist" => rsp[r].pc = "idle" /\ net = {}
  /\ ini[r].pc = "written" => rsp[r].pc \in {"wait3", "done"} /\ net = {}
  /\ Answering(r) => ini[r].pc \in {"wait2", "crashed"} /\ net = {}
  /\ Completing(r) => ini[r].pc \in {"wait4", "crashed"} /\ net = {}
  /\ \A m \in net :
       /\ m.n \in {1, 2} => ini[r].pc \in {"wait2", "crashed"}
       /\ m.n \in {3, 4} => ini[r].pc \in {"wait4", "crashed"}
       /\ m.n = 1 => rsp[r].pc = "idle"
       /\ m.n \in {2, 3} => rsp[r].pc \in {"wait3", "done"}
       /\ m.n = 4 => rsp[r].pc = "done"

\* The initiator will persist, or has persisted, what its own store gives.
IniReady(r) ==
  LET op == ini[r].op
      c  == store[ini[r].by]
  IN  /\ ini[r].pc = "persist" =>
           /\ op.proto = "propose"
           /\ ini[r].post = Result(op, ini[r].by, c)
      /\ ini[r].pc \in {"wait2", "written"} =>
           /\ Possible(op, c)
           /\ IF op.proto = "propose" THEN c = ini[r].post
                                      ELSE ini[r].post = Result(op, ini[r].by, c)
           /\ op.proto = "install" => op.q \in c.props /\ op.q.by = Responder(r)
      /\ ini[r].pc = "wait4" =>
           /\ op.proto = "install" /\ c = ini[r].post
           /\ \A q \in c.props : q.id # op.q.id

\* The responder will persist what its own store gives.
RspReady(r) ==
  rsp[r].pc \in {"verified", "wait3", "written"} =>
    /\ Possible(rsp[r].op, store[Responder(r)])
    /\ rsp[r].post = Result(rsp[r].op, ini[r].by, store[Responder(r)])
    /\ ini[r].pc \in {"wait2", "written"} => rsp[r].op = ini[r].op

\* What p signs to ask for the operation.
Asked(op, p) ==
  IF op.proto = "propose" THEN Signed(op, store[p])
                          ELSE Signed(op, Result(op, p, store[p]))

\* What the initiator has signed comes of its own store.
Requested(r) ==
  LET p == ini[r].by
  IN  /\ \A m \in net : m.n = 1 =>
           /\ m.op.proto \in {"propose", "install", "uninstall", "takeAction"}
           /\ m.op.proto \in {"uninstall", "takeAction"} => Possible(m.op, store[p])
           /\ m.op.proto # "install" => m.sigs = {Asked(m.op, p)}
           /\ m.op.proto = "install" => m.op.q \in store[p].props /\ m.op.q.by = Other(p)
           /\ ini[r].pc = "wait2" => m.op = ini[r].op
      /\ Answering(r) =>
           /\ rsp[r].op.proto \in {"uninstall", "takeAction"} => Possible(rsp[r].op, store[p])
           /\ Signed(rsp[r].op, rsp[r].post) = Asked(rsp[r].op, p)

\* What the responder has signed comes of its own store.
Replied(r) ==
  LET o  == Responder(r)
      op == ini[r].op
  IN  /\ \A m \in net : m.n = 2 /\ ini[r].pc = "wait2" =>
           IF op.proto = "install"
             THEN /\ CanInstallApp(store[o], op.q)
                  /\ \A s \in m.sigs : s.kind = "freeBalance" =>
                       s = SetFreeBalance(InstallApp(store[o], op.q))
             ELSE /\ m.sigs = {Signed(op, ini[r].post)}
                  /\ m.sigs \subseteq held[o]
                  /\ op.proto = "uninstall" => store[o].fb = ini[r].post.fb
      /\ ini[r].pc = "written" =>
           IF op.proto = "install"
             THEN /\ CanInstallApp(store[o], op.q)
                  /\ ini[r].post.fb = InstallApp(store[o], op.q).fb
             ELSE store[o].fb = ini[r].post.fb

\* No app of this identity has ever changed its state.
Untouched(id) == \A c \in Agreed : c.kind = "app" /\ c.id = id => c.ver = 0

\* What the responder waits to install is new to it, and the initiator has
\* already installed it when it countersigns.
Installing(r) ==
  LET p == ini[r].by
      o == Responder(r)
  IN  /\ rsp[r].pc = "wait3" \/ Completing(r) =>
           LET id == rsp[r].op.q.id
           IN  /\ Untouched(id)
               /\ ~HasApp(store[o], id)
               /\ \A q \in store[o].props : q.id = id => q.by = o
               /\ \A s \in Parties : id <= store[s].np
      /\ \A m \in net : m.n = 3 =>
           /\ m.sigs = {SetFreeBalance(store[p])}
           /\ store[p].fb.ver = store[o].fb.ver + 2
           /\ rsp[r].pc = "wait3" => \A q \in store[p].props : q.id # rsp[r].op.q.id
      /\ Completing(r) =>
           /\ rsp[r].post.fb = store[p].fb
           /\ store[p].fb.ver = store[o].fb.ver + 2
           /\ \A q \in store[p].props : q.id # rsp[r].op.q.id

\* The live run: everything above.
Going(r) ==
  /\ Phase(r) /\ IniReady(r) /\ RspReady(r)
  /\ Requested(r) /\ Replied(r) /\ Installing(r)

\* The persisted free balance with the highest version is some party's.
Balances ==
  /\ \A p \in Parties : store[p].fb \in past
  /\ \A F \in past : \E p \in Parties : F.ver <= store[p].fb.ver
  /\ \A F, G \in past : F.ver = G.ver => F = G

\* No state of an app was signed in two ways, none is of an app that is still
\* to be proposed, and some party has the latest state of each.
AppStates ==
  /\ \A c, d \in Agreed :
       c.kind = "app" /\ d.kind = "app" /\ c.id = d.id /\ c.ver = d.ver => c = d
  /\ \A c \in Agreed : c.kind = "app" =>
       /\ \A p \in Parties : c.id <= store[p].np
       /\ c.ver = 0 \/ \E p \in Parties : HasApp(store[p], c.id) =>
                                            c.ver <= GetApp(store[p], c.id).ver

\* A proposal that a party can install names an app that was never installed,
\* and that the other party cannot install as well.
Foreign ==
  \A p \in Parties : \A q \in store[p].props : q.by = Other(p) =>
    /\ Untouched(q.id)
    /\ \A s \in Parties : q.id <= store[s].np /\ ~HasApp(store[s], q.id)
    /\ \A t \in store[Other(p)].props : t.id = q.id => t.by = Other(p)

\* Sequence numbers that are taken are counted, and taken once.
Numbered ==
  \A p \in Parties :
    /\ Distinct(store[p])
    /\ \A id \in AppIds(store[p]) : \A s \in Parties : id <= store[s].np
    /\ \A q \in store[p].props : q.id <= store[p].np

\* What stands as long as the lock is held by whoever persists.
Hist ==
  /\ Serial
  /\ \A r \in Runs : Live(r) => Going(r)
  /\ Balances /\ AppStates /\ Foreign /\ Numbered

-----------------------------------------------------------------------------
(* One run at a time.                                                       *)

LEMMA MessageFields ==
  ASSUME IInv, NEW m \in net
  PROVE  /\ m \in Messages /\ m.run \in Runs /\ m.n \in 1..4 /\ m.to \in Parties
         /\ m.op \in Op /\ m.sigs \in SUBSET Commitment
         /\ Live(m.run)
BY Apart DEF Messages, Live, Quiet

LEMMA HalfFields ==
  ASSUME IInv, NEW r \in Runs
  PROVE  /\ ini[r] \in IniHalf /\ ini[r].by \in Parties /\ ini[r].pc \in IniPc
         /\ ini[r].op \in Op /\ ini[r].post \in Channel
         /\ rsp[r] \in RspHalf /\ rsp[r].pc \in RspPc /\ rsp[r].op \in Op
         /\ rsp[r].post \in Channel
         /\ Responder(r) = Other(ini[r].by) /\ Responder(r) \in Parties
         /\ Responder(r) # ini[r].by /\ Other(Responder(r)) = ini[r].by
         /\ Parties = {ini[r].by, Responder(r)}
         /\ store[ini[r].by] \in Channel /\ store[Responder(r)] \in Channel
BY Apart, TwoParties DEF IniHalf, RspHalf, Responder

\* While run r is live no other run is, and the messages are those of r.
LEMMA OneLive ==
  ASSUME IInv, Serial, NEW r \in Runs, Live(r)
  PROVE  /\ \A s \in Runs \ {r} : ~Live(s)
         /\ \A m \in net : m.run = r
BY MessageFields DEF Serial

\* A step of the live run r leaves the other runs dead.
LEMMA OthersDead ==
  ASSUME IInv, NEW r \in Runs,
         \A s \in Runs \ {r} : ~Live(s),
         \A s \in Runs \ {r} : ini'[s] = ini[s] /\ rsp'[s] = rsp[s],
         \A m \in net' : m \in net \/ m.run = r
  PROVE  \A s \in Runs \ {r} : ~Live(s)'
<1> TAKE s \in Runs \ {r}
<1>1. ~Active(s) /\ Quiet(s) BY DEF Live
<1>2. ~Active(s)' BY <1>1 DEF Active
<1>3. Quiet(s)' BY <1>1 DEF Quiet
<1> QED BY <1>2, <1>3 DEF Live

\* What such a step must show.
LEMMA LiveStep ==
  ASSUME IInv, Hist, NEW r \in Runs, Live(r),
         \A s \in Runs \ {r} : ini'[s] = ini[s] /\ rsp'[s] = rsp[s],
         \A m \in net' : m \in net \/ m.run = r,
         locks' = locks \/ (locks' \subseteq locks /\ ~Live(r)'),
         Live(r)' => Going(r)',
         Balances', AppStates', Foreign', Numbered'
  PROVE  Hist'
<1>1. \A s \in Runs \ {r} : ~Live(s)' BY OneLive, OthersDead DEF Hist
<1>2. Serial' 
  <2>1. Serial BY DEF Hist
  <2>2. \A s \in Runs : Lease(s)' = Lease(s) BY DEF Lease
  <2>3. \A s \in Runs : Live(s)' => Lease(s) \in locks'
    BY <1>1, <2>1 DEF Serial
  <2> HIDE DEF Lease
  <2> QED BY <2>1, <2>2, <2>3 DEF Serial
<1>3. \A s \in Runs : Live(s)' => Going(s)' BY <1>1
<1> QED BY <1>2, <1>3 DEF Hist

-----------------------------------------------------------------------------
(* Steps that persist nothing.                                              *)

\* What is known of the books when nothing was persisted and no state of an
\* app was agreed.
LEMMA SameBooks ==
  ASSUME Hist, UNCHANGED <<store, past>>, Agreed \subseteq Agreed',
         \A c \in Agreed' : c \in Agreed \/ c.kind # "app"
  PROVE  /\ Balances' /\ AppStates' /\ Foreign' /\ Numbered'
         /\ \A id : Untouched(id) => Untouched(id)'
<1>2. \A c \in Agreed' : c.kind = "app" => c \in Agreed
  OBVIOUS
<1>3. Balances'
  BY DEF Hist, Balances
<1>4. AppStates'
  BY <1>2 DEF Hist, AppStates
<1>5. \A id : Untouched(id) => Untouched(id)'
  BY <1>2 DEF Untouched
<1>6. Foreign'
  BY <1>5 DEF Hist, Foreign
<1>7. Numbered'
  BY DEF Hist, Numbered
<1> QED BY <1>3, <1>4, <1>5, <1>6, <1>7

\* Giving up: calls throw, handlers end, messages and leases disappear.
LEMMA Fade ==
  ASSUME IInv, Hist, UNCHANGED <<store, past>>, locks' \subseteq locks, net' \subseteq net,
         \A p \in Parties : held[p] \subseteq held'[p],
         \A c \in Agreed' : c \in Agreed \/ c.kind # "app",
         \A s \in Runs : \/ ini'[s] = ini[s]
                         \/ /\ ini'[s].by = ini[s].by
                            /\ \/ ini'[s].pc = "crashed"
                               \/ ini'[s].pc \in {"threw", "torn"} /\ ~Live(s)',
         \A s \in Runs : \/ rsp'[s] = rsp[s]
                         \/ /\ rsp'[s].pc \in {"done", "torn"}
                            /\ rsp[s].pc \in {"verified", "wait3", "written"}
                            /\ rsp'[s].pc = "torn" => rsp[s].pc = "written",
         \A s \in Runs : Live(s)' => Live(s) /\ Lease(s) \in locks'
  PROVE  Hist'
<1>0. Agreed \subseteq Agreed' BY DEF Agreed
<1>1. /\ Balances' /\ AppStates' /\ Foreign' /\ Numbered'
      /\ \A id : Untouched(id) => Untouched(id)'
  BY <1>0, SameBooks
<1>2. Serial'
  <2>1. Serial BY DEF Hist
  <2>2. \A s \in Runs : Lease(s)' = Lease(s) BY DEF Lease
  <2> HIDE DEF Lease
  <2> QED BY <2>1, <2>2 DEF Serial
<1>3. ASSUME NEW r \in Runs, Live(r)' PROVE Going(r)'
  <2>1. Going(r) /\ Live(r) BY <1>3 DEF Hist
  <2>2. \/ ini'[r] = ini[r]
        \/ ini'[r].by = ini[r].by /\ ini'[r].pc = "crashed"
    BY <1>3
  <2>3. Responder(r)' = Responder(r) /\ ini'[r].by = ini[r].by BY <2>2 DEF Responder
  <2>10. \/ rsp'[r] = rsp[r]
         \/ /\ rsp'[r].pc \in {"done", "torn"}
            /\ rsp[r].pc \in {"verified", "wait3", "written"}
            /\ rsp'[r].pc = "torn" => rsp[r].pc = "written"
    OBVIOUS
  <2>11. /\ Answering(r)' => Answering(r) /\ rsp'[r] = rsp[r]
         /\ Completing(r)' => Completing(r) /\ rsp'[r] = rsp[r]
    BY <2>10 DEF Answering, Completing
  <2>12. rsp[r].pc = "written" => Answering(r) \/ Completing(r)
    BY HalvesFit DEF RspFits, Writing, Answering, Completing
  <2>4. Phase(r)' BY <2>1, <2>2, <2>10, <2>11, <2>12 DEF Going, Phase
  <2>5. IniReady(r)' BY <2>1, <2>2, <2>3 DEF Going, IniReady
  <2>6. RspReady(r)' BY <2>1, <2>2, <2>3, <2>10 DEF Going, RspReady
  <2>7. Requested(r)'
    <3>1. \A op : Asked(op, ini[r].by)' = Asked(op, ini[r].by) BY DEF Asked
    <3> QED BY <2>1, <2>2, <2>3, <2>11, <3>1 DEF Going, Requested
  <2>8. Replied(r)'
    <3>1. Responder(r) \in Parties BY HalfFields
    <3> QED BY <2>1, <2>2, <2>3, <3>1 DEF Going, Replied
  <2>9. Installing(r)' BY <1>1, <2>1, <2>2, <2>3, <2>10, <2>11 DEF Going, Installing
  <2> QED BY <2>4, <2>5, <2>6, <2>7, <2>8, <2>9 DEF Going
<1> QED BY <1>1, <1>2, <1>3 DEF Hist

LEMMA NothingNew ==
  ASSUME UNCHANGED held
  PROVE  /\ Agreed' = Agreed
         /\ \A c \in Agreed' : c \in Agreed \/ c.kind # "app"
BY DEF Agreed

LEMMA TimeoutInitiatorHist ==
  ASSUME UnderLock, IInv, Hist, NEW r \in Runs, TimeoutInitiator(r)
  PROVE  Hist'
<1>1. /\ ini' = [ini EXCEPT ![r] = NoHalf(ini[r].by, "threw")]
      /\ locks' = {k \in locks : k.run # r}
      /\ UNCHANGED <<store, past, held, rsp, net>>
      /\ Quiet(r)
  BY DEF TimeoutInitiator, Leave, Outwaited, UnderLock
<1>2. /\ ini'[r].by = ini[r].by /\ ini'[r].pc = "threw"
      /\ \A s \in Runs \ {r} : ini'[s] = ini[s]
  BY <1>1, Apart DEF NoHalf
<1>3. \A s \in Runs : Quiet(s)' = Quiet(s) BY <1>1 DEF Quiet
<1>4. ~Live(r)' BY <1>1, <1>2, <1>3 DEF Live, Active
<1>5. ASSUME NEW s \in Runs, Live(s)' PROVE Live(s) /\ Lease(s) \in locks'
  <2>1. s # r BY <1>4, <1>5
  <2>2. Live(s) BY <1>2, <1>3, <1>5, <2>1 DEF Live, Active
  <2>3. Lease(s) \in locks /\ Lease(s).run = s BY <2>2 DEF Hist, Serial, Lease
  <2> QED BY <1>1, <2>1, <2>2, <2>3
<1> QED BY <1>1, <1>2, <1>4, <1>5, NothingNew, Fade

LEMMA TimeoutResponderHist ==
  ASSUME IInv, Hist, NEW r \in Runs, TimeoutResponder(r)
  PROVE  Hist'
<1>1. /\ rsp[r].pc = "wait3" /\ rsp' = [rsp EXCEPT ![r] = DoneRsp]
      /\ UNCHANGED <<store, past, held, ini, net, locks>>
  BY DEF TimeoutResponder
<1>2. /\ rsp'[r].pc = "done"
      /\ \A s \in Runs \ {r} : rsp'[s] = rsp[s]
  BY <1>1, Apart DEF DoneRsp
<1>3. \A s \in Runs : Live(s)' => Live(s)
  BY <1>1, <1>2 DEF Live, Active, Quiet
<1>4. \A s \in Runs : Live(s)' => Live(s) /\ Lease(s) \in locks'
  BY <1>1, <1>3 DEF Hist, Serial
<1> QED BY <1>1, <1>2, <1>4, NothingNew, Fade

LEMMA DropHist ==
  ASSUME IInv, Hist, net' \subseteq net, UNCHANGED <<store, past, held, ini, rsp, locks>>
  PROVE  Hist'
<1>1. \A s \in Runs : Live(s)' => Live(s)
  BY DEF Live, Active, Quiet
<1>2. \A s \in Runs : Live(s)' => Live(s) /\ Lease(s) \in locks'
  BY <1>1 DEF Hist, Serial
<1> QED BY <1>2, NothingNew, Fade

LEMMA LeaseExpiresHist ==
  ASSUME UnderLock, IInv, Hist, NEW k \in locks, LeaseExpires(k)
  PROVE  Hist'
<1>1. /\ ~Active(k.run) /\ Quiet(k.run) /\ locks' = locks \ {k}
      /\ UNCHANGED <<store, past, held, ini, rsp, net>>
  BY DEF LeaseExpires, Outwaited, UnderLock
<1>2. \A s \in Runs : Live(s)' => Live(s)
  BY <1>1 DEF Live, Active, Quiet
<1>3. \A s \in Runs : Live(s) => Lease(s) \in locks /\ Lease(s) # k
  BY <1>1 DEF Hist, Serial, Live, Lease
<1> QED BY <1>1, <1>2, <1>3, NothingNew, Fade

LEMMA CrashHist ==
  ASSUME IInv, Hist, NEW p \in Parties, Crash(p)
  PROVE  Hist'
<1>1. /\ UNCHANGED <<store, past, held, net, locks>>
      /\ \A s \in Runs :
           /\ \/ ini'[s] = ini[s]
              \/ Active(s) /\ ini'[s] = IniCrashed(ini[s])
           /\ \/ rsp'[s] = rsp[s]
              \/ /\ rsp[s].pc \in {"verified", "wait3", "written"}
                 /\ rsp'[s] = RspCrashed(rsp[s])
  BY CrashIs
<1>2. \A s \in Runs :
        /\ \/ rsp'[s] = rsp[s]
           \/ /\ rsp'[s].pc \in {"done", "torn"}
              /\ rsp[s].pc \in {"verified", "wait3", "written"}
              /\ rsp'[s].pc = "torn" => rsp[s].pc = "written"
  BY <1>1, CrashedHalves
<1>3. \A s \in Runs :
        \/ ini'[s] = ini[s]
        \/ /\ Active(s) /\ ini'[s].by = ini[s].by
           /\ ini'[s].pc \in {"crashed", "torn"}
           /\ ini'[s].pc = "torn" => ini[s].pc = "written"
  BY <1>1, CrashedHalves
<1>4. \A s \in Runs : Quiet(s) => Quiet(s)' BY <1>1, <1>2 DEF Quiet
<1>5. \A s \in Runs : Live(s)' => Live(s) BY <1>3, <1>4 DEF Live, Active
<1>6. \A s \in Runs : Live(s)' => Live(s) /\ Lease(s) \in locks'
  BY <1>1, <1>5 DEF Hist, Serial, Lease
<1>7. ASSUME NEW s \in Runs, ini[s].pc = "written", ini'[s].pc = "torn" PROVE ~Live(s)'
  <2>1. Phase(s) BY <1>7 DEF Hist, Going, Live, Active
  <2>2. Quiet(s) BY <1>7, <2>1 DEF Phase, Quiet
  <2> QED BY <1>4, <1>7, <2>2 DEF Live, Active
<1> QED BY <1>1, <1>2, <1>3, <1>6, <1>7, NothingNew, Fade

-----------------------------------------------------------------------------
(* Calls.                                                                   *)

\* A call gets the lock of the channel only when no run is live.
LEMMA StartAlone ==
  ASSUME UnderLock, IInv, Hist, NEW r \in Runs, NEW p \in Parties, NEW op \in Op,
         NEW pc, NEW post, Start(r, p, op, pc, post)
  PROVE  /\ op.proto \in {"propose", "install", "uninstall", "takeAction"}
         /\ \A s \in Runs : Lease(s) \notin locks /\ ~Live(s)
         /\ net = {} /\ rsp[r].pc = "idle"
<1>1. op.proto \in {"propose", "install", "uninstall", "takeAction"}
  BY DEF Start, UnderLock
<1>2. ChannelLock \in LockNames(op) BY <1>1 DEF LockNames
<1>3. \A k \in locks : k.name # ChannelLock
  BY <1>2 DEF Start, LeasesFree, UnderLock
<1>4. \A s \in Runs : Lease(s) \notin locks BY <1>3 DEF Lease
<1>5. \A s \in Runs : ~Live(s) BY <1>4 DEF Hist, Serial
<1>6. net = {} BY <1>5, MessageFields
<1>7. rsp[r].pc = "idle" BY Fresh DEF Start
<1> QED BY <1>1, <1>4, <1>5, <1>6, <1>7

LEMMA StartHist ==
  ASSUME UnderLock, IInv, Hist, NEW r \in Runs, NEW p \in Parties, NEW op \in Op,
         NEW pc, NEW post, Start(r, p, op, pc, post),
         UNCHANGED <<store, past, held, rsp>>,
         Possible(op, store[p]), post = Result(op, p, store[p]),
         \/ op.proto = "propose" /\ pc = "persist" /\ net' = net
         \/ /\ op.proto # "propose" /\ pc = "wait2"
            /\ op.proto = "install" => op.q \in store[p].props /\ op.q.by = Other(p)
            /\ \E sigs : /\ net' = net \cup {Request(r, p, op, sigs)}
                         /\ op.proto # "install" => sigs = {Signed(op, post)}
  PROVE  Hist'
<1> DEFINE half == [by |-> p, pc |-> pc, op |-> op, post |-> post]
<1>1. /\ op.proto \in {"propose", "install", "uninstall", "takeAction"}
      /\ \A s \in Runs : Lease(s) \notin locks /\ ~Live(s)
      /\ net = {} /\ rsp[r].pc = "idle"
  BY StartAlone
<1>2. /\ ini' = [ini EXCEPT ![r] = half]
      /\ locks' = locks \cup {[name |-> n, run |-> r] : n \in LockNames(op)}
  BY DEF Start, UnderLock
<1>3. half.by = p /\ half.pc = pc /\ half.op = op /\ half.post = post OBVIOUS
<1> HIDE DEF half
<1>4. ini'[r] = half /\ \A s \in Runs \ {r} : ini'[s] = ini[s] BY <1>2, Apart
<1>5. \A m \in net' : /\ m.run = r /\ m.n = 1 /\ m.op = op
                      /\ op.proto # "install" => m.sigs = {Signed(op, post)}
  BY <1>1 DEF Request, Message
<1>6. \A m, n \in net' : m = n BY <1>1
<1>7. \A s \in Runs \ {r} : ~Live(s)' BY <1>1, <1>4, <1>5, OthersDead
<1>8. Serial'
  <2>1. ChannelLock \in LockNames(op) BY <1>1 DEF LockNames
  <2>2. Lease(r) \in locks' BY <1>2, <2>1 DEF Lease
  <2>3. \A s \in Runs : Lease(s) \in locks' => s = r BY <1>1, <1>2 DEF Lease
  <2>4. \A s \in Runs : Lease(s)' = Lease(s) BY DEF Lease
  <2> HIDE DEF Lease
  <2> QED BY <1>7, <2>2, <2>3, <2>4 DEF Serial
<1>9. Going(r)'
  <2>1. Responder(r)' = Other(p) /\ ini'[r].by = p BY <1>3, <1>4 DEF Responder
  <2>2. Phase(r)' BY <1>1, <1>3, <1>4, <1>5, <1>6 DEF Phase, Answering, Completing
  <2>3. IniReady(r)' BY <1>3, <1>4, <2>1 DEF IniReady
  <2>4. RspReady(r)' BY <1>1 DEF RspReady
  <2>5. Requested(r)'
    <3>1. Asked(op, p)' = Signed(op, post) \/ op.proto = "propose" BY DEF Asked
    <3> QED BY <1>1, <1>3, <1>4, <1>5, <3>1, <2>1 DEF Requested, Answering
  <2>6. Replied(r)' BY <1>3, <1>4, <1>5 DEF Replied
  <2>7. Installing(r)' BY <1>1, <1>5 DEF Installing, Completing
  <2> QED BY <2>2, <2>3, <2>4, <2>5, <2>6, <2>7 DEF Going
<1>10. Balances' /\ AppStates' /\ Foreign' /\ Numbered'
  BY NothingNew, SameBooks
<1> QED BY <1>7, <1>8, <1>9, <1>10 DEF Hist

LEMMA CallHist ==
  ASSUME UnderLock, IInv, Hist, NEW r \in Runs, NEW p \in Parties, Call(r, p)
  PROVE  Hist'
<1>1. store[p] \in Channel BY Apart
<1>2. CASE ProposeInitiator(r, p)
  <2>1. PICK d \in Defs, t \in Terms :
          LET op == [proto |-> "propose", def |-> d, own |-> t.own, other |-> t.other]
              q  == NextProposal(store[p], d, p, t.own, t.other)
          IN  /\ Start(r, p, op, "persist", AddProposal(store[p], q))
              /\ UNCHANGED <<store, past, held, rsp, net>>
    BY <1>2 DEF ProposeInitiator
  <2> DEFINE op == [proto |-> "propose", def |-> d, own |-> t.own, other |-> t.other]
             post == AddProposal(store[p], NextProposal(store[p], d, p, t.own, t.other))
  <2>2. t.own \in Nat /\ t.other \in Nat BY ConstantsType
  <2>3. op \in Op BY <2>2 DEF Op
  <2>4. op.proto = "propose" /\ post = Result(op, p, store[p]) /\ Possible(op, store[p])
    BY DEF Result, Possible
  <2>5. Start(r, p, op, "persist", post) /\ UNCHANGED <<store, past, held, rsp, net>>
    BY <2>1
  <2> HIDE DEF op, post
  <2> QED BY <2>3, <2>4, <2>5, StartHist
<1>3. CASE InstallInitiator(r, p)
  <2>1. PICK q \in store[p].props :
          LET op   == [proto |-> "install", q |-> q]
              post == InstallApp(store[p], q)
          IN  /\ q.by = Other(p)
              /\ CanInstallApp(store[p], q)
              /\ Start(r, p, op, "wait2", post)
              /\ net' = net \cup {Request(r, p, op, {Conditional(post)})}
              /\ UNCHANGED <<store, past, held, rsp>>
    BY <1>3 DEF InstallInitiator
  <2> DEFINE op == [proto |-> "install", q |-> q]
             post == InstallApp(store[p], q)
  <2>2. q \in Proposal BY <1>1, ChannelFields
  <2>3. op \in Op BY <2>2 DEF Op
  <2>4. /\ op.proto = "install" /\ post = Result(op, p, store[p]) /\ Possible(op, store[p])
        /\ op.q \in store[p].props /\ op.q.by = Other(p)
    BY <2>1 DEF Result, Possible
  <2>5. /\ Start(r, p, op, "wait2", post) /\ UNCHANGED <<store, past, held, rsp>>
        /\ net' = net \cup {Request(r, p, op, {Conditional(post)})}
    BY <2>1
  <2> HIDE DEF op, post
  <2> QED BY <2>3, <2>4, <2>5, StartHist
<1>4. CASE UninstallInitiator(r, p)
  <2>1. PICK op \in UninstallParams(store[p]) :
          /\ Start(r, p, op, "wait2", UninstallApp(store[p], op.id))
          /\ SendRequest(r, p, op, UninstallApp(store[p], op.id))
          /\ UNCHANGED <<store, past, held, rsp>>
    BY <1>4 DEF UninstallInitiator
  <2> DEFINE post == UninstallApp(store[p], op.id)
  <2>2. op.proto = "uninstall" /\ op.id \in AppIds(store[p])
        /\ op = [proto |-> "uninstall", id |-> op.id]
    BY <2>1 DEF UninstallParams
  <2>3. op.id \in AppId /\ HasApp(store[p], op.id) BY <1>1, <2>2, AppIdsType
  <2>4. op \in Op BY <2>2, <2>3 DEF Op
  <2>5. post = Result(op, p, store[p]) /\ Possible(op, store[p])
    BY <2>2, <2>3 DEF Result, Possible
  <2>6. /\ Start(r, p, op, "wait2", post) /\ UNCHANGED <<store, past, held, rsp>>
        /\ net' = net \cup {Request(r, p, op, {Signed(op, post)})}
    BY <2>1 DEF SendRequest
  <2> HIDE DEF post
  <2> QED BY <2>2, <2>4, <2>5, <2>6, StartHist
<1>5. CASE TakeActionInitiator(r, p)
  <2>1. PICK op \in TakeActionParams(store[p]) :
          /\ Start(r, p, op, "wait2", ApplyAction(store[p], op.id, op.amount))
          /\ SendRequest(r, p, op, ApplyAction(store[p], op.id, op.amount))
          /\ UNCHANGED <<store, past, held, rsp>>
    BY <1>5 DEF TakeActionInitiator
  <2> DEFINE post == ApplyAction(store[p], op.id, op.amount)
  <2>2. PICK id \in AppIds(store[p]), amount \in Int :
          /\ amount \in 1..GetApp(store[p], id).st
          /\ op = [proto |-> "takeAction", id |-> id, amount |-> amount]
    BY <2>1 DEF TakeActionParams
  <2>3. id \in AppId /\ HasApp(store[p], id) BY <1>1, AppIdsType
  <2>4. /\ amount \in Nat /\ amount <= GetApp(store[p], id).st
    BY <1>1, <2>2, <2>3, GetAppType, AppFields
  <2>5. op \in Op /\ op.proto = "takeAction" /\ op.id = id /\ op.amount = amount
    BY <2>2, <2>3, <2>4 DEF Op
  <2>6. post = Result(op, p, store[p]) /\ Possible(op, store[p])
    BY <2>3, <2>4, <2>5 DEF Result, Possible
  <2>7. /\ Start(r, p, op, "wait2", post) /\ UNCHANGED <<store, past, held, rsp>>
        /\ net' = net \cup {Request(r, p, op, {Signed(op, post)})}
    BY <2>1 DEF SendRequest
  <2> HIDE DEF post
  <2> QED BY <2>5, <2>6, <2>7, StartHist
<1>6. CASE UpdateInitiator(r, p) \/ RejectInitiator(r, p)
  <2>1. \E op : op.proto \in {"update", "reject"} /\ op.proto \in Started
    <3>1. CASE UpdateInitiator(r, p)
      <4>1. PICK op \in UpdateParams(store[p]) : op.proto \in Started
        BY <3>1 DEF UpdateInitiator, Start
      <4>2. op.proto = "update" BY <4>1 DEF UpdateParams
      <4> QED BY <4>1, <4>2
    <3>2. CASE RejectInitiator(r, p)
      <4>1. PICK id : [proto |-> "reject", id |-> id].proto \in Started
        BY <3>2 DEF RejectInitiator, Start
      <4> DEFINE op == [proto |-> "reject", id |-> id]
      <4>2. op.proto = "reject" /\ op.proto \in Started BY <4>1
      <4> HIDE DEF op
      <4> QED BY <4>2
    <3> QED BY <1>6, <3>1, <3>2
  <2> QED BY <2>1 DEF UnderLock
<1> QED BY <1>2, <1>3, <1>4, <1>5, <1>6 DEF Call

-----------------------------------------------------------------------------
(* What the writes do to the books.                                         *)

\* A new signature is all that is added to what was agreed.
LEMMA AgreedGrows ==
  ASSUME IInv, NEW x \in Parties, NEW S, held' = [held EXCEPT ![x] = @ \cup S]
  PROVE  Agreed' = Agreed \cup S
<1>1. \A y \in Parties : held'[y] = IF y = x THEN held[y] \cup S ELSE held[y]
  BY Apart
<1> QED BY <1>1 DEF Agreed

\* A free balance that was persisted.
LEMMA PastType ==
  ASSUME IInv, NEW F \in past
  PROVE  F \in FreeBalance /\ F.ver \in Nat
<1>1. F \in FreeBalance BY Apart
<1> QED BY <1>1 DEF FreeBalance

\* The three things a write does to the free balances.
LEMMA BalancesKept ==
  ASSUME IInv, Balances, NEW x \in Parties, NEW d,
         store' = [store EXCEPT ![x] = d], past' = past \cup {d.fb},
         d.fb = store[x].fb
  PROVE  Balances' /\ past' = past
<1>1. \A y \in Parties : store'[y].fb = store[y].fb BY Apart
<1>2. past' = past BY DEF Balances
<1> QED BY <1>1, <1>2 DEF Balances

LEMMA BalancesAdvance ==
  ASSUME IInv, Balances, NEW x \in Parties, NEW d \in Channel,
         store' = [store EXCEPT ![x] = d], past' = past \cup {d.fb},
         store[Other(x)].fb.ver = store[x].fb.ver, d.fb.ver = store[x].fb.ver + 2
  PROVE  Balances'
<1>1. /\ store'[x] = d /\ \A y \in Parties : y = x \/ y = Other(x)
      /\ \A y \in Parties \ {x} : store'[y] = store[y]
      /\ store[x].fb.ver \in Nat /\ d.fb.ver \in Nat
  BY Apart, ChannelFields, TwoParties
<1>2. \A F \in past : F.ver \in Nat /\ F.ver <= store[x].fb.ver
  BY <1>1, PastType DEF Balances
<1>3. \A F \in past' : F \in past \/ F = d.fb OBVIOUS
<1>4. \A F \in past' : F.ver <= store'[x].fb.ver
  BY <1>1, <1>2, <1>3
<1>5. \A F, G \in past' : F.ver = G.ver => F = G
  BY <1>1, <1>2, <1>3 DEF Balances
<1>6. \A y \in Parties : store'[y].fb \in past'
  BY <1>1 DEF Balances
<1> QED BY <1>4, <1>5, <1>6 DEF Balances

LEMMA BalancesCatchUp ==
  ASSUME IInv, Balances, NEW x \in Parties, NEW d \in Channel,
         store' = [store EXCEPT ![x] = d], past' = past \cup {d.fb},
         d.fb = store[Other(x)].fb, d.fb.ver = store[x].fb.ver + 2
  PROVE  Balances'
<1>1. /\ store'[x] = d /\ \A y \in Parties : y = x \/ y = Other(x)
      /\ \A y \in Parties \ {x} : store'[y] = store[y]
      /\ store[x].fb.ver \in Nat /\ d.fb.ver \in Nat
  BY Apart, ChannelFields, TwoParties
<1>2. \A F \in past : F.ver \in Nat /\ F.ver <= d.fb.ver
  BY <1>1, PastType DEF Balances
<1>3. past' = past BY TwoParties DEF Balances
<1>4. \A F \in past' : F.ver <= store'[x].fb.ver
  BY <1>1, <1>2, <1>3
<1>5. \A y \in Parties : store'[y].fb \in past'
  BY <1>1 DEF Balances
<1>6. \A F, G \in past' : F.ver = G.ver => F = G BY <1>3 DEF Balances
<1> QED BY <1>4, <1>5, <1>6 DEF Balances

\* A proposal is added: by its own proposer, or by the other party, who has
\* then agreed to it.
LEMMA ProposalAdded ==
  ASSUME IInv, Hist, NEW x \in Parties, NEW q \in Proposal,
         Persist(x, AddProposal(store[x], q)),
         q.id = store[x].np + 1,
         \/ q.by = x /\ Agreed' = Agreed
         \/ /\ q.by = Other(x) /\ q.id <= store[Other(x)].np
            /\ \E st : Agreed' = Agreed \cup {[kind |-> "app", id |-> q.id, ver |-> 0, st |-> st]}
  PROVE  Balances' /\ AppStates' /\ Foreign' /\ Numbered'
<1> DEFINE c == store[x]
           y == Other(x)
           d == AddProposal(c, q)
<1>1. /\ c \in Channel /\ store[y] \in Channel /\ c.np \in Nat /\ store[y].np \in Nat
      /\ y \in Parties /\ y # x /\ Other(y) = x /\ Parties = {x, y}
  BY Apart, ChannelFields, TwoParties
<1>2. d.np = c.np + 1 /\ d.props = {r \in c.props : r.id # q.id} \cup {q}
      /\ d.apps = c.apps /\ d.fb = c.fb
  BY <1>1, AddProposalFields, AddProposalType
<1>3. /\ store'[x] = d /\ store'[y] = store[y]
      /\ store' = [store EXCEPT ![x] = d] /\ past' = past \cup {d.fb}
  BY <1>1, Apart DEF Persist
<1>4. \A e \in Agreed' : e \in Agreed \/ (e.kind = "app" /\ e.id = q.id /\ e.ver = 0)
  OBVIOUS
<1>5. \A e \in Agreed : e.kind = "app" => /\ e.id \in Nat /\ e.ver \in Nat
                                          /\ e.id <= c.np /\ e.id <= store[y].np
  <2>1. Agreed \subseteq Commitment BY Apart DEF Agreed
  <2> QED BY <1>1, <2>1 DEF Hist, AppStates, Commitment, AppId
<1>6. Balances' BY <1>2, <1>3, BalancesKept DEF Hist
<1> HIDE DEF d
<1>7. \A z \in Parties : /\ \A id : HasApp(store'[z], id) <=> HasApp(store[z], id)
                         /\ \A id : GetApp(store'[z], id) = GetApp(store[z], id)
                         /\ AppIds(store'[z]) = AppIds(store[z])
                         /\ Distinct(store'[z]) <=> Distinct(store[z])
                         /\ store[z].np <= store'[z].np
                         /\ store[z].np \in Nat /\ store'[z].np \in Nat
  <2>1. \A z \in Parties : store'[z].apps = store[z].apps BY <1>1, <1>2, <1>3
  <2>2. \A z \in Parties : /\ store[z].np \in Nat /\ store'[z].np \in Nat
                            /\ store[z].np <= store'[z].np
    BY <1>1, <1>2, <1>3
  <2>3. \A z \in Parties : AppIds(store'[z]) = AppIds(store[z]) BY <2>1 DEF AppIds
  <2>4. \A z \in Parties : Distinct(store'[z]) <=> Distinct(store[z]) BY <2>1 DEF Distinct
  <2>5. \A z \in Parties : \A id : HasApp(store'[z], id) <=> HasApp(store[z], id)
    BY <2>1 DEF HasApp
  <2>6. \A z \in Parties : \A id : GetApp(store'[z], id) = GetApp(store[z], id)
    BY <2>1 DEF GetApp
  <2> QED BY <2>2, <2>3, <2>4, <2>5, <2>6
<1>8. AppStates'
  <2>1. \A e, f \in Agreed' : e.kind = "app" /\ f.kind = "app" /\ e.id = f.id /\ e.ver = f.ver => e = f
    <3>1. q.id \notin {e.id : e \in {f \in Agreed : f.kind = "app"}} BY <1>1, <1>5
    <3>2. \A e, f \in Agreed : e.kind = "app" /\ f.kind = "app" /\ e.id = f.id /\ e.ver = f.ver => e = f
      BY DEF Hist, AppStates
    <3>3. \A e, f \in Agreed' : e \notin Agreed /\ f \notin Agreed => e = f OBVIOUS
    <3> QED BY <1>4, <3>1, <3>2, <3>3
  <2>2. ASSUME NEW e \in Agreed', e.kind = "app"
        PROVE  /\ \A z \in Parties : e.id <= store'[z].np
               /\ e.ver = 0 \/ \E z \in Parties : HasApp(store'[z], e.id) =>
                                                    e.ver <= GetApp(store'[z], e.id).ver
    <3>1. CASE e \in Agreed
      <4>1. \A z \in Parties : e.id <= store'[z].np BY <1>1, <1>2, <1>3, <1>5, <2>2, <3>1
      <4>2. e.ver = 0 \/ \E z \in Parties : HasApp(store[z], e.id) =>
                                              e.ver <= GetApp(store[z], e.id).ver
        BY <2>2, <3>1 DEF Hist, AppStates
      <4> QED BY <1>7, <4>1, <4>2
    <3>2. CASE e \notin Agreed
      BY <1>1, <1>2, <1>3, <1>4, <3>2
    <3> QED BY <3>1, <3>2
  <2> QED BY <2>1, <2>2 DEF AppStates
<1>9. \A z \in Parties : \A id : HasApp(store[z], id) => id \in Nat /\ id <= c.np /\ id <= store[y].np
  <2>1. \A z \in Parties : \A id \in AppIds(store[z]) : id \in Nat /\ id <= c.np /\ id <= store[y].np
    BY <1>1, AppIdsType DEF Hist, Numbered, AppId
  <2> QED BY <2>1 DEF HasApp, AppIds
<1>10. \A t \in c.props : t.id \in Nat /\ t.id <= c.np
  BY <1>1, ChannelFields DEF Hist, Numbered, Proposal, AppId
<1>11. \A t \in store[y].props : t.id \in Nat /\ t.id <= store[y].np
  BY <1>1, ChannelFields DEF Hist, Numbered, Proposal, AppId
<1>12. \A id : Untouched(id) => Untouched(id)'
  BY <1>4 DEF Untouched
<1>13. \A t \in store[y].props : t.by = x => t.id <= c.np
  BY <1>1 DEF Hist, Foreign
<1>14. Untouched(q.id)'
  BY <1>1, <1>4, <1>5 DEF Untouched
<1>15. Foreign'
  <2>1. ASSUME NEW t \in d.props, t.by = y
        PROVE  /\ Untouched(t.id)'
               /\ \A s \in Parties : t.id <= store'[s].np /\ ~HasApp(store'[s], t.id)
               /\ \A u \in store'[y].props : u.id = t.id => u.by = y
    <3>1. CASE t \in c.props
      <4>1. /\ Untouched(t.id)
            /\ \A s \in Parties : t.id <= store[s].np /\ ~HasApp(store[s], t.id)
            /\ \A u \in store[y].props : u.id = t.id => u.by = y
        BY <2>1, <3>1 DEF Hist, Foreign
      <4>2. \A s \in Parties : t.id <= store'[s].np BY <1>7, <1>10, <3>1, <4>1
      <4> QED BY <1>3, <1>7, <1>12, <4>1, <4>2
    <3>2. CASE t = q
      <4>1. q.by = y /\ q.id <= store[y].np BY <1>1, <2>1, <3>2
      <4>2. \A s \in Parties : t.id <= store'[s].np BY <1>1, <1>2, <1>3, <3>2, <4>1
      <4>3. \A s \in Parties : ~HasApp(store'[s], t.id) BY <1>1, <1>7, <1>9, <3>2
      <4>4. \A u \in store'[y].props : u.id = t.id => u.by = y
        <5>1. \A u \in store[y].props : u.by \in Parties
          BY <1>1, ChannelFields DEF Proposal
        <5> QED BY <1>1, <1>3, <1>13, <3>2, <5>1
      <4> QED BY <1>14, <3>2, <4>2, <4>3, <4>4
    <3> QED BY <1>2, <2>1, <3>1, <3>2
  <2>2. ASSUME NEW t \in store[y].props, t.by = x
        PROVE  /\ Untouched(t.id)'
               /\ \A s \in Parties : t.id <= store'[s].np /\ ~HasApp(store'[s], t.id)
               /\ \A u \in store'[x].props : u.id = t.id => u.by = x
    <3>1. /\ Untouched(t.id)
          /\ \A s \in Parties : t.id <= store[s].np /\ ~HasApp(store[s], t.id)
          /\ \A u \in c.props : u.id = t.id => u.by = x
      BY <1>1, <2>2 DEF Hist, Foreign
    <3>2. \A s \in Parties : t.id <= store'[s].np BY <1>7, <1>11, <3>1
    <3>3. t.id # q.id BY <1>1, <1>11, <3>1
    <3>4. \A u \in store'[x].props : u.id = t.id => u.by = x BY <1>2, <1>3, <3>1, <3>3
    <3> QED BY <1>7, <1>12, <3>1, <3>2, <3>4
  <2> QED BY <1>1, <1>3, <2>1, <2>2 DEF Foreign
<1>16. Numbered'
  <2>1. \A z \in Parties : \A id \in AppIds(store[z]) : id \in Nat
    BY Apart, AppIdsType DEF AppId
  <2>2. \A z \in Parties : Distinct(store'[z]) BY <1>7 DEF Hist, Numbered
  <2>3. \A z \in Parties : \A id \in AppIds(store'[z]) : \A s \in Parties : id <= store'[s].np
    BY <1>7, <2>1 DEF Hist, Numbered
  <2>4. \A t \in d.props : t.id <= d.np BY <1>1, <1>2, <1>10
  <2> QED BY <1>1, <1>3, <1>11, <2>2, <2>3, <2>4 DEF Numbered
<1> QED BY <1>6, <1>8, <1>15, <1>16

\* A write that proposes nothing keeps the numbering, as long as what it
\* installs is nobody's proposal any more.
LEMMA NumbersKept ==
  ASSUME IInv, Hist, NEW x \in Parties, NEW d \in Channel,
         store' = [store EXCEPT ![x] = d],
         d.np = store[x].np, d.props \subseteq store[x].props, Distinct(d),
         \A id : HasApp(d, id) /\ ~HasApp(store[x], id) =>
           /\ \A s \in Parties : id <= store[s].np
           /\ \A t \in d.props : t.id # id
           /\ \A t \in store[Other(x)].props : t.by = x => t.id # id,
         \A e \in Agreed' : e.kind = "app" => e \in Agreed \/ HasApp(store[x], e.id)
  PROVE  Foreign' /\ Numbered'
<1> DEFINE c == store[x]
           y == Other(x)
<1>1. /\ c \in Channel /\ store[y] \in Channel
      /\ y \in Parties /\ y # x /\ Other(y) = x /\ Parties = {x, y}
  BY Apart, TwoParties
<1>2. store'[x] = d /\ store'[y] = store[y] /\ \A s \in Parties : store'[s].np = store[s].np
  BY <1>1, Apart
<1>3. ASSUME NEW id, Untouched(id), ~HasApp(c, id) PROVE Untouched(id)'
  BY <1>3 DEF Untouched
<1>4. Foreign'
  <2>1. ASSUME NEW t \in d.props, t.by = y
        PROVE  /\ Untouched(t.id)'
               /\ \A s \in Parties : t.id <= store'[s].np /\ ~HasApp(store'[s], t.id)
               /\ \A u \in store'[y].props : u.id = t.id => u.by = y
    <3>1. /\ Untouched(t.id)
          /\ \A s \in Parties : t.id <= store[s].np /\ ~HasApp(store[s], t.id)
          /\ \A u \in store[y].props : u.id = t.id => u.by = y
      BY <1>1, <2>1 DEF Hist, Foreign
    <3>2. ~HasApp(d, t.id) BY <1>1, <3>1
    <3>3. \A s \in Parties : t.id <= store'[s].np /\ ~HasApp(store'[s], t.id)
      BY <1>1, <1>2, <3>1, <3>2
    <3>4. Untouched(t.id)' BY <1>1, <1>3, <3>1
    <3> QED BY <1>2, <3>1, <3>3, <3>4
  <2>2. ASSUME NEW t \in store[y].props, t.by = x
        PROVE  /\ Untouched(t.id)'
               /\ \A s \in Parties : t.id <= store'[s].np /\ ~HasApp(store'[s], t.id)
               /\ \A u \in store'[x].props : u.id = t.id => u.by = x
    <3>1. /\ Untouched(t.id)
          /\ \A s \in Parties : t.id <= store[s].np /\ ~HasApp(store[s], t.id)
          /\ \A u \in c.props : u.id = t.id => u.by = x
      BY <1>1, <2>2 DEF Hist, Foreign
    <3>2. ~HasApp(d, t.id) BY <1>1, <2>2, <3>1
    <3>3. \A s \in Parties : t.id <= store'[s].np /\ ~HasApp(store'[s], t.id)
      BY <1>1, <1>2, <3>1, <3>2
    <3>4. Untouched(t.id)' BY <1>1, <1>3, <3>1
    <3>5. \A u \in store'[x].props : u.id = t.id => u.by = x BY <1>2, <3>1
    <3> QED BY <3>3, <3>4, <3>5
  <2> QED BY <1>1, <1>2, <2>1, <2>2 DEF Foreign
<1>5. Numbered'
  <2>1. \A p \in Parties : Distinct(store'[p]) BY <1>1, <1>2 DEF Hist, Numbered
  <2>2. \A p \in Parties : \A id : HasApp(store[p], id) => \A s \in Parties : id <= store[s].np
    BY DEF Hist, Numbered, AppIds, HasApp
  <2>3. \A p \in Parties : \A id : HasApp(store'[p], id) => \A s \in Parties : id <= store'[s].np
    BY <1>1, <1>2, <2>2
  <2>4. \A p \in Parties : \A id \in AppIds(store'[p]) : \A s \in Parties : id <= store'[s].np
    BY <2>3 DEF AppIds, HasApp
  <2>5. \A p \in Parties : \A q \in store'[p].props : q.id <= store'[p].np
    BY <1>1, <1>2 DEF Hist, Numbered
  <2> QED BY <2>1, <2>4, <2>5 DEF Numbered
<1> QED BY <1>4, <1>5

\* A proposal is removed.
LEMMA ProposalRemoved ==
  ASSUME IInv, Hist, NEW x \in Parties, NEW id,
         Persist(x, RemoveProposal(store[x], id)), Agreed' = Agreed
  PROVE  Balances' /\ AppStates' /\ Foreign' /\ Numbered'
<1> DEFINE d == RemoveProposal(store[x], id)
<1>0. store' = [store EXCEPT ![x] = d] /\ past' = past \cup {d.fb} BY DEF Persist
<1>1. store[x] \in Channel /\ store'[x] = d /\ \A y \in Parties \ {x} : store'[y] = store[y]
  BY <1>0, Apart
<1>2. /\ d \in Channel /\ d.np = store[x].np /\ d.props \subseteq store[x].props
      /\ d.apps = store[x].apps /\ d.fb = store[x].fb
  BY <1>1, RemoveProposalFields, RemoveProposalType
<1> HIDE DEF d
<1>3. \A i : HasApp(d, i) <=> HasApp(store[x], i) BY <1>2 DEF HasApp
<1>4. \A i : GetApp(d, i) = GetApp(store[x], i) BY <1>2 DEF GetApp
<1>5. Distinct(d) BY <1>2 DEF Hist, Numbered, Distinct
<1>6. Foreign' /\ Numbered' BY <1>0, <1>2, <1>3, <1>5, NumbersKept
<1>7. Balances' BY <1>0, <1>2, BalancesKept DEF Hist
<1>8. AppStates'
  <2>1. \A p \in Parties : store'[p].np = store[p].np BY <1>1, <1>2
  <2>2. \A p \in Parties : \A i : HasApp(store'[p], i) <=> HasApp(store[p], i) BY <1>1, <1>3
  <2>3. \A p \in Parties : \A i : GetApp(store'[p], i) = GetApp(store[p], i) BY <1>1, <1>4
  <2> QED BY <2>1, <2>2, <2>3 DEF Hist, AppStates
<1> QED BY <1>6, <1>7, <1>8

\* An app takes its next state: the other party is at the same version, or has
\* been there already.
LEMMA AppActed ==
  ASSUME IInv, Hist, NEW x \in Parties, NEW id, NEW st \in Nat,
         HasApp(store[x], id), st <= Pot(GetApp(store[x], id)),
         Persist(x, SetState(store[x], id, st)),
         \/ Agreed' = Agreed
         \/ /\ HasApp(store[Other(x)], id)
            /\ GetApp(store[Other(x)], id).ver = GetApp(store[x], id).ver
            /\ Agreed' = Agreed \cup {SetAppState(GetApp(SetState(store[x], id, st), id))}
  PROVE  Balances' /\ AppStates' /\ Foreign' /\ Numbered'
<1> DEFINE c == store[x]
           y == Other(x)
           d == SetState(c, id, st)
           a == GetApp(c, id)
           b == GetApp(d, id)
<1>1. /\ c \in Channel /\ store[y] \in Channel
      /\ y \in Parties /\ y # x /\ Parties = {x, y}
  BY Apart, TwoParties
<1>0. store' = [store EXCEPT ![x] = d] /\ past' = past \cup {d.fb} BY DEF Persist
<1>2. store'[x] = d /\ store'[y] = store[y] BY <1>0, <1>1, Apart
<1>3. /\ Distinct(d) /\ \A i : HasApp(d, i) <=> HasApp(c, i)
      /\ \A i : HasApp(c, i) /\ i # id => GetApp(d, i) = GetApp(c, i)
      /\ b.id = id /\ b.ver = a.ver + 1
  <2>1. Distinct(c) BY DEF Hist, Numbered
  <2> QED BY <1>1, <2>1, SetStateMoves
<1>4. d \in Channel /\ d.np = c.np /\ d.props = c.props /\ d.fb = c.fb
  BY <1>1, SetStateFields, SetStateType
<1>5. a.ver \in Nat BY <1>1, GetAppType, AppFields
<1>6. \A e \in Agreed' : \/ e \in Agreed
                         \/ /\ e = SetAppState(b) /\ e.kind = "app" /\ e.id = id
                            /\ e.ver = a.ver + 1
                            /\ HasApp(store[y], id) /\ GetApp(store[y], id).ver = a.ver
  BY <1>3 DEF SetAppState
<1> HIDE DEF d, a, b
<1>7. Foreign' /\ Numbered'
  BY <1>0, <1>1, <1>3, <1>4, <1>6, NumbersKept
<1>8. Balances' BY <1>0, <1>4, BalancesKept DEF Hist
<1>9. AppStates'
  <2>0. \A e \in Agreed : e.kind = "app" => e.ver \in Nat
    <3>1. Agreed \subseteq Commitment BY Apart DEF Agreed
    <3> QED BY <3>1 DEF Commitment
  <2>1. ASSUME NEW e \in Agreed, e.kind = "app", e.id = id,
               HasApp(store[y], id), GetApp(store[y], id).ver = a.ver
        PROVE  e.ver # a.ver + 1
    <3>1. e.ver = 0 \/ \E p \in Parties : HasApp(store[p], e.id) =>
                                            e.ver <= GetApp(store[p], e.id).ver
      BY <2>1 DEF Hist, AppStates
    <3>2. e.ver = 0 \/ e.ver <= a.ver BY <1>1, <2>1, <3>1 DEF a
    <3> QED BY <1>5, <2>0, <2>1, <3>2
  <2>2. \A e, f \in Agreed' : e.kind = "app" /\ f.kind = "app" /\ e.id = f.id /\ e.ver = f.ver => e = f
    BY <1>6, <2>1 DEF Hist, AppStates
  <2>3. ASSUME NEW e \in Agreed', e.kind = "app"
        PROVE  /\ \A p \in Parties : e.id <= store'[p].np
               /\ e.ver = 0 \/ \E p \in Parties : HasApp(store'[p], e.id) =>
                                                    e.ver <= GetApp(store'[p], e.id).ver
    <3>1. CASE e \in Agreed
      <4>1. /\ \A p \in Parties : e.id <= store[p].np
            /\ e.ver = 0 \/ \E p \in Parties : HasApp(store[p], e.id) =>
                                                 e.ver <= GetApp(store[p], e.id).ver
        BY <2>3, <3>1 DEF Hist, AppStates
      <4>2. \A p \in Parties : e.id <= store'[p].np BY <1>1, <1>2, <1>4, <4>1
      <4>3. ASSUME NEW p \in Parties, HasApp(store[p], e.id) => e.ver <= GetApp(store[p], e.id).ver
            PROVE  HasApp(store'[p], e.id) => e.ver <= GetApp(store'[p], e.id).ver
        <5>1. CASE p = y BY <1>2, <4>3, <5>1
        <5>2. CASE p = x /\ e.id # id BY <1>2, <1>3, <4>3, <5>2
        <5>3. CASE p = x /\ e.id = id
          <6>1. e.ver <= a.ver BY <1>3, <4>3, <5>3 DEF a
          <6>2. e.ver <= b.ver BY <1>3, <1>5, <2>0, <2>3, <3>1, <6>1
          <6> QED BY <1>2, <5>3, <6>2 DEF b
        <5> QED BY <1>1, <5>1, <5>2, <5>3
      <4> QED BY <4>1, <4>2, <4>3
    <3>2. CASE e \notin Agreed
      <4>1. e.id = id /\ e.ver = b.ver BY <1>3, <1>6, <3>2
      <4>2. \A p \in Parties : id <= store[p].np
        BY DEF Hist, Numbered, AppIds, HasApp
      <4>3. \A p \in Parties : id <= store'[p].np BY <1>1, <1>2, <1>4, <4>2
      <4>4. e.ver <= GetApp(store'[x], e.id).ver BY <1>2, <1>3, <1>5, <4>1 DEF b
      <4> QED BY <4>1, <4>3, <4>4
    <3> QED BY <3>1, <3>2
  <2> QED BY <2>2, <2>3 DEF AppStates
<1> QED BY <1>7, <1>8, <1>9

\* The free balance moves on to a version that is new, or to what the other
\* party has already.
Moves(x, d) ==
  store[Other(x)].fb.ver = store[x].fb.ver \/ store[Other(x)].fb = d.fb

LEMMA BalancesMove ==
  ASSUME IInv, Hist, NEW x \in Parties, NEW d \in Channel, Persist(x, d),
         d.fb.ver = store[x].fb.ver + 2, Moves(x, d)
  PROVE  Balances'
<1>1. store' = [store EXCEPT ![x] = d] /\ past' = past \cup {d.fb} BY DEF Persist
<1>2. CASE store[Other(x)].fb.ver = store[x].fb.ver
  BY <1>1, <1>2, BalancesAdvance DEF Hist
<1>3. CASE store[Other(x)].fb = d.fb
  BY <1>1, <1>3, BalancesCatchUp DEF Hist
<1> QED BY <1>2, <1>3 DEF Moves

\* An app is uninstalled.
LEMMA AppUninstalled ==
  ASSUME IInv, Hist, NEW x \in Parties, NEW id \in AppId, HasApp(store[x], id),
         NEW d \in Channel, d = UninstallApp(store[x], id),
         Persist(x, d), Moves(x, d), \A e \in Agreed' : e.kind = "app" => e \in Agreed
  PROVE  Balances' /\ AppStates' /\ Foreign' /\ Numbered'
<1> DEFINE c == store[x]
           y == Other(x)
<1>1. c \in Channel /\ Parties = {x, y} /\ x # y /\ Distinct(c)
  BY Apart, TwoParties DEF Hist, Numbered
<1>0. store' = [store EXCEPT ![x] = d] BY DEF Persist
<1>2. store'[x] = d /\ store'[y] = store[y] BY <1>0, <1>1, Apart
<1>3. /\ Distinct(d) /\ d.np = c.np /\ d.props = c.props
      /\ \A i : HasApp(d, i) <=> HasApp(c, i) /\ i # id
      /\ \A i : HasApp(d, i) => GetApp(d, i) = GetApp(c, i)
  <2>1. d.np = c.np /\ d.props = c.props BY <1>1, UninstallAppFields
  <2> QED BY <1>1, <2>1, UninstallLeaves
<1>4. \A e \in Agreed' : e.kind = "app" => e \in Agreed OBVIOUS
<1>5. Foreign' /\ Numbered' BY <1>0, <1>3, <1>4, NumbersKept
<1>6. Balances'
  <2>1. d.fb.ver = c.fb.ver + 2 BY <1>1, UninstallAppType
  <2> QED BY <2>1, BalancesMove
<1>7. AppStates'
  <2>1. \A p \in Parties : store'[p].np = store[p].np BY <1>1, <1>2, <1>3
  <2>2. \A p \in Parties : \A i : HasApp(store'[p], i) =>
                                HasApp(store[p], i) /\ GetApp(store'[p], i) = GetApp(store[p], i)
    BY <1>1, <1>2, <1>3
  <2>3. \A e \in Agreed' : e.kind = "app" => e.ver = 0 \/
          \E p \in Parties : HasApp(store[p], e.id) => e.ver <= GetApp(store[p], e.id).ver
    BY <1>4 DEF Hist, AppStates
  <2>4. \A e \in Agreed' : e.kind = "app" => e.ver = 0 \/
          \E p \in Parties : HasApp(store'[p], e.id) => e.ver <= GetApp(store'[p], e.id).ver
    BY <2>2, <2>3
  <2> QED BY <1>4, <2>1, <2>4 DEF Hist, AppStates
<1> QED BY <1>5, <1>6, <1>7

\* A proposed app is installed.
LEMMA AppInstalled ==
  ASSUME IInv, Hist, NEW x \in Parties, NEW q \in Proposal,
         CanInstallApp(store[x], q), ~HasApp(store[x], q.id), Untouched(q.id),
         \A s \in Parties : q.id <= store[s].np,
         \A t \in store[Other(x)].props : t.by = x => t.id # q.id,
         NEW d \in Channel, d.np = store[x].np, d.fb = InstallApp(store[x], q).fb,
         d.apps = InstallApp(store[x], q).apps,
         d.props \subseteq InstallApp(store[x], q).props,
         Persist(x, d), Moves(x, d), \A e \in Agreed' : e.kind = "app" => e \in Agreed
  PROVE  Balances' /\ AppStates' /\ Foreign' /\ Numbered'
<1> DEFINE c == store[x]
           y == Other(x)
           e0 == InstallApp(c, q)
<1>1. c \in Channel /\ Parties = {x, y} /\ x # y /\ Distinct(c)
  BY Apart, TwoParties DEF Hist, Numbered
<1>0. store' = [store EXCEPT ![x] = d] BY DEF Persist
<1>2. store'[x] = d /\ store'[y] = store[y] BY <1>0, <1>1, Apart
<1>3. /\ Distinct(e0) /\ e0.props = {r \in c.props : r.id # q.id}
      /\ \A i : HasApp(e0, i) <=> HasApp(c, i) \/ i = q.id
      /\ \A i : HasApp(c, i) => GetApp(e0, i) = GetApp(c, i)
  <2>1. e0.props = {r \in c.props : r.id # q.id} BY <1>1, InstallAppFields
  <2> QED BY <1>1, <2>1, InstallJoins
<1> HIDE DEF e0
<1>4. /\ Distinct(d) /\ \A t \in d.props : t \in c.props /\ t.id # q.id
      /\ \A i : HasApp(d, i) <=> HasApp(c, i) \/ i = q.id
      /\ \A i : HasApp(c, i) => GetApp(d, i) = GetApp(c, i)
  <2>1. d.apps = e0.apps /\ d.props \subseteq e0.props BY DEF e0
  <2>2. Distinct(d) BY <1>3, <2>1 DEF Distinct
  <2>3. \A i : HasApp(d, i) <=> HasApp(e0, i) BY <2>1 DEF HasApp
  <2>4. \A i : GetApp(d, i) = GetApp(e0, i) BY <2>1 DEF GetApp
  <2> QED BY <1>3, <2>1, <2>2, <2>3, <2>4
<1>5. \A e \in Agreed' : e.kind = "app" => e \in Agreed OBVIOUS
<1>6. Foreign' /\ Numbered' BY <1>0, <1>4, <1>5, NumbersKept
<1>7. Balances'
  <2>1. d.fb.ver = c.fb.ver + 2 BY <1>1, InstallAppType
  <2> QED BY <2>1, BalancesMove
<1>8. AppStates'
  <2>1. \A p \in Parties : store'[p].np = store[p].np BY <1>1, <1>2
  <2>2. \A p \in Parties : \A i : HasApp(store'[p], i) /\ i # q.id =>
                                HasApp(store[p], i) /\ GetApp(store'[p], i) = GetApp(store[p], i)
    BY <1>1, <1>2, <1>4
  <2>3. \A e \in Agreed' : e.kind = "app" => e.ver = 0 \/
          \E p \in Parties : HasApp(store[p], e.id) => e.ver <= GetApp(store[p], e.id).ver
    BY <1>5 DEF Hist, AppStates
  <2>4. \A e \in Agreed' : e.kind = "app" /\ e.id = q.id => e.ver = 0
    BY <1>5 DEF Untouched
  <2>5. \A e \in Agreed' : e.kind = "app" => e.ver = 0 \/
          \E p \in Parties : HasApp(store'[p], e.id) => e.ver <= GetApp(store'[p], e.id).ver
    BY <2>2, <2>3, <2>4
  <2> QED BY <1>5, <2>1, <2>5 DEF Hist, AppStates
<1> QED BY <1>6, <1>7, <1>8

-----------------------------------------------------------------------------
(* The steps of the two-message protocols.                                  *)

LEMMA GoingOn ==
  ASSUME IInv, Hist, NEW r \in Runs, Live(r)
  PROVE  /\ Going(r) /\ (\A m \in net : m.run = r) /\ (\A m, n \in net : m = n)
         /\ \A m \in net : net \ {m} = {}
BY OneLive DEF Hist, Going, Phase

\* The books in which the two halves and the messages look things up.
LEMMA ProposePersistHist ==
  ASSUME IInv, Hist, NEW r \in Runs, ProposePersist(r)
  PROVE  Hist'
<1> DEFINE p == ini[r].by
           op == ini[r].op
           post == ini[r].post
           q == NextProposal(store[p], op.def, p, op.own, op.other)
<1>1. /\ ini[r].pc = "persist" /\ op.proto = "propose"
      /\ Persist(p, post)
      /\ ini' = [ini EXCEPT ![r].pc = "wait2"]
      /\ net' = net \cup {Request(r, p, op, {Signed(op, post)})}
      /\ UNCHANGED <<held, rsp, locks>>
  BY DEF ProposePersist, SendRequest
<1>2. Live(r) BY <1>1 DEF Live, Active
<1>3. /\ Going(r) /\ rsp[r].pc = "idle" /\ net = {} /\ post = Result(op, p, store[p])
  BY <1>1, <1>2, GoingOn DEF Going, Phase, IniReady
<1>4. /\ p \in Parties /\ store[p] \in Channel /\ op \in Op /\ post \in Channel
      /\ ini[r] \in IniHalf /\ Responder(r) \in Parties /\ Responder(r) # p
  BY HalfFields
<1>5. /\ ini'[r].by = p /\ ini'[r].op = op /\ ini'[r].post = post /\ ini'[r].pc = "wait2"
      /\ \A s \in Runs \ {r} : ini'[s] = ini[s]
  BY <1>1, <1>4, Apart DEF IniHalf
<1>6. post = AddProposal(store[p], q) /\ q \in Proposal
  <2>1. q \in Proposal BY <1>1, <1>4, OpFields, NextProposalType
  <2> QED BY <1>1, <1>3, <2>1 DEF Result
<1>7. q.by = p /\ q.id = store[p].np + 1 BY DEF NextProposal
<1> HIDE DEF p, op, post, q
<1>8. Agreed' = Agreed BY <1>1 DEF Agreed
<1>9. Balances' /\ AppStates' /\ Foreign' /\ Numbered'
  BY <1>1, <1>4, <1>6, <1>7, <1>8, ProposalAdded
<1>10. \A m \in net' : /\ m.run = r /\ m.n = 1 /\ m.op = op /\ m.sigs = {Signed(op, post)}
  BY <1>1, <1>3 DEF Request, Message
<1>11. \A m, n \in net' : m = n BY <1>1, <1>3
<1>12. Going(r)'
  <2>1. store'[p] = post BY <1>1, <1>4, Apart DEF Persist
  <2>2. Phase(r)' BY <1>1, <1>3, <1>5, <1>10, <1>11 DEF Phase, Answering, Completing
  <2>3. IniReady(r)' BY <1>1, <1>5, <2>1 DEF IniReady, Possible
  <2>4. RspReady(r)' BY <1>1, <1>3 DEF RspReady
  <2>5. Requested(r)'
    <3>1. \A m \in net' : /\ m.op.proto = "propose" /\ m.op = ini'[r].op
                           /\ m.sigs = {Signed(m.op, store'[ini'[r].by])}
      BY <1>1, <1>5, <1>10, <2>1
    <3> QED BY <1>1, <1>3, <3>1 DEF Requested, Asked, Answering
  <2>6. Replied(r)' BY <1>5, <1>10 DEF Replied
  <2>7. Installing(r)' BY <1>1, <1>3, <1>10 DEF Installing, Completing
  <2> QED BY <2>2, <2>3, <2>4, <2>5, <2>6, <2>7 DEF Going
<1> QED BY <1>1, <1>2, <1>3, <1>5, <1>9, <1>10, <1>12, LiveStep

\* The responder accepts a request.
LEMMA RespondHist ==
  ASSUME IInv, Hist, NEW m \in net, m.n = 1, NEW post \in Channel,
         m.op.proto \in {"propose", "uninstall", "takeAction"},
         Possible(m.op, store[m.to]), post = Result(m.op, Other(m.to), store[m.to]),
         Respond(m, TRUE, post)
  PROVE  Hist'
<1> DEFINE r == m.run
           half == [pc |-> "verified", op |-> m.op, post |-> post]
<1>1. net' = net \ {m} /\ UNCHANGED <<store, past, held, ini, locks>> BY DEF Respond
<1>2. CASE Signed(m.op, post) \notin m.sigs
  <2>1. rsp' = rsp BY <1>2 DEF Respond
  <2> QED BY <1>1, <2>1, DropHist
<1>3. CASE Signed(m.op, post) \in m.sigs
  <2>1. rsp' = [rsp EXCEPT ![r] = half] BY <1>3 DEF Respond
  <2>2. half.pc = "verified" /\ half.op = m.op /\ half.post = post OBVIOUS
  <2> HIDE DEF half
  <2>3. r \in Runs /\ Live(r) /\ m.op \in Op /\ m.to = Responder(r)
    BY MessageFields, FirstMessage
  <2>4. Going(r) /\ net' = {} BY <1>1, <2>3, GoingOn
  <2>5. /\ ini[r].by \in Parties /\ Responder(r) \in Parties /\ Other(m.to) = ini[r].by
    BY <2>3, HalfFields
  <2>6. rsp'[r] = half /\ \A s \in Runs \ {r} : rsp'[s] = rsp[s] BY <2>1, <2>3, Apart
  <2>7. /\ Balances' /\ AppStates' /\ Foreign' /\ Numbered'
    BY <1>1, NothingNew, SameBooks DEF Agreed
  <2>8. Going(r)'
    <3>1. ini[r].pc \in {"wait2", "crashed"} BY <2>4 DEF Going, Phase
    <3>2. Responder(r)' = Responder(r) BY <1>1 DEF Responder
    <3>3. Phase(r)' BY <1>1, <2>2, <2>4, <2>6, <3>1 DEF Phase, Answering, Completing
    <3>4. IniReady(r)' BY <1>1, <2>4, <3>2 DEF Going, IniReady
    <3>5. RspReady(r)'
      <4>1. ini[r].pc = "wait2" => m.op = ini[r].op BY <2>4 DEF Going, Requested
      <4> QED BY <1>1, <1>3, <2>2, <2>3, <2>5, <2>6, <3>1, <3>2, <4>1 DEF RspReady
    <3>6. Requested(r)'
      <4>1. /\ m.op.proto \in {"uninstall", "takeAction"} => Possible(m.op, store[ini[r].by])
            /\ m.sigs = {Asked(m.op, ini[r].by)}
        BY <2>4 DEF Going, Requested
      <4>2. Asked(m.op, ini[r].by)' = Asked(m.op, ini[r].by) BY <1>1 DEF Asked
      <4>3. Signed(m.op, post) = Asked(m.op, ini[r].by) BY <1>3, <4>1
      <4> QED BY <1>1, <2>2, <2>4, <2>6, <4>1, <4>2, <4>3 DEF Requested, Answering
    <3>7. Replied(r)' BY <1>1, <2>4, <3>1 DEF Replied
    <3>8. Installing(r)' BY <2>2, <2>4, <2>6 DEF Installing, Completing
    <3> QED BY <3>3, <3>4, <3>5, <3>6, <3>7, <3>8 DEF Going
  <2> QED BY <1>1, <2>3, <2>4, <2>6, <2>7, <2>8, LiveStep
<1> QED BY <1>2, <1>3

\* What the responder is about to persist, and what both parties have signed.
LEMMA AnsweringIs ==
  ASSUME IInv, Hist, NEW r \in Runs, Live(r), Answering(r)
  PROVE  /\ Possible(rsp[r].op, store[Responder(r)])
         /\ rsp[r].post = Result(rsp[r].op, ini[r].by, store[Responder(r)])
         /\ rsp[r].op.proto \in {"uninstall", "takeAction"} => Possible(rsp[r].op, store[ini[r].by])
         /\ Signed(rsp[r].op, rsp[r].post) = Asked(rsp[r].op, ini[r].by)
         /\ rsp[r].op.proto \in {"propose", "uninstall", "takeAction"}
         /\ Going(r) /\ net = {} /\ ini[r].pc \in {"wait2", "crashed"}
<1>1. Going(r) BY GoingOn
<1>2. rsp[r].pc \in {"verified", "written"} BY DEF Answering
<1>3. rsp[r].op.proto # "install" BY HalvesFit DEF Answering, RspFits, TwoMessage
<1>4. /\ Possible(rsp[r].op, store[Responder(r)])
      /\ rsp[r].post = Result(rsp[r].op, ini[r].by, store[Responder(r)])
  BY <1>1, <1>2 DEF Going, RspReady
<1>5. rsp[r].op.proto \in {"propose", "uninstall", "takeAction"}
  BY <1>3, <1>4 DEF Possible
<1>6. net = {} /\ ini[r].pc \in {"wait2", "crashed"} BY <1>1 DEF Going, Phase
<1> QED BY <1>1, <1>4, <1>5, <1>6 DEF Going, Requested

\* The responder has the commitment of an uninstall written.
LEMMA UninstallWriteHist ==
  ASSUME IInv, Hist, NEW r \in Runs, UninstallWrite(r)
  PROVE  Hist'
<1> DEFINE o == Responder(r)
           sig == Signed(rsp[r].op, rsp[r].post)
<1>1. /\ rsp[r].pc = "verified" /\ rsp[r].op.proto = "uninstall"
      /\ held' = [held EXCEPT ![o] = @ \cup {sig}]
      /\ rsp' = [rsp EXCEPT ![r].pc = "written"]
      /\ UNCHANGED <<store, past, ini, net, locks>>
  BY DEF UninstallWrite, ResponderHolds
<1>2. Live(r) /\ Answering(r) BY <1>1 DEF Live, Quiet, Answering
<1>3. Going(r) /\ net = {} /\ ini[r].pc \in {"wait2", "crashed"} BY <1>2, AnsweringIs
<1>4. o \in Parties /\ rsp[r] \in RspHalf BY HalfFields
<1>5. /\ rsp'[r].pc = "written" /\ rsp'[r].op = rsp[r].op /\ rsp'[r].post = rsp[r].post
      /\ \A s \in Runs \ {r} : rsp'[s] = rsp[s]
  BY <1>1, <1>4, Apart DEF RspHalf
<1>6. sig.kind = "freeBalance" BY <1>1 DEF Signed, SetFreeBalance
<1> HIDE DEF sig
<1>7. Agreed' = Agreed \cup {sig} BY <1>1, <1>4, AgreedGrows
<1>8. Balances' /\ AppStates' /\ Foreign' /\ Numbered'
  BY <1>1, <1>6, <1>7, SameBooks
<1>9. Going(r)'
  <2>1. Responder(r)' = o BY <1>1 DEF Responder
  <2>2. Answering(r)' /\ ~Completing(r)' BY <1>1, <1>5 DEF Answering, Completing
  <2>3. Phase(r)' BY <1>1, <1>3, <1>5, <2>2 DEF Phase
  <2>4. IniReady(r)' BY <1>1, <1>3, <2>1 DEF Going, IniReady
  <2>5. RspReady(r)' BY <1>1, <1>3, <1>5, <2>1 DEF Going, RspReady
  <2>6. Requested(r)'
    <3>1. Asked(rsp[r].op, ini[r].by)' = Asked(rsp[r].op, ini[r].by)
      BY <1>1, <1>5 DEF Asked
    <3> QED BY <1>1, <1>2, <1>3, <1>5, <3>1 DEF Going, Requested
  <2>7. Replied(r)' BY <1>1, <1>3 DEF Replied
  <2>8. Installing(r)' BY <1>1, <1>3, <1>5, <2>2 DEF Installing
  <2> QED BY <2>3, <2>4, <2>5, <2>6, <2>7, <2>8 DEF Going
<1> QED BY <1>1, <1>2, <1>5, <1>8, <1>9, LiveStep

\* What the reply of the responder does to the books.
LEMMA RepliedBooks ==
  ASSUME IInv, Hist, NEW r \in Runs, Live(r), Answering(r),
         Persist(Responder(r), rsp[r].post),
         Agreed' = Agreed \cup {Signed(rsp[r].op, rsp[r].post)}
  PROVE  Balances' /\ AppStates' /\ Foreign' /\ Numbered'
<1> DEFINE p == ini[r].by
           o == Responder(r)
           op == rsp[r].op
           post == rsp[r].post
           sig == Signed(op, post)
<1>1. /\ Possible(op, store[o]) /\ post = Result(op, p, store[o])
      /\ op.proto \in {"uninstall", "takeAction"} => Possible(op, store[p])
      /\ sig = Asked(op, p)
      /\ op.proto \in {"propose", "uninstall", "takeAction"}
  BY AnsweringIs
<1>2. /\ p \in Parties /\ o \in Parties /\ p = Other(o) /\ o # p /\ op \in Op
      /\ post \in Channel /\ store[p] \in Channel /\ store[o] \in Channel
  BY HalfFields
<1>3. store[o].np \in Nat /\ store[p].np \in Nat /\ store[p].fb.ver \in Nat /\ store[o].fb.ver \in Nat
  BY <1>2, ChannelFields
<1>4. Persist(o, post) /\ Agreed' = Agreed \cup {sig} OBVIOUS
<1> HIDE DEF p, o, op, post, sig
<1>5. CASE op.proto = "propose"
  <2> DEFINE q == NextProposal(store[o], op.def, p, op.own, op.other)
  <2>1. /\ q \in Proposal /\ q.by = p /\ q.id = store[o].np + 1
    <3>1. q \in Proposal BY <1>2, <1>5, OpFields, NextProposalType
    <3> QED BY <3>1 DEF NextProposal
  <2>2. post = AddProposal(store[o], q) BY <1>1, <1>5 DEF Result
  <2>3. post.np = q.id BY <1>2, <2>1, <2>2, AddProposalFields
  <2>4. sig = [kind |-> "app", id |-> post.np, ver |-> 0, st |-> op.own]
    BY <1>5 DEF Signed, sig
  <2>5. sig = [kind |-> "app", id |-> store[p].np, ver |-> 0, st |-> op.own]
    BY <1>1, <1>5 DEF Signed, Asked
  <2>6. sig.id = post.np /\ sig.id = store[p].np BY <2>4, <2>5
  <2>7. q.by = Other(o) /\ q.id <= store[Other(o)].np
    BY <1>2, <1>3, <2>1, <2>3, <2>6
  <2>8. Agreed' = Agreed \cup {[kind |-> "app", id |-> q.id, ver |-> 0, st |-> op.own]}
    BY <1>4, <2>3, <2>4
  <2> HIDE DEF q
  <2> QED BY <1>2, <1>4, <2>1, <2>2, <2>7, <2>8, ProposalAdded
<1>6. CASE op.proto = "uninstall"
  <2> DEFINE mine == UninstallApp(store[p], op.id)
  <2>1. HasApp(store[o], op.id) /\ HasApp(store[p], op.id) /\ op.id \in AppId
    BY <1>1, <1>2, <1>6, OpFields DEF Possible
  <2>2. post = UninstallApp(store[o], op.id) BY <1>1, <1>6 DEF Result
  <2>3. sig = SetFreeBalance(post) BY <1>6 DEF Signed, sig
  <2>4. sig = SetFreeBalance(mine) BY <1>1, <1>6 DEF Signed, Asked, Result
  <2>5. post.fb = mine.fb BY <2>3, <2>4 DEF SetFreeBalance
  <2>6. post.fb.ver = store[o].fb.ver + 2 /\ mine.fb.ver = store[p].fb.ver + 2
    BY <1>2, <2>1, <2>2, UninstallAppType
  <2>7. Moves(o, post)
    <3>1. store[o].fb.ver = store[p].fb.ver BY <1>3, <2>5, <2>6
    <3> QED BY <1>2, <3>1 DEF Moves
  <2>8. \A e \in Agreed' : e.kind = "app" => e \in Agreed
    BY <1>4, <2>3 DEF SetFreeBalance
  <2> QED BY <1>2, <1>4, <2>1, <2>2, <2>7, <2>8, AppUninstalled
<1>7. CASE op.proto = "takeAction"
  <2> DEFINE a == GetApp(store[o], op.id)
             b == GetApp(store[p], op.id)
             left == a.st - op.amount
             mine == ApplyAction(store[p], op.id, op.amount)
  <2>1. /\ HasApp(store[o], op.id) /\ HasApp(store[p], op.id) /\ op.id \in AppId
        /\ op.amount \in Nat /\ op.amount <= a.st /\ op.amount <= b.st
    BY <1>1, <1>2, <1>7, OpFields DEF Possible
  <2>2. a \in App /\ b \in App BY <1>2, <2>1, GetAppType
  <2>3. /\ a.st \in Nat /\ a.ver \in Nat /\ b.st \in Nat /\ b.ver \in Nat
        /\ a.st <= Pot(a) /\ b.st <= Pot(b) /\ Pot(a) \in Nat /\ Pot(b) \in Nat
    BY <2>2, AppFields
  <2>4. left \in Nat /\ left <= Pot(a) /\ b.st - op.amount \in Nat /\ b.st - op.amount <= Pot(b)
    BY <2>1, <2>3
  <2>5. post = SetState(store[o], op.id, left)
    BY <1>1, <1>7 DEF Result, ApplyAction
  <2>6. mine = SetState(store[p], op.id, b.st - op.amount) BY DEF ApplyAction
  <2>7. sig = SetAppState(GetApp(post, op.id)) BY <1>7 DEF Signed, sig
  <2>8. sig = SetAppState(GetApp(mine, op.id)) BY <1>1, <1>7 DEF Signed, Asked, Result
  <2>9. GetApp(post, op.id).ver = GetApp(mine, op.id).ver BY <2>7, <2>8 DEF SetAppState
  <2>10. Distinct(store[o]) /\ Distinct(store[p]) BY <1>2 DEF Hist, Numbered
  <2> HIDE DEF left, mine
  <2>11. GetApp(post, op.id).ver = a.ver + 1
    BY <1>2, <2>1, <2>4, <2>5, <2>10, SetStateMoves
  <2>12. GetApp(mine, op.id).ver = b.ver + 1
    BY <1>2, <2>1, <2>4, <2>6, <2>10, SetStateMoves
  <2>13. a.ver = b.ver
    <3>1. a.ver + 1 = b.ver + 1 BY <2>9, <2>11, <2>12
    <3>2. \A u, v \in Nat : u + 1 = v + 1 => u = v OBVIOUS
    <3> QED BY <2>3, <3>1, <3>2
  <2> QED BY <1>2, <1>4, <2>1, <2>4, <2>5, <2>7, <2>13, AppActed
<1> QED BY <1>1, <1>5, <1>6, <1>7

LEMMA ReplyIs ==
  ASSUME IInv, Hist, NEW r \in Runs, PersistAndReply(r)
  PROVE  /\ Live(r) /\ Answering(r)
         /\ Persist(Responder(r), rsp[r].post)
         /\ held' = [held EXCEPT ![Responder(r)] = @ \cup {Signed(rsp[r].op, rsp[r].post)}]
         /\ net' = {Reply(r, 2, ini[r].by, {Signed(rsp[r].op, rsp[r].post)})}
         /\ rsp' = [rsp EXCEPT ![r] = DoneRsp]
         /\ UNCHANGED <<ini, locks>>
<1>1. Live(r) /\ Answering(r) BY DEF PersistAndReply, Live, Quiet, Answering
<1>2. net = {} /\ rsp[r].op.proto # "reject" BY <1>1, AnsweringIs
<1> QED BY <1>1, <1>2 DEF PersistAndReply, ResponderHolds

LEMMA PersistAndReplyHist ==
  ASSUME IInv, Hist, NEW r \in Runs, PersistAndReply(r)
  PROVE  Hist'
<1> DEFINE p == ini[r].by
           o == Responder(r)
           op == rsp[r].op
           post == rsp[r].post
           sig == Signed(op, post)
<1>1. Live(r) /\ Answering(r) BY ReplyIs
<1>2. /\ Going(r) /\ sig = Asked(op, p)
      /\ op.proto \in {"propose", "uninstall", "takeAction"}
      /\ ini[r].pc \in {"wait2", "crashed"}
  BY <1>1, AnsweringIs
<1>3. /\ Persist(o, post)
      /\ held' = [held EXCEPT ![o] = @ \cup {sig}]
      /\ net' = {Reply(r, 2, p, {sig})}
      /\ rsp' = [rsp EXCEPT ![r] = DoneRsp]
      /\ UNCHANGED <<ini, locks>>
  BY ReplyIs
<1>4. /\ p \in Parties /\ o \in Parties /\ o # p BY HalfFields
<1>5. Agreed' = Agreed \cup {sig}
  <2>1. held' = [held EXCEPT ![o] = @ \cup {sig}] BY <1>3
  <2> QED BY <1>4, <2>1, AgreedGrows
<1>6. Balances' /\ AppStates' /\ Foreign' /\ Numbered' BY <1>1, <1>3, <1>5, RepliedBooks
<1>7. /\ \A m \in net' : m.run = r /\ m.n = 2 /\ m.sigs = {sig}
      /\ \A m, n \in net' : m = n
  BY <1>3 DEF Reply, Message
<1>8. rsp'[r].pc = "done" /\ \A s \in Runs \ {r} : rsp'[s] = rsp[s]
  BY <1>3, Apart DEF DoneRsp
<1>9. Going(r)'
  <2>1. store'[o] = post /\ store'[p] = store[p] /\ held'[o] = held[o] \cup {sig}
    BY <1>3, <1>4, Apart DEF Persist
  <2>2. Responder(r)' = o /\ ~Answering(r)' /\ ~Completing(r)'
    BY <1>3, <1>8 DEF Responder, Answering, Completing
  <2>3. Phase(r)' BY <1>2, <1>3, <1>7, <1>8, <2>2 DEF Phase
  <2>4. IniReady(r)' BY <1>2, <1>3, <2>1, <2>2 DEF Going, IniReady
  <2>5. RspReady(r)' BY <1>8 DEF RspReady
  <2>6. Requested(r)' BY <1>7, <2>2 DEF Requested
  <2>7. Replied(r)'
    <3> SUFFICES ASSUME ini[r].pc = "wait2"
                 PROVE  /\ ini[r].op.proto # "install"
                        /\ sig = Signed(ini[r].op, ini[r].post)
                        /\ ini[r].op.proto = "uninstall" => post.fb = ini[r].post.fb
      BY <1>2, <1>3, <1>7, <2>1, <2>2 DEF Replied
    <3>1. op = ini[r].op BY <1>1, <1>2 DEF Going, RspReady, Answering
    <3>2. IF op.proto = "propose" THEN store[p] = ini[r].post
                                  ELSE ini[r].post = Result(op, p, store[p])
      BY <1>2, <3>1 DEF Going, IniReady
    <3>3. sig = Signed(op, ini[r].post) BY <1>2, <3>2 DEF Asked
    <3>4. op.proto = "uninstall" => SetFreeBalance(post) = SetFreeBalance(ini[r].post)
      BY <3>3 DEF Signed
    <3>5. SetFreeBalance(post) = SetFreeBalance(ini[r].post) => post.fb = ini[r].post.fb
      BY DEF SetFreeBalance
    <3> QED BY <1>2, <3>1, <3>3, <3>4, <3>5
  <2>8. Installing(r)' BY <1>7, <1>8, <2>2 DEF Installing
  <2> QED BY <2>3, <2>4, <2>5, <2>6, <2>7, <2>8 DEF Going
<1> QED BY <1>1, <1>3, <1>6, <1>7, <1>8, <1>9, LiveStep

\* The answer to a request always carries the signature that is awaited, and
\* gives the initiator nothing the responder did not have signed already.
LEMMA Answered ==
  ASSUME IInv, Hist, NEW r \in Runs, NEW m \in net, m.run = r, m.n = 2,
         ini[r].pc = "wait2", ini[r].op.proto # "install"
  PROVE  /\ Live(r) /\ Going(r) /\ net \ {m} = {} /\ rsp[r].pc \in {"wait3", "done"}
         /\ m.sigs = {Signed(ini[r].op, ini[r].post)}
         /\ m.sigs \subseteq held[Responder(r)]
         /\ ini[r].op.proto = "uninstall" => store[Responder(r)].fb = ini[r].post.fb
         /\ InitiatorHolds(r, m.sigs) => Agreed' = Agreed
<1>1. Live(r) BY DEF Live, Active
<1>2. Going(r) /\ net \ {m} = {} BY <1>1, GoingOn
<1>3. rsp[r].pc \in {"wait3", "done"} BY <1>2 DEF Going, Phase
<1>4. /\ m.sigs = {Signed(ini[r].op, ini[r].post)}
      /\ m.sigs \subseteq held[Responder(r)]
      /\ ini[r].op.proto = "uninstall" => store[Responder(r)].fb = ini[r].post.fb
  BY <1>2 DEF Going, Replied
<1>5. ASSUME InitiatorHolds(r, m.sigs) PROVE Agreed' = Agreed
  <2>1. ini[r].by \in Parties /\ Responder(r) \in Parties BY HalfFields
  <2>2. held' = [held EXCEPT ![ini[r].by] = @ \cup m.sigs] BY <1>5 DEF InitiatorHolds
  <2>3. Agreed' = Agreed \cup m.sigs BY <2>1, <2>2, AgreedGrows
  <2>4. m.sigs \subseteq Agreed BY <1>4, <2>1 DEF Agreed
  <2> QED BY <2>3, <2>4
<1> QED BY <1>1, <1>2, <1>3, <1>4, <1>5

\* A run of two messages that persists what it has signed is over.
LEMMA FinishIs ==
  ASSUME IInv, Hist, NEW r \in Runs, NEW proto \in {"propose", "takeAction"},
         Finish(r, proto)
  PROVE  /\ Live(r) /\ ini[r].pc = "wait2" /\ ini[r].op.proto = proto /\ Agreed' = Agreed
         /\ IF proto = "propose" THEN UNCHANGED <<store, past>>
                                 ELSE Persist(ini[r].by, ini[r].post)
         /\ \A s \in Runs \ {r} : ini'[s] = ini[s]
         /\ net' \subseteq net /\ locks' \subseteq locks /\ rsp' = rsp /\ ~Live(r)'
<1> DEFINE sig == Signed(ini[r].op, ini[r].post)
<1>1. ini[r].pc = "wait2" /\ ini[r].op.proto = proto /\ rsp' = rsp BY DEF Finish
<1>2. PICK m \in net :
        /\ m.run = r /\ m.n = 2
        /\ net' = net \ {m}
        /\ IF sig \in m.sigs
             THEN /\ IF proto = "propose" THEN UNCHANGED <<store, past>>
                                          ELSE Persist(ini[r].by, ini[r].post)
                  /\ InitiatorHolds(r, {sig})
                  /\ Leave(r, "returned")
             ELSE /\ Leave(r, "threw")
                  /\ UNCHANGED <<store, past, held>>
  BY DEF Finish
<1>3. /\ Live(r) /\ net' = {} /\ rsp[r].pc \in {"wait3", "done"} /\ m.sigs = {sig}
      /\ InitiatorHolds(r, m.sigs) => Agreed' = Agreed
  BY <1>1, <1>2, Answered
<1>4. /\ IF proto = "propose" THEN UNCHANGED <<store, past>>
                              ELSE Persist(ini[r].by, ini[r].post)
      /\ InitiatorHolds(r, {sig}) /\ Leave(r, "returned")
  BY <1>2, <1>3
<1> HIDE DEF sig
<1>5. /\ ini' = [ini EXCEPT ![r] = NoHalf(ini[r].by, "returned")]
      /\ locks' \subseteq locks
  BY <1>4 DEF Leave
<1>6. ini'[r].pc = "returned" /\ \A s \in Runs \ {r} : ini'[s] = ini[s]
  BY <1>5, Apart DEF NoHalf
<1>7. ~Live(r)' BY <1>1, <1>3, <1>6 DEF Live, Active, Quiet
<1> QED BY <1>1, <1>2, <1>3, <1>4, <1>5, <1>6, <1>7

LEMMA FinishHist ==
  ASSUME IInv, Hist, NEW r \in Runs, ProposeFinish(r) \/ TakeActionFinish(r)
  PROVE  Hist'
<1> DEFINE p == ini[r].by
           op == ini[r].op
           post == ini[r].post
<1>1. /\ p \in Parties /\ op \in Op /\ post \in Channel /\ store[p] \in Channel
  BY HalfFields
<1>2. CASE ProposeFinish(r)
  <2>1. Finish(r, "propose") BY <1>2 DEF ProposeFinish
  <2>2. /\ Live(r) /\ UNCHANGED <<store, past>> /\ Agreed' = Agreed
        /\ \A s \in Runs \ {r} : ini'[s] = ini[s]
        /\ net' \subseteq net /\ locks' \subseteq locks /\ rsp' = rsp /\ ~Live(r)'
    BY <2>1, FinishIs
  <2>3. Balances' /\ AppStates' /\ Foreign' /\ Numbered' BY <2>2, SameBooks
  <2> QED BY <2>2, <2>3, LiveStep
<1>3. CASE TakeActionFinish(r)
  <2> DEFINE a == GetApp(store[p], op.id)
             left == a.st - op.amount
  <2>1. Finish(r, "takeAction") BY <1>3 DEF TakeActionFinish
  <2>2. /\ Live(r) /\ ini[r].pc = "wait2" /\ op.proto = "takeAction"
        /\ Persist(p, post) /\ Agreed' = Agreed
        /\ \A s \in Runs \ {r} : ini'[s] = ini[s]
        /\ net' \subseteq net /\ locks' \subseteq locks /\ rsp' = rsp /\ ~Live(r)'
    BY <2>1, FinishIs
  <2>3. Possible(op, store[p]) /\ post = Result(op, p, store[p])
    BY <2>2, GoingOn DEF Going, IniReady
  <2>4. /\ HasApp(store[p], op.id) /\ op.amount \in Nat /\ op.amount <= a.st
        /\ post = SetState(store[p], op.id, left)
    BY <1>1, <2>2, <2>3, OpFields DEF Possible, Result, ApplyAction
  <2>5. left \in Nat /\ left <= Pot(a) BY <1>1, <2>4, GetAppType, AppFields
  <2> HIDE DEF left
  <2>6. Balances' /\ AppStates' /\ Foreign' /\ Numbered'
    BY <1>1, <2>2, <2>4, <2>5, AppActed
  <2> QED BY <2>2, <2>6, LiveStep
<1> QED BY <1>2, <1>3

\* The initiator of an uninstall has the commitment written.
LEMMA UninstallCountersignHist ==
  ASSUME IInv, Hist, NEW r \in Runs, UninstallCountersign(r)
  PROVE  Hist'
<1> DEFINE o == Responder(r)
           op == ini[r].op
           post == ini[r].post
<1>1. /\ ini[r].pc = "wait2" /\ op.proto = "uninstall"
      /\ UNCHANGED <<store, past, rsp>>
  BY DEF UninstallCountersign
<1>2. PICK m \in net :
        /\ m.run = r /\ m.n = 2
        /\ net' = net \ {m}
        /\ IF SetFreeBalance(post) \in m.sigs
             THEN /\ InitiatorHolds(r, {SetFreeBalance(post)})
                  /\ ini' = [ini EXCEPT ![r].pc = "written"]
                  /\ UNCHANGED locks
             ELSE Leave(r, "threw") /\ UNCHANGED held
  BY DEF UninstallCountersign
<1>3. Signed(op, post) = SetFreeBalance(post) BY <1>1 DEF Signed
<1>4. /\ Live(r) /\ Going(r) /\ net' = {} /\ rsp[r].pc \in {"wait3", "done"}
      /\ m.sigs = {SetFreeBalance(post)}
      /\ store[o].fb = post.fb
      /\ InitiatorHolds(r, m.sigs) => Agreed' = Agreed
  BY <1>1, <1>2, <1>3, Answered
<1>5. /\ ini' = [ini EXCEPT ![r].pc = "written"] /\ UNCHANGED locks /\ Agreed' = Agreed
  BY <1>2, <1>4
<1>6. ini[r] \in IniHalf BY HalfFields
<1>7. /\ ini'[r].by = ini[r].by /\ ini'[r].op = op /\ ini'[r].post = post
      /\ ini'[r].pc = "written" /\ \A s \in Runs \ {r} : ini'[s] = ini[s]
  BY <1>5, <1>6, Apart DEF IniHalf
<1>8. /\ Balances' /\ AppStates' /\ Foreign' /\ Numbered'
      /\ \A id : Untouched(id) => Untouched(id)'
  BY <1>1, <1>5, SameBooks
<1>9. Going(r)'
  <2>1. Responder(r)' = o BY <1>7 DEF Responder
  <2>2. ~Answering(r)' /\ ~Completing(r)' BY <1>1, <1>4 DEF Answering, Completing
  <2>3. Phase(r)' BY <1>1, <1>4, <1>7, <2>2 DEF Phase
  <2>4. IniReady(r)' BY <1>1, <1>4, <1>7, <2>1 DEF Going, IniReady
  <2>5. RspReady(r)' BY <1>1, <1>4, <1>7, <2>1 DEF Going, RspReady
  <2>6. Requested(r)' BY <1>4, <2>2 DEF Requested
  <2>7. Replied(r)' BY <1>1, <1>4, <1>7, <2>1 DEF Replied
  <2>8. Installing(r)' BY <1>1, <1>4, <1>7, <1>8, <2>1, <2>2 DEF Going, Installing
  <2> QED BY <2>3, <2>4, <2>5, <2>6, <2>7, <2>8 DEF Going
<1> QED BY <1>1, <1>4, <1>5, <1>7, <1>8, <1>9, LiveStep

\* It persists what the responder has persisted.
LEMMA UninstallFinishIs ==
  ASSUME IInv, Hist, NEW r \in Runs, UninstallFinish(r)
  PROVE  /\ Live(r) /\ ini[r].op.id \in AppId /\ HasApp(store[ini[r].by], ini[r].op.id)
         /\ ini[r].post = UninstallApp(store[ini[r].by], ini[r].op.id)
         /\ Moves(ini[r].by, ini[r].post)
         /\ Persist(ini[r].by, ini[r].post) /\ UNCHANGED <<held, rsp, net>>
         /\ \A s \in Runs \ {r} : ini'[s] = ini[s]
         /\ locks' \subseteq locks /\ ~Live(r)'
<1>1. /\ ini[r].pc = "written" /\ ini[r].op.proto = "uninstall"
      /\ Persist(ini[r].by, ini[r].post) /\ UNCHANGED <<held, rsp, net>>
      /\ ini' = [ini EXCEPT ![r] = NoHalf(ini[r].by, "returned")]
      /\ locks' \subseteq locks
  BY DEF UninstallFinish, Leave
<1>2. Live(r) BY <1>1 DEF Live, Active
<1>3. Going(r) BY <1>2, GoingOn
<1>4. net = {} /\ rsp[r].pc \in {"wait3", "done"} BY <1>1, <1>3 DEF Going, Phase
<1>5. /\ Possible(ini[r].op, store[ini[r].by])
      /\ ini[r].post = Result(ini[r].op, ini[r].by, store[ini[r].by])
  BY <1>1, <1>3 DEF Going, IniReady
<1>6. /\ HasApp(store[ini[r].by], ini[r].op.id) /\ ini[r].op.id \in AppId
      /\ ini[r].post = UninstallApp(store[ini[r].by], ini[r].op.id)
  BY <1>1, <1>5, HalfFields, OpFields DEF Possible, Result
<1>7. Moves(ini[r].by, ini[r].post)
  BY <1>1, <1>3 DEF Going, Replied, Moves, Responder
<1>8. ini'[r].pc = "returned" /\ \A s \in Runs \ {r} : ini'[s] = ini[s]
  BY <1>1, Apart DEF NoHalf
<1>9. ~Live(r)' BY <1>1, <1>4, <1>8 DEF Live, Active, Quiet
<1> QED BY <1>1, <1>2, <1>6, <1>7, <1>8, <1>9

LEMMA UninstallFinishHist ==
  ASSUME IInv, Hist, NEW r \in Runs, UninstallFinish(r)
  PROVE  Hist'
<1> DEFINE p == ini[r].by
           id == ini[r].op.id
           post == ini[r].post
<1>1. p \in Parties /\ post \in Channel BY HalfFields
<1>2. /\ Live(r) /\ id \in AppId /\ HasApp(store[p], id)
      /\ post = UninstallApp(store[p], id) /\ Moves(p, post)
      /\ Persist(p, post) /\ UNCHANGED <<held, rsp, net>>
      /\ \A s \in Runs \ {r} : ini'[s] = ini[s]
      /\ locks' \subseteq locks /\ ~Live(r)'
  BY UninstallFinishIs
<1>3. \A e \in Agreed' : e.kind = "app" => e \in Agreed BY <1>2 DEF Agreed
<1>4. Balances' /\ AppStates' /\ Foreign' /\ Numbered'
  <2> HIDE DEF p, id, post
  <2> QED BY <1>1, <1>2, <1>3, AppUninstalled
<1> QED BY <1>2, <1>4, LiveStep

-----------------------------------------------------------------------------
(* The steps of install.                                                    *)

\* The responder signs what installing the app makes of its free balance.
LEMMA InstallResponderHist ==
  ASSUME IInv, Hist, NEW m \in net, InstallResponder(m)
  PROVE  Hist'
<1> DEFINE r == m.run
           o == m.to
           post == InstallApp(store[o], m.op.q)
           ct == Conditional(post)
           half == [pc |-> "wait3", op |-> m.op, post |-> post]
           rep == Reply(r, 2, Other(o), {ct, SetFreeBalance(post)})
<1>1. /\ m.n = 1 /\ m.op.proto = "install" /\ UNCHANGED <<store, past, ini, locks>>
      /\ IF CanInstallApp(store[o], m.op.q) /\ ct \in m.sigs
           THEN /\ rsp' = [rsp EXCEPT ![r] = half]
                /\ held' = [held EXCEPT ![o] = @ \cup {ct}]
                /\ net' = (net \ {m}) \cup {rep}
           ELSE net' = net \ {m} /\ UNCHANGED <<rsp, held>>
  BY DEF InstallResponder
<1>2. CASE ~(CanInstallApp(store[o], m.op.q) /\ ct \in m.sigs)
  BY <1>1, <1>2, DropHist
<1>3. CASE CanInstallApp(store[o], m.op.q) /\ ct \in m.sigs
  <2>1. /\ rsp' = [rsp EXCEPT ![r] = half]
        /\ held' = [held EXCEPT ![o] = @ \cup {ct}]
        /\ net' = (net \ {m}) \cup {rep}
    BY <1>1, <1>3
  <2>2. half.pc = "wait3" /\ half.op = m.op /\ half.post = post OBVIOUS
  <2>3. ct.kind = "conditional" BY DEF Conditional
  <2>4. rep.run = r /\ rep.n = 2 /\ rep.sigs = {ct, SetFreeBalance(post)}
    BY DEF Reply, Message
  <2> HIDE DEF half, rep, ct
  <2>5. r \in Runs /\ Live(r) /\ m.op \in Op /\ o = Responder(r) /\ o \in Parties
    BY <1>1, MessageFields, FirstMessage
  <2>6. Going(r) /\ net' = {rep} BY <2>1, <2>5, GoingOn
  <2>7. ini[r].by \in Parties /\ Other(o) = ini[r].by /\ Parties = {ini[r].by, o}
    BY <2>5, HalfFields
  <2>8. rsp'[r] = half /\ \A s \in Runs \ {r} : rsp'[s] = rsp[s] BY <2>1, <2>5, Apart
  <2>9. /\ Balances' /\ AppStates' /\ Foreign' /\ Numbered'
        /\ \A id : Untouched(id) => Untouched(id)'
    <3>1. Agreed' = Agreed \cup {ct} BY <2>1, <2>5, AgreedGrows
    <3>2. \A c \in Agreed' : c \in Agreed \/ c.kind # "app" BY <2>3, <3>1
    <3> QED BY <1>1, <3>1, <3>2, SameBooks
  <2>10. /\ Untouched(m.op.q.id) /\ \A s \in Parties : m.op.q.id <= store[s].np
         /\ ~HasApp(store[o], m.op.q.id)
         /\ \A t \in store[o].props : t.id = m.op.q.id => t.by = o
    <3>1. m.op.q \in store[ini[r].by].props /\ m.op.q.by = Other(ini[r].by)
      BY <1>1, <2>6 DEF Going, Requested
    <3>2. Other(ini[r].by) = o BY <2>5 DEF Responder
    <3> QED BY <2>5, <2>7, <3>1, <3>2 DEF Hist, Foreign
  <2>11. Going(r)'
    <3>1. ini[r].pc \in {"wait2", "crashed"} BY <1>1, <2>6 DEF Going, Phase
    <3>2. Responder(r)' = o BY <1>1, <2>5 DEF Responder
    <3>3. Phase(r)' BY <1>1, <2>2, <2>4, <2>6, <2>8, <3>1 DEF Phase, Answering, Completing
    <3>4. IniReady(r)' BY <1>1, <2>5, <2>6, <3>2 DEF Going, IniReady
    <3>5. ini[r].pc = "wait2" => m.op = ini[r].op BY <1>1, <2>6 DEF Going, Requested
    <3>6. RspReady(r)'
      <4>1. Possible(m.op, store[o]) BY <1>1, <1>3 DEF Possible
      <4>2. post = Result(m.op, ini[r].by, store[o]) BY <1>1 DEF Result
      <4> QED BY <1>1, <2>2, <2>8, <3>1, <3>2, <3>5, <4>1, <4>2 DEF RspReady
    <3>7. Requested(r)' BY <2>2, <2>4, <2>6, <2>8 DEF Requested, Answering
    <3>8. Replied(r)'
      <4>1. \A s \in rep.sigs : s.kind = "freeBalance" => s = SetFreeBalance(post)
        BY <2>3, <2>4
      <4> QED BY <1>1, <1>3, <2>6, <3>1, <3>2, <3>5, <4>1 DEF Replied
    <3>9. Installing(r)'
      BY <1>1, <2>2, <2>4, <2>6, <2>8, <2>9, <2>10, <3>2 DEF Installing, Completing
    <3> QED BY <3>3, <3>4, <3>6, <3>7, <3>8, <3>9 DEF Going
  <2> QED BY <1>1, <2>4, <2>5, <2>6, <2>8, <2>9, <2>11, LiveStep
<1> QED BY <1>2, <1>3

\* The initiator has the new free balance signed, and the commitment written.
LEMMA InstallCountersignHist ==
  ASSUME IInv, Hist, NEW r \in Runs, InstallCountersign(r)
  PROVE  Hist'
<1> DEFINE p == ini[r].by
           o == Responder(r)
           q == ini[r].op.q
           post == ini[r].post
           ct == Conditional(post)
           fb == SetFreeBalance(post)
<1>1. ini[r].pc = "wait2" /\ ini[r].op.proto = "install" /\ UNCHANGED <<store, past, rsp>>
  BY DEF InstallCountersign
<1>2. PICK m \in net :
        /\ m.run = r /\ m.n = 2 /\ net' = net \ {m}
        /\ IF {ct, fb} \subseteq m.sigs
             THEN /\ held' = [held EXCEPT ![p] = @ \cup {ct, fb}]
                  /\ ini' = [ini EXCEPT ![r].pc = "written"]
                  /\ UNCHANGED locks
             ELSE /\ held' = [held EXCEPT ![p] = @ \cup ({ct} \cap m.sigs)]
                  /\ Leave(r, "threw")
  BY DEF InstallCountersign, InitiatorHolds
<1>3. Live(r) BY <1>1 DEF Live, Active
<1>4. Going(r) /\ net' = {} BY <1>2, <1>3, GoingOn
<1>5. p \in Parties /\ ini[r] \in IniHalf BY HalfFields
<1>6. ct.kind = "conditional" /\ fb.kind = "freeBalance" BY DEF Conditional, SetFreeBalance
<1>7. rsp[r].pc \in {"wait3", "done"} BY <1>2, <1>4 DEF Going, Phase
<1>8. CASE ~({ct, fb} \subseteq m.sigs)
  <2>1. /\ held' = [held EXCEPT ![p] = @ \cup ({ct} \cap m.sigs)]
        /\ ini' = [ini EXCEPT ![r] = NoHalf(p, "threw")] /\ locks' = {k \in locks : k.run # r}
    BY <1>2, <1>8 DEF Leave
  <2>2. ini'[r].by = p /\ ini'[r].pc = "threw" /\ \A s \in Runs \ {r} : ini'[s] = ini[s]
    BY <2>1, Apart DEF NoHalf
  <2>3. ~Live(r)' BY <1>1, <1>4, <1>7, <2>2 DEF Live, Active, Quiet
  <2>4. \A s \in Runs : ~Live(s)'
    <3>1. \A s \in Runs \ {r} : ~Live(s) BY <1>3, OneLive DEF Hist
    <3>2. \A s \in Runs \ {r} : ~Live(s)' BY <1>1, <1>4, <2>2, <3>1, OthersDead
    <3> QED BY <2>3, <3>2
  <2>5. /\ \A c \in Agreed' : c \in Agreed \/ c.kind # "app"
        /\ \A s \in Parties : held[s] \subseteq held'[s]
    <3> HIDE DEF ct
    <3>1. Agreed' = Agreed \cup ({ct} \cap m.sigs) BY <1>5, <2>1, AgreedGrows
    <3> QED BY <1>5, <1>6, <2>1, <3>1, Apart
  <2> QED BY <1>1, <1>4, <2>1, <2>2, <2>3, <2>4, <2>5, Fade
<1>9. CASE {ct, fb} \subseteq m.sigs
  <2>1. /\ held' = [held EXCEPT ![p] = @ \cup {ct, fb}]
        /\ ini' = [ini EXCEPT ![r].pc = "written"] /\ UNCHANGED locks
    BY <1>2, <1>9
  <2>2. /\ ini'[r].by = p /\ ini'[r].op = ini[r].op /\ ini'[r].post = post
        /\ ini'[r].pc = "written" /\ \A s \in Runs \ {r} : ini'[s] = ini[s]
    BY <1>5, <2>1, Apart DEF IniHalf
  <2>3. CanInstallApp(store[o], q) /\ fb = SetFreeBalance(InstallApp(store[o], q))
    <3>1. fb \in m.sigs BY <1>9
    <3> HIDE DEF fb
    <3> QED BY <1>1, <1>2, <1>4, <1>6, <3>1 DEF Going, Replied
  <2>4. post.fb = InstallApp(store[o], q).fb BY <2>3 DEF SetFreeBalance
  <2> HIDE DEF ct, fb
  <2>5. Agreed' = Agreed \cup {ct, fb} BY <1>5, <2>1, AgreedGrows
  <2>6. /\ Balances' /\ AppStates' /\ Foreign' /\ Numbered'
        /\ \A id : Untouched(id) => Untouched(id)'
    <3>1. \A c \in Agreed' : c \in Agreed \/ c.kind # "app" BY <1>6, <2>5
    <3> QED BY <1>1, <2>5, <3>1, SameBooks
  <2>7. Going(r)'
    <3>1. Responder(r)' = o BY <2>2 DEF Responder
    <3>2. ~Answering(r)' /\ ~Completing(r)' BY <1>1, <1>7 DEF Answering, Completing
    <3>3. Phase(r)' BY <1>1, <1>4, <1>7, <2>2, <3>2 DEF Phase
    <3>4. IniReady(r)' BY <1>1, <1>4, <2>2, <3>1 DEF Going, IniReady
    <3>5. RspReady(r)' BY <1>1, <1>4, <2>2, <3>1 DEF Going, RspReady
    <3>6. Requested(r)' BY <1>4, <3>2 DEF Requested
    <3>7. Replied(r)' BY <1>1, <1>4, <2>2, <2>3, <2>4, <3>1 DEF Replied
    <3>8. Installing(r)' BY <1>1, <1>4, <2>2, <2>6, <3>1, <3>2 DEF Going, Installing
    <3> QED BY <3>3, <3>4, <3>5, <3>6, <3>7, <3>8 DEF Going
  <2> QED BY <1>1, <1>3, <1>4, <2>1, <2>2, <2>6, <2>7, LiveStep
<1> QED BY <1>8, <1>9

\* What it then persists: nobody has installed the app, and the new free balance
\* is what both stores make of it.
LEMMA InstallPersistIs ==
  ASSUME IInv, Hist, NEW r \in Runs, InstallPersist(r)
  PROVE  LET p == ini[r].by
             o == Responder(r)
             q == ini[r].op.q
             post == ini[r].post
         IN  /\ Live(r) /\ Going(r) /\ net = {} /\ rsp[r].pc \in {"wait3", "done"}
             /\ ini[r].pc = "written" /\ ini[r].op.proto = "install"
             /\ q \in Proposal /\ CanInstallApp(store[p], q) /\ post = InstallApp(store[p], q)
             /\ Moves(p, post) /\ post.fb.ver = store[o].fb.ver + 2
             /\ Untouched(q.id) /\ ~HasApp(store[p], q.id)
             /\ \A s \in Parties : q.id <= store[s].np
             /\ \A t \in store[o].props : t.id = q.id => t.by = o
             /\ Persist(p, post) /\ UNCHANGED <<held, rsp, locks>>
             /\ net' = {Reply(r, 3, o, {SetFreeBalance(post)})}
             /\ ini' = [ini EXCEPT ![r].pc = "wait4"]
<1> DEFINE p == ini[r].by
           o == Responder(r)
           q == ini[r].op.q
           post == ini[r].post
<1>1. /\ ini[r].pc = "written" /\ ini[r].op.proto = "install"
      /\ Persist(p, post) /\ UNCHANGED <<held, rsp, locks>>
      /\ net' = net \cup {Reply(r, 3, o, {SetFreeBalance(post)})}
      /\ ini' = [ini EXCEPT ![r].pc = "wait4"]
  BY DEF InstallPersist
<1>2. Live(r) BY <1>1 DEF Live, Active
<1>3. Going(r) BY <1>2, GoingOn
<1>4. net = {} /\ rsp[r].pc \in {"wait3", "done"} BY <1>1, <1>3 DEF Going, Phase
<1>5. /\ p \in Parties /\ o \in Parties /\ o = Other(p) /\ p = Other(o)
      /\ store[p] \in Channel /\ store[o] \in Channel /\ ini[r].op \in Op
  BY HalfFields
<1>6. /\ Possible(ini[r].op, store[p]) /\ post = Result(ini[r].op, p, store[p])
      /\ q \in store[p].props /\ q.by = o
  BY <1>1, <1>3 DEF Going, IniReady
<1>7. /\ CanInstallApp(store[p], q) /\ post = InstallApp(store[p], q) /\ q \in Proposal
  BY <1>1, <1>5, <1>6, OpFields DEF Possible, Result
<1>8. CanInstallApp(store[o], q) /\ post.fb = InstallApp(store[o], q).fb
  BY <1>1, <1>3 DEF Going, Replied
<1>9. store[p].fb.ver = store[o].fb.ver /\ post.fb.ver = store[o].fb.ver + 2
  <2>1. /\ InstallApp(store[o], q).fb.ver = store[o].fb.ver + 2
        /\ InstallApp(store[p], q).fb.ver = store[p].fb.ver + 2
    BY <1>5, <1>7, <1>8, InstallAppType
  <2>2. store[p].fb.ver \in Nat /\ store[o].fb.ver \in Nat BY <1>5, ChannelFields
  <2>3. store[p].fb.ver + 2 = store[o].fb.ver + 2 BY <1>7, <1>8, <2>1
  <2> QED BY <1>8, <2>1, <2>2, <2>3
<1>10. Moves(p, post) BY <1>5, <1>9 DEF Moves
<1>11. /\ Untouched(q.id) /\ ~HasApp(store[p], q.id)
       /\ \A s \in Parties : q.id <= store[s].np
       /\ \A t \in store[o].props : t.id = q.id => t.by = o
  BY <1>5, <1>6 DEF Hist, Foreign
<1> QED BY <1>1, <1>2, <1>3, <1>4, <1>7, <1>9, <1>10, <1>11

LEMMA InstallPersistHist ==
  ASSUME IInv, Hist, NEW r \in Runs, InstallPersist(r)
  PROVE  Hist'
<1> DEFINE p == ini[r].by
           o == Responder(r)
           q == ini[r].op.q
           post == ini[r].post
           rep == Reply(r, 3, o, {SetFreeBalance(post)})
<1>1. /\ Live(r) /\ Going(r) /\ net = {} /\ rsp[r].pc \in {"wait3", "done"}
      /\ ini[r].pc = "written" /\ ini[r].op.proto = "install"
      /\ q \in Proposal /\ CanInstallApp(store[p], q) /\ post = InstallApp(store[p], q)
      /\ Moves(p, post) /\ post.fb.ver = store[o].fb.ver + 2
  BY InstallPersistIs
<1>2. /\ Untouched(q.id) /\ ~HasApp(store[p], q.id)
      /\ \A s \in Parties : q.id <= store[s].np
      /\ \A t \in store[o].props : t.id = q.id => t.by = o
  BY InstallPersistIs
<1>3. /\ Persist(p, post) /\ UNCHANGED <<held, rsp, locks>>
      /\ net' = {rep} /\ ini' = [ini EXCEPT ![r].pc = "wait4"]
  BY InstallPersistIs
<1>4. /\ p \in Parties /\ o \in Parties /\ o = Other(p) /\ o # p /\ p = Other(o)
      /\ post \in Channel /\ Parties = {p, o} /\ ini[r] \in IniHalf
      /\ store[p] \in Channel
  BY HalfFields
<1>5. post.np = store[p].np /\ post.props = {t \in store[p].props : t.id # q.id}
  BY <1>1, <1>4, InstallAppFields
<1>6. rep.run = r /\ rep.n = 3 /\ rep.sigs = {SetFreeBalance(post)} BY DEF Reply, Message
<1> HIDE DEF rep
<1>7. Agreed' = Agreed /\ \A id : Untouched(id) => Untouched(id)'
  BY <1>3 DEF Agreed, Untouched
<1>8. Balances' /\ AppStates' /\ Foreign' /\ Numbered'
  <2>1. \A t \in store[Other(p)].props : t.by = p => t.id # q.id BY <1>2, <1>4
  <2>2. \A e \in Agreed' : e.kind = "app" => e \in Agreed BY <1>7
  <2> HIDE DEF p, o, q, post
  <2> QED BY <1>1, <1>2, <1>3, <1>4, <1>5, <2>1, <2>2, AppInstalled
<1>9. /\ ini'[r].by = p /\ ini'[r].op = ini[r].op /\ ini'[r].post = post
      /\ ini'[r].pc = "wait4" /\ \A s \in Runs \ {r} : ini'[s] = ini[s]
  BY <1>3, <1>4, Apart DEF IniHalf
<1>10. Going(r)'
  <2>1. store'[p] = post /\ store'[o] = store[o] BY <1>3, <1>4, Apart DEF Persist
  <2>2. Responder(r)' = o BY <1>9 DEF Responder
  <2>3. ~Answering(r)' /\ ~Completing(r)' BY <1>1, <1>3 DEF Answering, Completing
  <2>4. Phase(r)' BY <1>1, <1>3, <1>6, <1>9, <2>3 DEF Phase
  <2>5. IniReady(r)' BY <1>1, <1>5, <1>9, <2>1 DEF IniReady
  <2>6. RspReady(r)' BY <1>1, <1>3, <1>9, <2>1, <2>2 DEF Going, RspReady
  <2>7. Requested(r)' BY <1>3, <1>6, <2>3 DEF Requested
  <2>8. Replied(r)' BY <1>3, <1>6, <1>9 DEF Replied
  <2>9. Installing(r)'
    <3>1. rsp[r].pc = "wait3" =>
            /\ rsp[r].op.q = q /\ Untouched(q.id) /\ ~HasApp(store[o], q.id)
            /\ \A t \in store[o].props : t.id = q.id => t.by = o
      BY <1>1, <1>2 DEF Going, RspReady, Installing
    <3>2. \A s \in Parties : q.id <= store'[s].np BY <1>2, <1>4, <1>5, <2>1
    <3>3. \A t \in post.props : t.id # q.id BY <1>5
    <3> QED
      BY <1>1, <1>3, <1>6, <1>7, <1>9, <2>1, <2>2, <2>3, <3>1, <3>2, <3>3
      DEF Installing
  <2> QED BY <2>4, <2>5, <2>6, <2>7, <2>8, <2>9 DEF Going
<1> QED BY <1>1, <1>3, <1>6, <1>8, <1>9, <1>10, LiveStep

\* The responder has the new free balance signed as well, and the commitment
\* written.
LEMMA InstallWriteHist ==
  ASSUME IInv, Hist, NEW r \in Runs, InstallWrite(r)
  PROVE  Hist'
<1> DEFINE p == ini[r].by
           o == Responder(r)
           post == rsp[r].post
           fb == SetFreeBalance(post)
<1>1. rsp[r].pc = "wait3" /\ UNCHANGED <<store, past, ini, locks>>
  BY DEF InstallWrite
<1>2. PICK m \in net :
        /\ m.run = r /\ m.n = 3 /\ net' = net \ {m}
        /\ IF fb \in m.sigs
             THEN /\ held' = [held EXCEPT ![o] = @ \cup {fb}]
                  /\ rsp' = [rsp EXCEPT ![r].pc = "written"]
             ELSE rsp' = [rsp EXCEPT ![r] = DoneRsp] /\ UNCHANGED held
  BY DEF InstallWrite, ResponderHolds
<1>3. Live(r) BY <1>2, MessageFields
<1>4. Going(r) /\ net' = {} BY <1>2, <1>3, GoingOn
<1>5. o \in Parties /\ rsp[r] \in RspHalf BY HalfFields
<1>6. ini[r].pc \in {"wait4", "crashed"} BY <1>2, <1>4 DEF Going, Phase
<1>7. CASE fb \notin m.sigs
  <2>1. /\ rsp'[r].pc = "done" /\ \A s \in Runs \ {r} : rsp'[s] = rsp[s]
        /\ net' \subseteq net /\ UNCHANGED held
    BY <1>2, <1>7, Apart DEF DoneRsp
  <2>2. \A s \in Runs : Live(s)' => Live(s)
    BY <1>1, <2>1 DEF Live, Active, Quiet
  <2>3. \A s \in Runs : Live(s)' => Live(s) /\ Lease(s) \in locks'
    BY <1>1, <2>2 DEF Hist, Serial
  <2> QED BY <1>1, <2>1, <2>3, NothingNew, Fade
<1>8. CASE fb \in m.sigs
  <2>1. /\ held' = [held EXCEPT ![o] = @ \cup {fb}]
        /\ rsp' = [rsp EXCEPT ![r].pc = "written"]
    BY <1>2, <1>8
  <2>2. rsp[r].op.proto = "install" BY <1>1, HalvesFit DEF RspFits
  <2>3. /\ rsp'[r].pc = "written" /\ rsp'[r].op = rsp[r].op /\ rsp'[r].post = post
        /\ \A s \in Runs \ {r} : rsp'[s] = rsp[s]
    BY <1>5, <2>1, Apart DEF RspHalf
  <2>4. post.fb = store[p].fb
    <3>1. fb = SetFreeBalance(store[p]) BY <1>2, <1>4, <1>8 DEF Going, Installing
    <3> QED BY <3>1 DEF SetFreeBalance
  <2>5. /\ store[p].fb.ver = store[o].fb.ver + 2
        /\ \A t \in store[p].props : t.id # rsp[r].op.q.id
    BY <1>1, <1>2, <1>4 DEF Going, Installing
  <2>6. fb.kind = "freeBalance" BY DEF SetFreeBalance
  <2> HIDE DEF fb
  <2>7. Agreed' = Agreed \cup {fb} BY <1>5, <2>1, AgreedGrows
  <2>8. /\ Balances' /\ AppStates' /\ Foreign' /\ Numbered'
        /\ \A id : Untouched(id) => Untouched(id)'
    BY <1>1, <2>6, <2>7, SameBooks
  <2>9. Going(r)'
    <3>1. Responder(r)' = o BY <1>1 DEF Responder
    <3>2. ~Answering(r)' BY <2>2, <2>3 DEF Answering
    <3>3. Phase(r)' BY <1>1, <1>4, <1>6, <2>3, <3>2 DEF Phase
    <3>4. IniReady(r)' BY <1>1, <1>4, <3>1 DEF Going, IniReady
    <3>5. RspReady(r)' BY <1>1, <1>4, <2>3, <3>1 DEF Going, RspReady
    <3>6. Requested(r)' BY <1>4, <3>2 DEF Requested
    <3>7. Replied(r)' BY <1>1, <1>4, <1>6 DEF Replied
    <3>8. Installing(r)' BY <1>1, <1>4, <2>3, <2>4, <2>5, <2>8, <3>1 DEF Going, Installing
    <3> QED BY <3>3, <3>4, <3>5, <3>6, <3>7, <3>8 DEF Going
  <2> QED BY <1>1, <1>3, <1>4, <2>3, <2>8, <2>9, LiveStep
<1> QED BY <1>7, <1>8

\* What it then persists: what the initiator has persisted.
LEMMA InstallCompleteIs ==
  ASSUME IInv, Hist, NEW r \in Runs, InstallComplete(r)
  PROVE  LET p == ini[r].by
             o == Responder(r)
             q == rsp[r].op.q
             post == rsp[r].post
             d == RemoveProposal(post, EventApp(rsp[r].op, post))
         IN  /\ Live(r) /\ Going(r) /\ net = {} /\ ini[r].pc \in {"wait4", "crashed"}
             /\ rsp[r].pc = "written" /\ rsp[r].op.proto = "install"
             /\ q \in Proposal /\ CanInstallApp(store[o], q) /\ post = InstallApp(store[o], q)
             /\ Untouched(q.id) /\ ~HasApp(store[o], q.id)
             /\ \A s \in Parties : q.id <= store[s].np
             /\ \A t \in store[p].props : t.id # q.id
             /\ d \in Channel /\ d.np = store[o].np /\ d.apps = post.apps /\ d.fb = post.fb
             /\ d.props \subseteq post.props /\ Moves(o, d)
             /\ Persist(o, d) /\ UNCHANGED <<held, ini, locks>>
             /\ net' = {Reply(r, 4, p, {})}
             /\ rsp' = [rsp EXCEPT ![r] = DoneRsp]
<1> DEFINE p == ini[r].by
           o == Responder(r)
           q == rsp[r].op.q
           post == rsp[r].post
           d == RemoveProposal(post, EventApp(rsp[r].op, post))
<1>1. /\ rsp[r].pc = "written" /\ rsp[r].op.proto = "install"
      /\ Persist(o, d) /\ UNCHANGED <<held, ini, locks>>
      /\ net' = net \cup {Reply(r, 4, p, {})}
      /\ rsp' = [rsp EXCEPT ![r] = DoneRsp]
  BY DEF InstallComplete
<1>2. Live(r) /\ Completing(r) BY <1>1 DEF Live, Quiet, Completing
<1>3. Going(r) BY <1>2, GoingOn
<1>4. net = {} /\ ini[r].pc \in {"wait4", "crashed"} BY <1>2, <1>3 DEF Going, Phase
<1>5. /\ p = Other(o) /\ post \in Channel /\ rsp[r].op \in Op /\ store[o] \in Channel
  BY HalfFields
<1>6. q \in Proposal BY <1>1, <1>5, OpFields
<1>7. CanInstallApp(store[o], q) /\ post = InstallApp(store[o], q)
  BY <1>1, <1>3 DEF Going, RspReady, Possible, Result
<1>8. /\ Untouched(q.id) /\ ~HasApp(store[o], q.id)
      /\ \A s \in Parties : q.id <= store[s].np
      /\ \A t \in store[p].props : t.id # q.id
      /\ post.fb = store[p].fb
  BY <1>2, <1>3 DEF Going, Installing
<1>9. /\ d \in Channel /\ d.np = store[o].np /\ d.apps = post.apps /\ d.fb = post.fb
      /\ d.props \subseteq post.props
  <2>1. post.np = store[o].np BY <1>5, <1>6, <1>7, InstallAppFields
  <2> QED BY <1>5, <2>1, RemoveProposalType, RemoveProposalFields
<1>10. Moves(o, d)
  <2> HIDE DEF d
  <2> QED BY <1>5, <1>8, <1>9 DEF Moves
<1> QED BY <1>1, <1>2, <1>3, <1>4, <1>6, <1>7, <1>8, <1>9, <1>10

LEMMA InstallCompleteHist ==
  ASSUME IInv, Hist, NEW r \in Runs, InstallComplete(r)
  PROVE  Hist'
<1> DEFINE p == ini[r].by
           o == Responder(r)
           q == rsp[r].op.q
           post == rsp[r].post
           d == RemoveProposal(post, EventApp(rsp[r].op, post))
           rep == Reply(r, 4, p, {})
<1>1. /\ Live(r) /\ Going(r) /\ net = {} /\ ini[r].pc \in {"wait4", "crashed"}
      /\ rsp[r].pc = "written" /\ rsp[r].op.proto = "install"
      /\ q \in Proposal /\ CanInstallApp(store[o], q) /\ post = InstallApp(store[o], q)
  BY InstallCompleteIs
<1>2. /\ Untouched(q.id) /\ ~HasApp(store[o], q.id)
      /\ \A s \in Parties : q.id <= store[s].np
      /\ \A t \in store[p].props : t.id # q.id
      /\ d \in Channel /\ d.np = store[o].np /\ d.apps = post.apps /\ d.fb = post.fb
      /\ d.props \subseteq post.props /\ Moves(o, d)
  BY InstallCompleteIs
<1>3. /\ Persist(o, d) /\ UNCHANGED <<held, ini, locks>> /\ net' = {rep}
      /\ rsp' = [rsp EXCEPT ![r] = DoneRsp]
  BY InstallCompleteIs
<1>4. p \in Parties /\ o \in Parties /\ o # p /\ p = Other(o) BY HalfFields
<1>5. rsp'[r].pc = "done" /\ \A s \in Runs \ {r} : rsp'[s] = rsp[s]
  BY <1>3, Apart DEF DoneRsp
<1>6. rep.run = r /\ rep.n = 4 BY DEF Reply, Message
<1> HIDE DEF rep, d
<1>7. \A e \in Agreed' : e.kind = "app" => e \in Agreed BY <1>3 DEF Agreed
<1>8. Balances' /\ AppStates' /\ Foreign' /\ Numbered'
  <2>1. \A t \in store[Other(o)].props : t.by = o => t.id # q.id BY <1>2, <1>4
  <2> HIDE DEF p, o, q, post
  <2> QED BY <1>1, <1>2, <1>3, <1>4, <1>7, <2>1, AppInstalled
<1>9. Going(r)'
  <2>1. store'[p] = store[p] BY <1>3, <1>4, Apart DEF Persist
  <2>2. Responder(r)' = o BY <1>3 DEF Responder
  <2>3. ~Answering(r)' /\ ~Completing(r)' BY <1>5 DEF Answering, Completing
  <2>4. Phase(r)' BY <1>1, <1>3, <1>5, <1>6, <2>3 DEF Phase
  <2>5. IniReady(r)' BY <1>1, <1>3, <2>1, <2>2 DEF Going, IniReady
  <2>6. RspReady(r)' BY <1>5 DEF RspReady
  <2>7. Requested(r)' BY <1>3, <1>6, <2>3 DEF Requested
  <2>8. Replied(r)' BY <1>1, <1>3, <1>6 DEF Replied
  <2>9. Installing(r)' BY <1>3, <1>5, <1>6, <2>3 DEF Installing
  <2> QED BY <2>4, <2>5, <2>6, <2>7, <2>8, <2>9 DEF Going
<1> QED BY <1>1, <1>3, <1>5, <1>6, <1>8, <1>9, LiveStep

LEMMA InstallFinishHist ==
  ASSUME IInv, Hist, NEW r \in Runs, InstallFinish(r)
  PROVE  Hist'
<1> DEFINE p == ini[r].by
<1>1. PICK m \in net : m.run = r /\ m.n = 4 /\ net' = net \ {m}
  BY DEF InstallFinish
<1>2. /\ ini' = [ini EXCEPT ![r] = NoHalf(p, "returned")]
      /\ locks' = {k \in locks : k.run # r}
      /\ Persist(p, RemoveProposal(store[p], ini[r].op.q.id))
      /\ UNCHANGED <<held, rsp>> /\ p \in Parties
  BY HalfFields, Apart DEF InstallFinish, Leave
<1>3. Live(r) /\ Going(r) /\ net' = {} BY <1>1, MessageFields, GoingOn
<1>4. ini'[r].pc = "returned" /\ \A s \in Runs \ {r} : ini'[s] = ini[s]
  BY <1>2, Apart DEF NoHalf
<1>5. rsp[r].pc = "done" BY <1>1, <1>3 DEF Going, Phase
<1>6. ~Live(r)' BY <1>2, <1>3, <1>4, <1>5 DEF Live, Active, Quiet
<1>7. Balances' /\ AppStates' /\ Foreign' /\ Numbered'
  <2>1. Agreed' = Agreed BY <1>2 DEF Agreed
  <2> QED BY <1>2, <2>1, ProposalRemoved
<1> QED BY <1>2, <1>3, <1>4, <1>6, <1>7, LiveStep

LEMMA InitiatorStepHist ==
  ASSUME UnderLock, IInv, Hist, NEW r \in Runs, InitiatorStep(r)
  PROVE  Hist'
<1>1. CASE UpdateFinish(r)
  <2>1. ini[r].pc = "wait2" /\ ini[r].op.proto = "update" BY <1>1 DEF UpdateFinish, Finish
  <2>2. IniReady(r) BY <2>1, GoingOn DEF Live, Active, Going
  <2> QED BY <2>1, <2>2 DEF IniReady, Possible
<1>2. CASE RejectPersist(r)
  <2>1. ini[r].pc = "persist" /\ ini[r].op.proto = "reject" BY <1>2 DEF RejectPersist
  <2>2. IniReady(r) BY <2>1, GoingOn DEF Live, Active, Going
  <2> QED BY <2>1, <2>2 DEF IniReady
<1> QED
BY <1>1, <1>2, ProposePersistHist, FinishHist, UninstallCountersignHist,
     UninstallFinishHist, InstallCountersignHist, InstallPersistHist,
     InstallFinishHist, TimeoutInitiatorHist DEF InitiatorStep

LEMMA ResponderStepHist ==
  ASSUME IInv, Hist, NEW r \in Runs, ResponderStep(r)
  PROVE  Hist'
BY UninstallWriteHist, PersistAndReplyHist, InstallWriteHist, InstallCompleteHist,
   TimeoutResponderHist DEF ResponderStep

LEMMA ReceiveHist ==
  ASSUME IInv, Hist, NEW m \in net, Receive(m)
  PROVE  Hist'
<1> DEFINE c == store[m.to]
<1>1. ASSUME m.n = 1
      PROVE  /\ m.op.proto \in {"propose", "install", "uninstall", "takeAction"}
             /\ m.op \in Op /\ c \in Channel /\ Other(m.to) \in Parties
  <2>1. m.run \in Runs /\ Going(m.run) BY MessageFields, GoingOn
  <2> QED BY <1>1, <2>1, FirstMessage, TwoParties DEF Going, Requested
<1>2. CASE ProposeResponder(m)
  <2> DEFINE q == NextProposal(c, m.op.def, Other(m.to), m.op.own, m.op.other)
             post == AddProposal(c, q)
  <2>1. m.n = 1 /\ m.op.proto = "propose" /\ Respond(m, TRUE, post)
    BY <1>2 DEF ProposeResponder
  <2>2. q \in Proposal BY <1>1, <2>1, OpFields, NextProposalType
  <2>3. post = Result(m.op, Other(m.to), c) /\ Possible(m.op, c)
    BY <2>1 DEF Result, Possible
  <2> HIDE DEF q
  <2>4. post \in Channel BY <1>1, <2>1, <2>2, AddProposalType
  <2> HIDE DEF post
  <2> QED BY <2>1, <2>3, <2>4, RespondHist
<1>3. CASE UninstallResponder(m)
  <2> DEFINE post == UninstallApp(c, m.op.id)
  <2>1. m.n = 1 /\ m.op.proto = "uninstall" BY <1>3 DEF UninstallResponder
  <2>2. CASE HasApp(c, m.op.id)
    <3>1. Respond(m, TRUE, post) BY <1>3, <2>2 DEF UninstallResponder
    <3>2. post \in Channel BY <1>1, <2>1, <2>2, OpFields, UninstallAppType
    <3>3. post = Result(m.op, Other(m.to), c) /\ Possible(m.op, c)
      BY <2>1, <2>2 DEF Result, Possible
    <3> HIDE DEF post
    <3> QED BY <2>1, <3>1, <3>2, <3>3, RespondHist
  <2>3. CASE ~HasApp(c, m.op.id)
    <3>1. Respond(m, FALSE, Blank) BY <1>3, <2>3 DEF UninstallResponder
    <3> QED BY <3>1, DropHist DEF Respond
  <2> QED BY <2>2, <2>3
<1>4. CASE TakeActionResponder(m)
  <2> DEFINE post == ApplyAction(c, m.op.id, m.op.amount)
             can == HasApp(c, m.op.id) /\ m.op.amount <= GetApp(c, m.op.id).st
  <2>1. m.n = 1 /\ m.op.proto = "takeAction" BY <1>4 DEF TakeActionResponder
  <2>2. CASE can
    <3>1. Respond(m, TRUE, post) BY <1>4, <2>2 DEF TakeActionResponder
    <3>2. post \in Channel BY <1>1, <2>1, <2>2, OpFields, ApplyActionType
    <3>3. post = Result(m.op, Other(m.to), c) /\ Possible(m.op, c)
      BY <2>1, <2>2 DEF Result, Possible
    <3> HIDE DEF post
    <3> QED BY <2>1, <3>1, <3>2, <3>3, RespondHist
  <2>3. CASE ~can
    <3>1. Respond(m, FALSE, Blank) BY <1>4, <2>3 DEF TakeActionResponder
    <3> QED BY <3>1, DropHist DEF Respond
  <2> QED BY <2>2, <2>3
<1>5. CASE UpdateResponder(m) \/ RejectReceived(m)
  BY <1>1, <1>5 DEF UpdateResponder, RejectReceived
<1>6. CASE IgnoreUnexpected(m)
  BY <1>6, DropHist DEF IgnoreUnexpected
<1> QED BY <1>2, <1>3, <1>4, <1>5, <1>6, InstallResponderHist DEF Receive

LEMMA NextHist == UnderLock /\ IInv /\ Hist /\ [Next]_vars => Hist'
<1> SUFFICES ASSUME UnderLock, IInv, Hist, [Next]_vars PROVE Hist' OBVIOUS
<1>1. CASE UNCHANGED vars BY <1>1, DropHist DEF vars
<1>2. ASSUME NEW m \in net, Lose(m) PROVE Hist' BY <1>2, DropHist DEF Lose
<1> QED
  BY <1>1, <1>2, CallHist, InitiatorStepHist, ResponderStepHist, ReceiveHist,
     LeaseExpiresHist, CrashHist DEF Next

-----------------------------------------------------------------------------
(* One write at a time.                                                     *)

\* What a step persists is one move of one party.
Writes(x) ==
  /\ store'[Other(x)] = store[Other(x)]
  /\ Goes(store[x], store'[x])
  /\ past \subseteq past' /\ past' \subseteq past \cup {store'[x].fb}
  /\ \/ store'[x].fb = store[x].fb
     \/ store[Other(x)].fb.ver = store[x].fb.ver
     \/ store[Other(x)].fb = store'[x].fb

LEMMA NoWrite ==
  ASSUME IInv, Hist, UNCHANGED <<store, past>>
  PROVE  \E x \in Parties : Writes(x)
<1>1. Alice \in Parties /\ store[Alice] \in Channel /\ Distinct(store[Alice])
  BY Apart DEF Hist, Numbered, Parties
<1>2. store[Alice].np <= store[Alice].np BY <1>1, ChannelFields
<1>3. Goes(store[Alice], store[Alice]) BY <1>1, <1>2, GoesSame
<1> QED BY <1>1, <1>3 DEF Writes

\* A write that leaves the free balance alone.
LEMMA SmallWrite ==
  ASSUME IInv, NEW x \in Parties, NEW d, Persist(x, d),
         Goes(store[x], d), d.fb = store[x].fb
  PROVE  Writes(x)
<1>1. /\ store'[x] = d /\ store'[Other(x)] = store[Other(x)]
      /\ past' = past \cup {d.fb}
  BY TwoParties, Apart DEF Persist
<1> QED BY <1>1 DEF Writes

\* A write of a new free balance.
LEMMA BigWrite ==
  ASSUME IInv, NEW x \in Parties, NEW d, Persist(x, d),
         Goes(store[x], d), Moves(x, d)
  PROVE  Writes(x)
<1>1. /\ store'[x] = d /\ store'[Other(x)] = store[Other(x)]
      /\ past' = past \cup {d.fb}
  BY TwoParties, Apart DEF Persist
<1> QED BY <1>1 DEF Writes, Moves

LEMMA ActionGoes ==
  ASSUME NEW c \in Channel, Distinct(c), NEW id, HasApp(c, id),
         NEW amount \in Nat, amount <= GetApp(c, id).st
  PROVE  Goes(c, ApplyAction(c, id, amount)) /\ ApplyAction(c, id, amount).fb = c.fb
<1> DEFINE left == GetApp(c, id).st - amount
<1>1. left \in Nat /\ left <= Pot(GetApp(c, id)) BY GetAppType, AppFields
<1>2. ApplyAction(c, id, amount) = SetState(c, id, left) BY DEF ApplyAction
<1> HIDE DEF left
<1> QED BY <1>1, <1>2, SetStateGoes, SetStateFields

LEMMA ProposalGoes ==
  ASSUME NEW c \in Channel, Distinct(c), NEW q \in Proposal
  PROVE  Goes(c, AddProposal(c, q)) /\ AddProposal(c, q).fb = c.fb
<1> DEFINE d == AddProposal(c, q)
<1>1. /\ d \in Channel /\ d.np = c.np + 1 /\ d.apps = c.apps /\ d.fb = c.fb /\ c.np \in Nat
  BY AddProposalType, AddProposalFields, ChannelFields
<1> HIDE DEF d
<1>2. c.np <= d.np BY <1>1
<1>3. Goes(c, d) BY <1>1, <1>2, GoesSame
<1> QED BY <1>1, <1>3 DEF d

\* The proposal is dropped beside whatever else a step does.
LEMMA GoesWithout ==
  ASSUME NEW c \in Channel, NEW e \in Channel, Goes(c, e), NEW id
  PROVE  Goes(c, RemoveProposal(e, id)) /\ RemoveProposal(e, id).fb = e.fb
<1> DEFINE d == RemoveProposal(e, id)
<1>1. d \in Channel /\ d.fb = e.fb /\ d.np = e.np /\ d.apps = e.apps
  BY RemoveProposalType, RemoveProposalFields
<1> HIDE DEF d
<1>2. NeverRegresses(c, d) BY <1>1 DEF Goes, NeverRegresses
<1>3. Worth(d) = Worth(e)
  <2>1. Held(d) = Held(e) /\ Len(d.apps) = Len(e.apps) BY <1>1 DEF Held
  <2>2. \A i \in 1..Len(e.apps) : Pot(d.apps[i]) = Pot(e.apps[i]) BY <1>1
  <2> QED BY <1>1, <2>1, <2>2, WorthKept
<1>4. AppIds(d) = AppIds(e) BY <1>1 DEF AppIds
<1>5. Goes(c, d) BY <1>1, <1>2, <1>3, <1>4 DEF Goes
<1> QED BY <1>1, <1>5 DEF d

LEMMA ProposePersistWrites ==
  ASSUME IInv, Hist, NEW r \in Runs, ProposePersist(r)
  PROVE  Writes(ini[r].by)
<1> DEFINE p == ini[r].by
           op == ini[r].op
           post == ini[r].post
           q == NextProposal(store[p], op.def, p, op.own, op.other)
<1>1. ini[r].pc = "persist" /\ op.proto = "propose" /\ Persist(p, post)
  BY DEF ProposePersist
<1>2. Live(r) BY <1>1 DEF Live, Active
<1>3. post = Result(op, p, store[p]) BY <1>1, <1>2, GoingOn DEF Going, IniReady
<1>4. p \in Parties /\ store[p] \in Channel /\ op \in Op BY HalfFields
<1>5. post = AddProposal(store[p], q) /\ q \in Proposal
  <2>1. q \in Proposal BY <1>1, <1>4, OpFields, NextProposalType
  <2> QED BY <1>1, <1>3, <2>1 DEF Result
<1>6. Distinct(store[p]) BY <1>4 DEF Hist, Numbered
<1> HIDE DEF p, op, post, q
<1>7. Goes(store[p], post) /\ post.fb = store[p].fb BY <1>4, <1>5, <1>6, ProposalGoes
<1>8. Writes(p) BY <1>1, <1>4, <1>7, SmallWrite
<1> QED BY <1>8 DEF p

LEMMA PersistAndReplyWrites ==
  ASSUME IInv, Hist, NEW r \in Runs, PersistAndReply(r)
  PROVE  Writes(Responder(r))
<1> DEFINE p == ini[r].by
           o == Responder(r)
           op == rsp[r].op
           post == rsp[r].post
           sig == Signed(op, post)
<1>1. Live(r) /\ Answering(r) /\ Persist(o, post) BY ReplyIs
<1>2. /\ Possible(op, store[o]) /\ post = Result(op, p, store[o])
      /\ op.proto \in {"uninstall", "takeAction"} => Possible(op, store[p])
      /\ sig = Asked(op, p)
      /\ op.proto \in {"propose", "uninstall", "takeAction"}
  BY <1>1, AnsweringIs
<1>4. /\ p \in Parties /\ o \in Parties /\ p = Other(o) /\ o # p /\ op \in Op
      /\ post \in Channel /\ store[p] \in Channel /\ store[o] \in Channel
  BY HalfFields
<1>5. store[p].fb.ver \in Nat /\ store[o].fb.ver \in Nat BY <1>4, ChannelFields
<1>6. Distinct(store[o]) BY <1>4 DEF Hist, Numbered
<1> HIDE DEF p, o, op, post, sig
<1>8. CASE op.proto = "propose"
  <2> DEFINE q == NextProposal(store[o], op.def, p, op.own, op.other)
  <2>1. q \in Proposal BY <1>4, <1>8, OpFields, NextProposalType
  <2>2. post = AddProposal(store[o], q) BY <1>2, <1>8 DEF Result
  <2> HIDE DEF q
  <2>3. Goes(store[o], post) /\ post.fb = store[o].fb BY <1>4, <1>6, <2>1, <2>2, ProposalGoes
  <2>4. Writes(o) BY <1>1, <1>4, <2>3, SmallWrite
  <2> QED BY <2>4 DEF o
<1>9. CASE op.proto = "uninstall"
  <2> DEFINE mine == UninstallApp(store[p], op.id)
  <2>1. HasApp(store[o], op.id) /\ HasApp(store[p], op.id) /\ op.id \in AppId
    BY <1>2, <1>4, <1>9, OpFields DEF Possible
  <2>2. post = UninstallApp(store[o], op.id) BY <1>2, <1>9 DEF Result
  <2>3. sig = SetFreeBalance(post) BY <1>9 DEF Signed, sig
  <2>4. sig = SetFreeBalance(mine) BY <1>2, <1>9 DEF Signed, Asked, Result
  <2>5. post.fb = mine.fb BY <2>3, <2>4 DEF SetFreeBalance
  <2>6. post.fb.ver = store[o].fb.ver + 2 /\ mine.fb.ver = store[p].fb.ver + 2
    BY <1>4, <2>1, <2>2, UninstallAppType
  <2>7. Moves(o, post)
    <3>1. store[o].fb.ver = store[p].fb.ver BY <1>5, <2>5, <2>6
    <3> QED BY <1>4, <3>1 DEF Moves
  <2>8. Goes(store[o], post) BY <1>4, <1>6, <2>1, <2>2, UninstallGoes
  <2>9. Writes(o) BY <1>1, <1>4, <2>7, <2>8, BigWrite
  <2> QED BY <2>9 DEF o
<1>10. CASE op.proto = "takeAction"
  <2>1. /\ HasApp(store[o], op.id) /\ op.amount \in Nat /\ op.amount <= GetApp(store[o], op.id).st
        /\ post = ApplyAction(store[o], op.id, op.amount)
    BY <1>2, <1>4, <1>10, OpFields DEF Possible, Result
  <2>2. Goes(store[o], post) /\ post.fb = store[o].fb BY <1>4, <1>6, <2>1, ActionGoes
  <2>3. Writes(o) BY <1>1, <1>4, <2>2, SmallWrite
  <2> QED BY <2>3 DEF o
<1> QED BY <1>2, <1>8, <1>9, <1>10

LEMMA TakeActionFinishWrites ==
  ASSUME IInv, Hist, NEW r \in Runs, TakeActionFinish(r)
  PROVE  Writes(ini[r].by)
<1> DEFINE p == ini[r].by
           op == ini[r].op
           post == ini[r].post
<1>1. /\ p \in Parties /\ op \in Op /\ post \in Channel /\ store[p] \in Channel
      /\ Distinct(store[p])
  BY HalfFields DEF Hist, Numbered
<1>2. Finish(r, "takeAction") BY DEF TakeActionFinish
<1>3. /\ Live(r) /\ ini[r].pc = "wait2" /\ op.proto = "takeAction"
      /\ Persist(p, post)
  BY <1>2, FinishIs
<1>4. Possible(op, store[p]) /\ post = Result(op, p, store[p])
  BY <1>3, GoingOn DEF Going, IniReady
<1>5. /\ HasApp(store[p], op.id) /\ op.amount \in Nat /\ op.amount <= GetApp(store[p], op.id).st
      /\ post = ApplyAction(store[p], op.id, op.amount)
  BY <1>1, <1>3, <1>4, OpFields DEF Possible, Result
<1> HIDE DEF p, op, post
<1>6. Goes(store[p], post) /\ post.fb = store[p].fb BY <1>1, <1>5, ActionGoes
<1>7. Writes(p) BY <1>1, <1>3, <1>6, SmallWrite
<1> QED BY <1>7 DEF p

LEMMA UninstallFinishWrites ==
  ASSUME IInv, Hist, NEW r \in Runs, UninstallFinish(r)
  PROVE  Writes(ini[r].by)
<1>1. /\ ini[r].by \in Parties /\ ini[r].post \in Channel /\ store[ini[r].by] \in Channel
      /\ Distinct(store[ini[r].by])
  BY HalfFields DEF Hist, Numbered
<1>2. /\ ini[r].op.id \in AppId /\ HasApp(store[ini[r].by], ini[r].op.id)
      /\ ini[r].post = UninstallApp(store[ini[r].by], ini[r].op.id)
      /\ Moves(ini[r].by, ini[r].post) /\ Persist(ini[r].by, ini[r].post)
  BY UninstallFinishIs
<1>3. Goes(store[ini[r].by], ini[r].post) BY <1>1, <1>2, UninstallGoes
<1> QED BY <1>1, <1>2, <1>3, BigWrite

LEMMA InstallPersistWrites ==
  ASSUME IInv, Hist, NEW r \in Runs, InstallPersist(r)
  PROVE  Writes(ini[r].by)
<1> DEFINE p == ini[r].by
           q == ini[r].op.q
           post == ini[r].post
<1>1. p \in Parties /\ post \in Channel /\ store[p] \in Channel /\ Distinct(store[p])
  BY HalfFields DEF Hist, Numbered
<1>2. /\ q \in Proposal /\ CanInstallApp(store[p], q) /\ post = InstallApp(store[p], q)
      /\ ~HasApp(store[p], q.id) /\ Moves(p, post) /\ Persist(p, post)
  BY InstallPersistIs
<1> HIDE DEF p, q, post
<1>3. Goes(store[p], post) BY <1>1, <1>2, InstallGoes
<1>4. Writes(p) BY <1>1, <1>2, <1>3, BigWrite
<1> QED BY <1>4 DEF p

LEMMA InstallCompleteWrites ==
  ASSUME IInv, Hist, NEW r \in Runs, InstallComplete(r)
  PROVE  Writes(Responder(r))
<1> DEFINE o == Responder(r)
           q == rsp[r].op.q
           post == rsp[r].post
           id == EventApp(rsp[r].op, post)
           d == RemoveProposal(post, id)
<1>1. o \in Parties /\ post \in Channel /\ store[o] \in Channel /\ Distinct(store[o])
  BY HalfFields DEF Hist, Numbered
<1>2. /\ q \in Proposal /\ CanInstallApp(store[o], q) /\ post = InstallApp(store[o], q)
      /\ ~HasApp(store[o], q.id) /\ Moves(o, d) /\ Persist(o, d)
  BY InstallCompleteIs
<1> HIDE DEF o, q, post, id
<1>3. Goes(store[o], post) BY <1>1, <1>2, InstallGoes
<1>4. Goes(store[o], d) BY <1>1, <1>3, GoesWithout
<1> HIDE DEF d
<1>5. Writes(o) BY <1>1, <1>2, <1>4, BigWrite
<1> QED BY <1>5 DEF o

LEMMA InstallFinishWrites ==
  ASSUME IInv, Hist, NEW r \in Runs, InstallFinish(r)
  PROVE  Writes(ini[r].by)
<1> DEFINE p == ini[r].by
           d == RemoveProposal(store[p], ini[r].op.q.id)
<1>1. Persist(p, d) /\ p \in Parties
  BY HalfFields, Apart DEF InstallFinish
<1>2. store[p] \in Channel /\ Distinct(store[p]) /\ store[p].np <= store[p].np
  BY <1>1, Apart, ChannelFields DEF Hist, Numbered
<1>3. Goes(store[p], store[p]) BY <1>2, GoesSame
<1>4. Goes(store[p], d) /\ d.fb = store[p].fb
  <2> HIDE DEF p
  <2> QED BY <1>2, <1>3, GoesWithout
<1> HIDE DEF d
<1> QED BY <1>1, <1>4, SmallWrite

\* One step, one move.
LEMMA NextWrites ==
  ASSUME UnderLock, IInv, Hist, [Next]_vars
  PROVE  \E x \in Parties : Writes(x)
<1>1. CASE UNCHANGED vars BY <1>1, NoWrite DEF vars
<1>2. ASSUME NEW r \in Runs, NEW p \in Parties, Call(r, p)
      PROVE  \E x \in Parties : Writes(x)
  <2>1. UNCHANGED <<store, past>>
    BY <1>2 DEF Call, ProposeInitiator, InstallInitiator, UninstallInitiator,
                TakeActionInitiator, UpdateInitiator, RejectInitiator
  <2> QED BY <2>1, NoWrite
<1>3. ASSUME NEW r \in Runs, InitiatorStep(r) PROVE \E x \in Parties : Writes(x)
  <2>1. ini[r].by \in Parties BY HalfFields
  <2>2. CASE UpdateFinish(r)
    <3>1. ini[r].pc = "wait2" /\ ini[r].op.proto = "update" BY <2>2 DEF UpdateFinish, Finish
    <3>2. IniReady(r) BY <3>1, GoingOn DEF Live, Active, Going
    <3> QED BY <3>1, <3>2 DEF IniReady, Possible
  <2>3. CASE RejectPersist(r)
    <3>1. ini[r].pc = "persist" /\ ini[r].op.proto = "reject" BY <2>3 DEF RejectPersist
    <3>2. IniReady(r) BY <3>1, GoingOn DEF Live, Active, Going
    <3> QED BY <3>1, <3>2 DEF IniReady
  <2>4. CASE ProposeFinish(r)
    <3>1. Finish(r, "propose") BY <2>4 DEF ProposeFinish
    <3>2. UNCHANGED <<store, past>> BY <3>1, FinishIs
    <3> QED BY <3>2, NoWrite
  <2>5. CASE InstallCountersign(r) \/ UninstallCountersign(r) \/ TimeoutInitiator(r)
    <3>1. UNCHANGED <<store, past>>
      BY <2>5 DEF InstallCountersign, UninstallCountersign, TimeoutInitiator
    <3> QED BY <3>1, NoWrite
  <2> QED
    BY <1>3, <2>1, <2>2, <2>3, <2>4, <2>5, ProposePersistWrites, TakeActionFinishWrites,
       UninstallFinishWrites, InstallPersistWrites, InstallFinishWrites
    DEF InitiatorStep
<1>4. ASSUME NEW r \in Runs, ResponderStep(r) PROVE \E x \in Parties : Writes(x)
  <2>1. Responder(r) \in Parties BY HalfFields
  <2>2. CASE UninstallWrite(r) \/ InstallWrite(r) \/ TimeoutResponder(r)
    <3>1. UNCHANGED <<store, past>> BY <2>2 DEF UninstallWrite, InstallWrite, TimeoutResponder
    <3> QED BY <3>1, NoWrite
  <2> QED BY <1>4, <2>1, <2>2, PersistAndReplyWrites, InstallCompleteWrites DEF ResponderStep
<1>5. ASSUME NEW m \in net, Receive(m) \/ Lose(m) PROVE \E x \in Parties : Writes(x)
  <2>1. UNCHANGED <<store, past>>
    BY <1>5 DEF Receive, Lose, ProposeResponder, UninstallResponder, Respond,
         InstallResponder, TakeActionResponder, UpdateResponder, RejectReceived,
         IgnoreUnexpected
  <2> QED BY <2>1, NoWrite
<1>6. ASSUME NEW k \in locks, LeaseExpires(k) PROVE \E x \in Parties : Writes(x)
  BY <1>6, NoWrite DEF LeaseExpires
<1>7. ASSUME NEW p \in Parties, Crash(p) PROVE \E x \in Parties : Writes(x)
  BY <1>7, NoWrite DEF Crash
<1> QED BY <1>1, <1>2, <1>3, <1>4, <1>5, <1>6, <1>7 DEF Next

-----------------------------------------------------------------------------
(* The channels of the two parties agree between the runs.                  *)

\* No call has failed.
Smooth == \A r \in Runs : ini[r].pc \notin {"threw", "crashed", "torn"}

\* The two stores are equal.
Same == \A p, q \in Parties : store[p] = store[q]

\* Where the channels of the two parties are in the course of run r.
Between(r) ==
  LET p == ini[r].by
      o == Responder(r)
      done(op) == store[p] = Result(op, p, store[o])
  IN  /\ ini[r].pc = "persist" => Same
      /\ ini[r].pc = "written" =>
           IF ini[r].op.proto = "install" THEN Same ELSE store[o] = ini[r].post
      /\ Answering(r) =>
           IF rsp[r].op.proto = "propose" THEN done(rsp[r].op) ELSE Same
      /\ Completing(r) => done(rsp[r].op)
      /\ \A m \in net :
           /\ m.n = 1 => IF m.op.proto = "propose" THEN done(m.op) ELSE Same
           /\ m.n = 2 => IF ini[r].op.proto = "install" THEN Same
                                                        ELSE store[o] = ini[r].post
           /\ m.n = 3 /\ rsp[r].pc = "wait3" => done(rsp[r].op)
           /\ m.n = 4 => Same

\* As long as no call has failed, the parties agree whenever no run is live.
Agreeing ==
  Smooth => /\ (\A r \in Runs : ~Live(r)) => Same
            /\ \A r \in Runs : Live(r) => Between(r)

LEMMA SameIs ==
  ASSUME NEW p \in Parties
  PROVE  Same <=> store[p] = store[Other(p)]
BY TwoParties DEF Same

\* Without failures, what is live is a call that has not returned.
LEMMA LiveIsActive ==
  ASSUME IInv, Hist, Smooth, NEW r \in Runs, Live(r)
  PROVE  Active(r)
<1>1. Going(r) BY GoingOn
<1>2. ini[r].pc # "crashed" BY DEF Smooth
<1>3. CASE rsp[r].pc \in {"verified", "written"}
  <2>1. Answering(r) \/ Completing(r)
    BY <1>3, HalvesFit DEF Answering, Completing, RspFits, Writing
  <2> QED BY <1>1, <1>2, <2>1 DEF Going, Phase, Active
<1>4. CASE \E m \in net : m.run = r
  <2>1. PICK m \in net : m.run = r BY <1>4
  <2>2. m.n \in {1, 2} \/ m.n \in {3, 4} BY MessageFields
  <2> QED BY <1>1, <1>2, <2>1, <2>2 DEF Going, Phase, Active
<1> QED BY <1>3, <1>4 DEF Live, Quiet

\* What a step of the live run must show.
LEMMA AgreeStep ==
  ASSUME IInv, Hist, NEW r \in Runs, Live(r),
         \A s \in Runs \ {r} : ini'[s] = ini[s] /\ rsp'[s] = rsp[s],
         \A m \in net' : m \in net \/ m.run = r,
         Live(r)' => Between(r)',
         ~Live(r)' => Same'
  PROVE  Agreeing'
<1>1. \A s \in Runs \ {r} : ~Live(s)' BY OneLive, OthersDead DEF Hist
<1> QED BY <1>1 DEF Agreeing

\* Nothing is persisted and no call moves on.
LEMMA AgreeStill ==
  ASSUME IInv, Hist, Agreeing, store' = store, ini' = ini, net' \subseteq net,
         \A s \in Runs : rsp'[s] = rsp[s] \/ rsp'[s].pc \in {"idle", "done", "torn"}
  PROVE  Agreeing'
<1> SUFFICES ASSUME Smooth' PROVE Agreeing' BY DEF Agreeing
<1>1. Smooth BY DEF Smooth
<1>2. \A s \in Runs : Live(s)' => Live(s) BY DEF Live, Active, Quiet
<1>3. ASSUME \A s \in Runs : ~Live(s)' PROVE Same'
  <2>1. \A s \in Runs : ~Active(s) BY <1>3 DEF Live, Active
  <2>2. \A s \in Runs : ~Live(s) BY <1>1, <2>1, LiveIsActive
  <2> QED BY <1>1, <2>2 DEF Agreeing, Same
<1>4. ASSUME NEW r \in Runs, Live(r)' PROVE Between(r)'
  <2>1. Between(r) BY <1>1, <1>2, <1>4 DEF Agreeing
  <2>2. Responder(r)' = Responder(r) /\ Same' = Same BY DEF Responder, Same
  <2>3. rsp'[r] = rsp[r] \/ rsp'[r].pc \in {"idle", "done", "torn"} OBVIOUS
  <2> QED BY <2>1, <2>2, <2>3 DEF Between, Answering, Completing
<1> QED BY <1>3, <1>4 DEF Agreeing

\* A call begins: the parties agree.
LEMMA AgreeStart ==
  ASSUME UnderLock, IInv, Hist, Agreeing, NEW r \in Runs, NEW p \in Parties, NEW op \in Op,
         NEW pc \in {"persist", "wait2"}, NEW post, Start(r, p, op, pc, post),
         UNCHANGED <<store, rsp>>,
         \/ net' = net
         \/ op.proto # "propose" /\ \E sigs : net' = net \cup {Request(r, p, op, sigs)}
  PROVE  Agreeing'
<1> DEFINE half == [by |-> p, pc |-> pc, op |-> op, post |-> post]
<1>1. (\A s \in Runs : ~Live(s)) /\ net = {} /\ rsp[r].pc = "idle" BY StartAlone
<1>2. ini' = [ini EXCEPT ![r] = half] /\ ini[r].pc = "idle" BY DEF Start
<1> HIDE DEF half
<1>3. \A s \in Runs \ {r} : ini'[s] = ini[s] BY <1>2, Apart
<1>4. \A m \in net' : m.run = r /\ m.n = 1 /\ m.op = op /\ op.proto # "propose"
  BY <1>1 DEF Request, Message
<1>5. \A s \in Runs \ {r} : ~Live(s)'
  BY <1>1, <1>3, <1>4, OthersDead
<1> SUFFICES ASSUME Smooth' PROVE Agreeing' BY DEF Agreeing
<1>6. Smooth
  <2>1. \A s \in Runs : ini[s].pc = ini'[s].pc \/ s = r BY <1>3
  <2> QED BY <1>2, <2>1 DEF Smooth
<1>7. Same' BY <1>1, <1>6 DEF Agreeing, Same
<1>8. ini'[r].pc \in {"persist", "wait2"} BY <1>2, Apart DEF half
<1>9. Between(r)' BY <1>1, <1>4, <1>7, <1>8 DEF Between, Answering, Completing
<1> QED BY <1>5, <1>7, <1>9 DEF Agreeing

LEMMA CallAgree ==
  ASSUME UnderLock, IInv, Hist, Agreeing, NEW r \in Runs, NEW p \in Parties, Call(r, p)
  PROVE  Agreeing'
<1>1. store[p] \in Channel BY Apart
<1>2. CASE ProposeInitiator(r, p)
  <2>1. PICK d \in Defs, t \in Terms :
          LET op == [proto |-> "propose", def |-> d, own |-> t.own, other |-> t.other]
              q  == NextProposal(store[p], d, p, t.own, t.other)
          IN  /\ Start(r, p, op, "persist", AddProposal(store[p], q))
              /\ UNCHANGED <<store, past, held, rsp, net>>
    BY <1>2 DEF ProposeInitiator
  <2> DEFINE op == [proto |-> "propose", def |-> d, own |-> t.own, other |-> t.other]
             post == AddProposal(store[p], NextProposal(store[p], d, p, t.own, t.other))
  <2>2. op \in Op BY ConstantsType DEF Op
  <2>3. Start(r, p, op, "persist", post) /\ UNCHANGED <<store, rsp, net>> BY <2>1
  <2> HIDE DEF op, post
  <2> QED BY <2>2, <2>3, AgreeStart
<1>3. CASE InstallInitiator(r, p)
  <2>1. PICK q \in store[p].props :
          LET op   == [proto |-> "install", q |-> q]
              post == InstallApp(store[p], q)
          IN  /\ Start(r, p, op, "wait2", post)
              /\ net' = net \cup {Request(r, p, op, {Conditional(post)})}
              /\ UNCHANGED <<store, past, held, rsp>>
    BY <1>3 DEF InstallInitiator
  <2> DEFINE op == [proto |-> "install", q |-> q]
             post == InstallApp(store[p], q)
             sigs == {Conditional(post)}
  <2>2. op \in Op
    <3>1. q \in Proposal BY <1>1, ChannelFields
    <3> QED BY <3>1 DEF Op
  <2>3. /\ Start(r, p, op, "wait2", post) /\ UNCHANGED <<store, rsp>>
        /\ net' = net \cup {Request(r, p, op, sigs)} /\ op.proto # "propose"
    BY <2>1
  <2> HIDE DEF op, post, sigs
  <2> QED BY <2>2, <2>3, AgreeStart
<1>4. CASE UninstallInitiator(r, p)
  <2>1. PICK op \in UninstallParams(store[p]) :
          LET post == UninstallApp(store[p], op.id)
          IN  /\ Start(r, p, op, "wait2", post)
              /\ net' = net \cup {Request(r, p, op, {Signed(op, post)})}
              /\ UNCHANGED <<store, past, held, rsp>>
    BY <1>4 DEF UninstallInitiator, SendRequest
  <2>2. op \in Op /\ op.proto # "propose" BY <1>1, AppIdsType DEF UninstallParams, Op
  <2> DEFINE post == UninstallApp(store[p], op.id)
             sigs == {Signed(op, post)}
  <2>3. /\ Start(r, p, op, "wait2", post) /\ UNCHANGED <<store, rsp>>
        /\ net' = net \cup {Request(r, p, op, sigs)}
    BY <2>1
  <2> HIDE DEF post, sigs
  <2> QED BY <2>2, <2>3, AgreeStart
<1>5. CASE TakeActionInitiator(r, p)
  <2>1. PICK op \in TakeActionParams(store[p]) :
          LET post == ApplyAction(store[p], op.id, op.amount)
          IN  /\ Start(r, p, op, "wait2", post)
              /\ net' = net \cup {Request(r, p, op, {Signed(op, post)})}
              /\ UNCHANGED <<store, past, held, rsp>>
    BY <1>5 DEF TakeActionInitiator, SendRequest
  <2>2. op \in Op /\ op.proto # "propose"
    <3>1. PICK id \in AppIds(store[p]) :
            op \in [proto : {"takeAction"}, id : {id}, amount : 1..GetApp(store[p], id).st]
      BY <2>1 DEF TakeActionParams
    <3>2. id \in AppId /\ GetApp(store[p], id).st \in Nat
      BY <1>1, AppIdsType, GetAppType, AppFields
    <3>3. op \in [proto : {"takeAction"}, id : AppId, amount : Nat] BY <3>1, <3>2
    <3> QED BY <3>3 DEF Op
  <2> DEFINE post == ApplyAction(store[p], op.id, op.amount)
             sigs == {Signed(op, post)}
  <2>3. /\ Start(r, p, op, "wait2", post) /\ UNCHANGED <<store, rsp>>
        /\ net' = net \cup {Request(r, p, op, sigs)}
    BY <2>1
  <2> HIDE DEF post, sigs
  <2> QED BY <2>2, <2>3, AgreeStart
<1>6. CASE UpdateInitiator(r, p) \/ RejectInitiator(r, p)
  <2>1. \E op : op.proto \in {"update", "reject"} /\ op.proto \in Started
    <3>1. CASE UpdateInitiator(r, p)
      <4>1. PICK op \in UpdateParams(store[p]) : op.proto \in Started
        BY <3>1 DEF UpdateInitiator, Start
      <4>2. op.proto = "update" BY <4>1 DEF UpdateParams
      <4> QED BY <4>1, <4>2
    <3>2. CASE RejectInitiator(r, p)
      <4>1. PICK id : [proto |-> "reject", id |-> id].proto \in Started
        BY <3>2 DEF RejectInitiator, Start
      <4> DEFINE op == [proto |-> "reject", id |-> id]
      <4>2. op.proto = "reject" /\ op.proto \in Started BY <4>1
      <4> HIDE DEF op
      <4> QED BY <4>2
    <3> QED BY <1>6, <3>1, <3>2
  <2> QED BY <2>1 DEF UnderLock
<1> QED BY <1>2, <1>3, <1>4, <1>5, <1>6 DEF Call

\* A failed call ends the matter.
LEMMA AgreeFailed ==
  ASSUME NEW r \in Runs, ini'[r].pc \in {"threw", "crashed", "torn"}
  PROVE  Agreeing'
BY DEF Agreeing, Smooth

LEMMA StillSmooth ==
  ASSUME NEW r \in Runs, Agreeing, ini[r].pc \notin {"threw", "crashed", "torn"},
         \A s \in Runs \ {r} : ini'[s] = ini[s], ~Agreeing'
  PROVE  Smooth
BY DEF Agreeing, Smooth

LEMMA ProposePersistAgree ==
  ASSUME IInv, Hist, Agreeing, NEW r \in Runs, ProposePersist(r)
  PROVE  Agreeing'
<1> DEFINE p == ini[r].by
           o == Responder(r)
           op == ini[r].op
           post == ini[r].post
<1>1. /\ ini[r].pc = "persist" /\ op.proto = "propose"
      /\ store' = [store EXCEPT ![p] = post]
      /\ ini' = [ini EXCEPT ![r].pc = "wait2"]
      /\ net' = net \cup {Request(r, p, op, {Signed(op, post)})}
      /\ UNCHANGED <<held, rsp, locks>>
  BY DEF ProposePersist, Persist, SendRequest
<1>2. Live(r) BY <1>1 DEF Live, Active
<1>3. /\ rsp[r].pc = "idle" /\ net = {} /\ post = Result(op, p, store[p])
  BY <1>1, <1>2, GoingOn DEF Going, Phase, IniReady
<1>4. p \in Parties /\ o \in Parties /\ o # p /\ o = Other(p) /\ ini[r] \in IniHalf
  BY HalfFields
<1>5. /\ ini'[r].by = p /\ ini'[r].op = op /\ ini'[r].pc = "wait2"
      /\ \A s \in Runs \ {r} : ini'[s] = ini[s]
  BY <1>1, <1>4, Apart DEF IniHalf
<1>6. \A m \in net' : m.run = r /\ m.n = 1 /\ m.op = op BY <1>1, <1>3 DEF Request, Message
<1> SUFFICES ASSUME ~Agreeing' PROVE FALSE OBVIOUS
<1>7. Smooth BY <1>1, <1>5, StillSmooth
<1>8. store[p] = store[o]
  <2>1. Between(r) BY <1>2, <1>7 DEF Agreeing
  <2>2. Same BY <1>1, <2>1 DEF Between
  <2> QED BY <1>4, <2>2 DEF Same
<1>9. Between(r)'
  <2>1. store'[p] = post /\ store'[o] = store[o] BY <1>1, <1>4, Apart
  <2>2. store'[p] = Result(op, p, store'[o]) BY <1>3, <1>8, <2>1
  <2>3. Responder(r)' = o BY <1>5 DEF Responder
  <2> QED BY <1>1, <1>3, <1>5, <1>6, <2>2, <2>3 DEF Between, Answering, Completing
<1>10. Live(r)' BY <1>5 DEF Live, Active
<1> QED BY <1>1, <1>2, <1>5, <1>6, <1>9, <1>10, AgreeStep

LEMMA RespondAgree ==
  ASSUME IInv, Hist, Agreeing, NEW m \in net, m.n = 1, NEW post,
         m.op.proto \in {"propose", "uninstall", "takeAction"},
         net' = net \ {m}, UNCHANGED <<store, ini>>,
         \/ rsp' = rsp
         \/ rsp' = [rsp EXCEPT ![m.run] = [pc |-> "verified", op |-> m.op, post |-> post]]
  PROVE  Agreeing'
<1> DEFINE r == m.run
           half == [pc |-> "verified", op |-> m.op, post |-> post]
<1>1. net' = net \ {m} /\ UNCHANGED <<store, ini>> OBVIOUS
<1>2. CASE rsp' = rsp BY <1>1, <1>2, AgreeStill
<1>3. CASE rsp' # rsp
  <2>1. rsp' = [rsp EXCEPT ![r] = half] BY <1>3
  <2>2. half.pc = "verified" /\ half.op = m.op OBVIOUS
  <2> HIDE DEF half
  <2>3. r \in Runs /\ Live(r) BY MessageFields
  <2>4. Going(r) /\ net' = {} BY <1>1, <2>3, GoingOn
  <2>5. rsp'[r] = half /\ \A s \in Runs \ {r} : rsp'[s] = rsp[s] BY <2>1, <2>3, Apart
  <2> SUFFICES ASSUME ~Agreeing' PROVE FALSE OBVIOUS
  <2>6. Smooth BY <1>1 DEF Agreeing, Smooth
  <2>7. Between(r) BY <2>3, <2>6 DEF Agreeing
  <2>8. Responder(r)' = Responder(r) /\ Same' = Same BY <1>1 DEF Responder, Same
  <2>9. ini[r].pc \notin {"persist", "written"} BY <2>4 DEF Going, Phase
  <2>10. Between(r)'
    BY <1>1, <2>2, <2>4, <2>5, <2>7, <2>8, <2>9 DEF Between, Answering, Completing
  <2>11. Live(r)' BY <2>2, <2>5 DEF Live, Quiet
  <2> QED BY <1>1, <2>3, <2>4, <2>5, <2>10, <2>11, AgreeStep
<1> QED BY <1>2, <1>3

LEMMA UninstallWriteAgree ==
  ASSUME IInv, Hist, Agreeing, NEW r \in Runs, UninstallWrite(r)
  PROVE  Agreeing'
<1>1. /\ rsp[r].pc = "verified" /\ rsp[r].op.proto = "uninstall"
      /\ rsp' = [rsp EXCEPT ![r].pc = "written"]
      /\ UNCHANGED <<store, ini, net>>
  BY DEF UninstallWrite
<1>2. Live(r) /\ Answering(r) BY <1>1 DEF Live, Quiet, Answering
<1>3. net = {} /\ ini[r].pc \in {"wait2", "crashed"} BY <1>2, AnsweringIs
<1>4. rsp[r] \in RspHalf BY HalfFields
<1>5. /\ rsp'[r].pc = "written" /\ rsp'[r].op = rsp[r].op
      /\ \A s \in Runs \ {r} : rsp'[s] = rsp[s]
  BY <1>1, <1>4, Apart DEF RspHalf
<1> SUFFICES ASSUME ~Agreeing' PROVE FALSE OBVIOUS
<1>6. Smooth BY <1>1 DEF Agreeing, Smooth
<1>7. Between(r) BY <1>2, <1>6 DEF Agreeing
<1>8. Responder(r)' = Responder(r) /\ Same' = Same BY <1>1 DEF Responder, Same
<1>9. Same BY <1>1, <1>2, <1>7 DEF Between
<1>10. Between(r)'
  BY <1>1, <1>3, <1>5, <1>8, <1>9 DEF Between, Answering, Completing
<1>11. Live(r)' BY <1>5 DEF Live, Quiet
<1> QED BY <1>1, <1>2, <1>5, <1>10, <1>11, AgreeStep

LEMMA PersistAndReplyAgree ==
  ASSUME IInv, Hist, Agreeing, NEW r \in Runs, PersistAndReply(r)
  PROVE  Agreeing'
<1> DEFINE p == ini[r].by
           o == Responder(r)
           op == rsp[r].op
           post == rsp[r].post
           sig == Signed(op, post)
<1>1. /\ Live(r) /\ Answering(r) /\ Persist(o, post)
      /\ net' = {Reply(r, 2, p, {sig})}
      /\ rsp' = [rsp EXCEPT ![r] = DoneRsp]
      /\ ini' = ini
  BY ReplyIs
<1>2. Going(r) BY <1>1, GoingOn
<1>3. /\ post = Result(op, p, store[o])
      /\ op.proto \in {"propose", "uninstall", "takeAction"}
      /\ ini[r].pc \in {"wait2", "crashed"} /\ net = {}
  BY <1>1, AnsweringIs
<1>4. store' = [store EXCEPT ![o] = post] BY <1>1 DEF Persist
<1>5. p \in Parties /\ o \in Parties /\ o # p /\ o = Other(p) BY HalfFields
<1>6. \A m \in net' : m.run = r /\ m.n = 2 BY <1>1 DEF Reply, Message
<1>7. rsp'[r].pc = "done" /\ \A s \in Runs \ {r} : rsp'[s] = rsp[s]
  BY <1>1, Apart DEF DoneRsp
<1> SUFFICES ASSUME ~Agreeing' PROVE FALSE OBVIOUS
<1>8. Smooth BY <1>1 DEF Agreeing, Smooth
<1>9. ini[r].pc = "wait2" /\ op = ini[r].op
  <2>1. ini[r].pc = "wait2" BY <1>3, <1>8 DEF Smooth
  <2>2. rsp[r].pc \in {"verified", "wait3", "written"} BY <1>1 DEF Answering
  <2> QED BY <1>2, <2>1, <2>2 DEF Going, RspReady
<1>10. post = ini[r].post
  <2>1. IF op.proto = "propose" THEN store[p] = ini[r].post
                                ELSE ini[r].post = Result(op, p, store[p])
    BY <1>2, <1>9 DEF Going, IniReady
  <2>2. IF op.proto = "propose" THEN store[p] = Result(op, p, store[o])
                                ELSE store[p] = store[o]
    BY <1>1, <1>5, <1>8 DEF Agreeing, Between, Same
  <2> QED BY <1>3, <2>1, <2>2
<1>11. Between(r)'
  <2>1. store'[o] = post BY <1>4, <1>5, Apart
  <2>2. Responder(r)' = o BY <1>1 DEF Responder
  <2>3. ~Answering(r)' /\ ~Completing(r)' BY <1>7 DEF Answering, Completing
  <2> QED BY <1>1, <1>3, <1>6, <1>9, <1>10, <2>1, <2>2, <2>3 DEF Between
<1>12. Live(r)' BY <1>1, <1>9 DEF Live, Active
<1> QED BY <1>1, <1>6, <1>7, <1>11, <1>12, AgreeStep

\* A call that proposed or took an action leaves the two channels equal.
LEMMA FinishAgree ==
  ASSUME IInv, Hist, Agreeing, NEW r \in Runs, ProposeFinish(r) \/ TakeActionFinish(r)
  PROVE  Agreeing'
<1> DEFINE p == ini[r].by
           o == Responder(r)
           op == ini[r].op
           post == ini[r].post
<1>1. p \in Parties /\ o \in Parties /\ o # p /\ o = Other(p) BY HalfFields
<1>2. PICK proto \in {"propose", "takeAction"} : Finish(r, proto)
  BY DEF ProposeFinish, TakeActionFinish
<1>3. /\ Live(r) /\ ini[r].pc = "wait2" /\ op.proto = proto
      /\ IF proto = "propose" THEN UNCHANGED <<store, past>> ELSE Persist(p, post)
      /\ \A s \in Runs \ {r} : ini'[s] = ini[s]
      /\ net' \subseteq net /\ rsp' = rsp /\ ~Live(r)'
  BY <1>2, FinishIs
<1>4. PICK m \in net : m.run = r /\ m.n = 2 BY <1>2 DEF Finish
<1> SUFFICES ASSUME ~Agreeing' PROVE FALSE OBVIOUS
<1>5. Smooth BY <1>3, StillSmooth
<1>6. store[o] = post
  <2>1. Between(r) BY <1>3, <1>5 DEF Agreeing
  <2>2. op.proto # "install" BY <1>2, <1>3
  <2> QED BY <1>4, <2>1, <2>2 DEF Between
<1>7. store'[p] = store'[o]
  <2>1. CASE proto = "propose"
    <3>1. store[p] = post BY <1>3, <2>1, GoingOn DEF Going, IniReady
    <3> QED BY <1>3, <1>6, <2>1, <3>1
  <2>2. CASE proto = "takeAction"
    <3>1. store' = [store EXCEPT ![p] = post] BY <1>3, <2>2 DEF Persist
    <3> QED BY <1>1, <1>6, <3>1, Apart
  <2> QED BY <1>2, <2>1, <2>2
<1>8. Same' BY <1>1, <1>7, TwoParties DEF Same
<1> QED BY <1>3, <1>8, AgreeStep

LEMMA UninstallCountersignAgree ==
  ASSUME IInv, Hist, Agreeing, NEW r \in Runs, UninstallCountersign(r)
  PROVE  Agreeing'
<1> DEFINE p == ini[r].by
           o == Responder(r)
<1>1. /\ ini[r].pc = "wait2" /\ ini[r].op.proto = "uninstall"
      /\ UNCHANGED <<store, rsp>>
  BY DEF UninstallCountersign
<1>2. PICK m \in net :
        /\ m.run = r /\ m.n = 2 /\ net' = net \ {m}
        /\ \/ ini' = [ini EXCEPT ![r].pc = "written"]
           \/ Leave(r, "threw")
  BY DEF UninstallCountersign
<1>3. Live(r) /\ Going(r) /\ net' = {} /\ rsp[r].pc \in {"wait3", "done"}
  BY <1>1, <1>2, Answered
<1>4. ini[r] \in IniHalf BY HalfFields
<1>5. CASE Leave(r, "threw")
  <2>1. ini'[r].pc = "threw" BY <1>5, Apart DEF Leave, NoHalf
  <2> QED BY <2>1, AgreeFailed
<1>6. CASE ini' = [ini EXCEPT ![r].pc = "written"]
  <2>1. /\ ini'[r].by = p /\ ini'[r].op = ini[r].op /\ ini'[r].post = ini[r].post
        /\ ini'[r].pc = "written" /\ \A s \in Runs \ {r} : ini'[s] = ini[s]
    BY <1>4, <1>6, Apart DEF IniHalf
  <2> SUFFICES ASSUME ~Agreeing' PROVE FALSE OBVIOUS
  <2>2. Smooth BY <1>1, <2>1, StillSmooth
  <2>3. Between(r) BY <1>3, <2>2 DEF Agreeing
  <2>4. store[o] = ini[r].post BY <1>1, <1>2, <2>3 DEF Between
  <2>5. Responder(r)' = o BY <2>1 DEF Responder
  <2>6. ~Answering(r)' /\ ~Completing(r)' BY <1>1, <1>3 DEF Answering, Completing
  <2>7. Between(r)' BY <1>1, <1>3, <2>1, <2>4, <2>5, <2>6 DEF Between
  <2>8. Live(r)' BY <2>1 DEF Live, Active
  <2> QED BY <1>1, <1>3, <2>1, <2>7, <2>8, AgreeStep
<1> QED BY <1>2, <1>5, <1>6

LEMMA UninstallFinishAgree ==
  ASSUME IInv, Hist, Agreeing, NEW r \in Runs, UninstallFinish(r)
  PROVE  Agreeing'
<1> DEFINE p == ini[r].by
           o == Responder(r)
           post == ini[r].post
<1>1. p \in Parties /\ o \in Parties /\ o # p /\ o = Other(p) BY HalfFields
<1>2. /\ Live(r) /\ Persist(p, post) /\ UNCHANGED <<rsp, net>>
      /\ \A s \in Runs \ {r} : ini'[s] = ini[s]
      /\ ~Live(r)'
  BY UninstallFinishIs
<1>3. ini[r].pc = "written" /\ ini[r].op.proto = "uninstall" BY DEF UninstallFinish
<1> SUFFICES ASSUME ~Agreeing' PROVE FALSE OBVIOUS
<1>4. Smooth BY <1>2, <1>3, StillSmooth
<1>5. store[o] = post
  <2>1. Between(r) BY <1>2, <1>4 DEF Agreeing
  <2> QED BY <1>3, <2>1 DEF Between
<1>6. store' = [store EXCEPT ![p] = post] BY <1>2 DEF Persist
<1>7. store'[p] = store'[o] BY <1>1, <1>5, <1>6, Apart
<1>8. Same' BY <1>1, <1>7, TwoParties DEF Same
<1> QED BY <1>2, <1>8, AgreeStep

LEMMA InstallResponderAgree ==
  ASSUME IInv, Hist, Agreeing, NEW m \in net, InstallResponder(m)
  PROVE  Agreeing'
<1> DEFINE r == m.run
           o == m.to
           post == InstallApp(store[o], m.op.q)
           ct == Conditional(post)
           half == [pc |-> "wait3", op |-> m.op, post |-> post]
           rep == Reply(r, 2, Other(o), {ct, SetFreeBalance(post)})
<1>1. /\ m.n = 1 /\ m.op.proto = "install" /\ store' = store /\ ini' = ini
      /\ \/ rsp' = [rsp EXCEPT ![r] = half] /\ net' = (net \ {m}) \cup {rep}
         \/ net' = net \ {m} /\ rsp' = rsp
  BY DEF InstallResponder
<1>2. CASE net' = net \ {m} /\ rsp' = rsp
  BY <1>1, <1>2, AgreeStill
<1>3. CASE rsp' = [rsp EXCEPT ![r] = half] /\ net' = (net \ {m}) \cup {rep}
  <2>1. half.pc = "wait3" /\ half.op = m.op /\ rep.run = r /\ rep.n = 2 BY DEF Reply, Message
  <2> HIDE DEF half, rep
  <2>2. r \in Runs /\ Live(r) BY MessageFields
  <2>3. Going(r) /\ net' = {rep} BY <1>3, <2>2, GoingOn
  <2>4. rsp'[r] = half /\ \A s \in Runs \ {r} : rsp'[s] = rsp[s] BY <1>3, <2>2, Apart
  <2> SUFFICES ASSUME ~Agreeing' PROVE FALSE OBVIOUS
  <2>5. Smooth BY <1>1 DEF Agreeing, Smooth
  <2>6. Between(r) BY <2>2, <2>5 DEF Agreeing
  <2>7. Same BY <1>1, <2>6 DEF Between
  <2>8. ini[r].pc = "wait2" /\ m.op = ini[r].op
    <3>1. ini[r].pc \in {"wait2", "crashed"} BY <1>1, <2>3 DEF Going, Phase
    <3>2. ini[r].pc = "wait2" BY <2>2, <2>5, <3>1 DEF Smooth
    <3> QED BY <1>1, <2>3, <3>2 DEF Going, Requested
  <2>9. Same' BY <1>1, <2>7 DEF Same
  <2>10. Between(r)'
    BY <1>1, <2>1, <2>3, <2>4, <2>8, <2>9 DEF Between, Answering, Completing
  <2>11. Live(r)' BY <1>1, <2>8 DEF Live, Active
  <2> QED BY <1>1, <2>1, <2>2, <2>3, <2>4, <2>10, <2>11, AgreeStep
<1> QED BY <1>1, <1>2, <1>3

LEMMA InstallCountersignAgree ==
  ASSUME IInv, Hist, Agreeing, NEW r \in Runs, InstallCountersign(r)
  PROVE  Agreeing'
<1>1. /\ ini[r].pc = "wait2" /\ ini[r].op.proto = "install"
      /\ UNCHANGED <<store, rsp>>
  BY DEF InstallCountersign
<1>2. PICK m \in net :
        /\ m.run = r /\ m.n = 2 /\ net' = net \ {m}
        /\ \/ ini' = [ini EXCEPT ![r].pc = "written"]
           \/ Leave(r, "threw")
  BY DEF InstallCountersign
<1>3. Live(r) BY <1>1 DEF Live, Active
<1>4. Going(r) /\ net' = {} BY <1>2, <1>3, GoingOn
<1>5. ini[r] \in IniHalf BY HalfFields
<1>6. CASE Leave(r, "threw")
  <2>1. ini'[r].pc = "threw" BY <1>6, Apart DEF Leave, NoHalf
  <2> QED BY <2>1, AgreeFailed
<1>7. CASE ini' = [ini EXCEPT ![r].pc = "written"]
  <2>1. /\ ini'[r].by = ini[r].by /\ ini'[r].op = ini[r].op /\ ini'[r].pc = "written"
        /\ \A s \in Runs \ {r} : ini'[s] = ini[s]
    BY <1>5, <1>7, Apart DEF IniHalf
  <2> SUFFICES ASSUME ~Agreeing' PROVE FALSE OBVIOUS
  <2>2. Smooth BY <1>1, <2>1, StillSmooth
  <2>3. Same BY <1>1, <1>2, <1>3, <2>2 DEF Agreeing, Between
  <2>4. Same' BY <1>1, <2>3 DEF Same
  <2>5. rsp[r].pc \in {"wait3", "done"} BY <1>2, <1>4 DEF Going, Phase
  <2>6. ~Answering(r)' /\ ~Completing(r)' BY <1>1, <2>5 DEF Answering, Completing
  <2>7. Between(r)' BY <1>1, <1>4, <2>1, <2>4, <2>6 DEF Between
  <2>8. Live(r)' BY <2>1 DEF Live, Active
  <2> QED BY <1>1, <1>3, <1>4, <2>1, <2>7, <2>8, AgreeStep
<1> QED BY <1>2, <1>6, <1>7

LEMMA InstallPersistAgree ==
  ASSUME IInv, Hist, Agreeing, NEW r \in Runs, InstallPersist(r)
  PROVE  Agreeing'
<1> DEFINE p == ini[r].by
           o == Responder(r)
           op == ini[r].op
           post == ini[r].post
           rep == Reply(r, 3, o, {SetFreeBalance(post)})
<1>1. /\ Live(r) /\ Going(r) /\ rsp[r].pc \in {"wait3", "done"}
      /\ ini[r].pc = "written" /\ op.proto = "install"
      /\ Persist(p, post) /\ UNCHANGED rsp
      /\ net' = {rep}
      /\ ini' = [ini EXCEPT ![r].pc = "wait4"]
  BY InstallPersistIs
<1>2. p \in Parties /\ o \in Parties /\ o # p /\ o = Other(p) /\ ini[r] \in IniHalf
  BY HalfFields
<1>3. rep.run = r /\ rep.n = 3 BY DEF Reply, Message
<1> HIDE DEF rep
<1>4. /\ ini'[r].by = p /\ ini'[r].op = op /\ ini'[r].pc = "wait4"
      /\ \A s \in Runs \ {r} : ini'[s] = ini[s]
  BY <1>1, <1>2, Apart DEF IniHalf
<1> SUFFICES ASSUME ~Agreeing' PROVE FALSE OBVIOUS
<1>5. Smooth BY <1>1, <1>4, StillSmooth
<1>6. Same BY <1>1, <1>5 DEF Agreeing, Between
<1>7. post = Result(op, p, store[p]) BY <1>1 DEF Going, IniReady
<1>8. rsp[r].pc = "wait3" => rsp[r].op = op BY <1>1 DEF Going, RspReady
<1>9. Between(r)'
  <2>1. store' = [store EXCEPT ![p] = post] BY <1>1 DEF Persist
  <2>2. store'[p] = post /\ store'[o] = store[o] BY <1>2, <2>1, Apart
  <2>3. store[p] = store[o] BY <1>2, <1>6 DEF Same
  <2>4. store'[p] = Result(op, p, store'[o]) BY <1>7, <2>2, <2>3
  <2>5. Responder(r)' = o BY <1>4 DEF Responder
  <2>6. ~Answering(r)' /\ ~Completing(r)' BY <1>1 DEF Answering, Completing
  <2> QED BY <1>1, <1>3, <1>4, <1>8, <2>4, <2>5, <2>6 DEF Between
<1>10. Live(r)' BY <1>4 DEF Live, Active
<1> QED BY <1>1, <1>3, <1>4, <1>9, <1>10, AgreeStep

LEMMA InstallWriteAgree ==
  ASSUME IInv, Hist, Agreeing, NEW r \in Runs, InstallWrite(r)
  PROVE  Agreeing'
<1>1. rsp[r].pc = "wait3" /\ UNCHANGED <<store, ini>> BY DEF InstallWrite
<1>2. PICK m \in net :
        /\ m.run = r /\ m.n = 3 /\ net' = net \ {m}
        /\ \/ rsp' = [rsp EXCEPT ![r].pc = "written"]
           \/ rsp' = [rsp EXCEPT ![r] = DoneRsp]
  BY DEF InstallWrite
<1>3. Live(r) BY <1>2, MessageFields
<1>4. Going(r) /\ net' = {} BY <1>2, <1>3, GoingOn
<1>5. CASE rsp' = [rsp EXCEPT ![r] = DoneRsp]
  <2>1. \A s \in Runs : rsp'[s] = rsp[s] \/ rsp'[s].pc = "done"
    BY <1>5, Apart DEF DoneRsp
  <2> QED BY <1>1, <1>2, <2>1, AgreeStill
<1>6. CASE rsp' = [rsp EXCEPT ![r].pc = "written"]
  <2>1. rsp[r].op.proto = "install" /\ rsp[r] \in RspHalf
    BY <1>1, HalvesFit, HalfFields DEF RspFits
  <2>2. /\ rsp'[r].pc = "written" /\ rsp'[r].op = rsp[r].op
        /\ \A s \in Runs \ {r} : rsp'[s] = rsp[s]
    BY <1>6, <2>1, Apart DEF RspHalf
  <2>3. ini[r].pc \in {"wait4", "crashed"} BY <1>2, <1>4 DEF Going, Phase
  <2> SUFFICES ASSUME ~Agreeing' PROVE FALSE OBVIOUS
  <2>4. Smooth BY <1>1 DEF Agreeing, Smooth
  <2>5. store[ini[r].by] = Result(rsp[r].op, ini[r].by, store[Responder(r)])
    BY <1>1, <1>2, <1>3, <2>4 DEF Agreeing, Between
  <2>6. Responder(r)' = Responder(r) BY <1>1 DEF Responder
  <2>7. ~Answering(r)' BY <2>1, <2>2 DEF Answering
  <2>8. Between(r)' BY <1>1, <1>4, <2>2, <2>3, <2>5, <2>6, <2>7 DEF Between
  <2>9. Live(r)' BY <2>2 DEF Live, Quiet
  <2> QED BY <1>1, <1>3, <1>4, <2>2, <2>8, <2>9, AgreeStep
<1> QED BY <1>2, <1>5, <1>6

LEMMA InstallCompleteAgree ==
  ASSUME IInv, Hist, Agreeing, NEW r \in Runs, InstallComplete(r)
  PROVE  Agreeing'
<1> DEFINE p == ini[r].by
           o == Responder(r)
           op == rsp[r].op
           q == op.q
           post == rsp[r].post
           last == EventApp(op, post)
           rep == Reply(r, 4, p, {})
<1>1. /\ Live(r) /\ Going(r) /\ ini[r].pc \in {"wait4", "crashed"}
      /\ rsp[r].pc = "written" /\ op.proto = "install"
      /\ q \in Proposal /\ CanInstallApp(store[o], q) /\ post = InstallApp(store[o], q)
      /\ Persist(o, RemoveProposal(post, last)) /\ ini' = ini
      /\ net' = {rep}
      /\ rsp' = [rsp EXCEPT ![r] = DoneRsp]
  BY InstallCompleteIs
<1>2. rsp'[r].pc = "done" /\ \A s \in Runs \ {r} : rsp'[s] = rsp[s]
  BY <1>1, Apart DEF DoneRsp
<1>3. /\ p \in Parties /\ o \in Parties /\ o # p /\ p = Other(o) /\ o = Other(p)
      /\ post \in Channel /\ op \in Op /\ store[p] \in Channel /\ store[o] \in Channel
  BY HalfFields
<1> SUFFICES ASSUME ~Agreeing' PROVE FALSE OBVIOUS
<1>4. Smooth BY <1>1 DEF Agreeing, Smooth
<1>5. store[p] = post
  <2>1. Completing(r) BY <1>1 DEF Completing
  <2>2. store[p] = Result(op, p, store[o]) BY <1>1, <1>4, <2>1 DEF Agreeing, Between
  <2> QED BY <1>1, <2>2 DEF Result
<1>6. \A t \in post.props : t.id # last
  <2>1. HasApp(post, last)
    <3>1. last = MostRecentlyInstalled(post).id BY <1>1 DEF EventApp
    <3>2. post.apps # <<>> BY <1>1, <1>3, InstallAppType
    <3> QED BY <1>3, <3>1, <3>2, MostRecentlyInstalledIs
  <2>2. post.props \subseteq store[o].props BY <1>1, <1>3, InstallAppFields
  <2>3. \A t \in post.props : t.by = p \/ t.by = o
    BY <1>3, ChannelFields, TwoParties DEF Proposal
  <2>4. \A t \in post.props : t.by = o => ~HasApp(store[p], t.id)
    BY <1>3, <1>5 DEF Hist, Foreign
  <2>5. \A t \in post.props : t.by = p => ~HasApp(store[p], t.id)
    BY <1>3, <2>2 DEF Hist, Foreign
  <2> QED BY <1>5, <2>1, <2>3, <2>4, <2>5
<1>7. RemoveProposal(post, last) = post BY <1>3, <1>6, NothingRemoved
<1>8. rep.run = r /\ rep.n = 4 BY DEF Reply, Message
<1> HIDE DEF rep, last
<1>9. Same'
  <2>1. store' = [store EXCEPT ![o] = post] BY <1>1, <1>7 DEF Persist
  <2>2. store'[o] = post /\ store'[p] = store[p] BY <1>3, <2>1, Apart
  <2>3. store'[p] = store'[o] BY <1>5, <2>2
  <2> QED BY <1>3, <2>3, TwoParties DEF Same
<1>10. Between(r)'
  BY <1>1, <1>2, <1>8, <1>9 DEF Between, Answering, Completing
<1> QED BY <1>1, <1>2, <1>8, <1>9, <1>10, AgreeStep

LEMMA InstallFinishAgree ==
  ASSUME IInv, Hist, Agreeing, NEW r \in Runs, InstallFinish(r)
  PROVE  Agreeing'
<1> DEFINE p == ini[r].by
           id == ini[r].op.q.id
<1>1. PICK m \in net : m.run = r /\ m.n = 4 /\ net' = net \ {m}
  BY DEF InstallFinish
<1>2. /\ ini[r].pc = "wait4" /\ ini' = [ini EXCEPT ![r] = NoHalf(p, "returned")]
      /\ store' = [store EXCEPT ![p] = RemoveProposal(store[p], id)]
      /\ rsp' = rsp /\ p \in Parties /\ store[p] \in Channel
  BY HalfFields, Apart DEF InstallFinish, Leave, Persist
<1>3. Live(r) /\ Going(r) /\ net' = {} BY <1>1, MessageFields, GoingOn
<1>4. ini'[r].pc = "returned" /\ \A s \in Runs \ {r} : ini'[s] = ini[s]
  BY <1>2, Apart DEF NoHalf
<1> SUFFICES ASSUME ~Agreeing' PROVE FALSE OBVIOUS
<1>5. Smooth BY <1>2, <1>4, StillSmooth
<1>6. store' = store
  <2>1. \A q \in store[p].props : q.id # id BY <1>2, <1>3 DEF Going, IniReady
  <2>2. RemoveProposal(store[p], id) = store[p] BY <1>2, <2>1, NothingRemoved
  <2> QED BY <1>2, <2>2, Apart
<1>7. Same
  <2>1. Between(r) BY <1>3, <1>5 DEF Agreeing
  <2> QED BY <1>1, <2>1 DEF Between
<1>8. Same' BY <1>6, <1>7 DEF Same
<1>9. rsp[r].pc = "done" BY <1>1, <1>3 DEF Going, Phase
<1>10. Between(r)' BY <1>2, <1>3, <1>4, <1>8, <1>9 DEF Between, Answering, Completing
<1> QED BY <1>2, <1>3, <1>4, <1>8, <1>10, AgreeStep

\* Every step keeps the agreement.
LEMMA NextAgree ==
  ASSUME UnderLock, IInv, Hist, Agreeing, [Next]_vars
  PROVE  Agreeing'
<1>1. CASE UNCHANGED vars BY <1>1, AgreeStill DEF vars
<1>2. ASSUME NEW r \in Runs, InitiatorStep(r) PROVE Agreeing'
  <2>1. CASE UpdateFinish(r)
    <3>1. ini[r].pc = "wait2" /\ ini[r].op.proto = "update" BY <2>1 DEF UpdateFinish, Finish
    <3>2. IniReady(r) BY <3>1, GoingOn DEF Live, Active, Going
    <3> QED BY <3>1, <3>2 DEF IniReady, Possible
  <2>2. CASE RejectPersist(r)
    <3>1. ini[r].pc = "persist" /\ ini[r].op.proto = "reject" BY <2>2 DEF RejectPersist
    <3>2. IniReady(r) BY <3>1, GoingOn DEF Live, Active, Going
    <3> QED BY <3>1, <3>2 DEF IniReady
  <2>3. CASE TimeoutInitiator(r)
    <3>1. ini'[r].pc = "threw" BY <2>3, Apart DEF TimeoutInitiator, Leave, NoHalf
    <3> QED BY <3>1, AgreeFailed
  <2> QED
    BY <1>2, <2>1, <2>2, <2>3, ProposePersistAgree, FinishAgree, UninstallCountersignAgree,
       UninstallFinishAgree, InstallCountersignAgree, InstallPersistAgree,
       InstallFinishAgree DEF InitiatorStep
<1>3. ASSUME NEW r \in Runs, ResponderStep(r) PROVE Agreeing'
  <2>1. CASE TimeoutResponder(r)
    <3>1. /\ store' = store /\ ini' = ini /\ net' = net
          /\ \A s \in Runs : rsp'[s] = rsp[s] \/ rsp'[s].pc = "done"
      BY <2>1, Apart DEF TimeoutResponder, DoneRsp
    <3> QED BY <3>1, AgreeStill
  <2> QED
    BY <1>3, <2>1, UninstallWriteAgree, PersistAndReplyAgree, InstallWriteAgree,
       InstallCompleteAgree DEF ResponderStep
<1>4. ASSUME NEW m \in net, Receive(m) PROVE Agreeing'
  <2>1. CASE InstallResponder(m) BY <2>1, InstallResponderAgree
  <2>2. CASE IgnoreUnexpected(m) BY <2>2, AgreeStill DEF IgnoreUnexpected
  <2>3. CASE UpdateResponder(m) \/ RejectReceived(m)
    <3>1. m.n = 1 /\ m.op.proto \in {"update", "reject"}
      BY <2>3 DEF UpdateResponder, RejectReceived
    <3>2. m.run \in Runs /\ Going(m.run) BY MessageFields, GoingOn
    <3> QED BY <3>1, <3>2 DEF Going, Requested
  <2>4. CASE ProposeResponder(m) \/ UninstallResponder(m) \/ TakeActionResponder(m)
    <3>1. m.n = 1 /\ m.op.proto \in {"propose", "uninstall", "takeAction"}
      BY <2>4 DEF ProposeResponder, UninstallResponder, TakeActionResponder
    <3>2. \E post :
            /\ net' = net \ {m} /\ UNCHANGED <<store, ini>>
            /\ \/ rsp' = rsp
               \/ rsp' = [rsp EXCEPT ![m.run] =
                            [pc |-> "verified", op |-> m.op, post |-> post]]
      <4>1. CASE ProposeResponder(m) BY <4>1 DEF ProposeResponder, Respond
      <4>2. CASE UninstallResponder(m) BY <4>2 DEF UninstallResponder, Respond
      <4>3. CASE TakeActionResponder(m) BY <4>3 DEF TakeActionResponder, Respond
      <4> QED BY <2>4, <4>1, <4>2, <4>3
    <3> QED BY <3>1, <3>2, RespondAgree
  <2> QED BY <1>4, <2>1, <2>2, <2>3, <2>4 DEF Receive
<1>5. ASSUME NEW m \in net, Lose(m) PROVE Agreeing' BY <1>5, AgreeStill DEF Lose
<1>6. ASSUME NEW k \in locks, LeaseExpires(k) PROVE Agreeing'
  BY <1>6, AgreeStill DEF LeaseExpires
<1>7. ASSUME NEW p \in Parties, Crash(p) PROVE Agreeing'
  <2>1. CASE \E r \in Runs : ini'[r] # ini[r]
    <3>1. PICK r \in Runs : ini'[r] = IniCrashed(ini[r]) BY <1>7, <2>1, CrashIs
    <3>2. ini'[r].pc \in {"crashed", "torn"} BY <3>1, CrashedHalves
    <3> QED BY <3>2, AgreeFailed
  <2>2. CASE \A r \in Runs : ini'[r] = ini[r]
    <3>1. /\ ini' \in [Runs -> IniHalf] /\ UNCHANGED <<store, net>>
          /\ \A s \in Runs : rsp'[s] = rsp[s] \/ rsp'[s] = RspCrashed(rsp[s])
      BY <1>7, CrashIs
    <3>2. ini' = ini BY <2>2, <3>1, Apart
    <3>3. \A s \in Runs : rsp'[s] = rsp[s] \/ rsp'[s].pc \in {"done", "torn"}
      BY <3>1, CrashedHalves
    <3> QED BY <3>1, <3>2, <3>3, AgreeStill
  <2> QED BY <2>1, <2>2
<1> QED BY <1>1, <1>2, <1>3, <1>4, <1>5, <1>6, <1>7, CallAgree DEF Next

-----------------------------------------------------------------------------
(* The theorems.                                                            *)

\* The half has written the commitment of the free balance F.
Noted(half, F) == half.pc \in {"written", "torn"} /\ half.post.fb = F

Backing(F) == F \in past \/ \E r \in Runs : Noted(ini[r], F) \/ Noted(rsp[r], F)

\* A free balance that was agreed was persisted as well, or else the commitment
\* is all that was written of it.
Backed ==
  /\ Opening.fb \in past
  /\ \A c \in Agreed : c.kind = "freeBalance" => Backing(c.state)

\* A step of run r: what it has signed is written, what was written persisted.
LEMMA BackedStep ==
  ASSUME Backed, past \subseteq past', NEW r \in Runs,
         \A s \in Runs \ {r} : ini'[s] = ini[s] /\ rsp'[s] = rsp[s],
         \A F : Noted(ini[r], F) => F \in past' \/ Noted(ini'[r], F),
         \A F : Noted(rsp[r], F) => F \in past' \/ Noted(rsp'[r], F),
         \A c \in Agreed' : c.kind = "freeBalance" =>
           \/ c \in Agreed \/ c.state \in past'
           \/ Noted(ini'[r], c.state) \/ Noted(rsp'[r], c.state)
  PROVE  Backed'
<1>1. ASSUME NEW F, Backing(F) PROVE Backing(F)'
  <2>1. CASE F \in past BY <2>1 DEF Backing
  <2>2. CASE \E s \in Runs : Noted(ini[s], F) \/ Noted(rsp[s], F)
    <3>1. PICK s \in Runs : Noted(ini[s], F) \/ Noted(rsp[s], F) BY <2>2
    <3>2. CASE s = r BY <3>1, <3>2 DEF Backing, Noted
    <3>3. CASE s # r
      <4>1. ini'[s] = ini[s] /\ rsp'[s] = rsp[s] BY <3>3
      <4> QED BY <3>1, <4>1 DEF Backing, Noted
    <3> QED BY <3>2, <3>3
  <2> QED BY <1>1, <2>1, <2>2 DEF Backing
<1>2. ASSUME NEW c \in Agreed', c.kind = "freeBalance" PROVE Backing(c.state)'
  <2>1. CASE c \in Agreed BY <1>1, <1>2, <2>1 DEF Backed
  <2>2. CASE c \notin Agreed BY <1>2, <2>2 DEF Backing, Noted
  <2> QED BY <2>1, <2>2
<1>3. (Opening.fb \in past)' BY DEF Backed
<1> QED BY <1>2, <1>3 DEF Backed

\* The steps of the initiating half.
LEMMA InitiatorBacked ==
  ASSUME UnderLock, IInv, Hist, Backed, past \subseteq past', NEW r \in Runs, InitiatorStep(r)
  PROVE  Backed'
<1> DEFINE p == ini[r].by
           post == ini[r].post
<1>1. p \in Parties /\ ini[r] \in IniHalf BY HalfFields
<1>2. ASSUME rsp' = rsp, \A s \in Runs \ {r} : ini'[s] = ini[s], Agreed' \subseteq Agreed,
             ini[r].pc \notin {"written", "torn"} \/ post.fb \in past'
      PROVE  Backed'
  BY <1>2, BackedStep DEF Noted
<1>3. CASE ProposePersist(r)
  <2>1. /\ rsp' = rsp /\ ini[r].pc = "persist" /\ held' = held
        /\ ini' = [ini EXCEPT ![r].pc = "wait2"]
    BY <1>3 DEF ProposePersist
  <2> QED BY <1>2, <2>1, Apart DEF Agreed
<1>4. CASE ProposeFinish(r) \/ TakeActionFinish(r)
  <2>1. PICK proto \in {"propose", "takeAction"} : Finish(r, proto)
    BY <1>4 DEF ProposeFinish, TakeActionFinish
  <2>2. /\ ini[r].pc = "wait2" /\ Agreed' = Agreed /\ rsp' = rsp
        /\ \A s \in Runs \ {r} : ini'[s] = ini[s]
    BY <2>1, FinishIs
  <2> QED BY <1>2, <2>2
<1>5. CASE UninstallCountersign(r) \/ InstallCountersign(r)
  <2>1. /\ ini[r].pc = "wait2" /\ rsp' = rsp
        /\ \/ ini' = [ini EXCEPT ![r].pc = "written"]
           \/ ini' = [ini EXCEPT ![r] = NoHalf(p, "threw")]
        /\ \A c \in Agreed' : c.kind = "freeBalance" =>
             \/ c \in Agreed
             \/ c = SetFreeBalance(post) /\ ini' = [ini EXCEPT ![r].pc = "written"]
    <3>1. CASE UninstallCountersign(r)
      <4> DEFINE fb == SetFreeBalance(post)
      <4>1. /\ ini[r].pc = "wait2" /\ rsp' = rsp
            /\ \/ /\ held' = [held EXCEPT ![p] = @ \cup {fb}]
                  /\ ini' = [ini EXCEPT ![r].pc = "written"]
               \/ held' = held /\ ini' = [ini EXCEPT ![r] = NoHalf(p, "threw")]
        BY <3>1 DEF UninstallCountersign, InitiatorHolds, Leave
      <4> HIDE DEF fb
      <4>2. held' = held => Agreed' = Agreed BY DEF Agreed
      <4>3. held' = [held EXCEPT ![p] = @ \cup {fb}] => Agreed' = Agreed \cup {fb}
        BY <1>1, AgreedGrows
      <4>4. \A c \in Agreed' : \/ c \in Agreed
                               \/ c = fb /\ ini' = [ini EXCEPT ![r].pc = "written"]
        BY <4>1, <4>2, <4>3
      <4> QED BY <4>1, <4>4 DEF fb
    <3>2. CASE InstallCountersign(r)
      <4> DEFINE ct == Conditional(post)
                 fb == SetFreeBalance(post)
      <4>1. ct.kind = "conditional" BY DEF Conditional
      <4>2. PICK m \in net :
              /\ ini[r].pc = "wait2" /\ rsp' = rsp
              /\ \/ /\ held' = [held EXCEPT ![p] = @ \cup {ct, fb}]
                    /\ ini' = [ini EXCEPT ![r].pc = "written"]
                 \/ /\ held' = [held EXCEPT ![p] = @ \cup ({ct} \cap m.sigs)]
                    /\ ini' = [ini EXCEPT ![r] = NoHalf(p, "threw")]
        BY <3>2 DEF InstallCountersign, InitiatorHolds, Leave
      <4> HIDE DEF ct, fb
      <4>3. held' = [held EXCEPT ![p] = @ \cup {ct, fb}] => Agreed' = Agreed \cup {ct, fb}
        BY <1>1, AgreedGrows
      <4>4. held' = [held EXCEPT ![p] = @ \cup ({ct} \cap m.sigs)] =>
              Agreed' = Agreed \cup ({ct} \cap m.sigs)
        BY <1>1, AgreedGrows
      <4>5. \A c \in Agreed' : \/ c \in Agreed \/ c.kind = "conditional"
                               \/ c = fb /\ ini' = [ini EXCEPT ![r].pc = "written"]
        BY <4>1, <4>2, <4>3, <4>4
      <4> QED BY <4>2, <4>5 DEF fb
    <3> QED BY <1>5, <3>1, <3>2
  <2>3. \A s \in Runs \ {r} : ini'[s] = ini[s] /\ rsp'[s] = rsp[s] BY <2>1, Apart
  <2>4. ASSUME NEW c \in Agreed', c.kind = "freeBalance", c \notin Agreed
        PROVE  Noted(ini'[r], c.state)
    <3>1. c = SetFreeBalance(post) /\ ini' = [ini EXCEPT ![r].pc = "written"]
      BY <2>1, <2>4
    <3>2. ini'[r].pc = "written" /\ ini'[r].post = post BY <1>1, <3>1, Apart DEF IniHalf
    <3> QED BY <3>1, <3>2 DEF Noted, SetFreeBalance
  <2>5. \A F : ~Noted(ini[r], F) BY <2>1 DEF Noted
  <2> QED BY <2>1, <2>3, <2>4, <2>5, BackedStep
<1>6. CASE UninstallFinish(r)
  <2>1. /\ Persist(p, post) /\ UNCHANGED <<held, rsp>>
        /\ \A s \in Runs \ {r} : ini'[s] = ini[s]
    BY <1>6, UninstallFinishIs
  <2>2. post.fb \in past' /\ Agreed' = Agreed BY <2>1 DEF Persist, Agreed
  <2> QED BY <1>2, <2>1, <2>2
<1>7. CASE InstallPersist(r)
  <2>1. Persist(p, post) /\ UNCHANGED <<held, rsp>> /\ ini' = [ini EXCEPT ![r].pc = "wait4"]
    BY <1>7 DEF InstallPersist
  <2>2. post.fb \in past' /\ Agreed' = Agreed BY <2>1 DEF Persist, Agreed
  <2>3. \A s \in Runs \ {r} : ini'[s] = ini[s] BY <2>1, Apart
  <2> QED BY <1>2, <2>1, <2>2, <2>3
<1>8. CASE InstallFinish(r) \/ TimeoutInitiator(r)
  <2>1. /\ ini[r].pc \in {"wait2", "wait4"} /\ UNCHANGED <<held, rsp>>
        /\ \E how : ini' = [ini EXCEPT ![r] = NoHalf(p, how)]
    BY <1>8 DEF InstallFinish, TimeoutInitiator, Leave
  <2>2. \A s \in Runs \ {r} : ini'[s] = ini[s] BY <2>1, Apart
  <2> QED BY <1>2, <2>1, <2>2 DEF Agreed
<1>9. CASE UpdateFinish(r)
  <2>1. ini[r].pc = "wait2" /\ ini[r].op.proto = "update" BY <1>9 DEF UpdateFinish, Finish
  <2>2. IniReady(r) BY <2>1, GoingOn DEF Live, Active, Going
  <2> QED BY <2>1, <2>2 DEF IniReady, Possible
<1>10. CASE RejectPersist(r)
  <2>1. ini[r].pc = "persist" /\ ini[r].op.proto = "reject" BY <1>10 DEF RejectPersist
  <2>2. IniReady(r) BY <2>1, GoingOn DEF Live, Active, Going
  <2> QED BY <2>1, <2>2 DEF IniReady
<1> QED BY <1>3, <1>4, <1>5, <1>6, <1>7, <1>8, <1>9, <1>10 DEF InitiatorStep

\* The steps of the responding half.
LEMMA ResponderBacked ==
  ASSUME IInv, Hist, Backed, past \subseteq past', NEW r \in Runs, ResponderStep(r)
  PROVE  Backed'
<1> DEFINE o == Responder(r)
           op == rsp[r].op
           post == rsp[r].post
<1>1. o \in Parties /\ rsp[r] \in RspHalf BY HalfFields
<1>2. CASE UninstallWrite(r) \/ InstallWrite(r)
  <2> DEFINE fb == SetFreeBalance(post)
  <2>1. /\ rsp[r].pc \in {"verified", "wait3"} /\ ini' = ini
        /\ \/ /\ held' = [held EXCEPT ![o] = @ \cup {fb}]
              /\ rsp' = [rsp EXCEPT ![r].pc = "written"]
           \/ held' = held /\ rsp' = [rsp EXCEPT ![r] = DoneRsp]
    <3>1. CASE UninstallWrite(r)
      <4>1. /\ rsp[r].pc = "verified" /\ ini' = ini /\ op.proto = "uninstall"
            /\ held' = [held EXCEPT ![o] = @ \cup {Signed(op, post)}]
            /\ rsp' = [rsp EXCEPT ![r].pc = "written"]
        BY <3>1 DEF UninstallWrite, ResponderHolds
      <4>2. Signed(op, post) = fb BY <4>1 DEF Signed
      <4> QED BY <4>1, <4>2
    <3>2. CASE InstallWrite(r) BY <3>2 DEF InstallWrite, ResponderHolds
    <3> QED BY <1>2, <3>1, <3>2
  <2> HIDE DEF fb
  <2>2. /\ held' = held => Agreed' = Agreed
        /\ held' = [held EXCEPT ![o] = @ \cup {fb}] => Agreed' = Agreed \cup {fb}
    <3>1. held' = held => Agreed' = Agreed BY DEF Agreed
    <3> QED BY <1>1, <3>1, AgreedGrows
  <2>3. \A s \in Runs \ {r} : ini'[s] = ini[s] /\ rsp'[s] = rsp[s] BY <2>1, Apart
  <2>4. ASSUME NEW c \in Agreed', c \notin Agreed
        PROVE  Noted(rsp'[r], c.state)
    <3>1. c = fb /\ rsp' = [rsp EXCEPT ![r].pc = "written"]
      BY <2>1, <2>2, <2>4
    <3>2. rsp'[r].pc = "written" /\ rsp'[r].post = post BY <1>1, <3>1, Apart DEF RspHalf
    <3> QED BY <3>1, <3>2 DEF Noted, SetFreeBalance, fb
  <2>5. \A F : ~Noted(rsp[r], F) BY <2>1 DEF Noted
  <2> QED BY <2>1, <2>3, <2>4, <2>5, BackedStep
<1>3. CASE PersistAndReply(r)
  <2>1. /\ Live(r) /\ Answering(r) /\ Persist(o, post) /\ ini' = ini
        /\ held' = [held EXCEPT ![o] = @ \cup {Signed(op, post)}]
        /\ rsp' = [rsp EXCEPT ![r] = DoneRsp]
    BY <1>3, ReplyIs
  <2>2. Agreed' = Agreed \cup {Signed(op, post)} BY <1>1, <2>1, AgreedGrows
  <2>3. post.fb \in past' BY <2>1 DEF Persist
  <2>4. Signed(op, post).kind = "freeBalance" => Signed(op, post).state = post.fb
    <3>1. CASE op.proto = "uninstall" BY <3>1 DEF Signed, SetFreeBalance
    <3>2. CASE op.proto # "uninstall" BY <3>2 DEF Signed, SetAppState
    <3> QED BY <3>1, <3>2
  <2>5. \A s \in Runs \ {r} : ini'[s] = ini[s] /\ rsp'[s] = rsp[s] BY <2>1, Apart
  <2>6. \A F : Noted(rsp[r], F) => F \in past' BY <2>3 DEF Noted
  <2>7. \A c \in Agreed' : c.kind = "freeBalance" => c \in Agreed \/ c.state \in past'
    BY <2>2, <2>3, <2>4
  <2> QED BY <2>1, <2>5, <2>6, <2>7, BackedStep
<1>4. CASE InstallComplete(r)
  <2> DEFINE d == RemoveProposal(post, EventApp(op, post))
  <2>1. /\ d.fb = post.fb /\ Persist(o, d) /\ UNCHANGED <<held, ini>>
        /\ rsp' = [rsp EXCEPT ![r] = DoneRsp]
    BY <1>4, InstallCompleteIs
  <2>2. post.fb \in past' /\ Agreed' = Agreed BY <2>1 DEF Persist, Agreed
  <2>3. \A s \in Runs \ {r} : ini'[s] = ini[s] /\ rsp'[s] = rsp[s] BY <2>1, Apart
  <2>4. \A F : Noted(rsp[r], F) => F \in past' BY <2>2 DEF Noted
  <2> QED BY <2>1, <2>2, <2>3, <2>4, BackedStep
<1>5. CASE TimeoutResponder(r)
  <2>1. /\ rsp[r].pc = "wait3" /\ UNCHANGED <<held, ini>>
        /\ rsp' = [rsp EXCEPT ![r] = DoneRsp]
    BY <1>5 DEF TimeoutResponder
  <2>2. \A s \in Runs \ {r} : ini'[s] = ini[s] /\ rsp'[s] = rsp[s] BY <2>1, Apart
  <2>3. Agreed' = Agreed BY <2>1 DEF Agreed
  <2>4. \A F : ~Noted(rsp[r], F) BY <2>1 DEF Noted
  <2> QED BY <2>1, <2>2, <2>3, <2>4, BackedStep
<1> QED BY <1>2, <1>3, <1>4, <1>5 DEF ResponderStep

\* A request that is answered is new to its run.
LEMMA ReceiveBacked ==
  ASSUME IInv, Hist, Backed, past \subseteq past', NEW m \in net, Receive(m) \/ Lose(m)
  PROVE  Backed'
<1> DEFINE r == m.run
<1>1. r \in Runs /\ m.to \in Parties /\ Going(r) BY MessageFields, GoingOn
<1>2. CASE m.n # 1
  <2>1. UNCHANGED <<held, ini, rsp>>
    BY <1>2 DEF Receive, Lose, ProposeResponder, UninstallResponder, InstallResponder,
         TakeActionResponder, UpdateResponder, RejectReceived, IgnoreUnexpected
  <2>2. Agreed' = Agreed BY <2>1 DEF Agreed
  <2> QED BY <1>1, <2>1, <2>2, BackedStep
<1>3. CASE m.n = 1
  <2>1. rsp[r].pc = "idle" BY <1>1, <1>3 DEF Going, Phase
  <2>2. /\ ini' = ini
        /\ rsp' = rsp \/ \E half : rsp' = [rsp EXCEPT ![r] = half]
        /\ \A c \in Agreed' : c \in Agreed \/ c.kind = "conditional"
    <3>1. CASE InstallResponder(m)
      <4> DEFINE ct == Conditional(InstallApp(store[m.to], m.op.q))
      <4>1. /\ ini' = ini
            /\ \/ /\ held' = [held EXCEPT ![m.to] = @ \cup {ct}]
                  /\ \E half : rsp' = [rsp EXCEPT ![r] = half]
               \/ held' = held /\ rsp' = rsp
        BY <3>1 DEF InstallResponder
      <4>2. ct.kind = "conditional" BY DEF Conditional
      <4> HIDE DEF ct
      <4>3. held' = held => Agreed' = Agreed BY DEF Agreed
      <4>4. held' = [held EXCEPT ![m.to] = @ \cup {ct}] => Agreed' = Agreed \cup {ct}
        BY <1>1, AgreedGrows
      <4> QED BY <4>1, <4>2, <4>3, <4>4
    <3>2. CASE ~InstallResponder(m)
      <4>1. /\ ini' = ini /\ held' = held
            /\ rsp' = rsp \/ \E half : rsp' = [rsp EXCEPT ![r] = half]
        BY <3>2 DEF Receive, Lose, ProposeResponder, UninstallResponder, Respond,
             TakeActionResponder, UpdateResponder, RejectReceived, IgnoreUnexpected
      <4> QED BY <4>1 DEF Agreed
    <3> QED BY <3>1, <3>2
  <2>4. \A s \in Runs \ {r} : ini'[s] = ini[s] /\ rsp'[s] = rsp[s] BY <2>2, Apart
  <2>5. \A F : ~Noted(rsp[r], F) BY <2>1 DEF Noted
  <2>6. \A c \in Agreed' : c.kind = "freeBalance" => c \in Agreed BY <2>2
  <2> HIDE DEF r
  <2> QED BY <1>1, <2>2, <2>4, <2>5, <2>6, BackedStep
<1> QED BY <1>2, <1>3

\* Every step keeps it.
LEMMA NextBacked ==
  ASSUME UnderLock, IInv, Hist, Backed, [Next]_vars
  PROVE  Backed'
<1>1. past \subseteq past'
  <2>1. PICK x \in Parties : Writes(x) BY NextWrites
  <2> QED BY <2>1 DEF Writes
<1>2. ASSUME UNCHANGED <<held, ini, rsp>> PROVE Backed'
  BY <1>1, <1>2 DEF Backed, Backing, Agreed
<1>3. CASE UNCHANGED vars BY <1>2, <1>3 DEF vars
<1>4. ASSUME NEW r \in Runs, NEW p \in Parties, Call(r, p) PROVE Backed'
  <2>1. /\ UNCHANGED <<held, rsp>> /\ ini[r].pc = "idle"
        /\ \E half : ini' = [ini EXCEPT ![r] = half]
    BY <1>4 DEF Call, ProposeInitiator, InstallInitiator, UninstallInitiator,
                TakeActionInitiator, UpdateInitiator, RejectInitiator, Start
  <2>2. \A s \in Runs \ {r} : ini'[s] = ini[s] /\ rsp'[s] = rsp[s] BY <2>1, Apart
  <2>3. Agreed' = Agreed BY <2>1 DEF Agreed
  <2>4. \A F : ~Noted(ini[r], F) BY <2>1 DEF Noted
  <2> QED BY <1>1, <2>1, <2>2, <2>3, <2>4, BackedStep
<1>5. ASSUME NEW r \in Runs, InitiatorStep(r) PROVE Backed'
  BY <1>1, <1>5, InitiatorBacked
<1>6. ASSUME NEW r \in Runs, ResponderStep(r) PROVE Backed'
  BY <1>1, <1>6, ResponderBacked
<1>7. ASSUME NEW m \in net, Receive(m) \/ Lose(m) PROVE Backed'
  BY <1>1, <1>7, ReceiveBacked
<1>8. ASSUME NEW k \in locks, LeaseExpires(k) PROVE Backed'
  BY <1>2, <1>8 DEF LeaseExpires
<1>9. ASSUME NEW p \in Parties, Crash(p) PROVE Backed'
  <2>1. /\ \A r \in Runs :
             /\ ini'[r] = ini[r] \/ (Active(r) /\ ini'[r] = IniCrashed(ini[r]))
             /\ \/ rsp'[r] = rsp[r]
                \/ /\ rsp[r].pc \in {"verified", "wait3", "written"}
                   /\ rsp'[r] = RspCrashed(rsp[r])
        /\ UNCHANGED <<past, held>>
    BY <1>9, CrashIs
  <2>2. ASSUME NEW r \in Runs, NEW F, Noted(ini[r], F) PROVE Noted(ini'[r], F)
    <3>1. ini[r] \in IniHalf BY HalfFields
    <3> QED BY <2>1, <2>2, <3>1 DEF Noted, IniCrashed, Active, IniHalf
  <2>3. ASSUME NEW r \in Runs, NEW F, Noted(rsp[r], F) PROVE Noted(rsp'[r], F)
    <3>1. rsp[r] \in RspHalf BY HalfFields
    <3> QED BY <2>1, <2>3, <3>1 DEF Noted, RspCrashed, RspHalf
  <2>4. \A F : Backing(F) => Backing(F)' BY <2>1, <2>2, <2>3 DEF Backing
  <2> QED BY <2>1, <2>4 DEF Backed, Agreed
<1> QED BY <1>3, <1>4, <1>5, <1>6, <1>7, <1>8, <1>9 DEF Next

\* Between its two writes a half has the commitment of F.
Written(F) ==
  \E r \in Runs : \/ ini[r].pc = "written" /\ F = ini[r].post.fb
                  \/ rsp[r].pc = "written" /\ F = rsp[r].post.fb

\* It is the next free balance, or one that the other party has persisted.
LEMMA WrittenBalance ==
  ASSUME IInv, Hist, NEW F, Written(F)
  PROVE  F \in past \/ \A G \in past : G.ver # F.ver
<1>1. PICK r \in Runs : \/ ini[r].pc = "written" /\ F = ini[r].post.fb
                        \/ rsp[r].pc = "written" /\ F = rsp[r].post.fb
  BY DEF Written
<1> DEFINE p == ini[r].by
           o == Responder(r)
<1>2. /\ p \in Parties /\ o \in Parties /\ p = Other(o) /\ o # p
      /\ store[p] \in Channel /\ store[o] \in Channel
      /\ ini[r].op \in Op /\ rsp[r].op \in Op
  BY HalfFields
<1>3. Live(r) BY <1>1 DEF Live, Active, Quiet
<1>4. Going(r) BY <1>3, GoingOn
<1>5. store[p].fb.ver \in Nat /\ store[o].fb.ver \in Nat BY <1>2, ChannelFields
<1>6. store[p].fb \in past /\ store[o].fb \in past BY <1>2 DEF Hist, Balances
<1>7. ASSUME F.ver = store[o].fb.ver + 2, F.ver = store[p].fb.ver + 2
      PROVE  \A G \in past : G.ver # F.ver
  <2> TAKE G \in past
  <2>1. PICK x \in Parties : G.ver <= store[x].fb.ver BY DEF Hist, Balances
  <2>2. x = p \/ x = o BY <1>2, TwoParties
  <2>3. G.ver \in Nat BY PastType
  <2> QED BY <1>5, <1>7, <2>1, <2>2, <2>3
<1>8. CASE ini[r].pc = "written" /\ F = ini[r].post.fb
  <2> DEFINE q == ini[r].op.q
  <2>1. CASE ini[r].op.proto # "install"
    <3>1. store[o].fb = F BY <1>4, <1>8, <2>1 DEF Going, Replied
    <3> QED BY <1>6, <3>1
  <2>2. CASE ini[r].op.proto = "install"
    <3>1. /\ Possible(ini[r].op, store[p]) /\ ini[r].post = Result(ini[r].op, p, store[p])
          /\ CanInstallApp(store[o], q) /\ F = InstallApp(store[o], q).fb
      BY <1>4, <1>8, <2>2 DEF Going, IniReady, Replied
    <3>2. CanInstallApp(store[p], q) /\ F = InstallApp(store[p], q).fb /\ q \in Proposal
      BY <1>2, <1>8, <2>2, <3>1, OpFields DEF Possible, Result
    <3>3. InstallApp(store[p], q).fb.ver = store[p].fb.ver + 2
      BY <1>2, <3>2, InstallAppType
    <3>4. InstallApp(store[o], q).fb.ver = store[o].fb.ver + 2
      BY <1>2, <3>1, <3>2, InstallAppType
    <3>5. F.ver = store[o].fb.ver + 2 /\ F.ver = store[p].fb.ver + 2
      BY <3>1, <3>2, <3>3, <3>4
    <3> QED BY <1>7, <3>5
  <2> QED BY <2>1, <2>2
<1>9. CASE rsp[r].pc = "written" /\ F = rsp[r].post.fb
  <2> DEFINE op == rsp[r].op
             post == rsp[r].post
             mine == UninstallApp(store[p], op.id)
  <2>1. op.proto \in {"install", "uninstall"} BY <1>9, HalvesFit DEF RspFits, Writing
  <2>2. CASE op.proto = "install"
    <3>1. Completing(r) BY <1>9, <2>2 DEF Completing
    <3>2. F = store[p].fb BY <1>4, <1>9, <3>1 DEF Going, Installing
    <3> QED BY <1>6, <3>2
  <2>3. CASE op.proto = "uninstall"
    <3>1. Answering(r) BY <1>9, <2>3 DEF Answering
    <3>2. /\ Possible(op, store[o]) /\ Possible(op, store[p])
          /\ post = Result(op, p, store[o])
          /\ Signed(op, post) = Asked(op, p)
      BY <1>3, <2>3, <3>1, AnsweringIs
    <3>3. /\ HasApp(store[o], op.id) /\ HasApp(store[p], op.id) /\ op.id \in AppId
          /\ post = UninstallApp(store[o], op.id)
      BY <1>2, <2>3, <3>2, OpFields DEF Possible, Result
    <3>4. post.fb = mine.fb
      <4>1. Signed(op, post) = SetFreeBalance(post) BY <2>3 DEF Signed
      <4>2. Asked(op, p) = SetFreeBalance(mine) BY <2>3 DEF Signed, Asked, Result
      <4> HIDE DEF op, post, mine
      <4>3. SetFreeBalance(post) = SetFreeBalance(mine) BY <3>2, <4>1, <4>2
      <4>4. SetFreeBalance(post).state = post.fb /\ SetFreeBalance(mine).state = mine.fb
        BY DEF SetFreeBalance
      <4> QED BY <4>3, <4>4
    <3>5. post.fb.ver = store[o].fb.ver + 2 /\ mine.fb.ver = store[p].fb.ver + 2
      BY <1>2, <3>3, UninstallAppType
    <3>6. F.ver = store[o].fb.ver + 2 /\ F.ver = store[p].fb.ver + 2
      BY <1>9, <3>4, <3>5
    <3> QED BY <1>7, <3>6
  <2> QED BY <2>1, <2>2, <2>3
<1> QED BY <1>1, <1>8, <1>9

\* Only one half is between its two writes.
LEMMA OneWritten ==
  ASSUME IInv, Hist, NEW F, Written(F), NEW G, Written(G)
  PROVE  F = G
<1>1. PICK r \in Runs : \/ ini[r].pc = "written" /\ F = ini[r].post.fb
                        \/ rsp[r].pc = "written" /\ F = rsp[r].post.fb
  BY DEF Written
<1>2. PICK s \in Runs : \/ ini[s].pc = "written" /\ G = ini[s].post.fb
                        \/ rsp[s].pc = "written" /\ G = rsp[s].post.fb
  BY DEF Written
<1>3. Live(r) /\ Live(s) BY <1>1, <1>2 DEF Live, Active, Quiet
<1>4. r = s BY <1>3, OneLive DEF Hist
<1>5. Going(r) BY <1>3, GoingOn
<1>6. ~(ini[r].pc = "written" /\ rsp[r].pc = "written") BY <1>5 DEF Going, Phase
<1> QED BY <1>1, <1>2, <1>4, <1>6

\* The invariant that carries the theorems below.
LInv == IInv /\ Hist /\ Agreeing /\ BooksBalance /\ Backed

LEMMA InitHist ==
  ASSUME Init, IInv
  PROVE  Hist /\ Agreeing /\ BooksBalance /\ Backed
<1>1. /\ \A p \in Parties : store[p] = Opening
      /\ \A r \in Runs : ini[r].pc = "idle" /\ rsp[r].pc = "idle"
      /\ net = {} /\ locks = {} /\ Agreed = {} /\ past = {Opening.fb}
  BY DEF Init, IdleIni, NoHalf, IdleRsp, Agreed
<1>2. \A r \in Runs : ~Live(r) BY <1>1 DEF Live, Active, Quiet
<1>3. Alice \in Parties /\ \A p \in Parties : Other(p) \in Parties
  BY TwoParties DEF Parties
<1>4. Opening \in Channel /\ Opening.fb.ver \in Nat BY ConstantsType, ChannelFields
<1>5. Serial BY <1>1, <1>2 DEF Serial
<1>6. Balances BY <1>1, <1>3, <1>4 DEF Balances
<1>7. AppStates BY <1>1 DEF AppStates
<1>8. Foreign BY <1>1, <1>3, OpeningNumbered DEF Foreign, Untouched
<1>9. Numbered BY <1>1, OpeningNumbered DEF Numbered, Distinct
<1>10. Same BY <1>1 DEF Same
<1>11. BooksBalance BY <1>1, OpeningNumbered DEF BooksBalance
<1>12. Backed BY <1>1 DEF Backed
<1> QED BY <1>2, <1>5, <1>6, <1>7, <1>8, <1>9, <1>10, <1>11, <1>12 DEF Hist, Agreeing

LEMMA NextBooks ==
  ASSUME UnderLock, IInv, Hist, BooksBalance, [Next]_vars
  PROVE  BooksBalance'
<1>1. PICK x \in Parties : Writes(x) BY NextWrites
<1> SUFFICES ASSUME NEW p \in Parties
             PROVE  /\ Worth(store'[p]) = Worth(Opening)
                    /\ store'[p].fb.active = AppIds(store'[p])
  BY DEF BooksBalance
<1>2. CASE p = x BY <1>1, <1>2 DEF Writes, Goes, BooksBalance
<1>3. CASE p # x
  <2>1. p = Other(x) BY <1>3, TwoParties
  <2> QED BY <1>1, <2>1 DEF Writes, BooksBalance
<1> QED BY <1>2, <1>3

LEMMA LInvariance ==
  ASSUME UnderLock
  PROVE  Spec => []LInv
<1>1. Init /\ IInv => LInv BY InitHist DEF LInv
<1>2. LInv /\ [Next]_vars /\ IInv' => LInv'
  BY NextHist, NextAgree, NextBooks, NextBacked DEF LInv
<1>3. Spec => []IInv BY Invariance
<1> QED BY <1>1, <1>2, <1>3, PTL DEF Spec

\* The pots of the installed apps always hold what left the free balances.
THEOREM BooksAlwaysBalance ==
  ASSUME UnderLock
  PROVE  Spec => []BooksBalance
<1>1. LInv => BooksBalance BY DEF LInv
<1> QED BY <1>1, LInvariance, PTL

LEMMA NoForkHolds == LInv => NoFork
<1> SUFFICES ASSUME LInv,
                    NEW c \in (Agreed \cup {SetFreeBalance(Opening)}) \ Torn,
                    NEW d \in (Agreed \cup {SetFreeBalance(Opening)}) \ Torn,
                    Contradict(c, d)
             PROVE  FALSE
  BY DEF NoFork
<1>1. IInv /\ Hist /\ Balances /\ AppStates /\ Backed BY DEF LInv, Hist
<1>2. \A e \in Agreed : e \in Commitment BY <1>1, Apart DEF Agreed
<1>3. c # d /\ c.kind = d.kind BY DEF Contradict
<1>4. CASE c.kind = "freeBalance" /\ c.state.ver = d.state.ver
  <2>1. ASSUME NEW e \in (Agreed \cup {SetFreeBalance(Opening)}) \ Torn, e.kind = "freeBalance"
        PROVE  /\ e = [kind |-> "freeBalance", state |-> e.state]
               /\ e.state \in past \/ Written(e.state)
    <3>1. CASE e = SetFreeBalance(Opening)
      <4>1. Opening.fb \in past BY <1>1 DEF Backed
      <4> QED BY <3>1, <4>1 DEF SetFreeBalance
    <3>2. CASE e \in Agreed
      <4>1. e = [kind |-> "freeBalance", state |-> e.state]
        BY <1>2, <2>1, <3>2 DEF Commitment
      <4>2. Backing(e.state) BY <1>1, <2>1, <3>2 DEF Backed
      <4>3. ASSUME NEW half \in {ini[r] : r \in Runs} \cup {rsp[r] : r \in Runs},
                   Noted(half, e.state)
            PROVE  half.pc = "written" \/ e.state \in past
        <5>1. half.post.fb = e.state BY <4>3 DEF Noted
        <5>2. e = SetFreeBalance(half.post) BY <4>1, <5>1 DEF SetFreeBalance
        <5>3. ~(half.pc = "torn" /\ half.post.fb \notin past) BY <2>1, <5>2 DEF Torn
        <5> QED BY <4>3, <5>1, <5>3 DEF Noted
      <4> QED BY <4>1, <4>2, <4>3 DEF Backing, Written, Noted
    <3> QED BY <2>1, <3>1, <3>2
  <2>2. c.state = d.state BY <1>1, <1>3, <1>4, <2>1, WrittenBalance, OneWritten DEF Balances
  <2>3. c = [kind |-> "freeBalance", state |-> c.state] BY <1>4, <2>1
  <2>4. d = [kind |-> "freeBalance", state |-> d.state] BY <1>3, <1>4, <2>1
  <2> QED BY <1>3, <2>2, <2>3, <2>4
<1>5. CASE c.kind = "app" /\ c.id = d.id /\ c.ver = d.ver
  <2>1. SetFreeBalance(Opening).kind = "freeBalance" BY DEF SetFreeBalance
  <2>2. c \in Agreed /\ d \in Agreed BY <1>3, <1>5, <2>1
  <2> QED BY <1>1, <1>3, <1>5, <2>2 DEF AppStates
<1> QED BY <1>4, <1>5 DEF Contradict

\* No two states of one app, or of the free balance, are ever signed under the
\* same version, but for a commitment that a restart left written and that
\* neither party persisted.
THEOREM NoForkEver ==
  ASSUME UnderLock
  PROVE  Spec => []NoFork
BY NoForkHolds, LInvariance, PTL

LEMMA ForwardStep ==
  ASSUME UnderLock, LInv, [Next]_vars
  PROVE  [\A p \in Parties : NeverRegresses(store[p], store'[p])]_vars
<1>1. IInv /\ Hist BY DEF LInv
<1>2. PICK x \in Parties : Writes(x) BY <1>1, NextWrites
<1>3. ASSUME NEW p \in Parties PROVE NeverRegresses(store[p], store'[p])
  <2>1. CASE p = x BY <1>2, <2>1 DEF Writes, Goes
  <2>2. CASE p # x
    <3>1. store'[p] = store[p] BY <1>2, <2>2, TwoParties DEF Writes
    <3>2. store[p] \in Channel /\ Distinct(store[p]) /\ store[p].np <= store[p].np
      BY <1>1, Apart, ChannelFields DEF Hist, Numbered
    <3>3. Goes(store[p], store[p]) BY <3>2, GoesSame
    <3> QED BY <3>1, <3>3 DEF Goes
  <2> QED BY <2>1, <2>2
<1> QED BY <1>3

\* Under the lock of the channel nothing older is written over something newer.
THEOREM StoresOnlyGoForward ==
  ASSUME UnderLock
  PROVE  Spec => StoresGoForward
<1>1. LInv /\ [Next]_vars =>
        [\A p \in Parties : NeverRegresses(store[p], store'[p])]_vars
  BY ForwardStep
<1> QED BY <1>1, LInvariance, PTL DEF Spec, StoresGoForward

-----------------------------------------------------------------------------
(* One history.                                                             *)

\* The latest of the agreed free balances is that of a party.
LEMMA LatestIs ==
  ASSUME IInv, Balances, NEW x \in Parties, \A p \in Parties : store[p].fb.ver <= store[x].fb.ver
  PROVE  Ledger!Latest = store[x].fb
<1>1. store[x].fb \in past BY DEF Balances
<1>2. \A F \in past : F.ver <= store[x].fb.ver
  <2> TAKE F \in past
  <2>1. PICK p \in Parties : F.ver <= store[p].fb.ver BY DEF Balances
  <2>2. store[p].fb \in past BY DEF Balances
  <2>3. F.ver \in Nat /\ store[p].fb.ver \in Nat /\ store[x].fb.ver \in Nat
    BY <1>1, <2>2, PastType
  <2> QED BY <2>1, <2>3
<1>3. \A F \in past : F.ver \in Nat BY PastType
<1>4. Ledger!Latest = CHOOSE F \in past : \A G \in past : G.ver <= F.ver
  BY DEF Ledger!Latest
<1> DEFINE top == CHOOSE F \in past : \A G \in past : G.ver <= F.ver
<1>5. top \in past /\ \A G \in past : G.ver <= top.ver BY <1>1, <1>2
<1> HIDE DEF top
<1>6. top.ver = store[x].fb.ver
  <2>1. top.ver \in Nat /\ store[x].fb.ver \in Nat BY <1>1, <1>3, <1>5
  <2>2. top.ver <= store[x].fb.ver /\ store[x].fb.ver <= top.ver BY <1>1, <1>2, <1>5
  <2> QED BY <2>1, <2>2
<1>7. top = store[x].fb BY <1>1, <1>5, <1>6 DEF Balances
<1> QED BY <1>4, <1>7 DEF top

LEMMA LedgerStep ==
  ASSUME UnderLock, LInv, LInv', [Next]_vars
  PROVE  [Ledger!LedgerNext]_(Ledger!ledgerVars)
<1> DEFINE view == [p \in Parties |-> store[p].fb]
<1>1. IInv /\ Hist /\ Balances /\ IInv' BY DEF LInv, Hist
<1>2. PICK x \in Parties : Writes(x) BY <1>1, NextWrites
<1> DEFINE y == Other(x)
           F == store[x].fb
           G == store'[x].fb
<1>3. past \subseteq past' BY <1>2 DEF Writes
<1>4. y \in Parties /\ y # x /\ Parties = {x, y} BY TwoParties
<1>5. F \in past /\ store[y].fb \in past /\ G \in past' /\ F.ver \in Nat
  <2>1. F \in past /\ store[y].fb \in past BY <1>1, <1>4 DEF Balances
  <2>2. G \in past' BY DEF LInv, Hist, Balances
  <2> QED BY <1>1, <2>1, <2>2, PastType
<1>6. G \in FreeBalance
  <2>1. store' \in [Parties -> Channel] BY DEF LInv, IInv, TypeOK
  <2>2. store'[x] \in Channel BY <2>1
  <2> QED BY <2>2, ChannelFields
<1>7. /\ store'[y] = store[y] /\ past' \subseteq past \cup {G}
      /\ G = F \/ G.ver = F.ver + 2
      /\ G = F \/ store[y].fb.ver = F.ver \/ store[y].fb = G
  BY <1>2 DEF Writes, Goes
<1>8. view' = [p \in Parties |-> store'[p].fb] OBVIOUS
<1>9. CASE G = F
  <2>1. past' = past BY <1>3, <1>5, <1>7, <1>9
  <2>2. view' = view
    <3>1. \A p \in Parties : store'[p].fb = store[p].fb BY <1>4, <1>7, <1>9
    <3> QED BY <3>1
  <2> QED BY <2>1, <2>2 DEF Ledger!ledgerVars
<1>10. CASE G # F /\ store[y].fb.ver = F.ver
  <2>1. store[y].fb = F BY <1>1, <1>5, <1>10 DEF Balances
  <2>2. Ledger!Latest = F
    <3>1. \A p \in Parties : store[p].fb.ver <= F.ver BY <1>4, <1>5, <1>10
    <3> QED BY <1>1, <3>1, LatestIs
  <2>3. past' = past \cup {G} BY <1>3, <1>5, <1>7
  <2>4. \A q \in Parties : view[q] = F BY <1>4, <2>1
  <2>5. view'[x] = G /\ G.ver > F.ver BY <1>5, <1>7, <1>10
  <2>6. \A q \in Parties \ {x} : view'[q] = view[q] BY <1>4, <1>7
  <2>7. Ledger!Agree(x)
    <3> HIDE DEF F, G
    <3> QED BY <1>6, <2>2, <2>3, <2>4, <2>5, <2>6 DEF Ledger!Agree
  <2> QED BY <2>7 DEF Ledger!LedgerNext
<1>11. CASE G # F /\ store[y].fb = G
  <2>1. G.ver = F.ver + 2 BY <1>7, <1>11
  <2>2. Ledger!Latest = G
    <3>1. \A p \in Parties : store[p].fb.ver <= store[y].fb.ver BY <1>4, <1>5, <1>11, <2>1
    <3> QED BY <1>1, <1>4, <1>11, <3>1, LatestIs
  <2>3. past' = past BY <1>3, <1>5, <1>7, <1>11
  <2>4. view' = [view EXCEPT ![x] = G] BY <1>4, <1>7
  <2>5. Ledger!CatchUp(x)
    <3> HIDE DEF F, G
    <3> QED BY <2>2, <2>3, <2>4 DEF Ledger!CatchUp
  <2> QED BY <2>5 DEF Ledger!LedgerNext
<1> QED BY <1>7, <1>9, <1>10, <1>11

\* What the parties persist of the free balance has one history, shared by both,
\* also when a node restarts between its two writes.
THEOREM ProtocolsImplementLedger ==
  ASSUME UnderLock
  PROVE  Spec => OneHistory
<1>1. Init => Ledger!LedgerInit
  <2> SUFFICES ASSUME Init PROVE Ledger!LedgerInit OBVIOUS
  <2>1. past = {Opening.fb} /\ \A p \in Parties : store[p] = Opening BY DEF Init
  <2> QED BY <2>1 DEF Ledger!LedgerInit
<1>2. LInv /\ LInv' /\ [Next]_vars => [Ledger!LedgerNext]_(Ledger!ledgerVars)
  BY LedgerStep
<1> QED BY <1>1, <1>2, LInvariance, PTL DEF Spec, OneHistory, Ledger!LedgerSpec

-----------------------------------------------------------------------------
(* Agreement.                                                               *)

LEMMA AgreementHolds == LInv => QuiescentAgreement
<1> SUFFICES ASSUME LInv PROVE QuiescentAgreement OBVIOUS
<1>1. IInv /\ Hist /\ Agreeing BY DEF LInv
<1>2. ASSUME NEW m \in net, m.n = 2, ini[m.run].pc = "wait2", ini[m.run].op.proto # "install"
      PROVE  Signed(ini[m.run].op, ini[m.run].post) \in m.sigs
  <2>1. Going(m.run) BY <1>1, MessageFields, GoingOn
  <2> QED BY <1>2, <2>1 DEF Going, Replied
<1>3. ASSUME NEW r \in Runs, rsp[r].pc = "verified", rsp[r].op.proto \notin {"uninstall", "reject"}
      PROVE  EventApp(rsp[r].op, rsp[r].post) = Signed(rsp[r].op, rsp[r].post).id
  <2> DEFINE p == ini[r].by
             o == Responder(r)
             op == rsp[r].op
             post == rsp[r].post
  <2>1. Live(r) /\ Answering(r) BY <1>3 DEF Live, Quiet, Answering
  <2>2. Possible(op, store[o]) /\ post = Result(op, p, store[o])
    BY <1>1, <2>1, AnsweringIs
  <2>3. op.proto \in {"propose", "takeAction"} BY <1>1, <1>3, <2>1, AnsweringIs
  <2>4. p \in Parties /\ o \in Parties /\ op \in Op /\ store[o] \in Channel
    BY <1>1, HalfFields
  <2> HIDE DEF p, o, op, post
  <2>5. CASE op.proto = "propose"
    <3> DEFINE q == NextProposal(store[o], op.def, p, op.own, op.other)
    <3>1. q \in Proposal BY <2>4, <2>5, OpFields, NextProposalType
    <3>2. q.id = store[o].np + 1 BY DEF NextProposal
    <3>3. post = AddProposal(store[o], q) BY <2>2, <2>5 DEF Result
    <3> HIDE DEF q
    <3>4. \A t \in store[o].props : t.id <= store[o].np BY <1>1, <2>4 DEF Hist, Numbered
    <3>5. MostRecentlyProposed(post).id = q.id /\ post.np = q.id
      BY <2>4, <3>1, <3>2, <3>3, <3>4, ProposedLast
    <3>6. EventApp(op, post) = q.id BY <2>5, <3>5 DEF EventApp
    <3>7. Signed(op, post) = [kind |-> "app", id |-> q.id, ver |-> 0, st |-> op.own]
      BY <2>5, <3>5 DEF Signed
    <3>8. Signed(op, post).id = q.id BY <3>7
    <3> QED BY <3>6, <3>8 DEF op, post
  <2>6. CASE op.proto = "takeAction"
    <3>1. /\ HasApp(store[o], op.id) /\ op.amount \in Nat
          /\ op.amount <= GetApp(store[o], op.id).st
          /\ post = ApplyAction(store[o], op.id, op.amount)
      BY <2>2, <2>4, <2>6, OpFields DEF Possible, Result
    <3>2. post \in Channel /\ HasApp(post, op.id) BY <2>4, <3>1, ApplyActionType
    <3>3. GetApp(post, op.id).id = op.id BY <3>2, GetAppType
    <3>4. Signed(op, post) = SetAppState(GetApp(post, op.id)) BY <2>6 DEF Signed
    <3>5. Signed(op, post).id = op.id BY <3>3, <3>4 DEF SetAppState
    <3>6. EventApp(op, post) = op.id BY <2>6 DEF EventApp
    <3> QED BY <3>5, <3>6 DEF op, post
  <2> QED BY <2>3, <2>5, <2>6
<1>4. ASSUME \A r \in Runs : ini[r].pc \in {"idle", "returned"}
      PROVE  store[Alice] = store[Bob]
  <2>1. Smooth BY <1>4 DEF Smooth
  <2>2. \A r \in Runs : ~Live(r) BY <1>1, <1>4, <2>1, LiveIsActive DEF Active
  <2>3. Same BY <1>1, <2>1, <2>2 DEF Agreeing
  <2> QED BY <2>3 DEF Same, Parties
<1> QED BY <1>2, <1>3, <1>4 DEF QuiescentAgreement

\* The two nodes agree whenever every call has returned, and what answers and
\* events say is what was signed.
THEOREM QuiescentNodesAgree ==
  ASSUME UnderLock
  PROVE  Spec => []QuiescentAgreement
BY AgreementHolds, LInvariance, PTL

=============================================================================
