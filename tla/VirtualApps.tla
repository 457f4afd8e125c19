---------------------------- MODULE VirtualApps ----------------------------
(***************************************************************************)
(* Two users, Alice and Bob, install an app between themselves although     *)
(* each of them only has a funded channel with Ingrid:                      *)
(* modules/cf-core/src/protocol/install-virtual-app.ts and                  *)
(* uninstall-virtual-app.ts, with the controllers that call them.           *)
(*                                                                         *)
(* There are four channels.  The link of user u is its channel with Ingrid; *)
(* it holds money, and one agreement per virtual app that goes through it.  *)
(* The channel of the two users (ab) holds the virtual app, the channel of  *)
(* all three (abi) the pass-through app that both agreements refer to;      *)
(* neither has a free balance.                                              *)
(*                                                                         *)
(* A run is one execution of a protocol.  Its three halves (the initiating  *)
(* user, Ingrid, the responding user) each compute the channels they will   *)
(* persist (`post`) from their store when they start, exchange eight        *)
(* messages, and persist their channels ONE AFTER THE OTHER.                *)
(***************************************************************************)
EXTENDS Naturals, Sequences, FiniteSetsExt

CONSTANTS
  Alice, Bob, Ingrid,
  MaxRuns,   \* bound: how many runs are started
  MaxPlays,  \* bound: how often the users move a virtual app
  Opening,   \* what each party has persisted to begin with
  FaultCases \* sets of faults a behaviour can have, see ChannelProtocols

Users == {Alice, Bob}
Parties == Users \cup {Ingrid}
Roles == {"initiator", "intermediary", "responder"}
Runs == 1..MaxRuns

Other(u) == IF u = Alice THEN Bob ELSE Alice

(***************************************************************************)
(* The link of a user: the free balance and the agreements, which name its  *)
(* active apps.  `capital` is what Ingrid and the user put in together.     *)
(***************************************************************************)
Agreement == [app : Nat, pass : Nat, capital : Nat]

Link == [ver : Nat, user : Nat, hub : Nat, agr : SUBSET Agreement]

\* `dep` is what each user stakes, `toAlice` what Alice would get now.
Proposal == [id : Nat, by : Users, dep : [Users -> Nat]]

VirtualApp == [id : Nat, dep : [Users -> Nat], ver : Nat, toAlice : Nat]

\* A TimeLockedPassThrough app as installed: it switches its outcome at
\* MaxUint256, hence never, so that virtualAppHasExpired is always FALSE.
PassApp == [id : Nat, target : Nat, toAlice : Nat]

AB == [np : Nat, props : SUBSET Proposal, apps : SUBSET VirtualApp]

ABI == [np : Nat, apps : SUBSET PassApp]

\* A user keeps no link of the other user, and Ingrid no ab: those parts of
\* their records never change.
Channels == [link : [Users -> Link], ab : AB, abi : ABI]

ASSUME VirtualConstants ==
  /\ Alice # Bob /\ Ingrid \notin Users
  /\ MaxRuns \in Nat /\ MaxPlays \in Nat
  /\ Opening \in Channels
  /\ FaultCases \subseteq SUBSET {"loss", "crash"}

\* Where the runs begin: the two links carry the same agreements, each with the
\* stakes of its app, and no two apps or proposals have one identity.
ASSUME OpeningSettled ==
  LET agr  == Opening.link[Alice].agr
      apps == Opening.ab.apps
  IN  /\ Users \cap {"ab", "abi"} = {}
      /\ IsFiniteSet(agr) /\ Opening.link[Bob].agr = agr
      /\ \A a, b \in agr : a.app = b.app => a = b
      /\ \A va, vb \in apps : va.id = vb.id => va = vb
      /\ \A va \in apps :
           /\ va.toAlice <= va.dep[Alice] + va.dep[Bob]
           /\ \A a \in agr : a.app = va.id => a.capital = va.dep[Alice] + va.dep[Bob]
      /\ \A p, q \in Opening.ab.props : p.id = q.id => p = q
      /\ \A q \in Opening.ab.props :
           q.id \notin {a.app : a \in agr} \cup {va.id : va \in apps}

VARIABLES
  store,   \* store[p]: the channels p has persisted
  run,     \* run[r]: who started run r, and with which parameters
  half,    \* half[r][role]: how far that side of the run is
  net,     \* messages sent and not yet handled
  given,   \* signatures ever sent, by run (history)
  got,     \* signatures ever received, by run (history)
  leases,  \* runs whose locks the locking service has granted
  faults   \* what can go wrong in this behaviour; never changes

vars == <<store, run, half, net, given, got, leases, faults>>

-----------------------------------------------------------------------------
(* What is signed.  As in ChannelProtocols a signature is checked by        *)
(* comparing the signed record with the one computed locally.               *)

SetFreeBalance(u, c) ==
  [kind |-> "freeBalance", link |-> u, ver |-> c.ver, user |-> c.user,
   hub |-> c.hub, active |-> {a.app : a \in c.agr}]

\* The agreement of an app is what the interpreter is told to pay.
Conditional(u, c, app) ==
  LET a == CHOOSE b \in c.agr : b.app = app
  IN  [kind |-> "agreement", link |-> u, pass |-> a.pass, capital |-> a.capital]

\* The pass-through app defers to the virtual app, or has been given the
\* outcome to use from now on.
SetPass(pa, final, toAlice, ver) ==
  [kind |-> "pass", id |-> pa.id, target |-> pa.target, final |-> final,
   toAlice |-> toAlice, ver |-> ver]

NoPass == SetPass([id |-> 0, target |-> 0], FALSE, 0, 0)

SetVirtual(va) ==
  [kind |-> "virtual", id |-> va.id, ver |-> va.ver, toAlice |-> va.toAlice]

-----------------------------------------------------------------------------
(* The channels after an installation.                                      *)

Pot(q) == q.dep[Alice] + q.dep[Bob]

\* constructVirtualAppInstance, at version 0.
NewVirtualApp(q) ==
  [id |-> q.id, dep |-> q.dep, ver |-> 0, toAlice |-> q.dep[Alice]]

\* constructTimeLockedPassThroughAppInstance: its sequence number, and with it
\* its identity, is the counter of the three-party channel.
NewPassApp(abi, q) ==
  [id |-> abi.np, target |-> q.id, toAlice |-> q.dep[Alice]]

\* FreeBalanceClass.increment throws when a balance would become negative.
CanAgree(c, u, q) == q.dep[u] <= c.user /\ q.dep[Other(u)] <= c.hub

\* On the link of u Ingrid stands for the other user, and stakes its deposit.
NewAgreement(q, pass) == [app |-> q.id, pass |-> pass, capital |-> Pot(q)]

AddAgreement(c, u, q, pass) ==
  [ver |-> c.ver + 2, user |-> c.user - q.dep[u], hub |-> c.hub - q.dep[Other(u)],
   agr |-> {a \in c.agr : a.app # q.id} \cup {NewAgreement(q, pass)}]

LinksOf(p) == IF p = Ingrid THEN Users ELSE {p}

CanInstall(p, q) == \A u \in LinksOf(p) : CanAgree(store[p].link[u], u, q)

\* addAppInstance counts the app as if it had been proposed, and leaves its
\* proposal where it is.
AddApp(ch, a) ==
  [ch EXCEPT !.np = @ + 1, !.apps = {b \in ch.apps : b.id # a.id} \cup {a}]

\* A user installs the virtual app, and agrees with Ingrid on its link.
InstalledByUser(u, q) ==
  LET s == store[u]
  IN  [s EXCEPT !.link[u] = AddAgreement(@, u, q, s.abi.np),
                !.ab      = AddApp(@, NewVirtualApp(q)),
                !.abi     = AddApp(@, NewPassApp(@, q))]

\* Ingrid agrees with both; the virtual app is none of her business.
InstalledByIngrid(q) ==
  LET s == store[Ingrid]
  IN  [s EXCEPT !.link = [u \in Users |-> AddAgreement(@[u], u, q, s.abi.np)],
                !.abi  = AddApp(@, NewPassApp(@, q))]

-----------------------------------------------------------------------------
(* The channels after an uninstallation.                                    *)

AgreementOn(c, app) == CHOOSE a \in c.agr : a.app = app

Without(ch, id) == [ch EXCEPT !.apps = {b \in ch.apps : b.id # id}]

Payout(u, pot, toAlice) == IF u = Alice THEN toAlice ELSE pot - toAlice

\* Mutant of RemoveAgreement: Ingrid gets what the user of the link gets.
RemoveAgreementSameSide(c, u, app, toAlice) ==
  LET a == AgreementOn(c, app)
  IN  [ver  |-> c.ver + 2,
       user |-> c.user + Payout(u, a.capital, toAlice),
       hub  |-> c.hub + Payout(u, a.capital, toAlice),
       agr  |-> c.agr \ {a}]

\* Mutant of RemoveAgreement: Ingrid's capital comes back twice, once as hers.
RemoveAgreementWhole(c, u, app, toAlice) ==
  LET a == AgreementOn(c, app)
  IN  [ver  |-> c.ver + 2,
       user |-> c.user + Payout(u, a.capital, toAlice),
       hub  |-> c.hub + a.capital,
       agr  |-> c.agr \ {a}]

\* Ingrid gets on the link of u what the other user is to get.
RemoveAgreement(c, u, app, toAlice) ==
  LET a == AgreementOn(c, app)
  IN  [ver  |-> c.ver + 2,
       user |-> c.user + Payout(u, a.capital, toAlice),
       hub  |-> c.hub + Payout(Other(u), a.capital, toAlice),
       agr  |-> c.agr \ {a}]

\* The pass-through app is looked up through the agreement on link l: their
\* own for the users, the initiator's for Ingrid.
PassOf(p, l, app) ==
  CHOOSE b \in store[p].abi.apps : b.id = AgreementOn(store[p].link[l], app).pass

VirtualOf(p, app) == CHOOSE va \in store[p].ab.apps : va.id = app

\* What getUpdatedStateChannelAndAppInstanceObjects looks up without throwing.
\* The responder also compares the outcome with that of its own app.
CanUninstall(p, op, responding) ==
  LET s == store[p]
  IN  /\ \A u \in LinksOf(p) : \E a \in s.link[u].agr :
           a.app = op.app /\ \E b \in s.abi.apps : b.id = a.pass
      /\ p # Ingrid => \E va \in s.ab.apps : va.id = op.app
      /\ responding => VirtualOf(p, op.app).toAlice = op.toAlice

UninstalledByUser(u, op) ==
  [store[u] EXCEPT !.link[u] = RemoveAgreement(@, u, op.app, op.toAlice),
                   !.ab      = Without(@, op.app),
                   !.abi     = Without(@, PassOf(u, u, op.app).id)]

UninstalledByIngrid(initiator, op) ==
  [store[Ingrid] EXCEPT
     !.link = [u \in Users |-> RemoveAgreement(@[u], u, op.app, op.toAlice)],
     !.abi  = Without(@, PassOf(Ingrid, initiator, op.app).id)]

-----------------------------------------------------------------------------
(* Runs, their locks and their messages.                                    *)

Initiator(r) == run[r].by
Responder(r) == Other(run[r].by)

PartyOf(r, role) ==
  CASE role = "initiator" -> Initiator(r)
    [] role = "intermediary" -> Ingrid
    [] role = "responder" -> Responder(r)

RoleOf(r, p) == CHOOSE role \in Roles : PartyOf(r, role) = p

Waiting == {"wait3", "wait4", "wait5", "wait6", "wait7", "wait8"}

Steps == <<"idle", "idle", "wait3", "wait4", "wait5", "wait6", "wait7", "wait8">>

Going(h) == h.pc \in Waiting \cup {"saving"}

\* A half waits for an answer, or is persisting the channels `left`.
Waits(pc, post, pass) ==
  [pc |-> pc, post |-> post, pass |-> pass, left |-> <<>>]

Saving(h, left) ==
  [pc |-> "saving", post |-> h.post, pass |-> h.pass, left |-> left]

Ended(how) == [pc |-> how, post |-> Opening, pass |-> NoPass, left |-> <<>>]

Idle == Ended("idle")

Signature(p, c) == [by |-> p, c |-> c]

\* Signatures as the histories record them: in which run, to whom.
Marked(r, to, sigs) ==
  {[run |-> r, by |-> s.by, to |-> to, c |-> s.c] : s \in sigs}

\* IO_SEND and the sending half of IO_SEND_AND_WAIT.
Sent(r, n, to, sigs) ==
  /\ net' = net \cup {[run |-> r, n |-> n, to |-> to, sigs |-> sigs]}
  /\ given' = given \cup Marked(r, to, sigs)

\* Message m is taken and answered.
Answered(m, n, to, sigs) ==
  /\ net' = (net \ {m}) \cup
              {[run |-> m.run, n |-> n, to |-> to, sigs |-> sigs]}
  /\ given' = given \cup Marked(m.run, to, sigs)

Received(m, role) ==
  got' = got \cup Marked(m.run, PartyOf(m.run, role), m.sigs)

Goes(r, role, h) == half' = [half EXCEPT ![r][role] = h]

\* The initiator's call returns or throws and gives its locks back.
Leave(r, how) ==
  /\ Goes(r, "initiator", Ended(how))
  /\ leases' = leases \ {r}

\* An assertIsValidSignature, or a lookup, throws in the half that handles m.
Throws(m, role) ==
  /\ net' = net \ {m}
  /\ IF role = "initiator" THEN Leave(m.run, "threw")
                           ELSE Goes(m.run, role, Ended("done")) /\ UNCHANGED leases
  /\ UNCHANGED <<store, run, given>>

\* Every install and uninstall names the three channels of the three parties,
\* so that no two of them hold their locks together.
Start(r, p, op, post, pass) ==
  /\ half[r]["initiator"].pc = "idle"
  /\ \A s \in 1..(r - 1) : half[s]["initiator"].pc # "idle"
  /\ leases = {}
  /\ \A s \in Runs : ~(Initiator(s) = p /\ Going(half[s]["initiator"]))
  /\ run' = [run EXCEPT ![r] = [by |-> p, op |-> op]]
  /\ Goes(r, "initiator", Waits("wait4", post, pass))
  /\ leases' = {r}
  /\ UNCHANGED <<store, got>>

-----------------------------------------------------------------------------
(* Handling the messages.                                                   *)

\* The half that plays `role` waits for message n of this kind of run.
Handles(m, n, role, kind) ==
  /\ m.n = n
  /\ run[m.run].op.kind = kind
  /\ half[m.run][role].pc = Steps[n]

\* The segment of a half between two messages: check, answer, wait or persist.
Segment(m, role, ok, to, sigs, h) ==
  /\ Received(m, role)
  /\ IF ok
       THEN /\ Answered(m, m.n + 1, to, sigs)
            /\ Goes(m.run, role, h)
            /\ UNCHANGED <<store, run, leases>>
       ELSE Throws(m, role)

\* A segment that ends in persisting the channels `left`.
Stores(m, role, ok, left) ==
  /\ Received(m, role)
  /\ IF ok
       THEN /\ net' = net \ {m}
            /\ Goes(m.run, role, Saving(half[m.run][role], left))
            /\ UNCHANGED <<store, run, given, leases>>
       ELSE Throws(m, role)

Both(a, b, c) == {Signature(a, c), Signature(b, c)}

-----------------------------------------------------------------------------
(* Installing.  What the three sign is computed from the channels each of   *)
(* them is going to persist.                                                *)

CondOf(r, u, post) == Conditional(u, post.link[u], run[r].op.q.id)

FreeOf(u, post) == SetFreeBalance(u, post.link[u])

\* What a user signs to make its link pay for the app.
Commits(by, r, u, post) ==
  {Signature(by, CondOf(r, u, post)), Signature(by, FreeOf(u, post))}

\* The pass-through app just added, at version 0.
NewPassState(post) ==
  LET pa == CHOOSE b \in post.abi.apps : b.id = post.abi.np - 1
  IN  SetPass(pa, FALSE, pa.toAlice, 0)

NewVirtualState(r, post) ==
  SetVirtual(CHOOSE va \in post.ab.apps : va.id = run[r].op.q.id)

\* The user a virtual app was proposed to installs it: m1, its signature on
\* the agreement of its own link.
InstallStart(r, p) ==
  \E q \in store[p].ab.props :
    /\ q.by = Other(p)
    /\ CanInstall(p, q)
    /\ LET post == InstalledByUser(p, q)
           c    == Conditional(p, post.link[p], q.id)
       IN  /\ Start(r, p, [kind |-> "install", q |-> q], post, NewPassState(post))
           /\ Sent(r, 1, Ingrid, {Signature(p, c)})

\* m1 -> m2: Ingrid signs the agreement of the responder's link, not yet the
\* initiator's.
IntermediaryForwards(m) ==
  LET r    == m.run
      post == InstalledByIngrid(run[r].op.q)
  IN  /\ Handles(m, 1, "intermediary", "install")
      /\ Segment(m, "intermediary",
           /\ CanInstall(Ingrid, run[r].op.q)
           /\ Signature(Initiator(r), CondOf(r, Initiator(r), post)) \in m.sigs,
           Responder(r), {Signature(Ingrid, CondOf(r, Responder(r), post))},
           Waits("wait3", post, NewPassState(post)))

\* m2 -> m3: the responder signs its agreement and its new free balance.
ResponderSigns(m) ==
  LET r    == m.run
      me   == Responder(r)
      post == InstalledByUser(me, run[r].op.q)
  IN  /\ Handles(m, 2, "responder", "install")
      /\ Segment(m, "responder",
           /\ CanInstall(me, run[r].op.q)
           /\ Signature(Ingrid, CondOf(r, me, post)) \in m.sigs,
           Ingrid, Commits(me, r, me, post),
           Waits("wait6", post, NewPassState(post)))

\* Mutant of IntermediaryCommits: both links are activated with m4.
IntermediaryCommitsBoth(m) ==
  LET r    == m.run
      h    == half[r]["intermediary"]
      resp == Responder(r)
  IN  /\ Handles(m, 3, "intermediary", "install")
      /\ Segment(m, "intermediary",
           Commits(resp, r, resp, h.post) \subseteq m.sigs,
           Initiator(r), Commits(Ingrid, r, Initiator(r), h.post)
                           \cup {Signature(Ingrid, FreeOf(resp, h.post))},
           Waits("wait5", h.post, h.pass))

\* m3 -> m4: with both of the responder's signatures Ingrid gives hers on the
\* initiator's agreement and free balance.
IntermediaryCommits(m) ==
  LET r    == m.run
      h    == half[r]["intermediary"]
      resp == Responder(r)
  IN  /\ Handles(m, 3, "intermediary", "install")
      /\ Segment(m, "intermediary",
           Commits(resp, r, resp, h.post) \subseteq m.sigs,
           Initiator(r), Commits(Ingrid, r, Initiator(r), h.post),
           Waits("wait5", h.post, h.pass))

\* m4 -> m5: the initiator activates its link and signs the two apps.
InitiatorActivates(m) ==
  LET r    == m.run
      me   == Initiator(r)
      h    == half[r]["initiator"]
  IN  /\ Handles(m, 4, "initiator", "install")
      /\ Segment(m, "initiator",
           Commits(Ingrid, r, me, h.post) \subseteq m.sigs,
           Ingrid, {Signature(me, FreeOf(me, h.post)), Signature(me, h.pass),
                    Signature(me, NewVirtualState(r, h.post))},
           Waits("wait8", h.post, h.pass))

\* m5 -> m6: Ingrid has the initiator's free balance, and gives her signature
\* on the responder's.  She passes on the signature on the virtual app, which
\* she cannot check.
IntermediaryActivates(m) ==
  LET r    == m.run
      h    == half[r]["intermediary"]
      init == Initiator(r)
      resp == Responder(r)
  IN  /\ Handles(m, 5, "intermediary", "install")
      /\ Segment(m, "intermediary",
           {Signature(init, FreeOf(init, h.post)), Signature(init, h.pass)}
             \subseteq m.sigs,
           resp, {Signature(Ingrid, FreeOf(resp, h.post)), Signature(Ingrid, h.pass)}
                   \cup {s \in m.sigs : s.by = init /\ s.c.kind # "freeBalance"},
           Waits("wait7", h.post, h.pass))

\* m6 -> m7: the responder signs the two apps, answers, and then persists.
ResponderActivates(m) ==
  LET r    == m.run
      me   == Responder(r)
      h    == half[r]["responder"]
      va   == NewVirtualState(r, h.post)
  IN  /\ Handles(m, 6, "responder", "install")
      /\ Segment(m, "responder",
           {Signature(Ingrid, FreeOf(me, h.post)), Signature(Initiator(r), va)}
             \cup Both(Ingrid, Initiator(r), h.pass) \subseteq m.sigs,
           Ingrid, {Signature(me, h.pass), Signature(me, va)},
           Saving(h, <<me, "abi", "ab">>))

\* m7 -> m8: Ingrid answers, and then persists.
IntermediaryFinishes(m) ==
  LET r    == m.run
      h    == half[r]["intermediary"]
      resp == Responder(r)
  IN  /\ Handles(m, 7, "intermediary", "install")
      /\ Segment(m, "intermediary",
           Signature(resp, h.pass) \in m.sigs,
           Initiator(r), {s \in m.sigs : s.by = resp} \cup {Signature(Ingrid, h.pass)},
           Saving(h, <<"abi", resp, Initiator(r)>>))

InitiatorFinishes(m) ==
  LET r    == m.run
      h    == half[r]["initiator"]
      resp == Responder(r)
  IN  /\ Handles(m, 8, "initiator", "install")
      /\ Stores(m, "initiator",
           Both(Ingrid, resp, h.pass)
             \cup {Signature(resp, NewVirtualState(r, h.post))} \subseteq m.sigs,
           <<Initiator(r), "ab", "abi">>)

-----------------------------------------------------------------------------
(* Uninstalling: the three first fix the outcome in the pass-through app,    *)
(* then free the two links, the initiator's first.                          *)

\* The final state is signed with appSeqNo for a version number.
FinalPass(p, l, op) ==
  LET pa == PassOf(p, l, op.app) IN SetPass(pa, TRUE, op.toAlice, pa.id)

UninstallStart(r, p) ==
  \E va \in store[p].ab.apps :
    LET op   == [kind |-> "uninstall", app |-> va.id, toAlice |-> va.toAlice]
        post == UninstalledByUser(p, op)
        pass == FinalPass(p, p, op)
    IN  /\ CanUninstall(p, op, FALSE)
        /\ Start(r, p, op, post, pass)
        /\ Sent(r, 1, Ingrid, {Signature(p, pass)})

\* m1 -> m2.  Ingrid takes the outcome from the parameters of m1.
IntermediaryFixes(m) ==
  LET r    == m.run
      op   == run[r].op
      init == Initiator(r)
      pass == FinalPass(Ingrid, init, op)
  IN  /\ Handles(m, 1, "intermediary", "uninstall")
      /\ Segment(m, "intermediary",
           CanUninstall(Ingrid, op, FALSE) /\ Signature(init, pass) \in m.sigs,
           Responder(r), Both(init, Ingrid, pass),
           Waits("wait3", UninstalledByIngrid(init, op), pass))

\* m2 -> m3, if the outcome is the one of the responder's own app.
ResponderFixes(m) ==
  LET r    == m.run
      op   == run[r].op
      me   == Responder(r)
      pass == FinalPass(me, me, op)
  IN  /\ Handles(m, 2, "responder", "uninstall")
      /\ Segment(m, "responder",
           CanUninstall(me, op, TRUE)
             /\ Both(Initiator(r), Ingrid, pass) \subseteq m.sigs,
           Ingrid, {Signature(me, pass)},
           Waits("wait6", UninstalledByUser(me, op), pass))

\* m3 -> m4.
IntermediaryHasFixed(m) ==
  LET r == m.run
      h == half[r]["intermediary"]
  IN  /\ Handles(m, 3, "intermediary", "uninstall")
      /\ Segment(m, "intermediary", Signature(Responder(r), h.pass) \in m.sigs,
           Initiator(r), Both(Responder(r), Ingrid, h.pass),
           Waits("wait5", h.post, h.pass))

\* m4 -> m5.
InitiatorFrees(m) ==
  LET r  == m.run
      me == Initiator(r)
      h  == half[r]["initiator"]
  IN  /\ Handles(m, 4, "initiator", "uninstall")
      /\ Segment(m, "initiator", Both(Responder(r), Ingrid, h.pass) \subseteq m.sigs,
           Ingrid, {Signature(me, FreeOf(me, h.post))},
           Waits("wait8", h.post, h.pass))

\* m5 -> m6: Ingrid keeps her signature on the initiator's link for m8.
IntermediaryFrees(m) ==
  LET r    == m.run
      h    == half[r]["intermediary"]
      init == Initiator(r)
      resp == Responder(r)
  IN  /\ Handles(m, 5, "intermediary", "uninstall")
      /\ Segment(m, "intermediary",
           Signature(init, FreeOf(init, h.post)) \in m.sigs,
           resp, {Signature(Ingrid, FreeOf(resp, h.post))},
           Waits("wait7", h.post, h.pass))

\* m6: the responder persists, and then answers.
ResponderFrees(m) ==
  LET me == Responder(m.run)
      h  == half[m.run]["responder"]
  IN  /\ Handles(m, 6, "responder", "uninstall")
      /\ Stores(m, "responder", Signature(Ingrid, FreeOf(me, h.post)) \in m.sigs,
           <<"ab", "abi", me>>)

\* m7: Ingrid persists, and then answers.
IntermediaryHasFreed(m) ==
  LET resp == Responder(m.run)
      h    == half[m.run]["intermediary"]
  IN  /\ Handles(m, 7, "intermediary", "uninstall")
      /\ Stores(m, "intermediary", Signature(resp, FreeOf(resp, h.post)) \in m.sigs,
           <<Initiator(m.run), "abi", resp>>)

InitiatorHasFreed(m) ==
  LET r  == m.run
      me == Initiator(r)
      h  == half[r]["initiator"]
  IN  /\ Handles(m, 8, "initiator", "uninstall")
      /\ Stores(m, "initiator", Signature(Ingrid, FreeOf(me, h.post)) \in m.sigs,
           <<me, "abi", "ab">>)

-----------------------------------------------------------------------------
(* Persisting.                                                              *)

\* PERSIST_STATE_CHANNEL writes one channel after the other.
SaveChannel(r, role) ==
  LET h == half[r][role]
      p == PartyOf(r, role)
      c == Head(h.left)
  IN  /\ h.pc = "saving" /\ h.left # <<>>
      /\ store' = [store EXCEPT ![p] =
           CASE c = "ab"  -> [@ EXCEPT !.ab = h.post.ab]
             [] c = "abi" -> [@ EXCEPT !.abi = h.post.abi]
             [] OTHER     -> [@ EXCEPT !.link[c] = h.post.link[c]]]
      /\ Goes(r, role, Saving(h, Tail(h.left)))
      /\ UNCHANGED <<run, net, given, got, leases>>

Saved(r, role, kind) ==
  /\ run[r].op.kind = kind
  /\ half[r][role].pc = "saving" /\ half[r][role].left = <<>>

RemoveProposal(p, id) ==
  store' = [store EXCEPT ![p].ab.props = {q \in @ : q.id # id}]

\* installVirtual then removes the proposal, and the call returns.
InstallReturns(r) ==
  /\ Saved(r, "initiator", "install")
  /\ RemoveProposal(Initiator(r), run[r].op.q.id)
  /\ Leave(r, "returned")
  /\ UNCHANGED <<run, net, given, got>>

\* The responder removes the proposal of the app with the greatest sequence
\* number, for its mostRecentlyInstalledAppInstance.
ResponderCleansUp(r) ==
  LET ids == {va.id : va \in half[r]["responder"].post.ab.apps}
  IN  /\ Saved(r, "responder", "install")
      /\ RemoveProposal(Responder(r), CHOOSE i \in ids : \A j \in ids : j <= i)
      /\ Goes(r, "responder", Ended("done"))
      /\ UNCHANGED <<run, net, given, got, leases>>

IntermediaryEnds(r) ==
  /\ Saved(r, "intermediary", "install")
  /\ Goes(r, "intermediary", Ended("done"))
  /\ UNCHANGED <<store, run, net, given, got, leases>>

UninstallReturns(r) ==
  /\ Saved(r, "initiator", "uninstall")
  /\ Leave(r, "returned")
  /\ UNCHANGED <<store, run, net, given, got>>

\* IO_SEND of m7.
ResponderAnswers(r) ==
  LET me == Responder(r)
  IN  /\ Saved(r, "responder", "uninstall")
      /\ Sent(r, 7, Ingrid, {Signature(me, FreeOf(me, half[r]["responder"].post))})
      /\ Goes(r, "responder", Ended("done"))
      /\ UNCHANGED <<store, run, got, leases>>

\* IO_SEND of m8.
IntermediaryAnswers(r) ==
  LET init == Initiator(r)
  IN  /\ Saved(r, "intermediary", "uninstall")
      /\ Sent(r, 8, init,
              {Signature(Ingrid, FreeOf(init, half[r]["intermediary"].post))})
      /\ Goes(r, "intermediary", Ended("done"))
      /\ UNCHANGED <<store, run, got, leases>>

-----------------------------------------------------------------------------
(* What else happens: the users play, timers fire, things fail.             *)

\* The users take an action: a run of its own on their channel, under the
\* channel's lock.  ChannelProtocols has its steps; here it is one.
TakeAction(va, toAlice) ==
  /\ leases = {}
  /\ va.ver < MaxPlays /\ toAlice # va.toAlice
  /\ store' = [p \in Parties |->
                 IF p = Ingrid THEN store[p]
                 ELSE [store[p] EXCEPT !.ab.apps = (@ \ {va}) \cup
                         {[va EXCEPT !.ver = @ + 1, !.toAlice = toAlice]}]]
  /\ UNCHANGED <<run, half, net, given, got, leases>>

\* No message of run r is on its way and nobody is about to send one.
Quiet(r) == /\ \A m \in net : m.run # r
            /\ \A role \in Roles : half[r][role].pc # "saving"

\* The timer of IO_SEND_AND_WAIT, of a half whose answer is not coming.
Timeout(r, role) ==
  /\ half[r][role].pc \in Waiting
  /\ Quiet(r)
  /\ IF role = "initiator" THEN Leave(r, "threw")
                           ELSE Goes(r, role, Ended("done")) /\ UNCHANGED leases
  /\ UNCHANGED <<store, run, net, given, got>>

\* An answer nobody waits for any more.
IgnoreUnexpected(m) ==
  /\ m.n > 2
  /\ half[m.run][RoleOf(m.run, m.to)].pc # Steps[m.n]
  /\ net' = net \ {m}
  /\ UNCHANGED <<store, run, half, given, got, leases>>

Lose(m) ==
  /\ "loss" \in faults
  /\ net' = net \ {m}
  /\ UNCHANGED <<store, run, half, given, got, leases>>

\* p restarts: its store survives, its halves of the runs do not.  Bound: one
\* restart.
Crash(p) ==
  LET mine(r, role) == PartyOf(r, role) = p /\ Going(half[r][role])
  IN  /\ "crash" \in faults
      /\ \A r \in Runs, role \in Roles : half[r][role].pc # "crashed"
      /\ \E r \in Runs, role \in Roles : mine(r, role)
      /\ half' = [r \in Runs |-> [role \in Roles |->
                    IF mine(r, role) THEN Ended("crashed") ELSE half[r][role]]]
      /\ UNCHANGED <<store, run, net, given, got, leases>>

\* The lease of a run that was lost in a restart ends.
LeaseExpires(r) ==
  /\ ~Going(half[r]["initiator"]) /\ Quiet(r)
  /\ leases' = leases \ {r}
  /\ UNCHANGED <<store, run, half, net, given, got>>

-----------------------------------------------------------------------------

Init ==
  /\ store = [p \in Parties |-> Opening]
  /\ run = [r \in Runs |-> [by |-> Alice, op |-> [kind |-> "none"]]]
  /\ half = [r \in Runs |-> [role \in Roles |-> Idle]]
  /\ net = {} /\ given = {} /\ got = {} /\ leases = {}
  /\ faults \in FaultCases

\* Calls the applications make.
Call ==
  \/ \E r \in Runs, p \in Users : InstallStart(r, p) \/ UninstallStart(r, p)
  \/ \E va \in store[Alice].ab.apps \cap store[Bob].ab.apps :
       \E toAlice \in 0..Pot(va) : TakeAction(va, toAlice)

HandleInstall(m) ==
  \/ IntermediaryForwards(m)
  \/ ResponderSigns(m)
  \/ IntermediaryCommits(m)
  \/ InitiatorActivates(m)
  \/ IntermediaryActivates(m)
  \/ ResponderActivates(m)
  \/ IntermediaryFinishes(m)
  \/ InitiatorFinishes(m)

HandleUninstall(m) ==
  \/ IntermediaryFixes(m)
  \/ ResponderFixes(m)
  \/ IntermediaryHasFixed(m)
  \/ InitiatorFrees(m)
  \/ IntermediaryFrees(m)
  \/ ResponderFrees(m)
  \/ IntermediaryHasFreed(m)
  \/ InitiatorHasFreed(m)

Receive(m) == HandleInstall(m) \/ HandleUninstall(m) \/ IgnoreUnexpected(m)

Go(r) ==
  \/ \E role \in Roles : SaveChannel(r, role) \/ Timeout(r, role)
  \/ InstallReturns(r)
  \/ ResponderCleansUp(r)
  \/ IntermediaryEnds(r)
  \/ UninstallReturns(r)
  \/ ResponderAnswers(r)
  \/ IntermediaryAnswers(r)

Step ==
  \/ Call
  \/ \E m \in net : Receive(m) \/ Lose(m)
  \/ \E r \in Runs : Go(r)
  \/ \E r \in leases : LeaseExpires(r)
  \/ \E p \in Parties : Crash(p)

Next == Step /\ UNCHANGED faults

Spec == Init /\ [][Next]_vars

-----------------------------------------------------------------------------
(* Types.                                                                   *)

PassCommitment ==
  [kind : {"pass"}, id : Nat, target : Nat, final : BOOLEAN, toAlice : Nat,
   ver : Nat]

Commitment ==
  [kind : {"freeBalance"}, link : Users, ver : Nat, user : Nat, hub : Nat,
   active : SUBSET Nat]
  \cup [kind : {"agreement"}, link : Users, pass : Nat, capital : Nat]
  \cup PassCommitment
  \cup [kind : {"virtual"}, id : Nat, ver : Nat, toAlice : Nat]

Signatures == [by : Parties, c : Commitment]

TypeOK ==
  /\ store \in [Parties -> Channels]
  /\ DOMAIN run = Runs /\ DOMAIN half = Runs
  /\ \A r \in Runs : run[r].by \in Users
  /\ \A r \in Runs : half[r] \in
       [Roles -> [pc : Waiting \cup {"idle", "saving", "returned", "threw",
                                     "done", "crashed"},
                  post : Channels, pass : PassCommitment,
                  left : Seq(Users \cup {"ab", "abi"})]]
  /\ \A m \in net : /\ m.run \in Runs /\ m.n \in 1..8 /\ m.to \in Parties
                    /\ m.sigs \subseteq Signatures
  /\ leases \subseteq Runs
  /\ faults \in FaultCases

-----------------------------------------------------------------------------
(* Safety.                                                                  *)

\* In the order the code signs in: when Ingrid gives her signature on the new free
\* balance of one user's link, the other user's on its own has come in, in the
\* same run.
FreesWhenCovered ==
  \A g \in given :
    g.by = Ingrid /\ g.c.kind = "freeBalance" =>
      \E o \in got : /\ o.run = g.run /\ o.to = Ingrid
                     /\ o.by = Other(g.c.link)
                     /\ o.c.kind = "freeBalance" /\ o.c.link = Other(g.c.link)

\* And when she gives it on the agreement of one link, the other user's has come in
\* on an agreement of the other link that pays the same capital by the outcome of
\* the same pass-through app.
AgreesWhenCovered ==
  \A g \in given :
    g.by = Ingrid /\ g.c.kind = "agreement" =>
      \E o \in got : /\ o.run = g.run /\ o.to = Ingrid
                     /\ o.by = Other(g.c.link)
                     /\ o.c.kind = "agreement" /\ o.c.link = Other(g.c.link)
                     /\ o.c.pass = g.c.pass /\ o.c.capital = g.c.capital

\* Ingrid never moves her stake on a link first.  This is about what she had been
\* given WHEN she signed, not about what she still has later: the signatures she
\* gets are in the memory of her half, which a restart or a timer ends, and the
\* first free balance with both signatures is written after m5, in an
\* uninstallation none.
SignsWhenCovered == FreesWhenCovered /\ AgreesWhenCovered

Capital(c) == MapThenSumSet(LAMBDA a : a.capital, c.agr)

LinkWorth(c) == c.user + c.hub + Capital(c)

\* What Ingrid owns when her two links carry the same agreements: what an app
\* takes from her on one link comes back to her on the other.
HubWorth(links) == links[Alice].hub + links[Bob].hub + Capital(links[Alice])

\* An install is called again only after it threw.  The removal of the proposal,
\* a write of its own, does not see to that: a restart can come before it, and
\* an older run's channel can be written after it and bring the proposal back.
\* The stakes are then taken a second time for one agreement.
OnlyRetries ==
  \A r, s \in Runs :
    r < s /\ run[r].op.kind = "install" /\ run[s].op = run[r].op =>
      half[r]["initiator"].pc = "threw"

\* Mediating costs Ingrid nothing and brings her nothing, whatever the users
\* play and wherever messages are lost between eight signatures and six writes.
MediatorNeutral ==
  LET links == store[Ingrid].link
  IN  OnlyRetries /\ links[Alice].agr = links[Bob].agr =>
        HubWorth(links) = HubWorth(Opening.link)

\* No link creates or loses money, in the books of either of its parties: what
\* an agreement holds has left the balances once and comes back once, also when
\* an install that threw is called again.
LinksBalance ==
  OnlyRetries =>
    \A p \in Parties : \A u \in LinksOf(p) :
      LinkWorth(store[p].link[u]) = LinkWorth(Opening.link[u])

=============================================================================
