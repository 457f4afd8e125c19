------------------------- MODULE VirtualAppsProofs -------------------------
(***************************************************************************)
(* Proofs about VirtualApps.                                                *)
(*                                                                          *)
(* Mediation: the intermediary never signs her stake on one link away       *)
(* without what she needs to move it on the other (IInv).                   *)
(*                                                                          *)
(* Books: while nobody restarts, no link gains or loses, and neither does   *)
(* the intermediary (Sound). Base says where a run can be; NoDup where an    *)
(* agreement comes from; Books what is persisted and what is computed is     *)
(* worth. An early run, of which nobody has persisted anything, was either   *)
(* computed by all three from what they keep now (AllFresh), or its drafts   *)
(* have versions that its messages will not let pass (D1, D2, D3). A late    *)
(* run succeeds unless mail is lost, so its drafts are all the same and next. *)
(***************************************************************************)
EXTENDS VirtualApps, Sums, TLAPS

\* The other user's signature on the free balance of its own link is there.
HasFree(r, u, G) ==
  \E o \in G : /\ o.run = r /\ o.to = Ingrid /\ o.by = u
               /\ o.c.kind = "freeBalance" /\ o.c.link = u

\* The halves are where the actions look for them, and each carries a state
\* of a pass-through app.
Shape ==
  /\ run = [r \in Runs |-> run[r]] /\ half = [r \in Runs |-> half[r]]
  /\ \A r \in Runs : /\ run[r].by \in Users
                     /\ half[r] = [role \in Roles |-> half[r][role]]
  /\ \A r \in Runs, role \in Roles : half[r][role].pass.kind = "pass"
  /\ \A m \in net : m.run \in Runs

\* What is going on in a run belongs to a run that has been started.
Begun ==
  \A r \in Runs : half[r]["initiator"].pc = "idle" =>
    /\ \A role \in Roles : half[r][role].pc = "idle"
    /\ \A m \in net : m.run # r

\* Ingrid only frees the two links with the responder's signature at hand.
FreesWith ==
  \A r \in Runs :
    half[r]["intermediary"].pc = "saving" /\ run[r].op.kind = "uninstall"
      => HasFree(r, Responder(r), got)

\* A signature the intermediary may have given.
Harmless(g, G) ==
  g.by = Ingrid /\ g.c.kind = "freeBalance" => HasFree(g.run, Other(g.c.link), G)

IInv == Shape /\ Begun /\ FreesWith /\ FreesWhenCovered

LEMMA CoveredIsHarmless == FreesWhenCovered <=> \A g \in given : Harmless(g, got)
  BY DEF FreesWhenCovered, Harmless, HasFree

LEMMA OtherTwice ==
  ASSUME NEW u \in Users
  PROVE  Other(u) \in Users /\ Other(Other(u)) = u /\ u # Ingrid /\ Other(u) # Ingrid
  BY VirtualConstants DEF Other, Users

LEMMA MoreIsHarmless ==
  ASSUME NEW G, NEW H, G \subseteq H, NEW g, Harmless(g, G)
  PROVE  Harmless(g, H)
  BY DEF Harmless, HasFree

\* What a step of one half of a run r that has begun must establish.
LEMMA HalfStep ==
  ASSUME IInv, NEW r \in Runs, NEW role \in Roles, NEW h,
         half' = [half EXCEPT ![r][role] = h],
         h.pc # "idle", h.pass.kind = "pass",
         role # "initiator" => half[r]["initiator"].pc # "idle",
         UNCHANGED run,
         \A m \in net' : m \in net \/ m.run = r,
         got \subseteq got',
         \A g \in given' : g \in given \/ Harmless(g, got'),
         role = "intermediary" /\ h.pc = "saving" /\ run[r].op.kind = "uninstall"
           => HasFree(r, Responder(r), got')
  PROVE  IInv'
<1> USE DEF IInv
<1>1. \A s \in Runs, x \in Roles :
        half'[s][x] = IF s = r /\ x = role THEN h ELSE half[s][x]
  BY DEF Shape
<1>2. Shape'
  <2>1. run' = [s \in Runs |-> run'[s]] /\ \A s \in Runs : run'[s].by \in Users
    BY DEF Shape
  <2>2. half' = [s \in Runs |-> half'[s]]
    BY DEF Shape
  <2>3. \A s \in Runs : half'[s] = [x \in Roles |-> half'[s][x]]
    BY DEF Shape
  <2>4. \A s \in Runs, x \in Roles : half'[s][x].pass.kind = "pass"
    BY <1>1 DEF Shape
  <2>5. \A m \in net' : m.run \in Runs
    BY DEF Shape
  <2> QED
    BY <2>1, <2>2, <2>3, <2>4, <2>5 DEF Shape
<1>3. Begun'
  <2> SUFFICES ASSUME NEW s \in Runs, half'[s]["initiator"].pc = "idle"
               PROVE  (\A x \in Roles : half'[s][x].pc = "idle")
                      /\ \A m \in net' : m.run # s
    BY DEF Begun
  <2>1. s # r
    BY <1>1 DEF Roles
  <2>2. half[s]["initiator"].pc = "idle"
    BY <1>1, <2>1 DEF Roles
  <2> QED
    BY <1>1, <2>1, <2>2 DEF Begun, Roles
<1>4. FreesWith'
  <2> SUFFICES ASSUME NEW s \in Runs, half'[s]["intermediary"].pc = "saving",
                      run[s].op.kind = "uninstall"
               PROVE  HasFree(s, Responder(s), got')
    BY DEF FreesWith, Responder
  <2>1. CASE s = r /\ role = "intermediary"
    BY <1>1, <2>1 DEF Roles
  <2>2. CASE ~(s = r /\ role = "intermediary")
    <3>1. HasFree(s, Responder(s), got)
      BY <1>1, <2>2 DEF FreesWith, Roles
    <3> QED
      BY <3>1 DEF HasFree
  <2> QED
    BY <2>1, <2>2
<1>5. FreesWhenCovered'
  <2>1. \A g \in given' : Harmless(g, got')
    BY CoveredIsHarmless, MoreIsHarmless
  <2> QED
    BY <2>1 DEF FreesWhenCovered, Harmless, HasFree
<1> QED
  BY <1>2, <1>3, <1>4, <1>5

\* Half `role` of run r throws, times out or is over.
LEMMA EndStep ==
  ASSUME IInv, NEW r \in Runs, NEW role \in Roles,
         NEW how \in {"threw", "done", "returned", "crashed"},
         half' = [half EXCEPT ![r][role] = Ended(how)],
         role # "initiator" => half[r]["initiator"].pc # "idle",
         UNCHANGED <<run, given>>, net' \subseteq net, got \subseteq got'
  PROVE  IInv'
<1>1. Ended(how).pc = how /\ Ended(how).pass.kind = "pass"
  BY DEF Ended, NoPass, SetPass
<1>2. \A g \in given' : g \in given \/ Harmless(g, got')
  OBVIOUS
<1> QED
  BY <1>1, <1>2, HalfStep

\* A message only goes to a half of a run that has begun.
LEMMA MessageOfRun ==
  ASSUME IInv, NEW m \in net
  PROVE  m.run \in Runs /\ half[m.run]["initiator"].pc # "idle"
  BY DEF IInv, Shape, Begun

LEMMA ThrowStep ==
  ASSUME IInv, NEW m \in net, NEW role \in Roles, Received(m, role),
         Throws(m, role)
  PROVE  IInv'
<1>1. \E how \in {"threw", "done", "returned", "crashed"} :
        half' = [half EXCEPT ![m.run][role] = Ended(how)]
  BY DEF Throws, Leave, Goes
<1> QED
  BY <1>1, EndStep, MessageOfRun DEF Throws, Received

LEMMA MarkedIsHarmless ==
  ASSUME NEW r, NEW to, NEW sigs, NEW G,
         \A s \in sigs : s.by = Ingrid /\ s.c.kind = "freeBalance"
                           => HasFree(r, Other(s.c.link), G)
  PROVE  \A g \in Marked(r, to, sigs) : Harmless(g, G)
  BY DEF Marked, Harmless

\* The half that plays `role` answers message m with `sigs`.
LEMMA AnswerStep ==
  ASSUME IInv, NEW m \in net, NEW role \in Roles, NEW n, NEW to, NEW sigs, NEW h,
         Received(m, role), Answered(m, n, to, sigs), Goes(m.run, role, h),
         UNCHANGED run,
         h.pc # "idle", h.pass.kind = "pass",
         role = "intermediary" /\ h.pc = "saving" => run[m.run].op.kind # "uninstall",
         \A s \in sigs : s.by = Ingrid /\ s.c.kind = "freeBalance"
                           => HasFree(m.run, Other(s.c.link), got')
  PROVE  IInv'
<1>1. \A x \in net' : x \in net \/ x.run = m.run
  BY DEF Answered
<1>2. got \subseteq got'
  BY DEF Received
<1>3. \A g \in given' : g \in given \/ Harmless(g, got')
  BY MarkedIsHarmless DEF Answered
<1> QED
  BY <1>1, <1>2, <1>3, HalfStep, MessageOfRun DEF Goes

\* The users' signatures are nobody's concern.
LEMMA UsersAnswer ==
  ASSUME IInv, NEW m \in net, NEW role \in {"initiator", "responder"},
         NEW n, NEW to, NEW sigs, NEW h,
         Received(m, role), Answered(m, n, to, sigs), Goes(m.run, role, h),
         UNCHANGED run, h.pc # "idle", h.pass.kind = "pass",
         \A s \in sigs : s.by \in {Initiator(m.run), Responder(m.run)}
  PROVE  IInv'
<1>1. Initiator(m.run) # Ingrid /\ Responder(m.run) # Ingrid
  BY OtherTwice, MessageOfRun DEF IInv, Shape, Initiator, Responder
<1> QED
  BY <1>1, AnswerStep DEF Roles

LEMMA StoresStep ==
  ASSUME IInv, NEW m \in net, NEW role \in Roles, NEW left,
         Received(m, role), net' = net \ {m},
         Goes(m.run, role, Saving(half[m.run][role], left)),
         UNCHANGED <<run, given>>,
         role = "intermediary" => HasFree(m.run, Responder(m.run), got')
  PROVE  IInv'
<1>1. LET h == Saving(half[m.run][role], left)
      IN  h.pc = "saving" /\ h.pass.kind = "pass"
  BY MessageOfRun DEF Saving, IInv, Shape
<1> QED
  BY <1>1, HalfStep, MessageOfRun DEF Goes, Received

\* What a half has received counts.
LEMMA ReceivedFree ==
  ASSUME NEW m, NEW u, NEW post, Received(m, "intermediary"),
         Signature(u, FreeOf(u, post)) \in m.sigs
  PROVE  HasFree(m.run, u, got')
<1> DEFINE o == [run |-> m.run, by |-> u, to |-> Ingrid, c |-> FreeOf(u, post)]
<1>1. PartyOf(m.run, "intermediary") = Ingrid
  BY DEF PartyOf
<1>2. o \in Marked(m.run, Ingrid, m.sigs)
  BY DEF Marked, Signature
<1>3. FreeOf(u, post).kind = "freeBalance" /\ FreeOf(u, post).link = u
  BY DEF FreeOf, SetFreeBalance
<1> QED
  BY <1>1, <1>2, <1>3 DEF Received, HasFree

LEMMA Kinds ==
  ASSUME NEW r, NEW u, NEW post
  PROVE  /\ CondOf(r, u, post).kind = "agreement"
         /\ FreeOf(u, post).kind = "freeBalance" /\ FreeOf(u, post).link = u
  BY DEF CondOf, Conditional, FreeOf, SetFreeBalance

-----------------------------------------------------------------------------
(* One lemma per action.                                                    *)

LEMMA StartStep ==
  ASSUME IInv, NEW r \in Runs, NEW p \in Users, NEW op, NEW post, NEW pass, NEW c,
         Start(r, p, op, post, pass), pass.kind = "pass",
         Sent(r, 1, Ingrid, {Signature(p, c)})
  PROVE  IInv'
<1> USE DEF IInv
<1> DEFINE h == Waits("wait4", post, pass)
<1>1. h.pc = "wait4" /\ h.pass = pass
  BY DEF Waits
<1> HIDE DEF h
<1>2. \A s \in Runs, x \in Roles :
        half'[s][x] = IF s = r /\ x = "initiator" THEN h ELSE half[s][x]
  BY DEF Shape, Start, Goes, h
<1>3. \A s \in Runs : run'[s] = IF s = r THEN [by |-> p, op |-> op] ELSE run[s]
  BY DEF Shape, Start
<1>4. \A m \in net' : m \in net \/ m.run = r
  BY DEF Sent
<1>5. /\ \A x \in Roles : half[r][x].pc = "idle"
      /\ half[r]["initiator"].pc = "idle"
  BY DEF Begun, Start
<1>6. Shape'
  <2>1. run' = [s \in Runs |-> run'[s]] /\ half' = [s \in Runs |-> half'[s]]
    BY DEF Shape, Start, Goes
  <2>2. \A s \in Runs : half'[s] = [x \in Roles |-> half'[s][x]]
    BY DEF Shape, Start, Goes
  <2>3. \A s \in Runs : run'[s].by \in Users
    BY <1>3 DEF Shape
  <2>4. \A s \in Runs, x \in Roles : half'[s][x].pass.kind = "pass"
    BY <1>1, <1>2 DEF Shape
  <2>5. \A m \in net' : m.run \in Runs
    BY <1>4 DEF Shape
  <2> QED
    BY <2>1, <2>2, <2>3, <2>4, <2>5 DEF Shape
<1>7. Begun'
  <2> SUFFICES ASSUME NEW s \in Runs, half'[s]["initiator"].pc = "idle"
               PROVE  (\A x \in Roles : half'[s][x].pc = "idle")
                      /\ \A m \in net' : m.run # s
    BY DEF Begun
  <2>1. s # r
    BY <1>1, <1>2 DEF Roles
  <2>2. half[s]["initiator"].pc = "idle"
    BY <1>2, <2>1 DEF Roles
  <2> QED
    BY <1>2, <1>4, <2>1, <2>2 DEF Begun
<1>8. FreesWith'
  <2> SUFFICES ASSUME NEW s \in Runs, half'[s]["intermediary"].pc = "saving",
                      run'[s].op.kind = "uninstall"
               PROVE  HasFree(s, Responder(s)', got')
    BY DEF FreesWith
  <2>1. half[s]["intermediary"].pc = "saving"
    BY <1>2 DEF Roles
  <2>2. s # r
    BY <1>5, <2>1 DEF Roles
  <2>3. run'[s] = run[s] /\ got' = got
    BY <1>3, <2>2 DEF Start
  <2> QED
    BY <2>1, <2>3 DEF FreesWith, Responder
<1>9. FreesWhenCovered'
  <2>1. p # Ingrid
    BY OtherTwice
  <2>2. \A g \in given' : g \in given \/ Harmless(g, got')
    BY <2>1 DEF Sent, Marked, Signature, Harmless
  <2>3. \A g \in given' : Harmless(g, got')
    BY <2>2, CoveredIsHarmless DEF Start
  <2> QED
    BY <2>3 DEF FreesWhenCovered, Harmless, HasFree
<1> QED
  BY <1>6, <1>7, <1>8, <1>9

LEMMA StartSteps ==
  ASSUME IInv, NEW r \in Runs, NEW p \in Users,
         InstallStart(r, p) \/ UninstallStart(r, p)
  PROVE  IInv'
<1>1. CASE InstallStart(r, p)
  <2>1. PICK q \in store[p].ab.props :
          LET post == InstalledByUser(p, q)
          IN  /\ Start(r, p, [kind |-> "install", q |-> q], post, NewPassState(post))
              /\ Sent(r, 1, Ingrid, {Signature(p, Conditional(p, post.link[p], q.id))})
    BY <1>1 DEF InstallStart
  <2>2. NewPassState(InstalledByUser(p, q)).kind = "pass"
    BY DEF NewPassState, SetPass
  <2> QED
    BY <2>1, <2>2, StartStep
<1>2. CASE UninstallStart(r, p)
  <2>1. PICK va \in store[p].ab.apps :
          LET op   == [kind |-> "uninstall", app |-> va.id, toAlice |-> va.toAlice]
          IN  /\ Start(r, p, op, UninstalledByUser(p, op), FinalPass(p, p, op))
              /\ Sent(r, 1, Ingrid, {Signature(p, FinalPass(p, p, op))})
    BY <1>2 DEF UninstallStart
  <2>2. \A op : FinalPass(p, p, op).kind = "pass"
    BY DEF FinalPass, SetPass
  <2> QED
    BY <2>1, <2>2, StartStep
<1> QED
  BY <1>1, <1>2

\* The first segment of Ingrid's half gives nothing on a free balance.
LEMMA IntermediaryForwardsStep ==
  ASSUME IInv, NEW m \in net, IntermediaryForwards(m)
  PROVE  IInv'
<1> DEFINE r    == m.run
           post == InstalledByIngrid(run[r].op.q)
           h    == Waits("wait3", post, NewPassState(post))
           sigs == {Signature(Ingrid, CondOf(r, Responder(r), post))}
<1>1. h.pc = "wait3" /\ h.pass.kind = "pass"
  BY DEF Waits, NewPassState, SetPass
<1>2. \A s \in sigs : s.c.kind = "agreement"
  BY Kinds DEF Signature
<1>3. \/ Throws(m, "intermediary")
      \/ Answered(m, m.n + 1, Responder(r), sigs) /\ Goes(r, "intermediary", h)
           /\ UNCHANGED run
  BY DEF IntermediaryForwards, Segment, Throws
<1>4. Received(m, "intermediary")
  BY DEF IntermediaryForwards, Segment
<1> HIDE DEF h, sigs
<1> QED
  BY <1>1, <1>2, <1>3, <1>4, ThrowStep, AnswerStep DEF Roles

LEMMA ResponderSignsStep ==
  ASSUME IInv, NEW m \in net, ResponderSigns(m)
  PROVE  IInv'
<1> DEFINE r    == m.run
           me   == Responder(r)
           post == InstalledByUser(me, run[r].op.q)
           h    == Waits("wait6", post, NewPassState(post))
           sigs == Commits(me, r, me, post)
<1>1. h.pc = "wait6" /\ h.pass.kind = "pass"
  BY DEF Waits, NewPassState, SetPass
<1>2. \A s \in sigs : s.by = me
  BY DEF Signature, Commits
<1>3. \/ Throws(m, "responder")
      \/ Answered(m, m.n + 1, Ingrid, sigs) /\ Goes(r, "responder", h)
           /\ UNCHANGED run
  BY DEF ResponderSigns, Segment
<1>4. Received(m, "responder")
  BY DEF ResponderSigns, Segment
<1> HIDE DEF h, sigs
<1> QED
  BY <1>1, <1>2, <1>3, <1>4, ThrowStep, UsersAnswer DEF Roles

\* m4 gives the initiator's free balance for the responder's, just received.
LEMMA IntermediaryCommitsStep ==
  ASSUME IInv, NEW m \in net, IntermediaryCommits(m)
  PROVE  IInv'
<1> DEFINE r    == m.run
           k    == half[r]["intermediary"]
           h    == Waits("wait5", k.post, k.pass)
           sigs == Commits(Ingrid, r, Initiator(r), k.post)
<1>1. Received(m, "intermediary")
  BY DEF IntermediaryCommits, Segment
<1>2. CASE Throws(m, "intermediary")
  BY <1>1, <1>2, ThrowStep DEF Roles
<1>3. CASE ~Throws(m, "intermediary")
  <2>1. /\ Commits(Responder(r), r, Responder(r), k.post) \subseteq m.sigs
        /\ Answered(m, m.n + 1, Initiator(r), sigs)
        /\ Goes(r, "intermediary", h) /\ UNCHANGED run
    BY <1>3 DEF IntermediaryCommits, Segment
  <2>2. HasFree(r, Responder(r), got')
    BY <1>1, <2>1, ReceivedFree DEF Commits
  <2>3. \A s \in sigs : s.c.kind = "freeBalance" => s.c.link = Initiator(r)
    BY Kinds DEF Commits, Signature
  <2>4. Responder(r) = Other(Initiator(r))
    BY DEF Responder, Initiator
  <2>5. h.pc = "wait5" /\ h.pass.kind = "pass"
    BY MessageOfRun DEF Waits, IInv, Shape, Roles
  <2> HIDE DEF h, sigs
  <2> QED
    BY <1>1, <2>1, <2>2, <2>3, <2>4, <2>5, AnswerStep DEF Roles
<1> QED
  BY <1>2, <1>3

LEMMA InitiatorActivatesStep ==
  ASSUME IInv, NEW m \in net, InitiatorActivates(m)
  PROVE  IInv'
<1> DEFINE r    == m.run
           me   == Initiator(r)
           k    == half[r]["initiator"]
           h    == Waits("wait8", k.post, k.pass)
           sigs == {Signature(me, FreeOf(me, k.post)), Signature(me, k.pass),
                    Signature(me, NewVirtualState(r, k.post))}
<1>1. Received(m, "initiator")
  BY DEF InitiatorActivates, Segment
<1>2. \/ Throws(m, "initiator")
      \/ Answered(m, m.n + 1, Ingrid, sigs) /\ Goes(r, "initiator", h)
           /\ UNCHANGED run
  BY DEF InitiatorActivates, Segment
<1>3. h.pc # "idle" /\ h.pass.kind = "pass"
  BY MessageOfRun DEF Waits, IInv, Shape, Roles
<1>4. \A s \in sigs : s.by = me
  BY DEF Signature
<1> HIDE DEF h, sigs
<1> QED
  BY <1>1, <1>2, <1>3, <1>4, ThrowStep, UsersAnswer DEF Roles

LEMMA ResponderActivatesStep ==
  ASSUME IInv, NEW m \in net, ResponderActivates(m)
  PROVE  IInv'
<1> DEFINE r    == m.run
           me   == Responder(r)
           k    == half[r]["responder"]
           h    == Saving(k, <<me, "abi", "ab">>)
           sigs == {Signature(me, k.pass),
                    Signature(me, NewVirtualState(r, k.post))}
<1>1. Received(m, "responder")
  BY DEF ResponderActivates, Segment
<1>2. \/ Throws(m, "responder")
      \/ Answered(m, m.n + 1, Ingrid, sigs) /\ Goes(r, "responder", h)
           /\ UNCHANGED run
  BY DEF ResponderActivates, Segment
<1>3. h.pc # "idle" /\ h.pass.kind = "pass"
  BY MessageOfRun DEF Saving, IInv, Shape, Roles
<1>4. \A s \in sigs : s.by = me
  BY DEF Signature
<1> HIDE DEF h, sigs
<1> QED
  BY <1>1, <1>2, <1>3, <1>4, ThrowStep, UsersAnswer DEF Roles

LEMMA ResponderFixesStep ==
  ASSUME IInv, NEW m \in net, ResponderFixes(m)
  PROVE  IInv'
<1> DEFINE r    == m.run
           me   == Responder(r)
           k    == half[r]["responder"]
           h    == Waits("wait6", UninstalledByUser(me, run[r].op),
                          FinalPass(me, me, run[r].op))
           sigs == {Signature(me, FinalPass(me, me, run[r].op))}
<1>1. Received(m, "responder")
  BY DEF ResponderFixes, Segment
<1>2. \/ Throws(m, "responder")
      \/ Answered(m, m.n + 1, Ingrid, sigs) /\ Goes(r, "responder", h)
           /\ UNCHANGED run
  BY DEF ResponderFixes, Segment
<1>3. h.pc # "idle" /\ h.pass.kind = "pass"
  BY DEF Waits, FinalPass, SetPass
<1>4. \A s \in sigs : s.by = me
  BY DEF Signature
<1> HIDE DEF h, sigs
<1> QED
  BY <1>1, <1>2, <1>3, <1>4, ThrowStep, UsersAnswer DEF Roles

LEMMA InitiatorFreesStep ==
  ASSUME IInv, NEW m \in net, InitiatorFrees(m)
  PROVE  IInv'
<1> DEFINE r    == m.run
           me   == Initiator(r)
           k    == half[r]["initiator"]
           h    == Waits("wait8", k.post, k.pass)
           sigs == {Signature(me, FreeOf(me, k.post))}
<1>1. Received(m, "initiator")
  BY DEF InitiatorFrees, Segment
<1>2. \/ Throws(m, "initiator")
      \/ Answered(m, m.n + 1, Ingrid, sigs) /\ Goes(r, "initiator", h)
           /\ UNCHANGED run
  BY DEF InitiatorFrees, Segment
<1>3. h.pc # "idle" /\ h.pass.kind = "pass"
  BY MessageOfRun DEF Waits, IInv, Shape, Roles
<1>4. \A s \in sigs : s.by = me
  BY DEF Signature
<1> HIDE DEF h, sigs
<1> QED
  BY <1>1, <1>2, <1>3, <1>4, ThrowStep, UsersAnswer DEF Roles

LEMMA InitiatorFinishesStep ==
  ASSUME IInv, NEW m \in net, InitiatorFinishes(m)
  PROVE  IInv'
<1> DEFINE left == <<Initiator(m.run), "ab", "abi">>
<1>1. Received(m, "initiator")
  BY DEF InitiatorFinishes, Stores
<1>2. \/ Throws(m, "initiator")
      \/ /\ net' = net \ {m}
         /\ Goes(m.run, "initiator", Saving(half[m.run]["initiator"], left))
         /\ UNCHANGED <<run, given>>
  BY DEF InitiatorFinishes, Stores
<1> HIDE DEF left
<1> QED
  BY <1>1, <1>2, ThrowStep, StoresStep DEF Roles

LEMMA ResponderFreesStep ==
  ASSUME IInv, NEW m \in net, ResponderFrees(m)
  PROVE  IInv'
<1> DEFINE left == <<"ab", "abi", Responder(m.run)>>
<1>1. Received(m, "responder")
  BY DEF ResponderFrees, Stores
<1>2. \/ Throws(m, "responder")
      \/ /\ net' = net \ {m}
         /\ Goes(m.run, "responder", Saving(half[m.run]["responder"], left))
         /\ UNCHANGED <<run, given>>
  BY DEF ResponderFrees, Stores
<1> HIDE DEF left
<1> QED
  BY <1>1, <1>2, ThrowStep, StoresStep DEF Roles

LEMMA InitiatorHasFreedStep ==
  ASSUME IInv, NEW m \in net, InitiatorHasFreed(m)
  PROVE  IInv'
<1> DEFINE left == <<Initiator(m.run), "abi", "ab">>
<1>1. Received(m, "initiator")
  BY DEF InitiatorHasFreed, Stores
<1>2. \/ Throws(m, "initiator")
      \/ /\ net' = net \ {m}
         /\ Goes(m.run, "initiator", Saving(half[m.run]["initiator"], left))
         /\ UNCHANGED <<run, given>>
  BY DEF InitiatorHasFreed, Stores
<1> HIDE DEF left
<1> QED
  BY <1>1, <1>2, ThrowStep, StoresStep DEF Roles

\* m6 gives the responder's free balance for the initiator's, just received:
\* both when installing and when uninstalling.
LEMMA IntermediaryActivatesStep ==
  ASSUME IInv, NEW m \in net, IntermediaryActivates(m) \/ IntermediaryFrees(m)
  PROVE  IInv'
<1> DEFINE r    == m.run
           k    == half[r]["intermediary"]
           h    == Waits("wait7", k.post, k.pass)
           init == Initiator(r)
           resp == Responder(r)
           free == {Signature(Ingrid, FreeOf(resp, k.post))}
           relayed == {s \in m.sigs : s.by = init /\ s.c.kind # "freeBalance"}
           sigs == free \cup {Signature(Ingrid, k.pass)} \cup relayed
<1>1. Received(m, "intermediary")
  BY DEF IntermediaryActivates, IntermediaryFrees, Segment
<1>2. CASE Throws(m, "intermediary")
  BY <1>1, <1>2, ThrowStep DEF Roles
<1>3. CASE ~Throws(m, "intermediary")
  <2>1. PICK S \in SUBSET sigs :
          /\ Signature(init, FreeOf(init, k.post)) \in m.sigs
          /\ Answered(m, m.n + 1, resp, S)
          /\ Goes(r, "intermediary", h) /\ UNCHANGED run
    <3>1. CASE IntermediaryActivates(m)
      <4>1. /\ Signature(init, FreeOf(init, k.post)) \in m.sigs
            /\ Answered(m, m.n + 1, resp,
                 {Signature(Ingrid, FreeOf(resp, k.post)), Signature(Ingrid, k.pass)}
                   \cup relayed)
            /\ Goes(r, "intermediary", h) /\ UNCHANGED run
        BY <1>3, <3>1 DEF IntermediaryActivates, Segment
      <4>2. {Signature(Ingrid, FreeOf(resp, k.post)), Signature(Ingrid, k.pass)}
              \cup relayed \in SUBSET sigs
        OBVIOUS
      <4> QED
        BY <4>1, <4>2
    <3>2. CASE IntermediaryFrees(m)
      <4>1. /\ Signature(init, FreeOf(init, k.post)) \in m.sigs
            /\ Answered(m, m.n + 1, resp, free)
            /\ Goes(r, "intermediary", h) /\ UNCHANGED run
        BY <1>3, <3>2 DEF IntermediaryFrees, Segment
      <4> QED
        BY <4>1
    <3> QED
      BY <3>1, <3>2
  <2>2. HasFree(r, init, got')
    BY <1>1, <2>1, ReceivedFree
  <2>3. k.pass.kind = "pass"
    BY MessageOfRun DEF IInv, Shape, Roles
  <2>4. \A s \in S : s.by = Ingrid /\ s.c.kind = "freeBalance" => s.c.link = resp
    <3>1. init # Ingrid
      BY OtherTwice, MessageOfRun DEF IInv, Shape, Initiator
    <3> QED
      BY <2>3, <3>1, Kinds DEF Signature
  <2>5. Other(resp) = init
    BY OtherTwice, MessageOfRun DEF IInv, Shape, Initiator, Responder
  <2>6. h.pc = "wait7" /\ h.pass.kind = "pass"
    BY <2>3 DEF Waits
  <2> HIDE DEF h, sigs
  <2> QED
    BY <1>1, <2>1, <2>2, <2>4, <2>5, <2>6, AnswerStep DEF Roles
<1> QED
  BY <1>2, <1>3

LEMMA IntermediaryFinishesStep ==
  ASSUME IInv, NEW m \in net, IntermediaryFinishes(m)
  PROVE  IInv'
<1> DEFINE r    == m.run
           k    == half[r]["intermediary"]
           resp == Responder(r)
           h    == Saving(k, <<"abi", resp, Initiator(r)>>)
           sigs == {s \in m.sigs : s.by = resp} \cup {Signature(Ingrid, k.pass)}
<1>1. Received(m, "intermediary")
  BY DEF IntermediaryFinishes, Segment
<1>2. \/ Throws(m, "intermediary")
      \/ Answered(m, m.n + 1, Initiator(r), sigs) /\ Goes(r, "intermediary", h)
           /\ UNCHANGED run
  BY DEF IntermediaryFinishes, Segment
<1>3. k.pass.kind = "pass" /\ resp # Ingrid
  BY OtherTwice, MessageOfRun DEF IInv, Shape, Roles, Responder
<1>4. \A s \in sigs : ~(s.by = Ingrid /\ s.c.kind = "freeBalance")
  BY <1>3 DEF Signature
<1>5. h.pc = "saving" /\ h.pass.kind = "pass"
  BY <1>3 DEF Saving
<1>6. run[r].op.kind # "uninstall"
  BY DEF IntermediaryFinishes, Handles
<1> HIDE DEF h, sigs
<1> QED
  BY <1>1, <1>2, <1>4, <1>5, <1>6, ThrowStep, AnswerStep DEF Roles

LEMMA IntermediaryFixesStep ==
  ASSUME IInv, NEW m \in net, IntermediaryFixes(m)
  PROVE  IInv'
<1> DEFINE r    == m.run
           k    == half[r]["intermediary"]
           pass == FinalPass(Ingrid, Initiator(r), run[r].op)
           h    == Waits("wait3", UninstalledByIngrid(Initiator(r), run[r].op), pass)
           sigs == Both(Initiator(r), Ingrid, pass)
<1>1. Received(m, "intermediary")
  BY DEF IntermediaryFixes, Segment
<1>2. \/ Throws(m, "intermediary")
      \/ Answered(m, m.n + 1, Responder(r), sigs) /\ Goes(r, "intermediary", h)
           /\ UNCHANGED run
  BY DEF IntermediaryFixes, Segment
<1>3. pass.kind = "pass"
  BY DEF FinalPass, SetPass
<1>4. \A s \in sigs : s.c.kind = "pass"
  BY <1>3 DEF Signature, Both
<1>5. h.pc \in {"wait3", "wait5"} /\ h.pass.kind = "pass"
  BY <1>3 DEF Waits
<1> HIDE DEF h, sigs
<1> QED
  BY <1>1, <1>2, <1>4, <1>5, ThrowStep, AnswerStep DEF Roles

LEMMA IntermediaryHasFixedStep ==
  ASSUME IInv, NEW m \in net, IntermediaryHasFixed(m)
  PROVE  IInv'
<1> DEFINE r    == m.run
           k    == half[r]["intermediary"]
           pass == k.pass
           h    == Waits("wait5", k.post, pass)
           sigs == Both(Responder(r), Ingrid, pass)
<1>1. Received(m, "intermediary")
  BY DEF IntermediaryHasFixed, Segment
<1>2. \/ Throws(m, "intermediary")
      \/ Answered(m, m.n + 1, Initiator(r), sigs) /\ Goes(r, "intermediary", h)
           /\ UNCHANGED run
  BY DEF IntermediaryHasFixed, Segment
<1>3. pass.kind = "pass"
  BY MessageOfRun DEF IInv, Shape, Roles
<1>4. \A s \in sigs : s.c.kind = "pass"
  BY <1>3 DEF Signature, Both
<1>5. h.pc \in {"wait3", "wait5"} /\ h.pass.kind = "pass"
  BY <1>3 DEF Waits
<1> HIDE DEF h, sigs
<1> QED
  BY <1>1, <1>2, <1>4, <1>5, ThrowStep, AnswerStep DEF Roles

\* m7 is what m8 will be given for.
LEMMA IntermediaryHasFreedStep ==
  ASSUME IInv, NEW m \in net, IntermediaryHasFreed(m)
  PROVE  IInv'
<1> DEFINE k    == half[m.run]["intermediary"]
           resp == Responder(m.run)
           left == <<Initiator(m.run), "abi", resp>>
<1>1. Received(m, "intermediary")
  BY DEF IntermediaryHasFreed, Stores
<1>2. CASE Throws(m, "intermediary")
  BY <1>1, <1>2, ThrowStep DEF Roles
<1>3. CASE ~Throws(m, "intermediary")
  <2>1. /\ Signature(resp, FreeOf(resp, k.post)) \in m.sigs
        /\ net' = net \ {m} /\ Goes(m.run, "intermediary", Saving(k, left))
        /\ UNCHANGED <<run, given>>
    BY <1>3 DEF IntermediaryHasFreed, Stores
  <2>2. HasFree(m.run, resp, got')
    BY <1>1, <2>1, ReceivedFree
  <2> HIDE DEF left
  <2> QED
    BY <1>1, <2>1, <2>2, StoresStep DEF Roles
<1> QED
  BY <1>2, <1>3

LEMMA SaveChannelStep ==
  ASSUME IInv, NEW r \in Runs, NEW role \in Roles, SaveChannel(r, role)
  PROVE  IInv'
<1> DEFINE k == half[r][role]
           h == Saving(k, Tail(k.left))
<1>1. k.pc = "saving" /\ Goes(r, role, h) /\ UNCHANGED <<run, net, given, got>>
  BY DEF SaveChannel
<1>2. h.pc = "saving" /\ h.pass.kind = "pass"
  BY DEF Saving, IInv, Shape
<1>3. half[r]["initiator"].pc # "idle"
  BY <1>1 DEF IInv, Begun
<1>4. role = "intermediary" /\ run[r].op.kind = "uninstall"
        => HasFree(r, Responder(r), got')
  BY <1>1 DEF IInv, FreesWith
<1> HIDE DEF h
<1> QED
  BY <1>1, <1>2, <1>3, <1>4, HalfStep DEF Goes

\* The last step of a half that has persisted its channels.
LEMMA DoneSteps ==
  ASSUME IInv, NEW r \in Runs,
         \/ InstallReturns(r) \/ ResponderCleansUp(r) \/ IntermediaryEnds(r)
         \/ UninstallReturns(r)
  PROVE  IInv'
<1>1. PICK role \in Roles, how \in {"returned", "done"} :
        /\ half' = [half EXCEPT ![r][role] = Ended(how)]
        /\ half[r][role].pc = "saving"
        /\ UNCHANGED <<run, net, given, got>>
  BY DEF InstallReturns, ResponderCleansUp, IntermediaryEnds, UninstallReturns,
         Saved, Leave, Goes, Roles
<1>2. half[r]["initiator"].pc # "idle"
  BY <1>1 DEF IInv, Begun
<1> QED
  BY <1>1, <1>2, EndStep

\* m8 gives the initiator's free balance for the responder's, received in m7.
LEMMA AnswerSteps ==
  ASSUME IInv, NEW r \in Runs, ResponderAnswers(r) \/ IntermediaryAnswers(r)
  PROVE  IInv'
<1> DEFINE h == Ended("done")
<1>1. h.pc = "done" /\ h.pass.kind = "pass"
  BY DEF Ended, NoPass, SetPass
<1> HIDE DEF h
<1>2. CASE ResponderAnswers(r)
  <2> DEFINE c == FreeOf(Responder(r), half[r]["responder"].post)
  <2>1. /\ Sent(r, 7, Ingrid, {Signature(Responder(r), c)})
        /\ half' = [half EXCEPT ![r]["responder"] = h] /\ UNCHANGED <<run, got>>
        /\ half[r]["responder"].pc = "saving"
    BY <1>2 DEF ResponderAnswers, Saved, Goes, h
  <2> HIDE DEF c
  <2>2. Responder(r) # Ingrid
    BY OtherTwice DEF IInv, Shape, Responder
  <2>3. \A g \in given' : g \in given \/ Harmless(g, got')
    BY <2>1, <2>2 DEF Sent, Marked, Signature, Harmless
  <2>4. half[r]["initiator"].pc # "idle" /\ \A m \in net' : m \in net \/ m.run = r
    BY <2>1 DEF IInv, Begun, Sent, Roles
  <2> QED
    BY <1>1, <2>1, <2>3, <2>4, HalfStep DEF Roles
<1>3. CASE IntermediaryAnswers(r)
  <2> DEFINE c == FreeOf(Initiator(r), half[r]["intermediary"].post)
             sigs == {Signature(Ingrid, c)}
  <2>1. /\ Sent(r, 8, Initiator(r), sigs)
        /\ half' = [half EXCEPT ![r]["intermediary"] = h] /\ UNCHANGED <<run, got>>
        /\ half[r]["intermediary"].pc = "saving" /\ run[r].op.kind = "uninstall"
    BY <1>3 DEF IntermediaryAnswers, Saved, Goes, h
  <2>2. HasFree(r, Responder(r), got') /\ Responder(r) = Other(Initiator(r))
    BY <2>1 DEF IInv, FreesWith, Responder, Initiator
  <2>3. \A s \in sigs : s.c.link = Initiator(r)
    BY Kinds DEF Signature
  <2> HIDE DEF c, sigs
  <2>4. \A g \in given' : g \in given \/ Harmless(g, got')
    BY <2>1, <2>2, <2>3, MarkedIsHarmless DEF Sent
  <2>5. half[r]["initiator"].pc # "idle" /\ \A m \in net' : m \in net \/ m.run = r
    BY <2>1 DEF IInv, Begun, Sent, Roles
  <2> QED
    BY <1>1, <2>1, <2>4, <2>5, HalfStep DEF Roles
<1> QED
  BY <1>2, <1>3

\* A timer can only fire where a half is waiting.
LEMMA TimeoutStep ==
  ASSUME IInv, NEW r \in Runs, NEW role \in Roles, Timeout(r, role)
  PROVE  IInv'
<1>1. PICK how \in {"threw", "done"} :
        /\ half' = [half EXCEPT ![r][role] = Ended(how)]
        /\ half[r][role].pc # "idle"
        /\ UNCHANGED <<run, net, given, got>>
  BY DEF Timeout, Leave, Goes, Waiting
<1>2. half[r]["initiator"].pc # "idle"
  BY <1>1 DEF IInv, Begun
<1> QED
  BY <1>1, <1>2, EndStep

\* Steps that leave the halves and the signatures alone.
LEMMA OtherSteps ==
  ASSUME IInv, UNCHANGED <<run, half, given, got>>, net' \subseteq net
  PROVE  IInv'
<1>1. Shape' /\ Begun'
  BY DEF IInv, Shape, Begun
<1>2. FreesWith' /\ FreesWhenCovered'
  BY DEF IInv, FreesWith, FreesWhenCovered, HasFree, Responder
<1> QED
  BY <1>1, <1>2 DEF IInv

LEMMA CrashStep ==
  ASSUME IInv, NEW p \in Parties, Crash(p)
  PROVE  IInv'
<1> DEFINE mine(r, role) == PartyOf(r, role) = p /\ Going(half[r][role])
<1>0. half' = [r \in Runs |-> [role \in Roles |->
                 IF mine(r, role) THEN Ended("crashed") ELSE half[r][role]]]
  BY DEF Crash
<1>9. \A r \in Runs, role \in Roles : mine(r, role) => half[r][role].pc # "idle"
  BY DEF Going, Waiting
<1> HIDE DEF mine
<1>1. \A r \in Runs, role \in Roles :
        half'[r][role] = half[r][role]
          \/ (half'[r][role] = Ended("crashed") /\ half[r][role].pc # "idle")
  <2> SUFFICES ASSUME NEW r \in Runs, NEW role \in Roles
               PROVE  half'[r][role] = half[r][role]
                        \/ (half'[r][role] = Ended("crashed") /\ half[r][role].pc # "idle")
    OBVIOUS
  <2>1. half'[r] = [x \in Roles |-> IF mine(r, x) THEN Ended("crashed") ELSE half[r][x]]
    BY <1>0, Zenon
  <2>2. half'[r][role] = IF mine(r, role) THEN Ended("crashed") ELSE half[r][role]
    BY <2>1, Zenon
  <2>3. CASE mine(r, role)
    <3>1. half'[r][role] = Ended("crashed")
      BY <2>2, <2>3, Zenon
    <3>2. half[r][role].pc # "idle"
      BY <1>9, <2>3, Zenon
    <3> QED
      BY <3>1, <3>2
  <2>4. CASE ~mine(r, role)
    BY <2>2, <2>4, Zenon
  <2> QED
    BY <2>3, <2>4, Zenon
<1>2. half' = [r \in Runs |-> half'[r]]
        /\ \A r \in Runs : half'[r] = [role \in Roles |-> half'[r][role]]
  <2>1. half' = [r \in Runs |-> half'[r]]
    BY <1>0, Zenon
  <2>2. ASSUME NEW r \in Runs
        PROVE  half'[r] = [role \in Roles |-> half'[r][role]]
    <3>1. half'[r] = [x \in Roles |-> IF mine(r, x) THEN Ended("crashed") ELSE half[r][x]]
      BY <1>0, Zenon
    <3> QED
      BY <3>1, Zenon
  <2> QED
    BY <2>1, <2>2, Zenon
<1>3. Ended("crashed").pc = "crashed" /\ Ended("crashed").pass.kind = "pass"
  BY DEF Ended, NoPass, SetPass
<1>4. UNCHANGED <<run, net, given, got>>
  BY DEF Crash
<1>5. Shape'
  BY <1>1, <1>2, <1>3, <1>4 DEF IInv, Shape
<1>6. Begun'
  <2> SUFFICES ASSUME NEW r \in Runs, half'[r]["initiator"].pc = "idle"
               PROVE  (\A x \in Roles : half'[r][x].pc = "idle")
                      /\ \A m \in net' : m.run # r
    BY DEF Begun
  <2>1. half[r]["initiator"].pc = "idle"
    BY <1>1, <1>3 DEF Roles
  <2> QED
    BY <1>1, <1>4, <2>1 DEF IInv, Begun
<1>7. FreesWith'
  <2> SUFFICES ASSUME NEW r \in Runs, half'[r]["intermediary"].pc = "saving",
                      run[r].op.kind = "uninstall"
               PROVE  HasFree(r, Responder(r), got)
    BY <1>4 DEF FreesWith, HasFree, Responder
  <2>1. half[r]["intermediary"].pc = "saving"
    BY <1>1, <1>3 DEF Roles
  <2> QED
    BY <2>1 DEF IInv, FreesWith
<1>8. FreesWhenCovered'
  BY <1>4 DEF IInv, FreesWhenCovered
<1> QED
  BY <1>5, <1>6, <1>7, <1>8 DEF IInv

-----------------------------------------------------------------------------
(* The invariant and what follows from it.                                  *)

LEMMA InitHolds == Init => IInv
<1> SUFFICES ASSUME Init PROVE IInv
  OBVIOUS
<1>1. Idle.pc = "idle" /\ Idle.pass.kind = "pass"
  BY DEF Idle, Ended, NoPass, SetPass
<1>2. Shape
  BY <1>1 DEF Init, Shape, Users
<1>3. Begun /\ FreesWith /\ FreesWhenCovered
  BY <1>1 DEF Init, Begun, FreesWith, FreesWhenCovered, Roles
<1> QED
  BY <1>2, <1>3 DEF IInv

LEMMA ReceiveStep ==
  ASSUME IInv, NEW m \in net, Receive(m)
  PROVE  IInv'
<1>1. CASE HandleInstall(m)
  BY <1>1, IntermediaryForwardsStep, ResponderSignsStep, IntermediaryCommitsStep,
     InitiatorActivatesStep, IntermediaryActivatesStep, ResponderActivatesStep,
     IntermediaryFinishesStep, InitiatorFinishesStep DEF HandleInstall
<1>2. CASE HandleUninstall(m)
  BY <1>2, IntermediaryFixesStep, ResponderFixesStep, IntermediaryHasFixedStep,
     InitiatorFreesStep, IntermediaryActivatesStep, ResponderFreesStep,
     IntermediaryHasFreedStep, InitiatorHasFreedStep DEF HandleUninstall
<1>3. CASE IgnoreUnexpected(m)
  BY <1>3, OtherSteps DEF IgnoreUnexpected
<1> QED
  BY <1>1, <1>2, <1>3 DEF Receive

LEMMA NextHolds ==
  ASSUME IInv, [Next]_vars
  PROVE  IInv'
<1>1. CASE Call
  <2>1. CASE \E r \in Runs, p \in Users : InstallStart(r, p) \/ UninstallStart(r, p)
    BY <2>1, StartSteps
  <2>2. CASE \E va, toAlice : TakeAction(va, toAlice)
    <3>1. UNCHANGED <<run, half, given, got>> /\ net' \subseteq net
      BY <2>2 DEF TakeAction
    <3> QED
      BY <3>1, OtherSteps
  <2> QED
    BY <1>1, <2>1, <2>2 DEF Call
<1>2. ASSUME NEW m \in net, Receive(m) \/ Lose(m)
      PROVE  IInv'
  BY <1>2, ReceiveStep, OtherSteps DEF Lose
<1>3. ASSUME NEW r \in Runs, Go(r)
      PROVE  IInv'
  BY <1>3, SaveChannelStep, TimeoutStep, DoneSteps, AnswerSteps DEF Go
<1>4. ASSUME NEW r \in leases, LeaseExpires(r)
      PROVE  IInv'
  BY <1>4, OtherSteps DEF LeaseExpires
<1>5. ASSUME NEW p \in Parties, Crash(p)
      PROVE  IInv'
  BY <1>5, CrashStep
<1>6. CASE UNCHANGED vars
  BY <1>6, OtherSteps DEF vars
<1> QED
  BY <1>1, <1>2, <1>3, <1>4, <1>5, <1>6 DEF Next, Step

-----------------------------------------------------------------------------
(* Agreements: those of the two links say the same.                         *)

IsRecord(ch) == ch = [link |-> ch.link, ab |-> ch.ab, abi |-> ch.abi]

Records ==
  /\ store = [p \in Parties |-> store[p]]
  /\ \A p \in Parties : IsRecord(store[p])

AgreedTerms(u, op, post) == Conditional(u, post.link[u], op.q.id)

\* The agreements of the two links in what Ingrid computes.
SameTerms(op, post) ==
  \A u, v \in Users : /\ AgreedTerms(u, op, post).pass = AgreedTerms(v, op, post).pass
                      /\ AgreedTerms(u, op, post).capital = AgreedTerms(v, op, post).capital

\* She signs the second agreement from what she has computed for the first.
Drafted ==
  \A r \in Runs :
    half[r]["intermediary"].pc = "wait3" /\ run[r].op.kind = "install"
      => SameTerms(run[r].op, half[r]["intermediary"].post)

HasAgreed(r, c, G) ==
  \E o \in G : /\ o.run = r /\ o.to = Ingrid /\ o.by = Other(c.link)
               /\ o.c.kind = "agreement" /\ o.c.link = Other(c.link)
               /\ o.c.pass = c.pass /\ o.c.capital = c.capital

\* Not an agreement of Ingrid's.
NotHers(s) == ~(s.by = Ingrid /\ s.c.kind = "agreement")

AInv == Records /\ Drafted /\ AgreesWhenCovered

\* What a step must establish.
LEMMA AgreeStep ==
  ASSUME AInv, Records', got \subseteq got',
         \A g \in given' : \/ g \in given \/ NotHers(g) \/ HasAgreed(g.run, g.c, got'),
         \A r \in Runs :
           half'[r]["intermediary"].pc = "wait3" /\ run'[r].op.kind = "install" =>
             \/ half'[r]["intermediary"] = half[r]["intermediary"] /\ run'[r] = run[r]
             \/ SameTerms(run'[r].op, half'[r]["intermediary"].post)
  PROVE  AInv'
<1>1. Drafted'
  <2> SUFFICES ASSUME NEW r \in Runs, half'[r]["intermediary"].pc = "wait3",
                      run'[r].op.kind = "install"
               PROVE  SameTerms(run'[r].op, half'[r]["intermediary"].post)
    BY DEF Drafted, SameTerms, AgreedTerms, Conditional
  <2> QED BY DEF AInv, Drafted
<1>2. AgreesWhenCovered'
  <2> SUFFICES ASSUME NEW g \in given', ~NotHers(g)
               PROVE  HasAgreed(g.run, g.c, got')
    BY DEF AgreesWhenCovered, NotHers, HasAgreed
  <2>1. g \in given => HasAgreed(g.run, g.c, got)
    BY DEF AInv, AgreesWhenCovered, NotHers, HasAgreed
  <2>2. HasAgreed(g.run, g.c, got) => HasAgreed(g.run, g.c, got')
    BY DEF HasAgreed
  <2> QED BY <2>1, <2>2
<1> QED BY <1>1, <1>2 DEF AInv

\* A step that gives no agreement, and after which Ingrid's half of run r, if it
\* waits for m3 of an installation, is what it was.
LEMMA CalmAgrees ==
  ASSUME IInv, AInv, NEW r \in Runs, NEW role \in Roles, NEW h, Records',
         half' = [half EXCEPT ![r][role] = h], UNCHANGED run, got \subseteq got',
         \A g \in given' : g \in given \/ NotHers(g),
         role = "intermediary" /\ h.pc = "wait3" => run[r].op.kind # "install"
  PROVE  AInv'
<1>1. \A s \in Runs : half'[s]["intermediary"] =
        IF s = r /\ role = "intermediary" THEN h ELSE half[s]["intermediary"]
  BY DEF IInv, Shape, Roles
<1> QED BY <1>1, AgreeStep

LEMMA RecordsStay == AInv /\ UNCHANGED store => Records'
  BY DEF AInv, Records, IsRecord

LEMMA EndedAgrees ==
  ASSUME IInv, AInv, NEW r \in Runs, NEW role \in Roles,
         NEW how \in {"threw", "done", "returned"},
         half' = [half EXCEPT ![r][role] = Ended(how)], Records',
         UNCHANGED run, got \subseteq got',
         \A g \in given' : g \in given \/ NotHers(g)
  PROVE  AInv'
<1>1. PICK h : h = Ended(how) OBVIOUS
<1>2. h.pc # "wait3" BY <1>1 DEF Ended
<1> QED BY <1>1, <1>2, CalmAgrees

LEMMA ThrowsAgrees ==
  ASSUME IInv, AInv, NEW m \in net, NEW role \in Roles, Received(m, role), Throws(m, role)
  PROVE  AInv'
<1>1. PICK how \in {"threw", "done", "returned"} :
        half' = [half EXCEPT ![m.run][role] = Ended(how)]
  BY DEF Throws, Leave, Goes
<1>2. Records' BY RecordsStay DEF Throws
<1> QED BY <1>1, <1>2, EndedAgrees, MessageOfRun DEF Throws, Received

LEMMA AnswerAgrees ==
  ASSUME IInv, AInv, NEW m \in net, NEW role \in Roles, NEW ok, NEW to, NEW sigs, NEW h,
         Segment(m, role, ok, to, sigs, h),
         \A s \in sigs : NotHers(s),
         role = "intermediary" /\ h.pc = "wait3" => run[m.run].op.kind # "install"
  PROVE  AInv'
<1>1. Received(m, role) BY DEF Segment
<1>2. CASE Throws(m, role) BY <1>1, <1>2, ThrowsAgrees
<1>3. CASE ~Throws(m, role)
  <2>1. /\ Answered(m, m.n + 1, to, sigs) /\ Goes(m.run, role, h)
        /\ UNCHANGED <<store, run>>
    BY <1>3 DEF Segment
  <2>2. \A g \in given' : g \in given \/ NotHers(g)
    BY <2>1 DEF Answered, Marked, NotHers
  <2>3. Records' BY <2>1, RecordsStay
  <2> QED BY <1>1, <2>1, <2>2, <2>3, CalmAgrees, MessageOfRun DEF Goes, Received
<1> QED BY <1>2, <1>3

LEMMA StoresAgrees ==
  ASSUME IInv, AInv, NEW m \in net, NEW role \in Roles, NEW ok, NEW left,
         Stores(m, role, ok, left)
  PROVE  AInv'
<1>1. Received(m, role) BY DEF Stores
<1>2. CASE Throws(m, role) BY <1>1, <1>2, ThrowsAgrees
<1>3. CASE ~Throws(m, role)
  <2>1. PICK h : h = Saving(half[m.run][role], left) OBVIOUS
  <2>4. h.pc = "saving" BY <2>1 DEF Saving
  <2>2. Goes(m.run, role, h) /\ UNCHANGED <<store, run, given>>
    BY <1>3, <2>1 DEF Stores
  <2>3. Records' BY <2>2, RecordsStay
  <2> QED BY <1>1, <2>2, <2>3, <2>4, CalmAgrees, MessageOfRun DEF Goes, Received
<1> QED BY <1>2, <1>3

\* What a party other than Ingrid signs, and what is no agreement, is all the same.
LEMMA OthersAgreements ==
  /\ \A u \in Users : \A c : NotHers(Signature(u, c))
  /\ \A u, c : c.kind # "agreement" => NotHers(Signature(u, c))
  BY OtherTwice DEF NotHers, Signature

LEMMA UsersInRun ==
  ASSUME IInv, NEW m \in net
  PROVE  /\ Initiator(m.run) \in Users /\ Responder(m.run) \in Users
         /\ Responder(m.run) = Other(Initiator(m.run))
         /\ Initiator(m.run) = Other(Responder(m.run))
         /\ \A role \in Roles : half[m.run][role].pass.kind = "pass"
  BY OtherTwice, MessageOfRun DEF IInv, Shape, Initiator, Responder

\* The agreement Ingrid computes for a link is the new one.
LEMMA ComputesSame ==
  ASSUME AInv, NEW op
  PROVE  SameTerms(op, InstalledByIngrid(op.q))
<1> DEFINE s == store[Ingrid]
           L == [u \in Users |-> AddAgreement(s.link[u], u, op.q, s.abi.np)]
           B == AddApp(s.abi, NewPassApp(s.abi, op.q))
           new == NewAgreement(op.q, s.abi.np)
<1>1. InstalledByIngrid(op.q) = [s EXCEPT !.link = L, !.abi = B]
  BY Zenon DEF InstalledByIngrid
<1>2. s = [link |-> s.link, ab |-> s.ab, abi |-> s.abi]
  BY DEF AInv, Records, IsRecord, Parties
<1> HIDE DEF s, L, B
<1>3. InstalledByIngrid(op.q).link = L BY <1>1, <1>2
<1>4. ASSUME NEW u \in Users
      PROVE  /\ AgreedTerms(u, op, InstalledByIngrid(op.q)).pass = new.pass
             /\ AgreedTerms(u, op, InstalledByIngrid(op.q)).capital = new.capital
  <2>1. L[u].agr = {a \in s.link[u].agr : a.app # op.q.id} \cup {new}
    BY DEF L, AddAgreement
  <2>2. new.app = op.q.id BY DEF NewAgreement
  <2> HIDE DEF new
  <2>3. (CHOOSE b \in L[u].agr : b.app = op.q.id) = new BY <2>1, <2>2
  <2> QED BY <1>3, <2>3 DEF AgreedTerms, Conditional
<1> QED BY <1>4 DEF SameTerms

\* What comes in of the other user's agreement counts.
LEMMA ReceivedAgreed ==
  ASSUME NEW m, NEW u \in Users, NEW post, Received(m, "intermediary"),
         Signature(Other(u), CondOf(m.run, Other(u), post)) \in m.sigs,
         SameTerms(run[m.run].op, post)
  PROVE  HasAgreed(m.run, CondOf(m.run, u, post), got')
<1> DEFINE d == CondOf(m.run, Other(u), post)
           c == CondOf(m.run, u, post)
           o == [run |-> m.run, by |-> Other(u), to |-> Ingrid, c |-> d]
<1>1. /\ c.kind = "agreement" /\ c.link = u /\ d.kind = "agreement" /\ d.link = Other(u)
  BY DEF CondOf, Conditional
<1>2. c.pass = d.pass /\ c.capital = d.capital
  BY OtherTwice DEF SameTerms, AgreedTerms, CondOf
<1> HIDE DEF c, d
<1>3. o \in Marked(m.run, Ingrid, m.sigs) BY DEF Marked, Signature, d
<1>4. o \in got' BY <1>3 DEF Received, PartyOf
<1> QED BY <1>1, <1>2, <1>4 DEF HasAgreed, c

LEMMA ForwardsAgrees ==
  ASSUME IInv, AInv, NEW m \in net, IntermediaryForwards(m)
  PROVE  AInv'
<1> DEFINE r    == m.run
           post == InstalledByIngrid(run[r].op.q)
           h    == Waits("wait3", post, NewPassState(post))
           c    == CondOf(r, Responder(r), post)
<1>1. Received(m, "intermediary") BY DEF IntermediaryForwards, Segment
<1>2. CASE Throws(m, "intermediary") BY <1>1, <1>2, ThrowsAgrees DEF Roles
<1>3. CASE ~Throws(m, "intermediary")
  <2>1. /\ Signature(Initiator(r), CondOf(r, Initiator(r), post)) \in m.sigs
        /\ Answered(m, m.n + 1, Responder(r), {Signature(Ingrid, c)})
        /\ Goes(r, "intermediary", h) /\ UNCHANGED <<store, run>>
    BY <1>3 DEF IntermediaryForwards, Segment
  <2>2. SameTerms(run[r].op, post) BY ComputesSame
  <2>3. HasAgreed(r, c, got') BY <1>1, <2>1, <2>2, UsersInRun, ReceivedAgreed
  <2>4. h.post = post BY DEF Waits
  <2> HIDE DEF h, c, post
  <2>5. \A g \in given' : g \in given \/ HasAgreed(g.run, g.c, got')
    BY <2>1, <2>3 DEF Answered, Marked, Signature
  <2>6. \A s \in Runs : half'[s]["intermediary"] =
          IF s = r THEN h ELSE half[s]["intermediary"]
    BY <2>1 DEF IInv, Shape, Goes, Roles
  <2>7. Records' BY <2>1, RecordsStay
  <2> QED BY <1>1, <2>1, <2>2, <2>4, <2>5, <2>6, <2>7, AgreeStep DEF Received
<1> QED BY <1>2, <1>3

LEMMA CommitsAgrees ==
  ASSUME IInv, AInv, NEW m \in net, IntermediaryCommits(m)
  PROVE  AInv'
<1> DEFINE r    == m.run
           k    == half[r]["intermediary"]
           h    == Waits("wait5", k.post, k.pass)
           init == Initiator(r)
           resp == Responder(r)
           c    == CondOf(r, init, k.post)
           f    == FreeOf(init, k.post)
<1>1. Received(m, "intermediary") BY DEF IntermediaryCommits, Segment
<1>2. CASE Throws(m, "intermediary") BY <1>1, <1>2, ThrowsAgrees DEF Roles
<1>3. CASE ~Throws(m, "intermediary")
  <2>1. /\ Signature(resp, CondOf(r, resp, k.post)) \in m.sigs
        /\ Answered(m, m.n + 1, init, {Signature(Ingrid, c), Signature(Ingrid, f)})
        /\ Goes(r, "intermediary", h) /\ UNCHANGED <<store, run>>
    BY <1>3 DEF IntermediaryCommits, Segment, Commits
  <2>2. SameTerms(run[r].op, k.post)
    BY MessageOfRun DEF IntermediaryCommits, Handles, Steps, AInv, Drafted
  <2>3. HasAgreed(r, c, got') BY <1>1, <2>1, <2>2, UsersInRun, ReceivedAgreed
  <2>4. f.kind = "freeBalance" BY Kinds
  <2>5. h.pc = "wait5" BY DEF Waits
  <2> HIDE DEF h, c, f
  <2>6. \A g \in given' : g \in given \/ NotHers(g) \/ HasAgreed(g.run, g.c, got')
    BY <2>1, <2>3, <2>4 DEF Answered, Marked, Signature, NotHers
  <2>7. \A s \in Runs : half'[s]["intermediary"] =
          IF s = r THEN h ELSE half[s]["intermediary"]
    BY <2>1 DEF IInv, Shape, Goes, Roles
  <2>8. Records' BY <2>1, RecordsStay
  <2> QED BY <1>1, <2>1, <2>5, <2>6, <2>7, <2>8, AgreeStep DEF Received
<1> QED BY <1>2, <1>3

LEMMA InstallAgrees ==
  ASSUME IInv, AInv, NEW m \in net, HandleInstall(m)
  PROVE  AInv'
<1> DEFINE r    == m.run
           init == Initiator(r)
           resp == Responder(r)
           c    == half[r]["intermediary"]
<1>0. init \in Users /\ resp \in Users /\ c.pass.kind = "pass"
  BY UsersInRun DEF Roles
<1>1. CASE ResponderSigns(m)
  <2>1. PICK ok, post, h, x, y : Segment(m, "responder", ok, Ingrid,
          {Signature(resp, x), Signature(resp, y)}, h)
    BY <1>1 DEF ResponderSigns, Commits
  <2> QED BY <1>0, <2>1, OthersAgreements, AnswerAgrees DEF Roles
<1>2. CASE InitiatorActivates(m)
  <2>1. PICK ok, h, x, y, z : Segment(m, "initiator", ok, Ingrid,
          {Signature(init, x), Signature(init, y), Signature(init, z)}, h)
    BY <1>2 DEF InitiatorActivates
  <2> QED BY <1>0, <2>1, OthersAgreements, AnswerAgrees DEF Roles
<1>3. CASE IntermediaryActivates(m)
  <2>1. PICK ok, h, f : /\ Segment(m, "intermediary", ok, resp,
                                 {Signature(Ingrid, f), Signature(Ingrid, c.pass)} \cup
                                 {s \in m.sigs : s.by = init /\ s.c.kind # "freeBalance"}, h)
                        /\ f = FreeOf(resp, c.post) /\ h = Waits("wait7", c.post, c.pass)
    BY <1>3 DEF IntermediaryActivates
  <2>3. f.kind = "freeBalance" /\ h.pc = "wait7" BY <2>1, Kinds DEF Waits
  <2>2. \A s \in m.sigs : s.by = init => NotHers(s)
    BY <1>0, OtherTwice DEF NotHers
  <2> QED BY <1>0, <2>1, <2>2, <2>3, OthersAgreements, AnswerAgrees DEF Roles
<1>4. CASE ResponderActivates(m)
  <2>1. PICK ok, h, x, y : Segment(m, "responder", ok, Ingrid,
          {Signature(resp, x), Signature(resp, y)}, h)
    BY <1>4 DEF ResponderActivates
  <2> QED BY <1>0, <2>1, OthersAgreements, AnswerAgrees DEF Roles
<1>5. CASE IntermediaryFinishes(m)
  <2>1. PICK ok, h : /\ Segment(m, "intermediary", ok, init,
                              {s \in m.sigs : s.by = resp} \cup {Signature(Ingrid, c.pass)}, h)
                     /\ h = Saving(c, <<"abi", resp, init>>)
    BY <1>5 DEF IntermediaryFinishes
  <2>3. h.pc = "saving" BY <2>1 DEF Saving
  <2>2. \A s \in m.sigs : s.by = resp => NotHers(s)
    BY <1>0, OtherTwice DEF NotHers
  <2> QED BY <1>0, <2>1, <2>2, <2>3, OthersAgreements, AnswerAgrees DEF Roles
<1>6. CASE InitiatorFinishes(m)
  BY <1>6, StoresAgrees DEF InitiatorFinishes, Roles
<1> QED BY <1>1, <1>2, <1>3, <1>4, <1>5, <1>6, ForwardsAgrees, CommitsAgrees
        DEF HandleInstall

LEMMA UninstallAgrees ==
  ASSUME IInv, AInv, NEW m \in net, HandleUninstall(m)
  PROVE  AInv'
<1> DEFINE r    == m.run
           init == Initiator(r)
           resp == Responder(r)
           c    == half[r]["intermediary"]
<1>0. init \in Users /\ resp \in Users
      /\ \A role \in Roles : half[r][role].pass.kind = "pass"
  BY UsersInRun
<1>1. CASE IntermediaryFixes(m)
  <2>1. PICK ok, h, p : /\ Segment(m, "intermediary", ok, resp,
                                 {Signature(init, p), Signature(Ingrid, p)}, h)
                        /\ p = FinalPass(Ingrid, init, run[r].op)
    BY <1>1 DEF IntermediaryFixes, Both
  <2>2. p.kind = "pass" BY <2>1 DEF FinalPass, SetPass
  <2>3. run[r].op.kind = "uninstall" BY <1>1 DEF IntermediaryFixes, Handles
  <2> QED BY <1>0, <2>1, <2>2, <2>3, OthersAgreements, AnswerAgrees DEF Roles
<1>2. CASE ResponderFixes(m)
  <2>1. PICK ok, h, p : Segment(m, "responder", ok, Ingrid, {Signature(resp, p)}, h)
    BY <1>2 DEF ResponderFixes
  <2> QED BY <1>0, <2>1, OthersAgreements, AnswerAgrees DEF Roles
<1>3. CASE IntermediaryHasFixed(m)
  <2>1. PICK ok, h, p : /\ Segment(m, "intermediary", ok, init,
                                 {Signature(resp, p), Signature(Ingrid, p)}, h)
                        /\ p = c.pass /\ h = Waits("wait5", c.post, c.pass)
    BY <1>3 DEF IntermediaryHasFixed, Both
  <2>2. p.kind = "pass" /\ h.pc = "wait5" BY <1>0, <2>1 DEF Waits, Roles
  <2> QED BY <1>0, <2>1, <2>2, OthersAgreements, AnswerAgrees DEF Roles
<1>4. CASE InitiatorFrees(m)
  <2>1. PICK ok, h, f : Segment(m, "initiator", ok, Ingrid, {Signature(init, f)}, h)
    BY <1>4 DEF InitiatorFrees
  <2> QED BY <1>0, <2>1, OthersAgreements, AnswerAgrees DEF Roles
<1>5. CASE IntermediaryFrees(m)
  <2>1. PICK ok, h, f : /\ Segment(m, "intermediary", ok, resp, {Signature(Ingrid, f)}, h)
                        /\ f = FreeOf(resp, c.post) /\ h = Waits("wait7", c.post, c.pass)
    BY <1>5 DEF IntermediaryFrees
  <2>2. f.kind = "freeBalance" /\ h.pc = "wait7" BY <2>1, Kinds DEF Waits
  <2> QED BY <1>0, <2>1, <2>2, OthersAgreements, AnswerAgrees DEF Roles
<1>6. CASE ResponderFrees(m)
  BY <1>6, StoresAgrees DEF ResponderFrees, Roles
<1>7. CASE IntermediaryHasFreed(m)
  BY <1>7, StoresAgrees DEF IntermediaryHasFreed, Roles
<1>8. CASE InitiatorHasFreed(m)
  BY <1>8, StoresAgrees DEF InitiatorHasFreed, Roles
<1> QED BY <1>1, <1>2, <1>3, <1>4, <1>5, <1>6, <1>7, <1>8 DEF HandleUninstall

\* Steps that leave the halves of the runs and the signatures alone.
LEMMA IdleAgrees ==
  ASSUME AInv, Records', UNCHANGED <<run, half, given, got>>
  PROVE  AInv'
  BY AgreeStep

\* A channel that is persisted, and a proposal that is removed.
LEMMA SavedRecords ==
  ASSUME AInv, NEW p, NEW c, NEW ch
  PROVE  /\ store' = [store EXCEPT ![p] =
              CASE c = "ab"  -> [@ EXCEPT !.ab = ch.ab]
                [] c = "abi" -> [@ EXCEPT !.abi = ch.abi]
                [] OTHER     -> [@ EXCEPT !.link[c] = ch.link[c]]] => Records'
         /\ \A id : RemoveProposal(p, id) => Records'
<1>1. ASSUME store' = [store EXCEPT ![p] =
              CASE c = "ab"  -> [@ EXCEPT !.ab = ch.ab]
                [] c = "abi" -> [@ EXCEPT !.abi = ch.abi]
                [] OTHER     -> [@ EXCEPT !.link[c] = ch.link[c]]]
      PROVE  Records'
  <2>1. CASE c = "ab"
    <3>1. store' = [store EXCEPT ![p] = [@ EXCEPT !.ab = ch.ab]] BY <1>1, <2>1
    <3> QED BY <3>1 DEF AInv, Records, IsRecord
  <2>2. CASE c = "abi"
    <3>1. store' = [store EXCEPT ![p] = [@ EXCEPT !.abi = ch.abi]] BY <1>1, <2>2
    <3> QED BY <3>1 DEF AInv, Records, IsRecord
  <2>3. CASE c # "ab" /\ c # "abi"
    <3>1. store' = [store EXCEPT ![p] = [@ EXCEPT !.link[c] = ch.link[c]]] BY <1>1, <2>3
    <3> QED BY <3>1 DEF AInv, Records, IsRecord
  <2> QED BY <2>1, <2>2, <2>3
<1>2. ASSUME NEW id, RemoveProposal(p, id) PROVE Records'
  BY <1>2 DEF RemoveProposal, AInv, Records, IsRecord
<1> QED BY <1>1, <1>2

LEMMA GoAgrees ==
  ASSUME IInv, AInv, NEW r \in Runs, Go(r)
  PROVE  AInv'
<1>1. ASSUME NEW role \in Roles, SaveChannel(r, role) PROVE AInv'
  <2>1. PICK h : h = Saving(half[r][role], Tail(half[r][role].left)) OBVIOUS
  <2>4. h.pc = "saving" BY <2>1 DEF Saving
  <2>2. Goes(r, role, h) /\ UNCHANGED <<run, given, got>>
    BY <1>1, <2>1 DEF SaveChannel
  <2>3. Records' BY <1>1, SavedRecords DEF SaveChannel
  <2> QED BY <2>2, <2>3, <2>4, CalmAgrees DEF Goes
<1>2. ASSUME NEW role \in Roles, Timeout(r, role) PROVE AInv'
  <2>1. PICK how \in {"threw", "done", "returned"} :
          half' = [half EXCEPT ![r][role] = Ended(how)]
    BY <1>2 DEF Timeout, Leave, Goes
  <2>2. Records' BY <1>2, RecordsStay DEF Timeout
  <2> QED BY <1>2, <2>1, <2>2, EndedAgrees DEF Timeout
<1>3. CASE InstallReturns(r)
  <2>1. Records' BY <1>3, SavedRecords DEF InstallReturns
  <2> QED BY <1>3, <2>1, EndedAgrees DEF InstallReturns, Leave, Goes, Roles
<1>4. CASE ResponderCleansUp(r)
  <2>1. Records' BY <1>4, SavedRecords DEF ResponderCleansUp
  <2> QED BY <1>4, <2>1, EndedAgrees DEF ResponderCleansUp, Goes, Roles
<1>5. CASE IntermediaryEnds(r)
  <2>1. Records' BY <1>5, RecordsStay DEF IntermediaryEnds
  <2> QED BY <1>5, <2>1, EndedAgrees DEF IntermediaryEnds, Goes, Roles
<1>6. CASE UninstallReturns(r)
  <2>1. Records' BY <1>6, RecordsStay DEF UninstallReturns
  <2> QED BY <1>6, <2>1, EndedAgrees DEF UninstallReturns, Leave, Goes, Roles
<1>7. CASE ResponderAnswers(r)
  <2>1. PICK f : /\ Sent(r, 7, Ingrid, {Signature(Responder(r), f)})
                 /\ f = FreeOf(Responder(r), half[r]["responder"].post)
    BY <1>7 DEF ResponderAnswers
  <2>4. f.kind = "freeBalance" BY <2>1, Kinds
  <2>2. \A g \in given' : g \in given \/ NotHers(g)
    BY <2>1, <2>4 DEF Sent, Marked, Signature, NotHers
  <2>3. Records' BY <1>7, RecordsStay DEF ResponderAnswers
  <2> QED BY <1>7, <2>2, <2>3, EndedAgrees DEF ResponderAnswers, Goes, Roles
<1>8. CASE IntermediaryAnswers(r)
  <2>1. PICK f : /\ Sent(r, 8, Initiator(r), {Signature(Ingrid, f)})
                 /\ f = FreeOf(Initiator(r), half[r]["intermediary"].post)
    BY <1>8 DEF IntermediaryAnswers
  <2>4. f.kind = "freeBalance" BY <2>1, Kinds
  <2>2. \A g \in given' : g \in given \/ NotHers(g)
    BY <2>1, <2>4 DEF Sent, Marked, Signature, NotHers
  <2>3. Records' BY <1>8, RecordsStay DEF IntermediaryAnswers
  <2> QED BY <1>8, <2>2, <2>3, EndedAgrees DEF IntermediaryAnswers, Goes, Roles
<1> QED BY <1>1, <1>2, <1>3, <1>4, <1>5, <1>6, <1>7, <1>8 DEF Go

\* A run that starts is signed for by a user.
LEMMA StartAgrees ==
  ASSUME IInv, AInv, NEW r \in Runs, NEW p \in Users, NEW op, NEW post, NEW pass, NEW c,
         Start(r, p, op, post, pass), Sent(r, 1, Ingrid, {Signature(p, c)})
  PROVE  AInv'
<1>1. \A s \in Runs : half'[s]["intermediary"] = half[s]["intermediary"]
  BY DEF IInv, Shape, Start, Goes, Roles
<1>2. half[r]["intermediary"].pc = "idle" BY DEF IInv, Begun, Start, Roles
<1>3. \A s \in Runs : s # r => run'[s] = run[s] BY DEF IInv, Shape, Start
<1>4. \A g \in given' : g \in given \/ NotHers(g)
  BY OtherTwice DEF Sent, Marked, Signature, NotHers
<1>5. Records' BY RecordsStay DEF Start
<1> QED BY <1>1, <1>2, <1>3, <1>4, <1>5, AgreeStep DEF Start

LEMMA CallAgrees ==
  ASSUME IInv, AInv, Call
  PROVE  AInv'
<1>1. ASSUME NEW r \in Runs, NEW p \in Users, InstallStart(r, p) PROVE AInv'
  <2>1. PICK op, post, pass, c :
          Start(r, p, op, post, pass) /\ Sent(r, 1, Ingrid, {Signature(p, c)})
    BY <1>1 DEF InstallStart
  <2> QED BY <2>1, StartAgrees
<1>2. ASSUME NEW r \in Runs, NEW p \in Users, UninstallStart(r, p) PROVE AInv'
  <2>1. PICK op, post, pass, c :
          Start(r, p, op, post, pass) /\ Sent(r, 1, Ingrid, {Signature(p, c)})
    BY <1>2 DEF UninstallStart
  <2> QED BY <2>1, StartAgrees
<1>3. ASSUME NEW va, NEW toAlice, TakeAction(va, toAlice) PROVE AInv'
  <2>1. Records' BY <1>3 DEF TakeAction, AInv, Records, IsRecord
  <2> QED BY <1>3, <2>1, IdleAgrees DEF TakeAction
<1> QED BY <1>1, <1>2, <1>3 DEF Call

LEMMA CrashAgrees ==
  ASSUME AInv, NEW p \in Parties, Crash(p)
  PROVE  AInv'
<1>1. Ended("crashed").pc = "crashed" BY DEF Ended
<1>2. \A r \in Runs : half'[r]["intermediary"] \in {half[r]["intermediary"], Ended("crashed")}
  <2> DEFINE mine(r, role) == PartyOf(r, role) = p /\ Going(half[r][role])
  <2>1. half' = [r \in Runs |-> [role \in Roles |->
                   IF mine(r, role) THEN Ended("crashed") ELSE half[r][role]]]
    BY DEF Crash
  <2> HIDE DEF mine
  <2> TAKE r \in Runs
  <2>2. half'[r] = [x \in Roles |-> IF mine(r, x) THEN Ended("crashed") ELSE half[r][x]]
    BY <2>1, Zenon
  <2>3. "intermediary" \in Roles BY DEF Roles
  <2>4. half'[r]["intermediary"] =
          IF mine(r, "intermediary") THEN Ended("crashed") ELSE half[r]["intermediary"]
    BY <2>2, <2>3, Zenon
  <2> QED BY <2>4, Zenon
<1>3. Records' BY RecordsStay DEF Crash
<1>4. run' = run /\ given' = given /\ got' = got BY DEF Crash
<1> HIDE DEF Ended
<1> QED BY <1>1, <1>2, <1>3, <1>4, AgreeStep

LEMMA NextAgrees ==
  ASSUME IInv, AInv, [Next]_vars
  PROVE  AInv'
<1>1. CASE Call BY <1>1, CallAgrees
<1>2. ASSUME NEW m \in net, Receive(m) PROVE AInv'
  <2>1. CASE HandleInstall(m) BY <2>1, InstallAgrees
  <2>2. CASE HandleUninstall(m) BY <2>2, UninstallAgrees
  <2>3. CASE IgnoreUnexpected(m)
    <3>1. Records' BY <2>3, RecordsStay DEF IgnoreUnexpected
    <3> QED BY <2>3, <3>1, IdleAgrees DEF IgnoreUnexpected
  <2> QED BY <1>2, <2>1, <2>2, <2>3 DEF Receive
<1>3. ASSUME NEW m \in net, Lose(m) PROVE AInv'
  <2>1. Records' BY <1>3, RecordsStay DEF Lose
  <2> QED BY <1>3, <2>1, IdleAgrees DEF Lose
<1>4. ASSUME NEW r \in Runs, Go(r) PROVE AInv' BY <1>4, GoAgrees
<1>5. ASSUME NEW r \in leases, LeaseExpires(r) PROVE AInv'
  <2>1. Records' BY <1>5, RecordsStay DEF LeaseExpires
  <2> QED BY <1>5, <2>1, IdleAgrees DEF LeaseExpires
<1>6. ASSUME NEW p \in Parties, Crash(p) PROVE AInv' BY <1>6, CrashAgrees
<1>7. CASE UNCHANGED vars
  <2>1. Records' BY <1>7, RecordsStay DEF vars
  <2> QED BY <1>7, <2>1, IdleAgrees DEF vars
<1> QED BY <1>1, <1>2, <1>3, <1>4, <1>5, <1>6, <1>7 DEF Next, Step

LEMMA InitAgrees == Init => AInv
<1> SUFFICES ASSUME Init PROVE AInv
  OBVIOUS
<1>1. Idle.pc = "idle" BY DEF Idle, Ended
<1>2. Drafted /\ AgreesWhenCovered
  BY <1>1 DEF Init, Drafted, AgreesWhenCovered, Roles
<1>3. IsRecord(Opening) BY VirtualConstants DEF IsRecord, Channels
<1> QED BY <1>2, <1>3 DEF Init, AInv, Records

\* Whatever the users play, whatever is lost and whoever restarts: Ingrid only signs
\* the new free balance of one user's link once the other user's signature on the free
\* balance of the other link has reached her in that run, and only signs the agreement
\* of one link once she was given an agreement of the other that pays the same capital
\* by the same pass-through app. It is the order of her signing that is proved. Whether
\* she still has what she was given when she restarts is not: it is in memory.
THEOREM MediationIsCovered == Spec => []SignsWhenCovered
<1>1. Init => IInv /\ AInv
  BY InitHolds, InitAgrees
<1>2. IInv /\ AInv /\ [Next]_vars => IInv' /\ AInv'
  BY NextHolds, NextAgrees
<1>3. IInv /\ AInv => SignsWhenCovered
  BY DEF IInv, AInv, SignsWhenCovered
<1> QED
  BY <1>1, <1>2, <1>3, PTL DEF Spec

-----------------------------------------------------------------------------
(* Links and what they are worth.                                           *)

\* Everything that stakes have been promised to, and the stakes.
Terms ==
  {[app |-> a.app, capital |-> a.capital] : a \in Opening.link[Alice].agr}
  \cup {[app |-> va.id, capital |-> Pot(va)] : va \in Opening.ab.apps}
  \cup {[app |-> q.id, capital |-> Pot(q)] : q \in Opening.ab.props}

\* What an app locks up on each of the two links.
CapitalOf == [i \in Nat |-> (CHOOSE t \in Terms : t.app = i).capital]

\* The apps a link has agreements for.
Active(c) == {a.app : a \in c.agr}

\* One agreement for each app, with the capital the app locks up.
KnownLink(c) ==
  /\ c \in Link /\ IsFiniteSet(c.agr)
  /\ \A a \in c.agr : a.capital = CapitalOf[a.app]
  /\ \A a, b \in c.agr : a.app = b.app => a = b

LEMMA OpeningTypes ==
  /\ Opening.link \in [Users -> Link]
  /\ Opening.ab \in AB /\ Opening.abi \in ABI
  /\ Alice \in Users /\ Bob \in Users /\ Alice # Bob
  /\ Opening.ab.props \subseteq Proposal /\ Opening.ab.apps \subseteq VirtualApp
  /\ \A u \in Users : Opening.link[u] \in Link /\ Opening.link[u].agr \subseteq Agreement
BY VirtualConstants DEF Channels, AB, ABI, Users, Link

LEMMA PotType ==
  /\ \A q \in Proposal : q.id \in Nat /\ q.by \in Users /\ q.dep \in [Users -> Nat]
                         /\ q.dep[Alice] \in Nat /\ q.dep[Bob] \in Nat /\ Pot(q) \in Nat
  /\ \A q \in VirtualApp : q.id \in Nat /\ q.dep \in [Users -> Nat] /\ q.toAlice \in Nat
                           /\ q.dep[Alice] \in Nat /\ q.dep[Bob] \in Nat /\ Pot(q) \in Nat
BY DEF Proposal, VirtualApp, Pot, Users

\* An app always asks for the same capital.
LEMMA TermIs ==
  \A t \in Terms : t.app \in Nat /\ t.capital \in Nat /\ CapitalOf[t.app] = t.capital
<1> DEFINE As == {[app |-> a.app, capital |-> a.capital] : a \in Opening.link[Alice].agr}
           Vs == {[app |-> va.id, capital |-> Pot(va)] : va \in Opening.ab.apps}
           Qs == {[app |-> q.id, capital |-> Pot(q)] : q \in Opening.ab.props}
<1>1. \A t \in Terms : t.app \in Nat /\ t.capital \in Nat
  <2>1. \A t \in As : t.app \in Nat /\ t.capital \in Nat
    BY OpeningTypes DEF Agreement
  <2>2. \A t \in Vs : t.app \in Nat /\ t.capital \in Nat
    BY OpeningTypes, PotType
  <2>3. \A t \in Qs : t.app \in Nat /\ t.capital \in Nat
    BY OpeningTypes, PotType
  <2> QED BY <2>1, <2>2, <2>3 DEF Terms
<1>2. \A s, t \in Terms : s.app = t.app => s.capital = t.capital
  <2>1. \A s, t \in As : s.app = t.app => s.capital = t.capital
    BY OpeningSettled
  <2>2. \A s, t \in Vs : s.app = t.app => s.capital = t.capital
    BY OpeningSettled
  <2>3. \A s, t \in Qs : s.app = t.app => s.capital = t.capital
    BY OpeningSettled
  <2>4. \A s \in As, t \in Vs : s.app = t.app => s.capital = t.capital
    BY OpeningSettled DEF Pot
  <2>5. \A s \in As, t \in Qs : s.app # t.app
    BY OpeningSettled
  <2>6. \A s \in Vs, t \in Qs : s.app # t.app
    BY OpeningSettled
  <2> QED BY <2>1, <2>2, <2>3, <2>4, <2>5, <2>6 DEF Terms
<1> TAKE t \in Terms
<1>3. CapitalOf[t.app] = (CHOOSE s \in Terms : s.app = t.app).capital
  BY <1>1 DEF CapitalOf
<1>4. \E s \in Terms : s.app = t.app OBVIOUS
<1> QED BY <1>1, <1>2, <1>3, <1>4

LEMMA StakesAre ==
  /\ \A q \in Opening.ab.props : CapitalOf[q.id] = Pot(q)
  /\ \A va \in Opening.ab.apps : CapitalOf[va.id] = Pot(va)
  /\ \A u \in Users : KnownLink(Opening.link[u])
<1>1. \A q \in Opening.ab.props : CapitalOf[q.id] = Pot(q)
  <2> TAKE q \in Opening.ab.props
  <2>1. [app |-> q.id, capital |-> Pot(q)] \in Terms BY DEF Terms
  <2> QED BY <2>1, TermIs
<1>2. \A va \in Opening.ab.apps : CapitalOf[va.id] = Pot(va)
  <2> TAKE va \in Opening.ab.apps
  <2>1. [app |-> va.id, capital |-> Pot(va)] \in Terms BY DEF Terms
  <2> QED BY <2>1, TermIs
<1>3. \A a \in Opening.link[Alice].agr : a.capital = CapitalOf[a.app]
  <2> TAKE a \in Opening.link[Alice].agr
  <2>1. [app |-> a.app, capital |-> a.capital] \in Terms BY DEF Terms
  <2> QED BY <2>1, TermIs
<1>4. \A u \in Users : Opening.link[u].agr = Opening.link[Alice].agr
  BY OpeningSettled DEF Users
<1> QED BY <1>1, <1>2, <1>3, <1>4, OpeningTypes, OpeningSettled DEF KnownLink

\* The capital of a link is the sum over its apps.
LEMMA CapitalIs ==
  ASSUME NEW c, KnownLink(c)
  PROVE  /\ Capital(c) = Total(CapitalOf, Active(c)) /\ Capital(c) \in Nat
         /\ IsFiniteSet(Active(c)) /\ \A i \in Active(c) : i \in Nat /\ CapitalOf[i] \in Nat
<1> DEFINE S == c.agr
           f == [a \in S |-> a.capital]
           n == [a \in S |-> a.app]
           Is(g) == g = [s \in SUBSET S |-> IF s = {} THEN 0
                          ELSE (CHOOSE x \in s : TRUE).capital + g[s \ {CHOOSE x \in s : TRUE}]]
           h == CHOOSE g : Is(g)
<1>1. S \subseteq Agreement /\ IsFiniteSet(S) BY DEF KnownLink, Link
<1>2. \A a \in S : a.capital \in Nat /\ a.app \in Nat /\ f[a] = a.capital /\ n[a] = a.app
  BY <1>1 DEF Agreement
<1>3. Capital(c) = h[S]
  BY Zenon DEF Capital, MapThenSumSet, MapThenFoldSet
<1>4. \A g : Is(g) <=> SumFn(g, f, S)
  <2> TAKE g
  <2> DEFINE left == [s \in SUBSET S |-> IF s = {} THEN 0
                        ELSE (CHOOSE x \in s : TRUE).capital + g[s \ {CHOOSE x \in s : TRUE}]]
             right == [s \in SUBSET S |-> IF s = {} THEN 0
                         ELSE f[Some(s)] + g[s \ {Some(s)}]]
  <2>1. \A s \in SUBSET S : s # {} => (CHOOSE x \in s : TRUE).capital = f[Some(s)]
    <3> TAKE s \in SUBSET S
    <3> HAVE s # {}
    <3>1. Some(s) \in S BY SomeIs
    <3>2. f[Some(s)] = Some(s).capital BY <3>1, <1>2
    <3> QED BY <3>2 DEF Some
  <2>2. left = right BY <2>1 DEF Some
  <2> QED BY <2>2 DEF SumFn
<1> HIDE DEF Is, f
<1>5. PICK k : SumFn(k, f, S) BY <1>1, SumFnExists
<1>6. Is(h) BY <1>4, <1>5
<1>7. SumFn(h, f, S) BY <1>4, <1>6
<1>8. Total(f, S) = h[S] BY <1>1, <1>7, TotalOn
<1>9. \A a \in S : f[a] \in Nat /\ CapitalOf[n[a]] = f[a] BY <1>2 DEF KnownLink
<1>10. \A a, b \in S : n[a] = n[b] => a = b BY <1>2 DEF KnownLink
<1>11. Active(c) = {n[a] : a \in S} BY <1>2 DEF Active
<1> HIDE DEF n, S, h
<1>12. IsFiniteSet({n[a] : a \in S}) /\ Total(CapitalOf, {n[a] : a \in S}) = Total(f, S)
  BY <1>1, <1>9, <1>10, TotalImage
<1>13. \A i \in Active(c) : i \in Nat /\ CapitalOf[i] \in Nat BY <1>2, <1>9, <1>11
<1>14. Total(CapitalOf, Active(c)) \in Nat BY <1>11, <1>12, <1>13, TotalType
<1> QED BY <1>3, <1>8, <1>11, <1>12, <1>13, <1>14

LEMMA OtherIs ==
  /\ \A u \in Users : Other(u) \in Users /\ Other(u) # u /\ Other(Other(u)) = u
                      /\ u \in Parties /\ u # Ingrid
  /\ Other(Alice) = Bob /\ Other(Bob) = Alice /\ Ingrid \in Parties
  /\ \A u, v \in Users : v = u \/ v = Other(u)
BY VirtualConstants DEF Other, Users, Parties

\* An agreement takes from the two balances what it locks up, unless the link has one
\* for that app already: then the money is taken twice and locked up once.
LEMMA AddWorth ==
  ASSUME NEW c, KnownLink(c), NEW u \in Users, NEW q \in Opening.ab.props,
         CanAgree(c, u, q), NEW pass \in Nat, NEW d, d = AddAgreement(c, u, q, pass)
  PROVE  /\ KnownLink(d) /\ d.ver = c.ver + 2 /\ d.hub <= c.hub /\ d.user <= c.user
         /\ d.hub = c.hub - q.dep[Other(u)] /\ d.user = c.user - q.dep[u]
         /\ Active(d) = Active(c) \cup {q.id}
         /\ d.agr = {a \in c.agr : a.app # q.id} \cup {NewAgreement(q, pass)}
         /\ q.id \notin Active(c) =>
              Capital(d) = Capital(c) + Pot(q) /\ LinkWorth(d) = LinkWorth(c)
         /\ q.id \in Active(c) =>
              Capital(d) = Capital(c) /\ LinkWorth(d) + Pot(q) = LinkWorth(c)
<1> DEFINE new == NewAgreement(q, pass)
<1>1. /\ q.id \in Nat /\ q.dep[u] \in Nat /\ q.dep[Other(u)] \in Nat /\ Pot(q) \in Nat
      /\ Pot(q) = q.dep[u] + q.dep[Other(u)]
  BY OpeningTypes, PotType, OtherIs DEF Pot, Users
<1>2. /\ c.ver \in Nat /\ c.user \in Nat /\ c.hub \in Nat /\ c.agr \subseteq Agreement
      /\ IsFiniteSet(c.agr)
  BY DEF KnownLink, Link
<1>3. new \in Agreement /\ new.app = q.id /\ new.capital = CapitalOf[q.id] /\ new.capital = Pot(q)
  BY <1>1, StakesAre DEF NewAgreement, Agreement
<1>4. /\ d.ver = c.ver + 2 /\ d.user = c.user - q.dep[u] /\ d.hub = c.hub - q.dep[Other(u)]
      /\ d.agr = {a \in c.agr : a.app # q.id} \cup {new}
      /\ d = [ver |-> d.ver, user |-> d.user, hub |-> d.hub, agr |-> d.agr]
  BY DEF AddAgreement
<1>5. d.user \in Nat /\ d.hub \in Nat /\ d.ver \in Nat /\ d.hub <= c.hub /\ d.user <= c.user
  BY <1>1, <1>2, <1>4 DEF CanAgree
<1>6. d.agr \subseteq Agreement
  BY <1>2, <1>3, <1>4
<1>7. IsFiniteSet(d.agr)
  <2>1. {a \in c.agr : a.app # q.id} \subseteq c.agr OBVIOUS
  <2>2. IsFiniteSet({a \in c.agr : a.app # q.id}) BY <1>2, <2>1, FS_Subset
  <2> QED BY <1>4, <2>2, FS_AddElement
<1>8. KnownLink(d)
  <2> HIDE DEF new
  <2>1. d \in Link BY <1>4, <1>5, <1>6 DEF Link
  <2>2. \A a \in d.agr : a.capital = CapitalOf[a.app] BY <1>3, <1>4 DEF KnownLink
  <2>3. \A a, b \in d.agr : a.app = b.app => a = b BY <1>3, <1>4 DEF KnownLink
  <2> QED BY <1>7, <2>1, <2>2, <2>3 DEF KnownLink
<1> HIDE DEF new
<1>9. Active(d) = Active(c) \cup {q.id}
  BY <1>3, <1>4 DEF Active
<1>10. /\ Capital(c) = Total(CapitalOf, Active(c)) /\ Capital(c) \in Nat
       /\ IsFiniteSet(Active(c)) /\ \A i \in Active(c) : CapitalOf[i] \in Nat
  BY CapitalIs
<1>11. Capital(d) = Total(CapitalOf, Active(d))
  BY <1>8, CapitalIs
<1>12. q.id \notin Active(c) => Capital(d) = Capital(c) + Pot(q)
  <2> HAVE q.id \notin Active(c)
  <2>1. \A i \in Active(c) \cup {q.id} : CapitalOf[i] \in Nat BY <1>1, <1>3, <1>10
  <2>2. Total(CapitalOf, Active(c) \cup {q.id}) = CapitalOf[q.id] + Total(CapitalOf, Active(c))
    BY <1>10, <2>1, TotalAdded
  <2> QED BY <1>1, <1>3, <1>9, <1>10, <1>11, <2>2
<1>13. q.id \in Active(c) => Capital(d) = Capital(c)
  <2> HAVE q.id \in Active(c)
  <2>1. Active(d) = Active(c) BY <1>9
  <2> QED BY <1>10, <1>11, <2>1
<1>14. LinkWorth(c) = c.user + c.hub + Capital(c) /\ LinkWorth(d) = d.user + d.hub + Capital(d)
  BY DEF LinkWorth
<1>15. q.id \notin Active(c) => LinkWorth(d) = LinkWorth(c)
  BY <1>1, <1>2, <1>4, <1>5, <1>10, <1>12, <1>14
<1>16. q.id \in Active(c) => LinkWorth(d) + Pot(q) = LinkWorth(c)
  BY <1>1, <1>2, <1>4, <1>5, <1>10, <1>13, <1>14
<1> QED BY <1>4, <1>5, <1>8, <1>9, <1>12, <1>13, <1>15, <1>16 DEF new

\* Removing an agreement pays out what it has locked up.
LEMMA RemoveWorth ==
  ASSUME NEW c, KnownLink(c), NEW u \in Users, NEW app, app \in Active(c),
         NEW toAlice \in Nat, toAlice <= CapitalOf[app],
         NEW d, d = RemoveAgreement(c, u, app, toAlice)
  PROVE  /\ KnownLink(d) /\ d.ver = c.ver + 2 /\ d.agr # c.agr
         /\ d.agr = c.agr \ {AgreementOn(c, app)} /\ Active(d) \subseteq Active(c)
         /\ Capital(d) + CapitalOf[app] = Capital(c) /\ CapitalOf[app] \in Nat
         /\ d.hub = c.hub + Payout(Other(u), CapitalOf[app], toAlice)
         /\ LinkWorth(d) = LinkWorth(c)
<1> DEFINE a == AgreementOn(c, app)
           K == CapitalOf[app]
           pu == Payout(u, K, toAlice)
           po == Payout(Other(u), K, toAlice)
<1>1. /\ c.ver \in Nat /\ c.user \in Nat /\ c.hub \in Nat /\ c.agr \subseteq Agreement
      /\ IsFiniteSet(c.agr)
  BY DEF KnownLink, Link
<1>2. a \in c.agr /\ a.app = app BY DEF AgreementOn, Active
<1>3. a.capital = K BY <1>2 DEF KnownLink
<1>4. /\ Capital(c) = Total(CapitalOf, Active(c)) /\ Capital(c) \in Nat
      /\ IsFiniteSet(Active(c)) /\ \A i \in Active(c) : CapitalOf[i] \in Nat
  BY CapitalIs
<1>5. K \in Nat BY <1>4
<1>6. pu \in Nat /\ po \in Nat /\ pu + po = K
  BY <1>5, OtherIs DEF Payout, Users
<1>7. /\ d.ver = c.ver + 2 /\ d.user = c.user + pu /\ d.hub = c.hub + po
      /\ d.agr = c.agr \ {a}
      /\ d = [ver |-> d.ver, user |-> d.user, hub |-> d.hub, agr |-> d.agr]
  BY <1>3 DEF RemoveAgreement
<1>8. d.agr \subseteq c.agr /\ d.agr # c.agr BY <1>2, <1>7
<1>9. IsFiniteSet(d.agr) BY <1>1, <1>8, FS_Subset
<1> HIDE DEF a, pu, po, K
<1>10. KnownLink(d)
  <2>1. d \in Link BY <1>1, <1>6, <1>7 DEF Link
  <2>2. \A b \in d.agr : b.capital = CapitalOf[b.app] BY <1>8 DEF KnownLink
  <2>3. \A b1, b2 \in d.agr : b1.app = b2.app => b1 = b2 BY <1>8 DEF KnownLink
  <2> QED BY <1>9, <2>1, <2>2, <2>3 DEF KnownLink
<1>11. Active(d) = Active(c) \ {app}
  <2>1. \A b \in c.agr : b.app = app => b = a BY <1>2 DEF KnownLink
  <2> QED BY <1>2, <1>7, <2>1 DEF Active
<1>12. Total(CapitalOf, Active(c)) = CapitalOf[app] + Total(CapitalOf, Active(c) \ {app})
  BY <1>4, TotalAt
<1>13. Capital(d) = Total(CapitalOf, Active(d)) /\ Capital(d) \in Nat
  BY <1>10, CapitalIs
<1>14. Capital(d) + K = Capital(c) BY <1>4, <1>5, <1>11, <1>12, <1>13 DEF K
<1>15. LinkWorth(d) = LinkWorth(c)
  <2>1. LinkWorth(c) = c.user + c.hub + Capital(c) /\ LinkWorth(d) = d.user + d.hub + Capital(d)
    BY DEF LinkWorth
  <2> QED BY <1>1, <1>4, <1>5, <1>6, <1>7, <1>13, <1>14, <2>1
<1> QED BY <1>5, <1>7, <1>8, <1>10, <1>11, <1>14, <1>15 DEF a, K, po

LEMMA SameWorth ==
  ASSUME NEW u, NEW c, NEW d, KnownLink(c), KnownLink(d),
         SetFreeBalance(u, c) = SetFreeBalance(u, d)
  PROVE  LinkWorth(c) = LinkWorth(d) /\ c.ver = d.ver
<1>1. c.ver = d.ver /\ c.user = d.user /\ c.hub = d.hub /\ Active(c) = Active(d)
  BY DEF SetFreeBalance, Active
<1>2. Capital(c) = Capital(d) BY <1>1, CapitalIs
<1> QED BY <1>1, <1>2 DEF LinkWorth

\* Two links that carry the same agreements and together lack k.
HubShort(links, k) ==
  /\ links[Alice].agr = links[Bob].agr
  /\ HubWorth(links) + k = HubWorth(Opening.link)
  /\ \A u \in Users : LinkWorth(links[u]) + k = LinkWorth(Opening.link[u])

LEMMA WorthTypes ==
  ASSUME NEW c, KnownLink(c)
  PROVE  /\ LinkWorth(c) \in Nat /\ LinkWorth(c) = c.user + c.hub + Capital(c)
         /\ c.user \in Nat /\ c.hub \in Nat /\ c.ver \in Nat /\ Capital(c) \in Nat
BY CapitalIs DEF KnownLink, Link, LinkWorth

LEMMA HubAdds ==
  ASSUME NEW links, \A u \in Users : KnownLink(links[u]), HubShort(links, 0),
         NEW q \in Opening.ab.props, \A u \in Users : CanAgree(links[u], u, q),
         NEW pass \in Nat, NEW next,
         \A u \in Users : next[u] = AddAgreement(links[u], u, q, pass)
  PROVE  \E k \in Nat : HubShort(next, k)
<1>1. Alice \in Users /\ Bob \in Users /\ Other(Alice) = Bob /\ Other(Bob) = Alice
  BY OtherIs DEF Users
<1>2. Active(links[Alice]) = Active(links[Bob]) BY DEF HubShort, Active
<1>3. next[Alice].agr = next[Bob].agr
  <2>1. \A u \in Users : next[u].agr = {a \in links[u].agr : a.app # q.id}
                                        \cup {NewAgreement(q, pass)}
    BY AddWorth
  <2>2. links[Alice].agr = links[Bob].agr BY DEF HubShort
  <2> QED BY <1>1, <2>1, <2>2
<1>4. q.dep[Alice] \in Nat /\ q.dep[Bob] \in Nat /\ Pot(q) = q.dep[Alice] + q.dep[Bob]
  BY OpeningTypes, PotType DEF Pot
<1> DEFINE k == IF q.id \in Active(links[Alice]) THEN Pot(q) ELSE 0
<1>5. k \in Nat BY <1>4
<1>6. \A u \in Users : LinkWorth(next[u]) + k = LinkWorth(Opening.link[u])
  <2> TAKE u \in Users
  <2>1. KnownLink(next[u]) BY AddWorth
  <2>2. LinkWorth(next[u]) \in Nat /\ LinkWorth(links[u]) \in Nat BY <2>1, WorthTypes
  <2>3. Active(links[u]) = Active(links[Alice]) BY <1>2 DEF Users
  <2>4. LinkWorth(links[u]) = LinkWorth(Opening.link[u]) BY <2>2 DEF HubShort
  <2>5. q.id \in Active(links[u]) => LinkWorth(next[u]) + Pot(q) = LinkWorth(links[u])
    BY AddWorth
  <2>6. q.id \notin Active(links[u]) => LinkWorth(next[u]) = LinkWorth(links[u])
    BY AddWorth
  <2> QED BY <1>4, <2>2, <2>3, <2>4, <2>5, <2>6
<1>7. HubWorth(next) + k = HubWorth(Opening.link)
  <2>1. /\ next[Alice].hub = links[Alice].hub - q.dep[Bob]
        /\ next[Bob].hub = links[Bob].hub - q.dep[Alice]
    BY <1>1, AddWorth
  <2>2. q.id \in Active(links[Alice]) => Capital(next[Alice]) = Capital(links[Alice])
    BY <1>1, AddWorth
  <2>3. q.id \notin Active(links[Alice]) =>
          Capital(next[Alice]) = Capital(links[Alice]) + Pot(q)
    BY <1>1, AddWorth
  <2>4. /\ links[Alice].hub \in Nat /\ links[Bob].hub \in Nat /\ Capital(links[Alice]) \in Nat
    BY <1>1, WorthTypes
  <2>5. HubWorth(links) = HubWorth(Opening.link)
    BY <2>4 DEF HubShort, HubWorth
  <2>6. HubWorth(next) + k = HubWorth(links)
    BY <1>4, <2>1, <2>2, <2>3, <2>4 DEF HubWorth
  <2> QED BY <2>5, <2>6
<1> QED BY <1>3, <1>5, <1>6, <1>7 DEF HubShort

LEMMA HubRemoves ==
  ASSUME NEW links, \A u \in Users : KnownLink(links[u]), HubShort(links, 0),
         NEW app, app \in Active(links[Alice]), NEW toAlice \in Nat, toAlice <= CapitalOf[app],
         NEW next, \A u \in Users : next[u] = RemoveAgreement(links[u], u, app, toAlice)
  PROVE  HubShort(next, 0)
<1>1. Alice \in Users /\ Bob \in Users /\ Other(Alice) = Bob /\ Other(Bob) = Alice /\ Alice # Bob
  BY OtherIs, VirtualConstants DEF Users
<1>2. links[Alice].agr = links[Bob].agr /\ Active(links[Alice]) = Active(links[Bob])
  BY DEF HubShort, Active
<1>3. \A u \in Users : app \in Active(links[u]) BY <1>2 DEF Users
<1>4. next[Alice].agr = next[Bob].agr
  <2>1. AgreementOn(links[Alice], app) = AgreementOn(links[Bob], app)
    BY <1>2 DEF AgreementOn
  <2>2. \A u \in Users : next[u].agr = links[u].agr \ {AgreementOn(links[u], app)}
    BY <1>3, RemoveWorth
  <2> QED BY <1>1, <1>2, <2>1, <2>2
<1>5. \A u \in Users : LinkWorth(next[u]) + 0 = LinkWorth(Opening.link[u])
  <2> TAKE u \in Users
  <2>1. LinkWorth(links[u]) \in Nat BY WorthTypes
  <2>2. LinkWorth(next[u]) = LinkWorth(links[u]) BY <1>3, RemoveWorth
  <2> QED BY <2>1, <2>2 DEF HubShort
<1>6. HubWorth(next) + 0 = HubWorth(Opening.link)
  <2>1. /\ next[Alice].hub = links[Alice].hub + Payout(Bob, CapitalOf[app], toAlice)
        /\ next[Bob].hub = links[Bob].hub + Payout(Alice, CapitalOf[app], toAlice)
    BY <1>1, <1>3, RemoveWorth
  <2>2. Payout(Bob, CapitalOf[app], toAlice) = CapitalOf[app] - toAlice
        /\ Payout(Alice, CapitalOf[app], toAlice) = toAlice
    BY <1>1 DEF Payout
  <2>3. Capital(next[Alice]) + CapitalOf[app] = Capital(links[Alice]) /\ CapitalOf[app] \in Nat
    BY <1>1, <1>3, RemoveWorth
  <2>4. KnownLink(next[Alice]) BY <1>1, <1>3, RemoveWorth
  <2>5. /\ links[Alice].hub \in Nat /\ links[Bob].hub \in Nat /\ Capital(links[Alice]) \in Nat
        /\ Capital(next[Alice]) \in Nat
    BY <1>1, <2>4, WorthTypes
  <2>6. HubWorth(links) = HubWorth(Opening.link)
    BY <2>5 DEF HubShort, HubWorth
  <2>7. HubWorth(next) + 0 = HubWorth(links)
    BY <2>1, <2>2, <2>3, <2>5 DEF HubWorth
  <2> QED BY <2>6, <2>7
<1> QED BY <1>4, <1>5, <1>6 DEF HubShort

-----------------------------------------------------------------------------
(* What is known of channels and runs when nobody restarts.                 *)

KnownAB(ab) ==
  /\ ab.props \subseteq Opening.ab.props
  /\ \A va \in ab.apps : Pot(va) = CapitalOf[va.id] /\ va.toAlice <= Pot(va)

KnownChannels(ch) ==
  /\ ch \in Channels /\ KnownAB(ch.ab)
  /\ \A u \in Users : KnownLink(ch.link[u])

Ini(r) == half[r]["initiator"]
Med(r) == half[r]["intermediary"]
Rsp(r) == half[r]["responder"]

KnownOp(e, pc) ==
  \/ e.op.kind = "none" /\ pc = "idle"
  \/ /\ e.op.kind = "install" /\ pc # "idle"
     /\ e.op = [kind |-> "install", q |-> e.op.q]
     /\ e.op.q \in Opening.ab.props /\ e.op.q.by = Other(e.by)
  \/ /\ e.op.kind = "uninstall" /\ pc # "idle"
     /\ e.op.toAlice \in Nat /\ e.op.toAlice <= CapitalOf[e.op.app]

Known ==
  /\ store = [p \in Parties |-> store[p]]
  /\ \A p \in Parties : KnownChannels(store[p])
  /\ \A r \in Runs, role \in Roles : KnownChannels(half[r][role].post)
  /\ \A r \in Runs : KnownOp(run[r], Ini(r).pc)

\* Runs start one after the other, and one at a time has an initiator at work.
Serial ==
  /\ leases \subseteq Runs
  /\ \A r, s \in Runs : r < s /\ Ini(r).pc = "idle" => Ini(s).pc = "idle"
  /\ \A r, s \in Runs : r \in leases /\ s \in leases => r = s
  /\ \A r \in Runs : Going(Ini(r)) => r \in leases
  /\ \A r, s \in Runs : r < s /\ Ini(s).pc # "idle" => ~Going(Ini(r))

-----------------------------------------------------------------------------
(* How far a run is, from its halves i, c and s and the mail of the run.     *)

\* The messages of run r, and what is said of them.
Mail(r) == {m \in net : m.run = r}

One(mail, n) == \E m : mail = {m} /\ m.n = n

Carries(mail, kind, c) ==
  \A m \in mail : \A g \in m.sigs : g.c.kind = kind => g.c = c

\* Two halves have computed the same free balance for the link of u.
Agree(u, x, y) ==
  SetFreeBalance(u, x.post.link[u]) = SetFreeBalance(u, y.post.link[u])

VirtualState(op, post) ==
  SetVirtual(CHOOSE va \in post.ab.apps : va.id = op.q.id)

\* Message n is on its way and its reader waits for it.
Due(n, i, c, s) ==
  /\ n \in {1, 2, 3, 4} => i.pc = "wait4"
  /\ n \in {5, 6} => i.pc = "wait8"
  /\ n = 1 => c.pc = "idle"
  /\ n \in {2, 3} => c.pc = "wait3"
  /\ n \in {4, 5} => c.pc = "wait5"
  /\ n = 6 => c.pc = "wait7"
  /\ n \in {1, 2} => s.pc = "idle"
  /\ n \in {3, 4, 5, 6} => s.pc = "wait6"

\* Before anybody persists anything.
EarlyAt(n, e, i, c, s, mail) ==
  /\ Due(n, i, c, s) /\ One(mail, n)
  /\ n = 5 => Carries(mail, "freeBalance", FreeOf(e.by, i.post))
  /\ n = 6 => Agree(e.by, i, c)
  /\ e.op.kind = "install" =>
       /\ n = 3 => Carries(mail, "freeBalance", FreeOf(Other(e.by), s.post))
       /\ n \in {4, 5, 6} => Agree(Other(e.by), s, c)
       /\ n \in {5, 6} => Carries(mail, "pass", i.pass)
                          /\ Carries(mail, "virtual", VirtualState(e.op, i.post))
       /\ n = 6 => i.pass = c.pass
  /\ e.op.kind = "uninstall" /\ n = 6 =>
       Carries(mail, "freeBalance", FreeOf(Other(e.by), c.post))

Early(r) == \E n \in 1..6 : EarlyAt(n, run[r], Ini(r), Med(r), Rsp(r), Mail(r))

\* What the responder has signed when it persists an installation.
RspSigned(e, i) ==
  {Signature(Other(e.by), i.pass), Signature(Other(e.by), VirtualState(e.op, i.post))}

Says(mail, n, sigs) == \E m : mail = {m} /\ m.n = n /\ sigs \subseteq m.sigs

Lists(h, lefts) == h.pc = "saving" => h.left \in lefts

InstallLate(e, i, c, s, mail) ==
  LET a == e.by
      b == Other(e.by)
  IN  /\ e.op.kind = "install"
      /\ s.pc \in {"saving", "done"}
      /\ Lists(s, {<<b, "abi", "ab">>, <<"abi", "ab">>, <<"ab">>, <<>>})
      /\ c.pc \in {"wait7", "saving", "done"}
      /\ Lists(c, {<<"abi", b, a>>, <<b, a>>, <<a>>, <<>>})
      /\ i.pc \in {"wait8", "saving", "returned"}
      /\ Lists(i, {<<a, "ab", "abi">>, <<"ab", "abi">>, <<"abi">>, <<>>})
      /\ i.pc = "wait8" /\ c.pc = "wait7" =>
           i.pass = c.pass /\ (mail # {} => Says(mail, 7, RspSigned(e, i)))
      /\ i.pc = "wait8" /\ c.pc # "wait7" /\ mail # {} =>
           Says(mail, 8, RspSigned(e, i) \cup {Signature(Ingrid, i.pass)})
      /\ i.pc # "wait8" => c.pc # "wait7" /\ mail = {}

UninstallLate(e, i, c, s, mail) ==
  LET a == e.by
      b == Other(e.by)
  IN  /\ e.op.kind = "uninstall"
      /\ Lists(s, {<<"ab", "abi", b>>, <<"abi", b>>, <<b>>, <<>>})
      /\ Lists(c, {<<a, "abi", b>>, <<"abi", b>>, <<b>>, <<>>})
      /\ Lists(i, {<<a, "abi", "ab">>, <<"abi", "ab">>, <<"ab">>, <<>>})
      /\ \/ i.pc = "wait8" /\ c.pc = "wait7" /\ s.pc = "saving" /\ mail = {}
         \/ i.pc = "wait8" /\ c.pc = "wait7" /\ s.pc = "done" /\ One(mail, 7)
         \/ i.pc = "wait8" /\ c.pc = "saving" /\ s.pc = "done" /\ mail = {}
         \/ i.pc = "wait8" /\ c.pc = "done" /\ s.pc = "done" /\ One(mail, 8)
         \/ i.pc = "saving" /\ c.pc = "done" /\ s.pc = "done" /\ mail = {}

\* The responder has begun to persist: the run succeeds unless mail is lost.
LateAt(e, i, c, s, mail) ==
  InstallLate(e, i, c, s, mail) \/ UninstallLate(e, i, c, s, mail)

Late(r) == LateAt(run[r], Ini(r), Med(r), Rsp(r), Mail(r))

\* Nothing of the run is under way.
StillAt(i, c, s, mail) ==
  mail = {} /\ i.pc # "saving" /\ c.pc # "saving" /\ s.pc # "saving"

Still(r) == StillAt(Ini(r), Med(r), Rsp(r), Mail(r))

Flow == \A r \in Runs : Still(r) \/ Early(r) \/ Late(r)

Base == Known /\ Serial /\ Flow

-----------------------------------------------------------------------------
(* What a step must establish of Base.                                      *)

LEMMA StillIsQuiet ==
  \A r : Quiet(r) <=> Still(r)
BY DEF Quiet, Still, StillAt, Mail, Ini, Med, Rsp, Roles

\* What is not touched of the other runs.
Apart(r) ==
  \A s \in Runs \ {r} : half'[s] = half[s] /\ Mail(s)' = Mail(s) /\ run'[s] = run[s]

LEMMA Frame ==
  ASSUME NEW r, Apart(r), NEW s \in Runs, s # r
  PROVE  /\ Ini(s)' = Ini(s) /\ Med(s)' = Med(s) /\ Rsp(s)' = Rsp(s)
         /\ Mail(s)' = Mail(s) /\ run'[s] = run[s] /\ half'[s] = half[s]
         /\ Still(s)' = Still(s) /\ Early(s)' = Early(s) /\ Late(s)' = Late(s)
<1>1. /\ Ini(s)' = Ini(s) /\ Med(s)' = Med(s) /\ Rsp(s)' = Rsp(s)
      /\ Mail(s)' = Mail(s) /\ run'[s] = run[s] /\ half'[s] = half[s]
  BY DEF Apart, Ini, Med, Rsp
<1>2. Still(s)' = Still(s) BY <1>1 DEF Still, StillAt
<1>3. Early(s)' = Early(s) BY <1>1, Zenon DEF Early
<1>4. Late(s)' = Late(s) BY <1>1, Zenon DEF Late
<1> QED BY <1>1, <1>2, <1>3, <1>4

\* What a step of run r that has begun must establish.
LEMMA BaseStep ==
  ASSUME Base, NEW r \in Runs, Apart(r), UNCHANGED run,
         Ini(r).pc # "idle", Ini(r)'.pc # "idle",
         store' = [p \in Parties |-> store'[p]],
         \A p \in Parties : KnownChannels(store'[p]),
         \A role \in Roles : KnownChannels(half'[r][role].post),
         \/ leases' = leases /\ (Going(Ini(r)') => Going(Ini(r)))
         \/ leases' = leases \ {r} /\ ~Going(Ini(r)'),
         Still(r)' \/ Early(r)' \/ Late(r)'
  PROVE  Base'
<1>1. \A s \in Runs : s # r => /\ Ini(s)' = Ini(s) /\ half'[s] = half[s]
                               /\ Still(s)' = Still(s) /\ Early(s)' = Early(s)
                               /\ Late(s)' = Late(s)
  BY Frame
<1>2. Known'
  <2>1. \A s \in Runs, role \in Roles : KnownChannels(half'[s][role].post)
    BY <1>1 DEF Base, Known
  <2>2. \A s \in Runs : KnownOp(run'[s], Ini(s)'.pc)
    <3> TAKE s \in Runs
    <3>1. KnownOp(run[s], Ini(s).pc) BY DEF Base, Known
    <3> QED BY <1>1, <3>1 DEF KnownOp
  <2> QED BY <2>1, <2>2 DEF Known
<1>3. Serial'
  <2>1. \A s \in Runs : Ini(s)'.pc = "idle" <=> Ini(s).pc = "idle" BY <1>1
  <2>2. \A s \in Runs : Going(Ini(s)') => s \in leases'
    <3> TAKE s \in Runs
    <3>1. Going(Ini(s)) => s \in leases BY DEF Base, Serial
    <3> QED BY <1>1, <3>1
  <2>3. leases' \subseteq leases OBVIOUS
  <2>4. \A s, t \in Runs : s \in leases' /\ t \in leases' => s = t BY <2>3 DEF Base, Serial
  <2>5. \A s, t \in Runs : s < t /\ Ini(s)'.pc = "idle" => Ini(t)'.pc = "idle"
    BY <2>1 DEF Base, Serial
  <2>6. \A s \in Runs : Going(Ini(s)') => Going(Ini(s))
    BY <1>1
  <2>7. \A s, t \in Runs : s < t /\ Ini(t)'.pc # "idle" => ~Going(Ini(s)')
    BY <2>1, <2>6 DEF Base, Serial
  <2> HIDE DEF Base
  <2>8. leases' \subseteq Runs BY <2>3 DEF Base, Serial
  <2>9. \A s : Going(Ini(s))' <=> Going(Ini(s)') BY DEF Going
  <2> QED BY <2>2, <2>4, <2>5, <2>7, <2>8, <2>9 DEF Serial
<1>4. Flow'
  BY <1>1 DEF Base, Flow
<1> QED BY <1>2, <1>3, <1>4 DEF Base

-----------------------------------------------------------------------------
(* The channels the halves compute.                                         *)

LEMMA ChannelsAre ==
  ASSUME NEW ch, ch \in Channels
  PROVE  /\ ch.link \in [Users -> Link] /\ ch.ab \in AB /\ ch.abi \in ABI
         /\ ch = [link |-> ch.link, ab |-> ch.ab, abi |-> ch.abi]
         /\ ch.abi.np \in Nat /\ ch.abi.apps \subseteq PassApp
         /\ ch.ab.np \in Nat /\ ch.ab.apps \subseteq VirtualApp /\ ch.ab.props \subseteq Proposal
         /\ ch.ab = [np |-> ch.ab.np, props |-> ch.ab.props, apps |-> ch.ab.apps]
         /\ ch.abi = [np |-> ch.abi.np, apps |-> ch.abi.apps]
BY DEF Channels, AB, ABI

LEMMA AppAdded ==
  /\ \A ab \in AB, a \in VirtualApp :
       /\ AddApp(ab, a) \in AB /\ AddApp(ab, a).props = ab.props
       /\ AddApp(ab, a).apps = {b \in ab.apps : b.id # a.id} \cup {a}
  /\ \A abi \in ABI, a \in PassApp : AddApp(abi, a) \in ABI
<1>1. ASSUME NEW ab \in AB, NEW a \in VirtualApp
      PROVE  /\ AddApp(ab, a) \in AB /\ AddApp(ab, a).props = ab.props
             /\ AddApp(ab, a).apps = {b \in ab.apps : b.id # a.id} \cup {a}
  <2> DEFINE S == {b \in ab.apps : b.id # a.id} \cup {a}
  <2>1. ab.np \in Nat /\ ab.props \subseteq Proposal /\ S \subseteq VirtualApp
        /\ ab = [np |-> ab.np, props |-> ab.props, apps |-> ab.apps]
    BY DEF AB
  <2>2. AddApp(ab, a) = [ab EXCEPT !.np = @ + 1, !.apps = S] BY DEF AddApp
  <2> HIDE DEF S
  <2>3. AddApp(ab, a) = [np |-> ab.np + 1, props |-> ab.props, apps |-> S]
    BY <2>1, <2>2
  <2> QED BY <2>1, <2>3 DEF AB, S
<1>2. ASSUME NEW abi \in ABI, NEW a \in PassApp
      PROVE  AddApp(abi, a) \in ABI
  <2> DEFINE S == {b \in abi.apps : b.id # a.id} \cup {a}
  <2>1. abi.np \in Nat /\ S \subseteq PassApp /\ abi = [np |-> abi.np, apps |-> abi.apps]
    BY DEF ABI
  <2>2. AddApp(abi, a) = [abi EXCEPT !.np = @ + 1, !.apps = S] BY DEF AddApp
  <2> HIDE DEF S
  <2>3. AddApp(abi, a) = [np |-> abi.np + 1, apps |-> S] BY <2>1, <2>2
  <2> QED BY <2>1, <2>3 DEF ABI
<1> QED BY <1>1, <1>2

LEMMA AppRemoved ==
  /\ \A id : \A ab \in AB :
       /\ Without(ab, id) \in AB /\ Without(ab, id).props = ab.props
       /\ Without(ab, id).apps \subseteq ab.apps
  /\ \A id : \A abi \in ABI : Without(abi, id) \in ABI
<1>1. ASSUME NEW ab \in AB, NEW id
      PROVE  /\ Without(ab, id) \in AB /\ Without(ab, id).props = ab.props
             /\ Without(ab, id).apps \subseteq ab.apps
  <2> DEFINE S == {b \in ab.apps : b.id # id}
  <2>1. ab.np \in Nat /\ ab.props \subseteq Proposal /\ S \subseteq VirtualApp
        /\ ab = [np |-> ab.np, props |-> ab.props, apps |-> ab.apps] /\ S \subseteq ab.apps
    BY DEF AB
  <2>2. Without(ab, id) = [ab EXCEPT !.apps = S] BY DEF Without
  <2> HIDE DEF S
  <2>3. Without(ab, id) = [np |-> ab.np, props |-> ab.props, apps |-> S] BY <2>1, <2>2
  <2> QED BY <2>1, <2>3 DEF AB
<1>2. ASSUME NEW abi \in ABI, NEW id
      PROVE  Without(abi, id) \in ABI
  <2> DEFINE S == {b \in abi.apps : b.id # id}
  <2>1. abi.np \in Nat /\ S \subseteq PassApp /\ abi = [np |-> abi.np, apps |-> abi.apps]
    BY DEF ABI
  <2>2. Without(abi, id) = [abi EXCEPT !.apps = S] BY DEF Without
  <2> HIDE DEF S
  <2>3. Without(abi, id) = [np |-> abi.np, apps |-> S] BY <2>1, <2>2
  <2> QED BY <2>1, <2>3 DEF ABI
<1> QED BY <1>1, <1>2

LEMMA NewApps ==
  ASSUME NEW q \in Opening.ab.props, NEW abi \in ABI
  PROVE  /\ NewVirtualApp(q) \in VirtualApp /\ NewPassApp(abi, q) \in PassApp
         /\ Pot(NewVirtualApp(q)) = CapitalOf[NewVirtualApp(q).id]
         /\ NewVirtualApp(q).toAlice <= Pot(NewVirtualApp(q))
<1>1. q \in Proposal /\ q.id \in Nat /\ q.dep \in [Users -> Nat] /\ q.dep[Alice] \in Nat
      /\ q.dep[Bob] \in Nat /\ CapitalOf[q.id] = Pot(q)
  BY OpeningTypes, PotType, StakesAre
<1> QED BY <1>1 DEF NewVirtualApp, NewPassApp, VirtualApp, PassApp, Pot, ABI

LEMMA UserInstalls ==
  ASSUME NEW u \in Users, KnownChannels(store[u]), NEW q \in Opening.ab.props,
         CanInstall(u, q)
  PROVE  /\ KnownChannels(InstalledByUser(u, q)) /\ CanAgree(store[u].link[u], u, q)
         /\ InstalledByUser(u, q).link[u] =
              AddAgreement(store[u].link[u], u, q, store[u].abi.np)
         /\ store[u].abi.np \in Nat
<1> DEFINE s == store[u]
           L == AddAgreement(s.link[u], u, q, s.abi.np)
           A == AddApp(s.ab, NewVirtualApp(q))
           B == AddApp(s.abi, NewPassApp(s.abi, q))
           P == InstalledByUser(u, q)
<1>1. /\ s.link \in [Users -> Link] /\ s.ab \in AB /\ s.abi \in ABI /\ s.abi.np \in Nat
      /\ s = [link |-> s.link, ab |-> s.ab, abi |-> s.abi]
  BY ChannelsAre DEF KnownChannels
<1>2. CanAgree(s.link[u], u, q)
  BY OtherIs DEF CanInstall, LinksOf
<1>3. KnownLink(L) /\ L \in Link
  BY <1>1, <1>2, AddWorth DEF KnownChannels, KnownLink
<1>4. A \in AB /\ B \in ABI /\ A.props = s.ab.props
      /\ A.apps = {b \in s.ab.apps : b.id # NewVirtualApp(q).id} \cup {NewVirtualApp(q)}
  BY <1>1, NewApps, AppAdded
<1>5. KnownAB(A)
  BY <1>4, NewApps DEF KnownAB, KnownChannels
<1>6. P = [s EXCEPT !.link[u] = L, !.ab = A, !.abi = B]
  BY Zenon DEF InstalledByUser
<1> HIDE DEF L, A, B
<1>7. P = [link |-> [s.link EXCEPT ![u] = L], ab |-> A, abi |-> B]
  <2> HIDE DEF P, s
  <2> QED BY <1>1, <1>6
<1>8. P.link \in [Users -> Link] /\ P.link[u] = L /\ P.ab = A /\ P.abi = B
      /\ \A v \in Users : v # u => P.link[v] = s.link[v]
  <2> HIDE DEF P, s
  <2> QED BY <1>1, <1>3, <1>7
<1>9. P \in Channels
  <2> HIDE DEF P, s
  <2> QED BY <1>4, <1>7, <1>8 DEF Channels
<1>10. \A v \in Users : KnownLink(P.link[v])
  BY <1>3, <1>8 DEF KnownChannels
<1> QED BY <1>1, <1>2, <1>5, <1>8, <1>9, <1>10 DEF KnownChannels, L

LEMMA HubInstalls ==
  ASSUME KnownChannels(store[Ingrid]), NEW q \in Opening.ab.props, CanInstall(Ingrid, q)
  PROVE  /\ KnownChannels(InstalledByIngrid(q)) /\ store[Ingrid].abi.np \in Nat
         /\ \A u \in Users :
              /\ CanAgree(store[Ingrid].link[u], u, q)
              /\ InstalledByIngrid(q).link[u] =
                   AddAgreement(store[Ingrid].link[u], u, q, store[Ingrid].abi.np)
<1> DEFINE s == store[Ingrid]
           L == [u \in Users |-> AddAgreement(s.link[u], u, q, s.abi.np)]
           B == AddApp(s.abi, NewPassApp(s.abi, q))
           P == InstalledByIngrid(q)
<1>1. /\ s.link \in [Users -> Link] /\ s.ab \in AB /\ s.abi \in ABI /\ s.abi.np \in Nat
      /\ s = [link |-> s.link, ab |-> s.ab, abi |-> s.abi]
  BY ChannelsAre DEF KnownChannels
<1>2. \A u \in Users : CanAgree(s.link[u], u, q)
  BY DEF CanInstall, LinksOf
<1>3. \A u \in Users : L[u] = AddAgreement(s.link[u], u, q, s.abi.np) OBVIOUS
<1>4. \A u \in Users : KnownLink(L[u])
  BY <1>1, <1>2, <1>3, AddWorth DEF KnownChannels
<1>5. B \in ABI
  BY <1>1, NewApps, AppAdded
<1>6. P = [s EXCEPT !.link = L, !.abi = B]
  BY Zenon DEF InstalledByIngrid
<1>7. L = [u \in Users |-> L[u]] OBVIOUS
<1> HIDE DEF L, B, P, s
<1>8. P = [link |-> L, ab |-> s.ab, abi |-> B]
  BY <1>1, <1>6
<1>9. L \in [Users -> Link] BY <1>4, <1>7 DEF KnownLink
<1>10. P \in Channels
  BY <1>1, <1>5, <1>8, <1>9 DEF Channels
<1>11. KnownAB(P.ab) BY <1>8 DEF KnownChannels, s
<1>12. P.link = L BY <1>8
<1> QED BY <1>1, <1>2, <1>3, <1>4, <1>10, <1>11, <1>12 DEF KnownChannels, s, P

LEMMA UserUninstalls ==
  ASSUME NEW u \in Users, KnownChannels(store[u]), NEW op,
         op.toAlice \in Nat, op.toAlice <= CapitalOf[op.app],
         op.app \in Active(store[u].link[u])
  PROVE  /\ KnownChannels(UninstalledByUser(u, op))
         /\ UninstalledByUser(u, op).link[u] =
              RemoveAgreement(store[u].link[u], u, op.app, op.toAlice)
<1> DEFINE s == store[u]
           L == RemoveAgreement(s.link[u], u, op.app, op.toAlice)
           A == Without(s.ab, op.app)
           B == Without(s.abi, PassOf(u, u, op.app).id)
           P == UninstalledByUser(u, op)
<1>1. /\ s.link \in [Users -> Link] /\ s.ab \in AB /\ s.abi \in ABI
      /\ s = [link |-> s.link, ab |-> s.ab, abi |-> s.abi]
  BY ChannelsAre DEF KnownChannels
<1>2. KnownLink(L) /\ L \in Link
  <2>1. KnownLink(s.link[u]) BY DEF KnownChannels
  <2>2. KnownLink(L) BY <2>1, RemoveWorth
  <2> QED BY <2>2 DEF KnownLink
<1>3. A \in AB /\ B \in ABI /\ A.props = s.ab.props /\ A.apps \subseteq s.ab.apps
  BY <1>1, AppRemoved
<1>4. KnownAB(A)
  BY <1>3 DEF KnownAB, KnownChannels
<1>5. P = [s EXCEPT !.link[u] = L, !.ab = A, !.abi = B]
  BY Zenon DEF UninstalledByUser
<1> HIDE DEF L, A, B
<1>6. P = [link |-> [s.link EXCEPT ![u] = L], ab |-> A, abi |-> B]
  <2> HIDE DEF P, s
  <2> QED BY <1>1, <1>5
<1>7. P.link \in [Users -> Link] /\ P.link[u] = L /\ P.ab = A /\ P.abi = B
      /\ \A v \in Users : v # u => P.link[v] = s.link[v]
  <2> HIDE DEF P, s
  <2> QED BY <1>1, <1>2, <1>6
<1>8. P \in Channels
  <2> HIDE DEF P, s
  <2> QED BY <1>3, <1>6, <1>7 DEF Channels
<1>9. \A v \in Users : KnownLink(P.link[v])
  BY <1>2, <1>7 DEF KnownChannels
<1> QED BY <1>4, <1>7, <1>8, <1>9 DEF KnownChannels, L

LEMMA HubUninstalls ==
  ASSUME KnownChannels(store[Ingrid]), NEW init \in Users, NEW op,
         op.toAlice \in Nat, op.toAlice <= CapitalOf[op.app],
         \A u \in Users : op.app \in Active(store[Ingrid].link[u])
  PROVE  /\ KnownChannels(UninstalledByIngrid(init, op))
         /\ \A u \in Users :
              UninstalledByIngrid(init, op).link[u] =
                RemoveAgreement(store[Ingrid].link[u], u, op.app, op.toAlice)
<1> DEFINE s == store[Ingrid]
           L == [u \in Users |-> RemoveAgreement(s.link[u], u, op.app, op.toAlice)]
           B == Without(s.abi, PassOf(Ingrid, init, op.app).id)
           P == UninstalledByIngrid(init, op)
<1>1. /\ s.link \in [Users -> Link] /\ s.ab \in AB /\ s.abi \in ABI
      /\ s = [link |-> s.link, ab |-> s.ab, abi |-> s.abi]
  BY ChannelsAre DEF KnownChannels
<1>3. \A u \in Users : L[u] = RemoveAgreement(s.link[u], u, op.app, op.toAlice) OBVIOUS
<1>4. \A u \in Users : KnownLink(L[u])
  <2> TAKE u \in Users
  <2>1. KnownLink(s.link[u]) BY DEF KnownChannels
  <2> HIDE DEF s
  <2> QED BY <1>3, <2>1, RemoveWorth DEF s
<1>5. B \in ABI
  BY <1>1, AppRemoved
<1>6. P = [s EXCEPT !.link = L, !.abi = B]
  BY Zenon DEF UninstalledByIngrid
<1>7. L = [u \in Users |-> L[u]] OBVIOUS
<1> HIDE DEF L, B, P, s
<1>8. P = [link |-> L, ab |-> s.ab, abi |-> B]
  BY <1>1, <1>6
<1>9. L \in [Users -> Link] BY <1>4, <1>7 DEF KnownLink
<1>10. P \in Channels
  BY <1>1, <1>5, <1>8, <1>9 DEF Channels
<1>11. KnownAB(P.ab) BY <1>8 DEF KnownChannels, s
<1>12. P.link = L BY <1>8
<1> QED BY <1>3, <1>4, <1>10, <1>11, <1>12 DEF KnownChannels, s, P

-----------------------------------------------------------------------------
(* Mail and halves of one run.                                              *)

LEMMA OpeningKnown == KnownChannels(Opening)
BY VirtualConstants, OpeningTypes, StakesAre, OpeningSettled DEF KnownChannels, KnownAB, Pot

LEMMA NetRuns ==
  ASSUME IInv, NEW m \in net
  PROVE  m.run \in Runs /\ m \in Mail(m.run) /\ ~Still(m.run)
BY DEF IInv, Shape, Mail, Still, StillAt

LEMMA MailAnswered ==
  ASSUME NEW m \in net, NEW n, NEW to, NEW sigs, Mail(m.run) = {m},
         Answered(m, n, to, sigs)
  PROVE  /\ Mail(m.run)' = {[run |-> m.run, n |-> n, to |-> to, sigs |-> sigs]}
         /\ \A s \in Runs \ {m.run} : Mail(s)' = Mail(s)
<1> DEFINE new == [run |-> m.run, n |-> n, to |-> to, sigs |-> sigs]
<1>1. net' = (net \ {m}) \cup {new} /\ new.run = m.run BY DEF Answered
<1> HIDE DEF new
<1>2. Mail(m.run)' = {new} BY <1>1 DEF Mail
<1>3. \A s \in Runs \ {m.run} : Mail(s)' = Mail(s) BY <1>1 DEF Mail
<1> QED BY <1>2, <1>3 DEF new

LEMMA MailTaken ==
  ASSUME NEW m \in net, Mail(m.run) = {m}, net' = net \ {m}
  PROVE  /\ Mail(m.run)' = {}
         /\ \A s \in Runs \ {m.run} : Mail(s)' = Mail(s)
BY DEF Mail

LEMMA MailSent ==
  ASSUME NEW r, NEW n, NEW to, NEW sigs, Mail(r) = {}, Sent(r, n, to, sigs)
  PROVE  /\ Mail(r)' = {[run |-> r, n |-> n, to |-> to, sigs |-> sigs]}
         /\ \A s \in Runs \ {r} : Mail(s)' = Mail(s)
<1> DEFINE new == [run |-> r, n |-> n, to |-> to, sigs |-> sigs]
<1>1. net' = net \cup {new} /\ new.run = r BY DEF Sent
<1> HIDE DEF new
<1>2. Mail(r)' = {new} BY <1>1 DEF Mail
<1>3. \A s \in Runs \ {r} : Mail(s)' = Mail(s) BY <1>1 DEF Mail
<1> QED BY <1>2, <1>3 DEF new

LEMMA Moves ==
  ASSUME IInv, NEW r \in Runs, NEW role \in Roles, NEW h, Goes(r, role, h)
  PROVE  /\ \A s \in Runs \ {r} : half'[s] = half[s]
         /\ \A x \in Roles : half'[r][x] = IF x = role THEN h ELSE half[r][x]
         /\ role = "initiator" => Ini(r)' = h /\ Med(r)' = Med(r) /\ Rsp(r)' = Rsp(r)
         /\ role = "intermediary" => Ini(r)' = Ini(r) /\ Med(r)' = h /\ Rsp(r)' = Rsp(r)
         /\ role = "responder" => Ini(r)' = Ini(r) /\ Med(r)' = Med(r) /\ Rsp(r)' = h
<1>1. /\ \A s \in Runs \ {r} : half'[s] = half[s]
      /\ \A x \in Roles : half'[r][x] = IF x = role THEN h ELSE half[r][x]
  BY DEF IInv, Shape, Goes
<1> QED BY <1>1 DEF Ini, Med, Rsp, Roles

LEMMA WaitingIs ==
  /\ \A pc \in Waiting : pc \notin {"idle", "saving", "done", "returned", "threw", "crashed"}
  /\ {"wait3", "wait4", "wait5", "wait6", "wait7", "wait8"} = Waiting
  /\ \A h : Going(h) <=> h.pc \in Waiting \/ h.pc = "saving"
  /\ Steps[3] = "wait3" /\ Steps[4] = "wait4" /\ Steps[5] = "wait5" /\ Steps[6] = "wait6"
  /\ Steps[7] = "wait7" /\ Steps[8] = "wait8" /\ Steps[1] = "idle" /\ Steps[2] = "idle"
BY DEF Waiting, Going, Steps

\* The runs in which a message is on its way.
LEMMA AtEarly ==
  ASSUME Base, IInv, NEW m \in net, m.n \in 1..6
  PROVE  /\ m.run \in Runs /\ Mail(m.run) = {m} /\ Early(m.run)
         /\ EarlyAt(m.n, run[m.run], Ini(m.run), Med(m.run), Rsp(m.run), Mail(m.run))
<1> DEFINE r == m.run
<1>1. r \in Runs /\ m \in Mail(r) /\ ~Still(r) BY NetRuns
<1>2. ~Late(r)
  <2> SUFFICES ASSUME Late(r) PROVE FALSE OBVIOUS
  <2>1. CASE InstallLate(run[r], Ini(r), Med(r), Rsp(r), Mail(r))
    BY <1>1, <2>1 DEF InstallLate, Says
  <2>2. CASE UninstallLate(run[r], Ini(r), Med(r), Rsp(r), Mail(r))
    BY <1>1, <2>2 DEF UninstallLate, One
  <2> QED BY <2>1, <2>2 DEF Late, LateAt
<1>3. Early(r) BY <1>1, <1>2 DEF Base, Flow
<1>4. PICK n \in 1..6 : EarlyAt(n, run[r], Ini(r), Med(r), Rsp(r), Mail(r))
  BY <1>3 DEF Early
<1>5. Mail(r) = {m} /\ m.n = n
  BY <1>1, <1>4 DEF EarlyAt, One
<1> QED BY <1>1, <1>3, <1>4, <1>5

LEMMA AtLate ==
  ASSUME Base, IInv, NEW m \in net, m.n \in {7, 8}
  PROVE  /\ m.run \in Runs /\ Mail(m.run) = {m} /\ Late(m.run) /\ ~Early(m.run)
         /\ \/ InstallLate(run[m.run], Ini(m.run), Med(m.run), Rsp(m.run), Mail(m.run))
            \/ UninstallLate(run[m.run], Ini(m.run), Med(m.run), Rsp(m.run), Mail(m.run))
<1> DEFINE r == m.run
<1>1. r \in Runs /\ m \in Mail(r) /\ ~Still(r) BY NetRuns
<1>2. ~Early(r)
  <2> SUFFICES ASSUME Early(r) PROVE FALSE OBVIOUS
  <2>1. PICK n \in 1..6 : EarlyAt(n, run[r], Ini(r), Med(r), Rsp(r), Mail(r)) BY DEF Early
  <2>2. m.n = n BY <1>1, <2>1 DEF EarlyAt, One
  <2> QED BY <2>2
<1>3. Late(r) BY <1>1, <1>2 DEF Base, Flow
<1>4. Mail(r) = {m}
  <2>1. CASE InstallLate(run[r], Ini(r), Med(r), Rsp(r), Mail(r))
    BY <1>1, <2>1 DEF InstallLate, Says
  <2>2. CASE UninstallLate(run[r], Ini(r), Med(r), Rsp(r), Mail(r))
    BY <1>1, <2>2 DEF UninstallLate, One
  <2> QED BY <1>3, <2>1, <2>2 DEF Late, LateAt
<1> QED BY <1>1, <1>2, <1>3, <1>4 DEF Late, LateAt

\* A run whose initiator waits or persists has begun, an early one waits.
LEMMA EarlyIs ==
  ASSUME NEW r, Early(r)
  PROVE  /\ Ini(r).pc \in {"wait4", "wait8"} /\ Ini(r).pc \in Waiting /\ Going(Ini(r))
         /\ Ini(r).pc # "idle" /\ Ini(r).pc # "saving" /\ Ini(r).pc # "returned"
         /\ Med(r).pc = "idle" \/ Med(r).pc \in Waiting
         /\ Rsp(r).pc = "idle" \/ Rsp(r).pc \in Waiting
         /\ Med(r).pc # "saving" /\ Rsp(r).pc # "saving"
         /\ ~Still(r) /\ Mail(r) # {}
<1>1. PICK n \in 1..6 : EarlyAt(n, run[r], Ini(r), Med(r), Rsp(r), Mail(r)) BY DEF Early
<1>2. n \in {1, 2, 3, 4, 5, 6} BY <1>1
<1>3. Mail(r) # {} /\ ~Still(r) BY <1>1 DEF EarlyAt, One, Still, StillAt
<1>4. Ini(r).pc \in {"wait4", "wait8"} BY <1>1, <1>2 DEF EarlyAt, Due
<1>5. Med(r).pc \in {"idle", "wait3", "wait5", "wait7"} BY <1>1, <1>2 DEF EarlyAt, Due
<1>6. Rsp(r).pc \in {"idle", "wait6"} BY <1>1, <1>2 DEF EarlyAt, Due
<1> QED BY <1>3, <1>4, <1>5, <1>6 DEF Waiting, Going

-----------------------------------------------------------------------------
(* A run that fails: nothing was persisted, nothing will be.                *)

Fails(r) ==
  /\ Apart(r) /\ UNCHANGED <<store, run>> /\ Ini(r).pc # "idle"
  /\ \A role \in Roles : half[r][role].pc # "saving"
  /\ Mail(r)' = {}
  /\ \A role \in Roles : \/ half'[r][role] = half[r][role]
                         \/ half'[r][role] \in {Ended("done"), Ended("threw")}
  /\ Ini(r).pc \notin Waiting => Ini(r)' = Ini(r)
  /\ leases' = leases \/ (leases' = leases \ {r} /\ ~Going(Ini(r)'))

LEMMA EndedIs ==
  ASSUME NEW how, NEW h, h = Ended(how)
  PROVE  h.pc = how /\ h.post = Opening
BY DEF Ended

LEMMA FailsBase ==
  ASSUME Base, IInv, NEW r \in Runs, Fails(r)
  PROVE  Base' /\ Still(r)'
<1>1. \A role \in Roles : half'[r][role] = half[r][role]
                          \/ (half'[r][role].pc \in {"done", "threw"} /\ half'[r][role].post = Opening)
  BY EndedIs DEF Fails
<1>2. \A role \in Roles : KnownChannels(half'[r][role].post)
  BY <1>1, OpeningKnown DEF Base, Known
<1>3. \A role \in Roles : half'[r][role].pc # "saving"
  BY <1>1 DEF Fails
<1>4. Still(r)'
  BY <1>3 DEF Still, StillAt, Ini, Med, Rsp, Roles, Fails
<1>5. Ini(r)'.pc # "idle" /\ (Going(Ini(r)') => Going(Ini(r)))
  BY <1>1 DEF Ini, Roles, Fails, Going, Waiting
<1>6. store' = [p \in Parties |-> store'[p]] /\ \A p \in Parties : KnownChannels(store'[p])
  BY DEF Fails, Base, Known
<1>7. Base'
  BY <1>2, <1>4, <1>5, <1>6, BaseStep DEF Fails
<1> QED BY <1>4, <1>7

LEMMA ThrowsFails ==
  ASSUME Base, IInv, NEW m \in net, Mail(m.run) = {m}, NEW role \in Roles,
         Throws(m, role), half[m.run][role].pc \in Waiting \cup {"idle"},
         \A x \in Roles : half[m.run][x].pc # "saving", Ini(m.run).pc \in Waiting
  PROVE  Fails(m.run)
<1> DEFINE r == m.run
<1>1. r \in Runs BY NetRuns
<1>2. /\ UNCHANGED <<store, run>> /\ net' = net \ {m}
      /\ \/ role = "initiator" /\ Goes(r, role, Ended("threw")) /\ leases' = leases \ {r}
         \/ role # "initiator" /\ Goes(r, role, Ended("done")) /\ leases' = leases
  BY DEF Throws, Leave
<1>3. PICK how \in {"done", "threw"} :
        /\ Goes(r, role, Ended(how))
        /\ \/ role = "initiator" /\ leases' = leases \ {r}
           \/ role # "initiator" /\ leases' = leases
  BY <1>2
<1>4. /\ \A s \in Runs \ {r} : half'[s] = half[s]
      /\ \A x \in Roles : half'[r][x] = IF x = role THEN Ended(how) ELSE half[r][x]
      /\ role = "initiator" => Ini(r)' = Ended(how)
  BY <1>1, <1>3, Moves
<1>5. Mail(r)' = {} /\ \A s \in Runs \ {r} : Mail(s)' = Mail(s)
  BY <1>2, MailTaken
<1>6. Apart(r) BY <1>2, <1>4, <1>5 DEF Apart
<1>7. \A x \in Roles : half'[r][x] = half[r][x] \/ half'[r][x] \in {Ended("done"), Ended("threw")}
  BY <1>4
<1>8. role = "initiator" => ~Going(Ini(r)')
  BY <1>3, <1>4 DEF Ended, Going, Waiting
<1>9. Ini(r).pc # "idle" BY WaitingIs
<1> QED BY <1>2, <1>3, <1>5, <1>6, <1>7, <1>8, <1>9 DEF Fails

-----------------------------------------------------------------------------
(* The kinds of steps.                                                      *)

\* The half persists, and has the link of u still to write.
Owing(h, u) == h.pc = "saving" /\ \E i \in DOMAIN h.left : h.left[i] = u

\* The half goes on with what it has computed, and owes what it owed.
GoesOn(h, k) ==
  \/ k = h
  \/ /\ Going(h) /\ Going(k) /\ (h.pc = "saving" <=> k.pc = "saving")
     /\ \A u \in Users : Owing(h, u) <=> Owing(k, u)
     /\ k.post = h.post

\* The half is over, and owes no link.
Stops(h, k) ==
  /\ k.pc \in {"done", "threw", "returned"}
  /\ h.pc = "saving" => k.pc # "threw" /\ \A u \in Users : ~Owing(h, u)

IniKeeps(r) ==
  Ini(r)' = Ini(r) \/ (Going(Ini(r)) /\ (Ini(r).pc = "saving" => Ini(r)'.pc \in {"saving", "returned"}))

\* Nothing that matters to the links happens in run s.
CalmRun(s) ==
  /\ IniKeeps(s)
  /\ \/ /\ Still(s)'
        /\ \A role \in Roles : GoesOn(half[s][role], half'[s][role])
                               \/ Stops(half[s][role], half'[s][role])
     \/ /\ Early(s)' /\ Early(s)
        /\ \A role \in Roles : GoesOn(half[s][role], half'[s][role])
     \/ /\ Late(s)' /\ Late(s) /\ ~Still(s)
        /\ \A role \in Roles :
             \/ GoesOn(half[s][role], half'[s][role])
             \/ half[s][role].pc = "saving" /\ Stops(half[s][role], half'[s][role])

Calm ==
  /\ run' = run
  /\ \A p \in Parties : store'[p].link = store[p].link
  /\ \A s \in Runs : CalmRun(s)

LEMMA SameIsCalm ==
  ASSUME Flow, NEW s \in Runs, half'[s] = half[s], Mail(s)' = Mail(s), run'[s] = run[s]
  PROVE  CalmRun(s)
<1>1. /\ Ini(s)' = Ini(s) /\ Med(s)' = Med(s) /\ Rsp(s)' = Rsp(s)
  BY DEF Ini, Med, Rsp
<1>2. Still(s)' = Still(s) BY <1>1 DEF Still, StillAt
<1>3. Early(s)' = Early(s) BY <1>1, Zenon DEF Early
<1>4. Late(s)' = Late(s) BY <1>1, Zenon DEF Late
<1>5. \A role \in Roles : GoesOn(half[s][role], half'[s][role]) BY DEF GoesOn
<1>6. IniKeeps(s) BY <1>1 DEF IniKeeps
<1> QED BY <1>2, <1>3, <1>4, <1>5, <1>6 DEF CalmRun, Flow

LEMMA ApartIsCalm ==
  ASSUME Base, NEW r \in Runs, Apart(r), run' = run,
         \A p \in Parties : store'[p].link = store[p].link, CalmRun(r)
  PROVE  Calm
<1>1. \A s \in Runs : s # r => CalmRun(s)
  BY SameIsCalm DEF Apart, Base
<1> QED BY <1>1 DEF Calm

LEMMA FailsCalm ==
  ASSUME Base, IInv, NEW r \in Runs, Fails(r)
  PROVE  Base' /\ Calm
<1>1. Base' /\ Still(r)' BY FailsBase
<1>2. \A role \in Roles : GoesOn(half[r][role], half'[r][role])
                               \/ Stops(half[r][role], half'[r][role])
  BY EndedIs DEF Fails, GoesOn, Stops
<1>3. IniKeeps(r)
  BY WaitingIs DEF Fails, IniKeeps, Ini, Roles
<1>4. CalmRun(r) BY <1>1, <1>2, <1>3 DEF CalmRun
<1> QED BY <1>1, <1>4, ApartIsCalm DEF Fails

\* A message of run r is lost, or nobody waits for it.
LEMMA LostCalm ==
  ASSUME Base, IInv, NEW m \in net, net' = net \ {m},
         UNCHANGED <<store, run, half, leases>>
  PROVE  Base' /\ Calm
<1> DEFINE r == m.run
<1>1. r \in Runs /\ m \in Mail(r) /\ ~Still(r) BY NetRuns
<1>2. \A s \in Runs \ {r} : Mail(s)' = Mail(s) BY DEF Mail
<1>3. Early(r) \/ Late(r) BY <1>1 DEF Base, Flow
<1>4. Mail(r) = {m}
  <2>1. CASE Early(r)
    BY <1>1, <2>1 DEF Early, EarlyAt, One
  <2>2. CASE InstallLate(run[r], Ini(r), Med(r), Rsp(r), Mail(r))
    BY <1>1, <2>2 DEF InstallLate, Says
  <2>3. CASE UninstallLate(run[r], Ini(r), Med(r), Rsp(r), Mail(r))
    BY <1>1, <2>3 DEF UninstallLate, One
  <2> QED BY <1>3, <2>1, <2>2, <2>3 DEF Late, LateAt
<1>5. Mail(r)' = {} BY <1>4, MailTaken
<1>6. Ini(r)' = Ini(r) /\ Med(r)' = Med(r) /\ Rsp(r)' = Rsp(r) BY DEF Ini, Med, Rsp
<1>7. Apart(r) BY <1>2 DEF Apart
<1>8. Still(r)' \/ (Late(r)' /\ Late(r) /\ ~Still(r))
  <2>1. CASE Early(r)
    BY <1>5, <1>6, <2>1, EarlyIs DEF Still, StillAt
  <2>2. CASE InstallLate(run[r], Ini(r), Med(r), Rsp(r), Mail(r))
    <3>1. InstallLate(run'[r], Ini(r)', Med(r)', Rsp(r)', Mail(r)')
      BY <1>5, <1>6, <2>2 DEF InstallLate
    <3> QED BY <1>1, <2>2, <3>1 DEF Late, LateAt
  <2>3. CASE UninstallLate(run[r], Ini(r), Med(r), Rsp(r), Mail(r))
    BY <1>1, <1>5, <1>6, <2>3 DEF UninstallLate, Still, StillAt
  <2> QED BY <1>3, <2>1, <2>2, <2>3 DEF Late, LateAt
<1>9. Ini(r).pc # "idle"
  BY <1>1 DEF IInv, Begun, Ini
<1>10. Base'
  <2>1. \A role \in Roles : KnownChannels(half'[r][role].post) BY <1>1 DEF Base, Known
  <2>2. store' = [p \in Parties |-> store'[p]] /\ \A p \in Parties : KnownChannels(store'[p])
    BY DEF Base, Known
  <2> QED BY <1>1, <1>6, <1>7, <1>8, <1>9, <2>1, <2>2, BaseStep
<1>11. CalmRun(r)
  <2>1. \A role \in Roles : GoesOn(half[r][role], half'[r][role]) BY DEF GoesOn
  <2> QED BY <1>6, <1>8, <2>1 DEF CalmRun, IniKeeps
<1> QED BY <1>1, <1>7, <1>10, <1>11, ApartIsCalm

LEMMA StillCalm ==
  ASSUME Base, UNCHANGED <<run, half, net>>, store' = [p \in Parties |-> store'[p]],
         \A p \in Parties : KnownChannels(store'[p]) /\ store'[p].link = store[p].link,
         \/ leases' = leases
         \/ \E r \in leases : ~Going(Ini(r)) /\ leases' = leases \ {r}
  PROVE  Base' /\ Calm
<1>1. \A s \in Runs : half'[s] = half[s] /\ Mail(s)' = Mail(s) /\ run'[s] = run[s]
  BY DEF Mail
<1>2. \A s \in Runs : /\ Ini(s)' = Ini(s) /\ Med(s)' = Med(s) /\ Rsp(s)' = Rsp(s)
  BY DEF Ini, Med, Rsp
<1>3. \A s \in Runs : Still(s)' = Still(s) BY <1>1, <1>2 DEF Still, StillAt
<1>4. \A s \in Runs : Early(s)' = Early(s) BY <1>1, <1>2, Zenon DEF Early
<1>5. \A s \in Runs : Late(s)' = Late(s) BY <1>1, <1>2, Zenon DEF Late
<1>6. Known'
  BY <1>2 DEF Base, Known, KnownOp
<1>7. Serial' BY <1>2 DEF Base, Serial
<1>8. Flow' BY <1>3, <1>4, <1>5 DEF Base, Flow
<1>9. \A s \in Runs : CalmRun(s) BY <1>1, SameIsCalm DEF Base
<1> QED BY <1>6, <1>7, <1>8, <1>9 DEF Base, Calm

\* What Ingrid's drafts are computed from her links.
HubComputed(links, next) ==
  \/ \E q \in Opening.ab.props, pass \in Nat : \A u \in Users :
       CanAgree(links[u], u, q) /\ next[u] = AddAgreement(links[u], u, q, pass)
  \/ \E app : \E toAlice \in Nat : \A u \in Users :
       /\ app \in Active(links[u]) /\ toAlice <= CapitalOf[app]
       /\ next[u] = RemoveAgreement(links[u], u, app, toAlice)

HubComputes(r) ==
  /\ Apart(r) /\ UNCHANGED <<store, run>> /\ Early(r) /\ Early(r)'
  /\ Ini(r)' = Ini(r) /\ Rsp(r)' = Rsp(r) /\ Rsp(r).pc = "idle"
  /\ Med(r).pc = "idle" /\ Med(r)'.pc \in Waiting
  /\ HubComputed(store[Ingrid].link, Med(r)'.post.link)

RspComputes(r) ==
  LET b == Responder(r)
  IN  /\ Apart(r) /\ UNCHANGED <<store, run>> /\ Early(r) /\ Early(r)'
      /\ Ini(r)' = Ini(r) /\ Med(r)' = Med(r) /\ Med(r).pc \in Waiting
      /\ Rsp(r).pc = "idle" /\ Rsp(r)'.pc \in Waiting
      /\ Rsp(r)'.post.link[b].ver = store[b].link[b].ver + 2
      /\ \A i \in Active(Rsp(r)'.post.link[b]) :
           i \in Active(store[b].link[b]) \/ (run[r].op.kind = "install" /\ i = run[r].op.q.id)

\* An answer to one of the first five messages.
LEMMA Answers ==
  ASSUME Base, IInv, NEW m \in net, NEW n, n = m.n + 1, m.n \in 1..5,
         NEW role \in Roles, NEW to, NEW sigs, NEW h,
         Answered(m, n, to, sigs), Goes(m.run, role, h),
         UNCHANGED <<store, run, leases>>, h.pc \in Waiting, KnownChannels(h.post),
         EarlyAt(n, run[m.run], Ini(m.run)', Med(m.run)', Rsp(m.run)', Mail(m.run)')
  PROVE  Base' /\ Early(m.run)' /\ Apart(m.run) /\ Early(m.run)
<1> DEFINE r == m.run
<1>1. r \in Runs /\ Mail(r) = {m} /\ Early(r) BY AtEarly
<1>2. \A s \in Runs \ {r} : Mail(s)' = Mail(s) BY <1>1, MailAnswered
<1>3. /\ \A s \in Runs \ {r} : half'[s] = half[s]
      /\ \A x \in Roles : half'[r][x] = IF x = role THEN h ELSE half[r][x]
  BY <1>1, Moves
<1>4. Apart(r) BY <1>2, <1>3 DEF Apart
<1>5. Early(r)'
  <2>1. n \in 1..6 OBVIOUS
  <2> QED BY <2>1 DEF Early
<1>6. \A x \in Roles : KnownChannels(half'[r][x].post)
  BY <1>1, <1>3 DEF Base, Known
<1>7. Ini(r).pc # "idle" /\ Going(Ini(r)) BY <1>1, EarlyIs
<1>8. Ini(r)'.pc # "idle" BY <1>3, <1>7, WaitingIs DEF Ini, Roles
<1>9. store' = [p \in Parties |-> store'[p]] /\ \A p \in Parties : KnownChannels(store'[p])
  BY DEF Base, Known
<1>10. Base'
  BY <1>1, <1>4, <1>5, <1>6, <1>7, <1>8, <1>9, BaseStep
<1> QED BY <1>1, <1>4, <1>5, <1>10

\* An early message nobody is satisfied with.
LEMMA Refuses ==
  ASSUME Base, IInv, NEW m \in net, m.n \in 1..6, NEW role \in Roles,
         Throws(m, role), half[m.run][role].pc \in Waiting \cup {"idle"}
  PROVE  Base' /\ Calm
<1>1. m.run \in Runs /\ Mail(m.run) = {m} /\ Early(m.run) BY AtEarly
<1>2. \A x \in Roles : half[m.run][x].pc # "saving"
  BY <1>1, EarlyIs DEF Roles, Ini, Med, Rsp
<1>3. Ini(m.run).pc \in Waiting BY <1>1, EarlyIs
<1>4. Fails(m.run) BY <1>1, <1>2, <1>3, ThrowsFails
<1> QED BY <1>1, <1>4, FailsCalm

\* An answer for which the half waits on with what it has.
LEMMA AnswersCalm ==
  ASSUME Base, NEW r \in Runs, Base', Apart(r), Early(r), Early(r)', UNCHANGED <<store, run>>,
         NEW role \in Roles, NEW h,
         \A x \in Roles : half'[r][x] = IF x = role THEN h ELSE half[r][x],
         half[r][role].pc \in Waiting, h.pc \in Waiting, h.post = half[r][role].post
  PROVE  Calm
<1>1. \A x \in Roles : GoesOn(half[r][x], half'[r][x])
  <2>1. GoesOn(half[r][role], h)
    BY WaitingIs DEF GoesOn, Owing
  <2> QED BY <2>1 DEF GoesOn
<1>2. IniKeeps(r)
  <2>1. CASE role = "initiator"
    BY <2>1, WaitingIs DEF IniKeeps, Ini, Roles
  <2>2. CASE role # "initiator"
    BY <2>2 DEF IniKeeps, Ini, Roles
  <2> QED BY <2>1, <2>2
<1>3. CalmRun(r) BY <1>1, <1>2 DEF CalmRun
<1> QED BY <1>3, ApartIsCalm

LEMMA EarlyTwo ==
  \A e, i, c, s, mail, x :
    i.pc = "wait4" /\ c.pc = "wait3" /\ s.pc = "idle" /\ mail = {x} /\ x.n = 2
      => EarlyAt(2, e, i, c, s, mail)
BY DEF EarlyAt, Due, One

LEMMA EarlyOne ==
  \A e, i, c, s, mail : EarlyAt(1, e, i, c, s, mail) => i.pc = "wait4" /\ s.pc = "idle"
BY DEF EarlyAt, Due

-----------------------------------------------------------------------------
(* m1: Ingrid computes her drafts.                                          *)

LEMMA OpKinds ==
  ASSUME Base, NEW r \in Runs, Ini(r).pc # "idle"
  PROVE  /\ run[r].op.kind \in {"install", "uninstall"}
         /\ run[r].op.kind = "install" =>
              run[r].op.q \in Opening.ab.props /\ run[r].op.q.by = Other(run[r].by)
         /\ run[r].op.kind = "uninstall" =>
              run[r].op.toAlice \in Nat /\ run[r].op.toAlice <= CapitalOf[run[r].op.app]
BY DEF Base, Known, KnownOp

LEMMA WaitsIs ==
  ASSUME NEW pc, NEW post, NEW pass, NEW h, h = Waits(pc, post, pass)
  PROVE  h.pc = pc /\ h.post = post /\ h.pass = pass
BY DEF Waits

LEMMA IntermediaryForwardsDoes ==
  ASSUME Base, IInv, NEW m \in net, IntermediaryForwards(m)
  PROVE  Base' /\ (Calm \/ HubComputes(m.run))
<1> DEFINE r == m.run
           q == run[r].op.q
           post == InstalledByIngrid(q)
           sigs == {Signature(Ingrid, CondOf(r, Responder(r), post))}
<1>1. m.n = 1 /\ run[r].op.kind = "install" /\ Med(r).pc = "idle"
  BY WaitingIs DEF IntermediaryForwards, Handles, Med
<1>2. r \in Runs /\ Mail(r) = {m} /\ Early(r)
      /\ EarlyAt(1, run[r], Ini(r), Med(r), Rsp(r), Mail(r))
  BY <1>1, AtEarly
<1>3. CASE Throws(m, "intermediary")
  BY <1>1, <1>3, Refuses DEF Roles, Med
<1>4. CASE ~Throws(m, "intermediary")
  <2>1. PICK h : h = Waits("wait3", post, NewPassState(post)) OBVIOUS
  <2>2. /\ CanInstall(Ingrid, q) /\ Answered(m, 2, Responder(r), sigs)
        /\ Goes(r, "intermediary", h) /\ UNCHANGED <<store, run, leases>>
    BY <1>1, <1>4, <2>1 DEF IntermediaryForwards, Segment
  <2>3. h.pc = "wait3" /\ h.post = post BY <2>1, WaitsIs
  <2>4. Ini(r)' = Ini(r) /\ Med(r)' = h /\ Rsp(r)' = Rsp(r)
    BY <1>2, <2>2, Moves DEF Roles
  <2>5. Mail(r)' = {[run |-> r, n |-> 2, to |-> Responder(r), sigs |-> sigs]}
    BY <1>2, <2>2, MailAnswered
  <2>6. EarlyAt(2, run[r], Ini(r)', Med(r)', Rsp(r)', Mail(r)')
    <3>1. PICK x : x = [run |-> r, n |-> 2, to |-> Responder(r), sigs |-> sigs] OBVIOUS
    <3>2. x.n = 2 /\ Mail(r)' = {x} BY <2>5, <3>1
    <3>3. Ini(r)'.pc = "wait4" /\ Med(r)'.pc = "wait3" /\ Rsp(r)'.pc = "idle"
      BY <1>2, <2>3, <2>4, EarlyOne
    <3> QED BY <3>2, <3>3, EarlyTwo, Zenon
  <2>7. q \in Opening.ab.props
    BY <1>1, <1>2, EarlyIs, OpKinds
  <2>8. KnownChannels(store[Ingrid]) BY OtherIs DEF Base, Known
  <2>9. /\ KnownChannels(post) /\ store[Ingrid].abi.np \in Nat
        /\ \A u \in Users :
             /\ CanAgree(store[Ingrid].link[u], u, q)
             /\ post.link[u] = AddAgreement(store[Ingrid].link[u], u, q, store[Ingrid].abi.np)
    BY <2>2, <2>7, <2>8, HubInstalls
  <2>10. Base' /\ Early(r)' /\ Apart(r)
    <3>1. h.pc \in Waiting BY <2>3 DEF Waiting
    <3> HIDE DEF post, sigs
    <3> QED BY <1>1, <2>2, <2>3, <2>6, <2>9, <3>1, Answers DEF Roles
  <2>11. HubComputed(store[Ingrid].link, Med(r)'.post.link)
    <3> HIDE DEF post, q
    <3> QED BY <2>3, <2>4, <2>7, <2>9 DEF HubComputed
  <2>12. Rsp(r).pc = "idle" BY <1>2 DEF EarlyAt, Due
  <2>13. Med(r)'.pc \in Waiting BY <2>3, <2>4 DEF Waiting
  <2> QED BY <1>1, <1>2, <2>2, <2>4, <2>10, <2>11, <2>12, <2>13 DEF HubComputes
<1> QED BY <1>3, <1>4

LEMMA IntermediaryFixesDoes ==
  ASSUME Base, IInv, NEW m \in net, IntermediaryFixes(m)
  PROVE  Base' /\ (Calm \/ HubComputes(m.run))
<1> DEFINE r == m.run
           op == run[r].op
           pass == FinalPass(Ingrid, Initiator(r), op)
           post == UninstalledByIngrid(Initiator(r), op)
           sigs == Both(Initiator(r), Ingrid, pass)
<1>1. m.n = 1 /\ run[r].op.kind = "uninstall" /\ Med(r).pc = "idle"
  BY WaitingIs DEF IntermediaryFixes, Handles, Med
<1>2. r \in Runs /\ Mail(r) = {m} /\ Early(r)
      /\ EarlyAt(1, run[r], Ini(r), Med(r), Rsp(r), Mail(r))
  BY <1>1, AtEarly
<1>3. CASE Throws(m, "intermediary")
  BY <1>1, <1>3, Refuses DEF Roles, Med
<1>4. CASE ~Throws(m, "intermediary")
  <2>1. PICK h : h = Waits("wait3", post, pass) OBVIOUS
  <2>2. /\ CanUninstall(Ingrid, op, FALSE) /\ Answered(m, 2, Responder(r), sigs)
        /\ Goes(r, "intermediary", h) /\ UNCHANGED <<store, run, leases>>
    <3>1. m.n + 1 = 2 BY <1>1
    <3>2. /\ CanUninstall(Ingrid, op, FALSE) /\ Answered(m, m.n + 1, Responder(r), sigs)
          /\ Goes(r, "intermediary", h) /\ UNCHANGED <<store, run, leases>>
      BY <1>4, <2>1, Zenon DEF IntermediaryFixes, Segment
    <3> QED BY <3>1, <3>2
  <2>3. h.pc = "wait3" /\ h.post = post BY <2>1, WaitsIs
  <2>4. Ini(r)' = Ini(r) /\ Med(r)' = h /\ Rsp(r)' = Rsp(r)
    BY <1>2, <2>2, Moves DEF Roles
  <2>5. Mail(r)' = {[run |-> r, n |-> 2, to |-> Responder(r), sigs |-> sigs]}
    BY <1>2, <2>2, MailAnswered
  <2>6. EarlyAt(2, run[r], Ini(r)', Med(r)', Rsp(r)', Mail(r)')
    <3>1. PICK x : x = [run |-> r, n |-> 2, to |-> Responder(r), sigs |-> sigs] OBVIOUS
    <3>2. x.n = 2 /\ Mail(r)' = {x} BY <2>5, <3>1
    <3>3. Ini(r)'.pc = "wait4" /\ Med(r)'.pc = "wait3" /\ Rsp(r)'.pc = "idle"
      BY <1>2, <2>3, <2>4, EarlyOne
    <3> QED BY <3>2, <3>3, EarlyTwo, Zenon
  <2>7. op.toAlice \in Nat /\ op.toAlice <= CapitalOf[op.app]
    BY <1>1, <1>2, EarlyIs, OpKinds
  <2>8. KnownChannels(store[Ingrid]) BY OtherIs DEF Base, Known
  <2>9. \A u \in Users : op.app \in Active(store[Ingrid].link[u])
    BY <2>2 DEF CanUninstall, LinksOf, Active
  <2>10. Initiator(r) \in Users BY <1>2 DEF IInv, Shape, Initiator
  <2>11. /\ KnownChannels(post)
         /\ \A u \in Users :
              post.link[u] = RemoveAgreement(store[Ingrid].link[u], u, op.app, op.toAlice)
    BY <2>7, <2>8, <2>9, <2>10, HubUninstalls
  <2>12. Base' /\ Early(r)' /\ Apart(r)
    <3>1. h.pc \in Waiting BY <2>3 DEF Waiting
    <3> HIDE DEF post, sigs, pass
    <3> QED BY <1>1, <2>2, <2>3, <2>6, <2>11, <3>1, Answers DEF Roles
  <2>13. HubComputed(store[Ingrid].link, Med(r)'.post.link)
    <3> HIDE DEF post, op
    <3> QED BY <2>3, <2>4, <2>7, <2>9, <2>11 DEF HubComputed
  <2>14. Rsp(r).pc = "idle" BY <1>2 DEF EarlyAt, Due
  <2>15. Med(r)'.pc \in Waiting BY <2>3, <2>4 DEF Waiting
  <2> QED BY <1>1, <1>2, <2>2, <2>4, <2>12, <2>13, <2>14, <2>15 DEF HubComputes
<1> QED BY <1>3, <1>4

LEMMA EarlyThree ==
  \A e, i, c, s, mail, x :
    (/\ i.pc = "wait4" /\ c.pc = "wait3" /\ s.pc = "wait6" /\ mail = {x} /\ x.n = 3
     /\ (e.op.kind = "install" => Carries({x}, "freeBalance", FreeOf(Other(e.by), s.post))))
      => EarlyAt(3, e, i, c, s, mail)
BY DEF EarlyAt, Due, One

LEMMA EarlyFour ==
  \A e, i, c, s, mail, x :
    (/\ i.pc = "wait4" /\ c.pc = "wait5" /\ s.pc = "wait6" /\ mail = {x} /\ x.n = 4
     /\ (e.op.kind = "install" => Agree(Other(e.by), s, c)))
      => EarlyAt(4, e, i, c, s, mail)
BY DEF EarlyAt, Due, One

LEMMA EarlyFive ==
  \A e, i, c, s, mail, x :
    (/\ i.pc = "wait8" /\ c.pc = "wait5" /\ s.pc = "wait6" /\ mail = {x} /\ x.n = 5
     /\ Carries({x}, "freeBalance", FreeOf(e.by, i.post))
     /\ (e.op.kind = "install" =>
           (/\ Agree(Other(e.by), s, c) /\ Carries({x}, "pass", i.pass)
            /\ Carries({x}, "virtual", VirtualState(e.op, i.post)))))
      => EarlyAt(5, e, i, c, s, mail)
BY DEF EarlyAt, Due, One

LEMMA EarlySix ==
  \A e, i, c, s, mail, x :
    (/\ i.pc = "wait8" /\ c.pc = "wait7" /\ s.pc = "wait6" /\ mail = {x} /\ x.n = 6
     /\ Agree(e.by, i, c)
     /\ (e.op.kind = "install" =>
           (/\ Agree(Other(e.by), s, c) /\ Carries({x}, "pass", i.pass)
            /\ Carries({x}, "virtual", VirtualState(e.op, i.post)) /\ i.pass = c.pass))
     /\ (e.op.kind = "uninstall" => Carries({x}, "freeBalance", FreeOf(Other(e.by), c.post))))
      => EarlyAt(6, e, i, c, s, mail)
BY DEF EarlyAt, Due, One

LEMMA EarlyPcs ==
  ASSUME NEW n \in 1..6, NEW e, NEW i, NEW c, NEW s, NEW mail, EarlyAt(n, e, i, c, s, mail)
  PROVE  /\ n \in {1, 2, 3, 4} => i.pc = "wait4"
         /\ n \in {5, 6} => i.pc = "wait8"
         /\ n = 1 => c.pc = "idle"
         /\ n \in {2, 3} => c.pc = "wait3"
         /\ n \in {4, 5} => c.pc = "wait5"
         /\ n = 6 => c.pc = "wait7"
         /\ n \in {1, 2} => s.pc = "idle"
         /\ n \in {3, 4, 5, 6} => s.pc = "wait6"
BY DEF EarlyAt, Due

-----------------------------------------------------------------------------
(* m2: the responder computes its draft.                                    *)

LEMMA ResponderSignsDoes ==
  ASSUME Base, IInv, NEW m \in net, ResponderSigns(m)
  PROVE  Base' /\ (Calm \/ RspComputes(m.run))
<1> DEFINE r == m.run
           q == run[r].op.q
           b == Responder(r)
           post == InstalledByUser(b, q)
           sigs == Commits(b, r, b, post)
<1>1. m.n = 2 /\ run[r].op.kind = "install" /\ Rsp(r).pc = "idle"
  BY WaitingIs DEF ResponderSigns, Handles, Rsp
<1>2. r \in Runs /\ Mail(r) = {m} /\ Early(r)
      /\ EarlyAt(2, run[r], Ini(r), Med(r), Rsp(r), Mail(r))
  BY <1>1, AtEarly
<1>3. CASE Throws(m, "responder")
  BY <1>1, <1>3, Refuses DEF Roles, Rsp
<1>4. CASE ~Throws(m, "responder")
  <2>1. PICK h : h = Waits("wait6", post, NewPassState(post)) OBVIOUS
  <2>2. /\ CanInstall(b, q) /\ Answered(m, 3, Ingrid, sigs)
        /\ Goes(r, "responder", h) /\ UNCHANGED <<store, run, leases>>
    BY <1>1, <1>4, <2>1 DEF ResponderSigns, Segment
  <2>3. h.pc = "wait6" /\ h.post = post BY <2>1, WaitsIs
  <2>4. Ini(r)' = Ini(r) /\ Med(r)' = Med(r) /\ Rsp(r)' = h
    BY <1>2, <2>2, Moves DEF Roles
  <2>5. Mail(r)' = {[run |-> r, n |-> 3, to |-> Ingrid, sigs |-> sigs]}
    BY <1>2, <2>2, MailAnswered
  <2>6. b = Other(run[r].by) /\ b \in Users
    BY <1>2, OtherIs DEF Responder, IInv, Shape
  <2>7. EarlyAt(3, run[r], Ini(r)', Med(r)', Rsp(r)', Mail(r)')
    <3>1. PICK x : x = [run |-> r, n |-> 3, to |-> Ingrid, sigs |-> sigs] OBVIOUS
    <3>2. x.n = 3 /\ Mail(r)' = {x} /\ x.sigs = sigs BY <2>5, <3>1
    <3>3. Ini(r)'.pc = "wait4" /\ Med(r)'.pc = "wait3" /\ Rsp(r)'.pc = "wait6"
      BY <1>2, <2>3, <2>4, EarlyPcs
    <3>4. Carries({x}, "freeBalance", FreeOf(b, post))
      BY <3>2, Kinds DEF Carries, Commits, Signature
    <3>5. Rsp(r)'.post = post BY <2>3, <2>4
    <3> HIDE DEF post, sigs
    <3> QED BY <2>6, <3>2, <3>3, <3>4, <3>5, EarlyThree, Zenon
  <2>8. q \in Opening.ab.props
    BY <1>1, <1>2, EarlyIs, OpKinds
  <2>9. KnownChannels(store[b]) BY <2>6, OtherIs DEF Base, Known
  <2>10. /\ KnownChannels(post) /\ store[b].abi.np \in Nat
         /\ CanAgree(store[b].link[b], b, q)
         /\ post.link[b] = AddAgreement(store[b].link[b], b, q, store[b].abi.np)
    BY <2>2, <2>6, <2>8, <2>9, UserInstalls
  <2>11. Base' /\ Early(r)' /\ Apart(r)
    <3>1. h.pc \in Waiting BY <2>3 DEF Waiting
    <3> HIDE DEF post, sigs
    <3> QED BY <1>1, <2>2, <2>3, <2>7, <2>10, <3>1, Answers DEF Roles
  <2>12. /\ post.link[b].ver = store[b].link[b].ver + 2
         /\ Active(post.link[b]) = Active(store[b].link[b]) \cup {q.id}
    <3>1. KnownLink(store[b].link[b]) BY <2>6, <2>9 DEF KnownChannels
    <3> DEFINE c == store[b].link[b]
               d == post.link[b]
               p == store[b].abi.np
    <3>2. /\ KnownLink(c) /\ b \in Users /\ q \in Opening.ab.props /\ CanAgree(c, b, q)
          /\ p \in Nat /\ d = AddAgreement(c, b, q, p)
      BY <2>6, <2>8, <2>10, <3>1
    <3> HIDE DEF c, d, p, q, b
    <3>3. d.ver = c.ver + 2 /\ Active(d) = Active(c) \cup {q.id} BY <3>2, AddWorth
    <3> QED BY <3>3 DEF c, d
  <2>13. Med(r).pc \in Waiting BY <1>2, EarlyPcs DEF Waiting
  <2>14. Rsp(r)'.pc \in Waiting BY <2>3, <2>4 DEF Waiting
  <2> HIDE DEF post
  <2> QED BY <1>1, <1>2, <2>2, <2>3, <2>4, <2>11, <2>12, <2>13, <2>14 DEF RspComputes
<1> QED BY <1>3, <1>4

LEMMA ResponderFixesDoes ==
  ASSUME Base, IInv, NEW m \in net, ResponderFixes(m)
  PROVE  Base' /\ (Calm \/ RspComputes(m.run))
<1> DEFINE r == m.run
           op == run[r].op
           b == Responder(r)
           pass == FinalPass(b, b, op)
           post == UninstalledByUser(b, op)
           sigs == {Signature(b, pass)}
<1>1. m.n = 2 /\ run[r].op.kind = "uninstall" /\ Rsp(r).pc = "idle"
  BY WaitingIs DEF ResponderFixes, Handles, Rsp
<1>2. r \in Runs /\ Mail(r) = {m} /\ Early(r)
      /\ EarlyAt(2, run[r], Ini(r), Med(r), Rsp(r), Mail(r))
  BY <1>1, AtEarly
<1>3. CASE Throws(m, "responder")
  BY <1>1, <1>3, Refuses DEF Roles, Rsp
<1>4. CASE ~Throws(m, "responder")
  <2>1. PICK h : h = Waits("wait6", post, pass) OBVIOUS
  <2>2. /\ CanUninstall(b, op, TRUE) /\ Answered(m, 3, Ingrid, sigs)
        /\ Goes(r, "responder", h) /\ UNCHANGED <<store, run, leases>>
    <3>1. m.n + 1 = 3 BY <1>1
    <3>2. /\ CanUninstall(b, op, TRUE) /\ Answered(m, m.n + 1, Ingrid, sigs)
          /\ Goes(r, "responder", h) /\ UNCHANGED <<store, run, leases>>
      BY <1>4, <2>1, Zenon DEF ResponderFixes, Segment
    <3> QED BY <3>1, <3>2
  <2>3. h.pc = "wait6" /\ h.post = post BY <2>1, WaitsIs
  <2>4. Ini(r)' = Ini(r) /\ Med(r)' = Med(r) /\ Rsp(r)' = h
    BY <1>2, <2>2, Moves DEF Roles
  <2>5. Mail(r)' = {[run |-> r, n |-> 3, to |-> Ingrid, sigs |-> sigs]}
    BY <1>2, <2>2, MailAnswered
  <2>6. b = Other(run[r].by) /\ b \in Users
    BY <1>2, OtherIs DEF Responder, IInv, Shape
  <2>7. EarlyAt(3, run[r], Ini(r)', Med(r)', Rsp(r)', Mail(r)')
    <3>1. PICK x : x = [run |-> r, n |-> 3, to |-> Ingrid, sigs |-> sigs] OBVIOUS
    <3>2. x.n = 3 /\ Mail(r)' = {x} BY <2>5, <3>1
    <3>3. Ini(r)'.pc = "wait4" /\ Med(r)'.pc = "wait3" /\ Rsp(r)'.pc = "wait6"
      BY <1>2, <2>3, <2>4, EarlyPcs
    <3>4. run[r].op.kind # "install" BY <1>1
    <3> QED BY <3>2, <3>3, <3>4, EarlyThree, Zenon
  <2>8. op.toAlice \in Nat /\ op.toAlice <= CapitalOf[op.app]
    BY <1>1, <1>2, EarlyIs, OpKinds
  <2>9. KnownChannels(store[b]) BY <2>6, OtherIs DEF Base, Known
  <2>10. op.app \in Active(store[b].link[b])
    BY <2>2, <2>6, OtherIs DEF CanUninstall, LinksOf, Active
  <2>11. /\ KnownChannels(post)
         /\ post.link[b] = RemoveAgreement(store[b].link[b], b, op.app, op.toAlice)
    BY <2>6, <2>8, <2>9, <2>10, UserUninstalls
  <2>12. Base' /\ Early(r)' /\ Apart(r)
    <3>1. h.pc \in Waiting BY <2>3 DEF Waiting
    <3> HIDE DEF post, sigs, pass
    <3> QED BY <1>1, <2>2, <2>3, <2>7, <2>11, <3>1, Answers DEF Roles
  <2>13. /\ post.link[b].ver = store[b].link[b].ver + 2
         /\ Active(post.link[b]) \subseteq Active(store[b].link[b])
    <3>1. KnownLink(store[b].link[b]) BY <2>6, <2>9 DEF KnownChannels
    <3> DEFINE c == store[b].link[b]
               d == post.link[b]
               app == op.app
               toAlice == op.toAlice
    <3>2. /\ KnownLink(c) /\ b \in Users /\ app \in Active(c) /\ toAlice \in Nat
          /\ toAlice <= CapitalOf[app] /\ d = RemoveAgreement(c, b, app, toAlice)
      BY <2>6, <2>8, <2>10, <2>11, <3>1
    <3> HIDE DEF c, d, app, toAlice, b
    <3>3. d.ver = c.ver + 2 /\ Active(d) \subseteq Active(c) BY <3>2, RemoveWorth
    <3> QED BY <3>3 DEF c, d
  <2>14. Med(r).pc \in Waiting BY <1>2, EarlyPcs DEF Waiting
  <2>15. Rsp(r)'.pc \in Waiting BY <2>3, <2>4 DEF Waiting
  <2> HIDE DEF post
  <2> QED BY <1>1, <1>2, <2>2, <2>3, <2>4, <2>12, <2>13, <2>14, <2>15 DEF RspComputes
<1> QED BY <1>3, <1>4

\* An answer for which the half waits on with what it has.
LEMMA Continues ==
  ASSUME Base, IInv, NEW m \in net, NEW n, n = m.n + 1, m.n \in {3, 4, 5},
         NEW role \in Roles, NEW to, NEW sigs, NEW h,
         Answered(m, n, to, sigs), Goes(m.run, role, h),
         UNCHANGED <<store, run, leases>>, h.pc \in Waiting,
         half[m.run][role].pc \in Waiting, h.post = half[m.run][role].post,
         EarlyAt(n, run[m.run], Ini(m.run)', Med(m.run)', Rsp(m.run)', Mail(m.run)')
  PROVE  Base' /\ Calm
<1> DEFINE r == m.run
<1>1. r \in Runs /\ Mail(r) = {m} /\ Early(r) BY AtEarly
<1>2. KnownChannels(h.post) BY <1>1 DEF Base, Known
<1>3. m.n \in 1..5 OBVIOUS
<1>4. Base' /\ Early(r)' /\ Apart(r)
  BY <1>2, <1>3, Answers
<1>5. \A x \in Roles : half'[r][x] = IF x = role THEN h ELSE half[r][x]
  BY <1>1, Moves
<1> QED BY <1>1, <1>4, <1>5, AnswersCalm

LEMMA CarriesIs ==
  ASSUME NEW m, NEW p, NEW c, NEW d, Carries({m}, c.kind, d), Signature(p, c) \in m.sigs
  PROVE  c = d
BY DEF Carries, Signature

LEMMA FreeAgrees ==
  ASSUME NEW u, NEW x, NEW y
  PROVE  /\ FreeOf(u, x.post) = FreeOf(u, y.post) <=> Agree(u, x, y)
         /\ FreeOf(u, x.post).kind = "freeBalance"
BY DEF FreeOf, Agree, SetFreeBalance

-----------------------------------------------------------------------------
(* m3: Ingrid adopts the responder's signatures.                            *)

LEMMA IntermediaryCommitsDoes ==
  ASSUME Base, IInv, NEW m \in net, IntermediaryCommits(m)
  PROVE  Base' /\ Calm
<1> DEFINE r == m.run
           b == Responder(r)
           k == half[r]["intermediary"]
           sigs == Commits(Ingrid, r, Initiator(r), k.post)
<1>1. m.n = 3 /\ run[r].op.kind = "install" /\ k.pc = "wait3"
  BY WaitingIs DEF IntermediaryCommits, Handles
<1>2. r \in Runs /\ Mail(r) = {m} /\ Early(r)
      /\ EarlyAt(3, run[r], Ini(r), Med(r), Rsp(r), Mail(r))
  BY <1>1, AtEarly
<1>3. CASE Throws(m, "intermediary")
  BY <1>1, <1>3, Refuses, WaitingIs DEF Roles
<1>4. CASE ~Throws(m, "intermediary")
  <2>1. PICK h : h = Waits("wait5", k.post, k.pass) OBVIOUS
  <2>2. /\ Commits(b, r, b, k.post) \subseteq m.sigs /\ Answered(m, m.n + 1, Initiator(r), sigs)
        /\ Goes(r, "intermediary", h) /\ UNCHANGED <<store, run, leases>>
    BY <1>4, <2>1, Zenon DEF IntermediaryCommits, Segment
  <2>3. h.pc = "wait5" /\ h.post = k.post BY <2>1, WaitsIs
  <2>4. Ini(r)' = Ini(r) /\ Med(r)' = h /\ Rsp(r)' = Rsp(r)
    BY <1>2, <2>2, Moves DEF Roles
  <2>5. m.n + 1 = 4 BY <1>1
  <2>6. Mail(r)' = {[run |-> r, n |-> 4, to |-> Initiator(r), sigs |-> sigs]}
    BY <1>2, <2>2, <2>5, MailAnswered
  <2>7. Agree(Other(run[r].by), Rsp(r), h)
    <3>1. Signature(b, FreeOf(b, k.post)) \in m.sigs BY <2>2 DEF Commits
    <3>2. Carries({m}, "freeBalance", FreeOf(b, Rsp(r).post))
      BY <1>1, <1>2 DEF EarlyAt, Responder
    <3>3. FreeOf(b, k.post) = FreeOf(b, Rsp(r).post)
      BY <3>1, <3>2, FreeAgrees, CarriesIs
    <3> QED BY <2>3, <3>3, FreeAgrees DEF Responder
  <2>8. EarlyAt(4, run[r], Ini(r)', Med(r)', Rsp(r)', Mail(r)')
    <3>1. PICK x : x = [run |-> r, n |-> 4, to |-> Initiator(r), sigs |-> sigs] OBVIOUS
    <3>2. x.n = 4 /\ Mail(r)' = {x} BY <2>6, <3>1
    <3>3. Ini(r)'.pc = "wait4" /\ Med(r)'.pc = "wait5" /\ Rsp(r)'.pc = "wait6"
      BY <1>2, <2>3, <2>4, EarlyPcs
    <3>4. Agree(Other(run[r].by), Rsp(r)', Med(r)') BY <2>4, <2>7
    <3> QED BY <3>2, <3>3, <3>4, EarlyFour, Zenon
  <2>9. h.pc \in Waiting /\ k.pc \in Waiting BY <1>1, <2>3 DEF Waiting
  <2> HIDE DEF sigs
  <2> QED BY <1>1, <2>2, <2>3, <2>5, <2>8, <2>9, Continues DEF Roles
<1> QED BY <1>3, <1>4

LEMMA IntermediaryHasFixedDoes ==
  ASSUME Base, IInv, NEW m \in net, IntermediaryHasFixed(m)
  PROVE  Base' /\ Calm
<1> DEFINE r == m.run
           k == half[r]["intermediary"]
           sigs == Both(Responder(r), Ingrid, k.pass)
<1>1. m.n = 3 /\ run[r].op.kind = "uninstall" /\ k.pc = "wait3"
  BY WaitingIs DEF IntermediaryHasFixed, Handles
<1>2. r \in Runs /\ Mail(r) = {m} /\ Early(r)
      /\ EarlyAt(3, run[r], Ini(r), Med(r), Rsp(r), Mail(r))
  BY <1>1, AtEarly
<1>3. CASE Throws(m, "intermediary")
  BY <1>1, <1>3, Refuses, WaitingIs DEF Roles
<1>4. CASE ~Throws(m, "intermediary")
  <2>1. PICK h : h = Waits("wait5", k.post, k.pass) OBVIOUS
  <2>2. /\ Answered(m, m.n + 1, Initiator(r), sigs)
        /\ Goes(r, "intermediary", h) /\ UNCHANGED <<store, run, leases>>
    BY <1>4, <2>1, Zenon DEF IntermediaryHasFixed, Segment
  <2>3. h.pc = "wait5" /\ h.post = k.post BY <2>1, WaitsIs
  <2>4. Ini(r)' = Ini(r) /\ Med(r)' = h /\ Rsp(r)' = Rsp(r)
    BY <1>2, <2>2, Moves DEF Roles
  <2>5. m.n + 1 = 4 BY <1>1
  <2>6. Mail(r)' = {[run |-> r, n |-> 4, to |-> Initiator(r), sigs |-> sigs]}
    BY <1>2, <2>2, <2>5, MailAnswered
  <2>8. EarlyAt(4, run[r], Ini(r)', Med(r)', Rsp(r)', Mail(r)')
    <3>1. PICK x : x = [run |-> r, n |-> 4, to |-> Initiator(r), sigs |-> sigs] OBVIOUS
    <3>2. x.n = 4 /\ Mail(r)' = {x} BY <2>6, <3>1
    <3>3. Ini(r)'.pc = "wait4" /\ Med(r)'.pc = "wait5" /\ Rsp(r)'.pc = "wait6"
      BY <1>2, <2>3, <2>4, EarlyPcs
    <3>4. run[r].op.kind # "install" BY <1>1
    <3> QED BY <3>2, <3>3, <3>4, EarlyFour, Zenon
  <2>9. h.pc \in Waiting /\ k.pc \in Waiting BY <1>1, <2>3 DEF Waiting
  <2> HIDE DEF sigs
  <2> QED BY <1>1, <2>2, <2>3, <2>5, <2>8, <2>9, Continues DEF Roles
<1> QED BY <1>3, <1>4

-----------------------------------------------------------------------------
(* m4: the initiator answers.                                               *)

LEMMA VirtualKind ==
  ASSUME NEW r \in Runs, NEW post
  PROVE  /\ NewVirtualState(r, post) = VirtualState(run[r].op, post)
         /\ NewVirtualState(r, post).kind = "virtual"
BY DEF NewVirtualState, VirtualState, SetVirtual

LEMMA InitiatorActivatesDoes ==
  ASSUME Base, IInv, NEW m \in net, InitiatorActivates(m)
  PROVE  Base' /\ Calm
<1> DEFINE r == m.run
           a == Initiator(r)
           k == half[r]["initiator"]
           sigs == {Signature(a, FreeOf(a, k.post)), Signature(a, k.pass),
                    Signature(a, NewVirtualState(r, k.post))}
<1>1. m.n = 4 /\ run[r].op.kind = "install" /\ k.pc = "wait4"
  BY WaitingIs DEF InitiatorActivates, Handles
<1>2. r \in Runs /\ Mail(r) = {m} /\ Early(r)
      /\ EarlyAt(4, run[r], Ini(r), Med(r), Rsp(r), Mail(r))
  BY <1>1, AtEarly
<1>3. CASE Throws(m, "initiator")
  BY <1>1, <1>3, Refuses, WaitingIs DEF Roles
<1>4. CASE ~Throws(m, "initiator")
  <2>1. PICK h : h = Waits("wait8", k.post, k.pass) OBVIOUS
  <2>2. /\ Answered(m, m.n + 1, Ingrid, sigs)
        /\ Goes(r, "initiator", h) /\ UNCHANGED <<store, run, leases>>
    BY <1>4, <2>1, Zenon DEF InitiatorActivates, Segment
  <2>3. h.pc = "wait8" /\ h.post = k.post /\ h.pass = k.pass BY <2>1, WaitsIs
  <2>4. Ini(r)' = h /\ Med(r)' = Med(r) /\ Rsp(r)' = Rsp(r)
    BY <1>2, <2>2, Moves DEF Roles
  <2>5. m.n + 1 = 5 BY <1>1
  <2>6. Mail(r)' = {[run |-> r, n |-> 5, to |-> Ingrid, sigs |-> sigs]}
    BY <1>2, <2>2, <2>5, MailAnswered
  <2>7. Agree(Other(run[r].by), Rsp(r), Med(r))
    BY <1>1, <1>2 DEF EarlyAt
  <2>8. EarlyAt(5, run[r], Ini(r)', Med(r)', Rsp(r)', Mail(r)')
    <3>1. PICK x : x = [run |-> r, n |-> 5, to |-> Ingrid, sigs |-> sigs] OBVIOUS
    <3>2. x.n = 5 /\ Mail(r)' = {x} /\ x.sigs = sigs BY <2>6, <3>1
    <3>3. Ini(r)'.pc = "wait8" /\ Med(r)'.pc = "wait5" /\ Rsp(r)'.pc = "wait6"
      BY <1>2, <2>3, <2>4, EarlyPcs
    <3>4. Agree(Other(run[r].by), Rsp(r)', Med(r)') BY <2>4, <2>7
    <3>5. k.pass.kind = "pass" BY <1>2 DEF IInv, Shape, Roles
    <3>6. /\ FreeOf(a, k.post).kind = "freeBalance"
          /\ NewVirtualState(r, k.post).kind = "virtual"
          /\ NewVirtualState(r, k.post) = VirtualState(run[r].op, k.post)
          /\ a = run[r].by
      BY <1>2, FreeAgrees, VirtualKind DEF Initiator
    <3>7. /\ Carries({x}, "freeBalance", FreeOf(run[r].by, k.post))
          /\ Carries({x}, "pass", k.pass)
          /\ Carries({x}, "virtual", VirtualState(run[r].op, k.post))
      BY <3>2, <3>5, <3>6 DEF Carries, Signature
    <3>8. Ini(r)'.post = k.post /\ Ini(r)'.pass = k.pass BY <2>3, <2>4
    <3> HIDE DEF k
    <3> QED BY <3>2, <3>3, <3>4, <3>7, <3>8, EarlyFive, Zenon
  <2>9. h.pc \in Waiting /\ k.pc \in Waiting BY <1>1, <2>3 DEF Waiting
  <2> HIDE DEF sigs
  <2> QED BY <1>1, <2>2, <2>3, <2>5, <2>8, <2>9, Continues DEF Roles
<1> QED BY <1>3, <1>4

LEMMA InitiatorFreesDoes ==
  ASSUME Base, IInv, NEW m \in net, InitiatorFrees(m)
  PROVE  Base' /\ Calm
<1> DEFINE r == m.run
           a == Initiator(r)
           k == half[r]["initiator"]
           sigs == {Signature(a, FreeOf(a, k.post))}
<1>1. m.n = 4 /\ run[r].op.kind = "uninstall" /\ k.pc = "wait4"
  BY WaitingIs DEF InitiatorFrees, Handles
<1>2. r \in Runs /\ Mail(r) = {m} /\ Early(r)
      /\ EarlyAt(4, run[r], Ini(r), Med(r), Rsp(r), Mail(r))
  BY <1>1, AtEarly
<1>3. CASE Throws(m, "initiator")
  BY <1>1, <1>3, Refuses, WaitingIs DEF Roles
<1>4. CASE ~Throws(m, "initiator")
  <2>1. PICK h : h = Waits("wait8", k.post, k.pass) OBVIOUS
  <2>2. /\ Answered(m, m.n + 1, Ingrid, sigs)
        /\ Goes(r, "initiator", h) /\ UNCHANGED <<store, run, leases>>
    BY <1>4, <2>1, Zenon DEF InitiatorFrees, Segment
  <2>3. h.pc = "wait8" /\ h.post = k.post BY <2>1, WaitsIs
  <2>4. Ini(r)' = h /\ Med(r)' = Med(r) /\ Rsp(r)' = Rsp(r)
    BY <1>2, <2>2, Moves DEF Roles
  <2>5. m.n + 1 = 5 BY <1>1
  <2>6. Mail(r)' = {[run |-> r, n |-> 5, to |-> Ingrid, sigs |-> sigs]}
    BY <1>2, <2>2, <2>5, MailAnswered
  <2>8. EarlyAt(5, run[r], Ini(r)', Med(r)', Rsp(r)', Mail(r)')
    <3>1. PICK x : x = [run |-> r, n |-> 5, to |-> Ingrid, sigs |-> sigs] OBVIOUS
    <3>2. x.n = 5 /\ Mail(r)' = {x} /\ x.sigs = sigs BY <2>6, <3>1
    <3>3. Ini(r)'.pc = "wait8" /\ Med(r)'.pc = "wait5" /\ Rsp(r)'.pc = "wait6"
      BY <1>2, <2>3, <2>4, EarlyPcs
    <3>4. Carries({x}, "freeBalance", FreeOf(run[r].by, k.post))
      BY <3>2 DEF Carries, Signature, Initiator
    <3>5. Ini(r)'.post = k.post /\ run[r].op.kind # "install" BY <1>1, <2>3, <2>4
    <3> HIDE DEF k
    <3> QED BY <3>2, <3>3, <3>4, <3>5, EarlyFive, Zenon
  <2>9. h.pc \in Waiting /\ k.pc \in Waiting BY <1>1, <2>3 DEF Waiting
  <2> HIDE DEF sigs
  <2> QED BY <1>1, <2>2, <2>3, <2>5, <2>8, <2>9, Continues DEF Roles
<1> QED BY <1>3, <1>4

-----------------------------------------------------------------------------
(* m5: Ingrid asks the responder to commit.                                 *)

LEMMA IntermediaryActivatesDoes ==
  ASSUME Base, IInv, NEW m \in net, IntermediaryActivates(m)
  PROVE  Base' /\ Calm
<1> DEFINE r == m.run
           a == Initiator(r)
           b == Responder(r)
           k == half[r]["intermediary"]
           sigs == {Signature(Ingrid, FreeOf(b, k.post)), Signature(Ingrid, k.pass)}
                   \cup {s \in m.sigs : s.by = a /\ s.c.kind # "freeBalance"}
<1>1. m.n = 5 /\ run[r].op.kind = "install" /\ k.pc = "wait5"
  BY WaitingIs DEF IntermediaryActivates, Handles
<1>2. r \in Runs /\ Mail(r) = {m} /\ Early(r)
      /\ EarlyAt(5, run[r], Ini(r), Med(r), Rsp(r), Mail(r))
  BY <1>1, AtEarly
<1>3. CASE Throws(m, "intermediary")
  BY <1>1, <1>3, Refuses, WaitingIs DEF Roles
<1>4. CASE ~Throws(m, "intermediary")
  <2>1. PICK h : h = Waits("wait7", k.post, k.pass) OBVIOUS
  <2>2. /\ Signature(a, FreeOf(a, k.post)) \in m.sigs /\ Signature(a, k.pass) \in m.sigs
        /\ Answered(m, m.n + 1, b, sigs)
        /\ Goes(r, "intermediary", h) /\ UNCHANGED <<store, run, leases>>
    <3>1. /\ {Signature(a, FreeOf(a, k.post)), Signature(a, k.pass)} \subseteq m.sigs
          /\ Answered(m, m.n + 1, b, sigs)
          /\ Goes(r, "intermediary", h) /\ UNCHANGED <<store, run, leases>>
      BY <1>4, <2>1, Zenon DEF IntermediaryActivates, Segment
    <3> QED BY <3>1
  <2>3. h.pc = "wait7" /\ h.post = k.post /\ h.pass = k.pass BY <2>1, WaitsIs
  <2>4. Ini(r)' = Ini(r) /\ Med(r)' = h /\ Rsp(r)' = Rsp(r)
    BY <1>2, <2>2, Moves DEF Roles
  <2>5. m.n + 1 = 6 BY <1>1
  <2>6. Mail(r)' = {[run |-> r, n |-> 6, to |-> b, sigs |-> sigs]}
    <3> HIDE DEF sigs, b
    <3> QED BY <1>2, <2>2, <2>5, MailAnswered
  <2>7. /\ Agree(Other(run[r].by), Rsp(r), Med(r))
        /\ Carries({m}, "freeBalance", FreeOf(a, Ini(r).post))
        /\ Carries({m}, "pass", Ini(r).pass)
        /\ Carries({m}, "virtual", VirtualState(run[r].op, Ini(r).post))
    BY <1>1, <1>2 DEF EarlyAt, Initiator
  <2>8. k.pass.kind = "pass" BY <1>2 DEF IInv, Shape, Roles
  <2>9. Agree(run[r].by, Ini(r), h)
    <3>1. FreeOf(a, k.post) = FreeOf(a, Ini(r).post) BY <2>2, <2>7, FreeAgrees, CarriesIs
    <3> QED BY <2>3, <3>1, FreeAgrees DEF Initiator
  <2>10. Ini(r).pass = k.pass BY <2>2, <2>7, <2>8, CarriesIs
  <2>11. Agree(Other(run[r].by), Rsp(r), h)
    BY <2>3, <2>7 DEF Agree, Med
  <2>12. EarlyAt(6, run[r], Ini(r)', Med(r)', Rsp(r)', Mail(r)')
    <3>1. PICK x : x = [run |-> r, n |-> 6, to |-> b, sigs |-> sigs] OBVIOUS
    <3>2. x.n = 6 /\ Mail(r)' = {x} /\ x.sigs = sigs BY <2>6, <3>1
    <3>3. Ini(r)'.pc = "wait8" /\ Med(r)'.pc = "wait7" /\ Rsp(r)'.pc = "wait6"
      BY <1>2, <2>3, <2>4, EarlyPcs
    <3>4. FreeOf(b, k.post).kind = "freeBalance" BY FreeAgrees
    <3>5. /\ Carries({x}, "pass", Ini(r).pass)
          /\ Carries({x}, "virtual", VirtualState(run[r].op, Ini(r).post))
      BY <2>7, <2>8, <2>10, <3>2, <3>4 DEF Carries, Signature
    <3>6. Med(r)'.pass = Ini(r)'.pass BY <2>3, <2>4, <2>10
    <3>7. run[r].op.kind # "uninstall" BY <1>1
    <3> QED BY <2>4, <2>9, <2>11, <3>2, <3>3, <3>5, <3>6, <3>7, EarlySix, Zenon
  <2>13. h.pc \in Waiting /\ k.pc \in Waiting BY <1>1, <2>3 DEF Waiting
  <2> HIDE DEF sigs
  <2> QED BY <1>1, <2>2, <2>3, <2>5, <2>12, <2>13, Continues DEF Roles
<1> QED BY <1>3, <1>4

LEMMA IntermediaryFreesDoes ==
  ASSUME Base, IInv, NEW m \in net, IntermediaryFrees(m)
  PROVE  Base' /\ Calm
<1> DEFINE r == m.run
           a == Initiator(r)
           b == Responder(r)
           k == half[r]["intermediary"]
           sigs == {Signature(Ingrid, FreeOf(b, k.post))}
<1>1. m.n = 5 /\ run[r].op.kind = "uninstall" /\ k.pc = "wait5"
  BY WaitingIs DEF IntermediaryFrees, Handles
<1>2. r \in Runs /\ Mail(r) = {m} /\ Early(r)
      /\ EarlyAt(5, run[r], Ini(r), Med(r), Rsp(r), Mail(r))
  BY <1>1, AtEarly
<1>3. CASE Throws(m, "intermediary")
  BY <1>1, <1>3, Refuses, WaitingIs DEF Roles
<1>4. CASE ~Throws(m, "intermediary")
  <2>1. PICK h : h = Waits("wait7", k.post, k.pass) OBVIOUS
  <2>2. /\ Signature(a, FreeOf(a, k.post)) \in m.sigs
        /\ Answered(m, m.n + 1, b, sigs)
        /\ Goes(r, "intermediary", h) /\ UNCHANGED <<store, run, leases>>
    BY <1>4, <2>1, Zenon DEF IntermediaryFrees, Segment
  <2>3. h.pc = "wait7" /\ h.post = k.post BY <2>1, WaitsIs
  <2>4. Ini(r)' = Ini(r) /\ Med(r)' = h /\ Rsp(r)' = Rsp(r)
    BY <1>2, <2>2, Moves DEF Roles
  <2>5. m.n + 1 = 6 BY <1>1
  <2>6. Mail(r)' = {[run |-> r, n |-> 6, to |-> b, sigs |-> sigs]}
    <3> HIDE DEF sigs, b
    <3> QED BY <1>2, <2>2, <2>5, MailAnswered
  <2>7. Carries({m}, "freeBalance", FreeOf(a, Ini(r).post))
    BY <1>1, <1>2 DEF EarlyAt, Initiator
  <2>9. Agree(run[r].by, Ini(r), h)
    <3>1. FreeOf(a, k.post) = FreeOf(a, Ini(r).post) BY <2>2, <2>7, FreeAgrees, CarriesIs
    <3> QED BY <2>3, <3>1, FreeAgrees DEF Initiator
  <2>12. EarlyAt(6, run[r], Ini(r)', Med(r)', Rsp(r)', Mail(r)')
    <3>1. PICK x : x = [run |-> r, n |-> 6, to |-> b, sigs |-> sigs] OBVIOUS
    <3>2. x.n = 6 /\ Mail(r)' = {x} /\ x.sigs = sigs BY <2>6, <3>1
    <3>3. Ini(r)'.pc = "wait8" /\ Med(r)'.pc = "wait7" /\ Rsp(r)'.pc = "wait6"
      BY <1>2, <2>3, <2>4, EarlyPcs
    <3>4. Carries({x}, "freeBalance", FreeOf(Other(run[r].by), Med(r)'.post))
      BY <2>3, <2>4, <3>2 DEF Carries, Signature, Responder
    <3>7. run[r].op.kind # "install" BY <1>1
    <3> QED BY <2>4, <2>9, <3>2, <3>3, <3>4, <3>7, EarlySix, Zenon
  <2>13. h.pc \in Waiting /\ k.pc \in Waiting BY <1>1, <2>3 DEF Waiting
  <2> HIDE DEF sigs
  <2> QED BY <1>1, <2>2, <2>3, <2>5, <2>12, <2>13, Continues DEF Roles
<1> QED BY <1>3, <1>4

-----------------------------------------------------------------------------
(* m6: the responder commits the three of them.                             *)

RspCommits(r) ==
  /\ Apart(r) /\ UNCHANGED <<store, run>> /\ Early(r) /\ Late(r)'
  /\ Ini(r)' = Ini(r) /\ Ini(r).pc \in Waiting
  /\ Med(r)' = Med(r) /\ Med(r).pc \in Waiting
  /\ Rsp(r).pc \in Waiting /\ Rsp(r)'.pc = "saving" /\ Rsp(r)'.post = Rsp(r).post
  /\ Owing(Rsp(r)', Responder(r))
  /\ Agree(Initiator(r), Ini(r), Med(r)) /\ Agree(Responder(r), Rsp(r), Med(r))

LEMMA SavingIs ==
  ASSUME NEW k, NEW left, NEW h, h = Saving(k, left)
  PROVE  h.pc = "saving" /\ h.post = k.post /\ h.pass = k.pass /\ h.left = left
BY DEF Saving

LEMMA Threes ==
  ASSUME NEW x, NEW y, NEW z
  PROVE  /\ Tail(<<x, y, z>>) = <<y, z>> /\ Tail(<<y, z>>) = <<z>> /\ Tail(<<z>>) = << >>
         /\ Head(<<x, y, z>>) = x /\ Head(<<y, z>>) = y /\ Head(<<z>>) = z
         /\ <<x, y, z>> # <<>> /\ <<y, z>> # <<>> /\ <<z>> # <<>>
         /\ \A u : (\E i \in DOMAIN <<x, y, z>> : <<x, y, z>>[i] = u) <=> u \in {x, y, z}
         /\ \A u : (\E i \in DOMAIN <<y, z>> : <<y, z>>[i] = u) <=> u \in {y, z}
         /\ \A u : (\E i \in DOMAIN <<z>> : <<z>>[i] = u) <=> u = z
         /\ \A u : ~ \E i \in DOMAIN << >> : << >>[i] = u
<1>1. \A u : (\E i \in DOMAIN <<x, y, z>> : <<x, y, z>>[i] = u) <=> u \in {x, y, z}
  <2>1. DOMAIN <<x, y, z>> = {1, 2, 3} OBVIOUS
  <2> QED BY <2>1
<1>2. \A u : (\E i \in DOMAIN <<y, z>> : <<y, z>>[i] = u) <=> u \in {y, z}
  <2>1. DOMAIN <<y, z>> = {1, 2} OBVIOUS
  <2> QED BY <2>1
<1>3. \A u : (\E i \in DOMAIN <<z>> : <<z>>[i] = u) <=> u = z
  <2>1. DOMAIN <<z>> = {1} OBVIOUS
  <2> QED BY <2>1
<1>4. \A u : ~ \E i \in DOMAIN << >> : << >>[i] = u
  <2>1. DOMAIN << >> = {} OBVIOUS
  <2> QED BY <2>1
<1>5. Tail(<<x, y, z>>) = <<y, z>> /\ Tail(<<y, z>>) = <<z>> /\ Tail(<<z>>) = << >>
  OBVIOUS
<1>6. Head(<<x, y, z>>) = x /\ Head(<<y, z>>) = y /\ Head(<<z>>) = z
  OBVIOUS
<1> QED BY <1>1, <1>2, <1>3, <1>4, <1>5, <1>6

LEMMA Commits6 ==
  ASSUME Base, IInv, NEW r \in Runs, Early(r), Apart(r), UNCHANGED <<store, run, leases>>,
         Ini(r)' = Ini(r), Med(r)' = Med(r), NEW h, Rsp(r)' = h,
         NEW x, NEW y, NEW z, Responder(r) \in {x, y, z},
         h = Saving(Rsp(r), <<x, y, z>>),
         Ini(r).pc = "wait8", Med(r).pc = "wait7", Rsp(r).pc = "wait6",
         Late(r)', Agree(Initiator(r), Ini(r), Med(r)), Agree(Responder(r), Rsp(r), Med(r))
  PROVE  Base' /\ RspCommits(r)
<1>1. h.pc = "saving" /\ h.post = Rsp(r).post /\ h.left = <<x, y, z>> BY SavingIs
<1>2. Owing(h, Responder(r)) BY <1>1, Threes DEF Owing
<1>3. Owing(Rsp(r)', Responder(r)) BY <1>2 DEF Owing
<1>4. RspCommits(r)
  BY <1>1, <1>3 DEF RspCommits, Waiting
<1>5. \A role \in Roles : KnownChannels(half'[r][role].post)
  <2>1. \A role \in Roles : KnownChannels(half[r][role].post) BY DEF Base, Known
  <2>2. Ini(r)'.post = Ini(r).post /\ Med(r)'.post = Med(r).post /\ Rsp(r)'.post = Rsp(r).post
    BY <1>1
  <2> QED BY <2>1, <2>2 DEF Ini, Med, Rsp, Roles
<1>6. store' = [p \in Parties |-> store'[p]] /\ \A p \in Parties : KnownChannels(store'[p])
  BY DEF Base, Known
<1>7. Ini(r).pc # "idle" /\ Ini(r)'.pc # "idle" OBVIOUS
<1>8. Base' BY <1>5, <1>6, <1>7, BaseStep
<1> QED BY <1>4, <1>8

LEMMA ResponderActivatesDoes ==
  ASSUME Base, IInv, NEW m \in net, ResponderActivates(m)
  PROVE  Base' /\ (Calm \/ RspCommits(m.run))
<1> DEFINE r == m.run
           b == Responder(r)
           k == half[r]["responder"]
           va == NewVirtualState(r, k.post)
           sigs == {Signature(b, k.pass), Signature(b, va)}
<1>1. m.n = 6 /\ run[r].op.kind = "install" /\ k.pc = "wait6"
  BY WaitingIs DEF ResponderActivates, Handles
<1>2. r \in Runs /\ Mail(r) = {m} /\ Early(r)
      /\ EarlyAt(6, run[r], Ini(r), Med(r), Rsp(r), Mail(r))
  BY <1>1, AtEarly
<1>3. CASE Throws(m, "responder")
  BY <1>1, <1>3, Refuses, WaitingIs DEF Roles
<1>4. CASE ~Throws(m, "responder")
  <2>1. PICK h : h = Saving(k, <<b, "abi", "ab">>) OBVIOUS
  <2>2. /\ Signature(Initiator(r), va) \in m.sigs /\ Signature(Ingrid, k.pass) \in m.sigs
        /\ Answered(m, m.n + 1, Ingrid, sigs)
        /\ Goes(r, "responder", h) /\ UNCHANGED <<store, run, leases>>
    <3>1. /\ {Signature(Ingrid, FreeOf(b, k.post)), Signature(Initiator(r), va)}
               \cup Both(Ingrid, Initiator(r), k.pass) \subseteq m.sigs
          /\ Answered(m, m.n + 1, Ingrid, sigs)
          /\ Goes(r, "responder", h) /\ UNCHANGED <<store, run, leases>>
      BY <1>4, <2>1, Zenon DEF ResponderActivates, Segment
    <3> QED BY <3>1 DEF Both
  <2>3. h.pc = "saving" /\ h.post = k.post /\ h.left = <<b, "abi", "ab">>
    BY <2>1, SavingIs
  <2>4. Ini(r)' = Ini(r) /\ Med(r)' = Med(r) /\ Rsp(r)' = h
    BY <1>2, <2>2, Moves DEF Roles
  <2>5. m.n + 1 = 7 BY <1>1
  <2>6. /\ Mail(r)' = {[run |-> r, n |-> 7, to |-> Ingrid, sigs |-> sigs]}
        /\ \A s \in Runs \ {r} : Mail(s)' = Mail(s)
    <3> HIDE DEF sigs, b
    <3> QED BY <1>2, <2>2, <2>5, MailAnswered
  <2>7. /\ Agree(Other(run[r].by), Rsp(r), Med(r)) /\ Agree(run[r].by, Ini(r), Med(r))
        /\ Carries({m}, "pass", Ini(r).pass) /\ Ini(r).pass = Med(r).pass
        /\ Carries({m}, "virtual", VirtualState(run[r].op, Ini(r).post))
    BY <1>1, <1>2 DEF EarlyAt
  <2>8. k.pass.kind = "pass" BY <1>2 DEF IInv, Shape, Roles
  <2>9. k.pass = Ini(r).pass BY <2>2, <2>7, <2>8, CarriesIs
  <2>10. va = VirtualState(run[r].op, Ini(r).post)
    <3>1. va.kind = "virtual" BY <1>2, VirtualKind
    <3> HIDE DEF va
    <3> QED BY <2>2, <2>7, <3>1, CarriesIs
  <2>11. sigs = RspSigned(run[r], Ini(r))
    BY <2>9, <2>10 DEF RspSigned, Responder
  <2>12. Ini(r).pc = "wait8" /\ Med(r).pc = "wait7" BY <1>2, EarlyPcs
  <2>13. Late(r)'
    <3>1. PICK x : x = [run |-> r, n |-> 7, to |-> Ingrid, sigs |-> sigs] OBVIOUS
    <3>2. x.n = 7 /\ Mail(r)' = {x} /\ x.sigs = RspSigned(run[r], Ini(r))
      BY <2>6, <2>11, <3>1
    <3>3. Says(Mail(r)', 7, RspSigned(run[r], Ini(r)))
      <4>1. Says({x}, 7, RspSigned(run[r], Ini(r))) BY <3>2 DEF Says
      <4> QED BY <3>2, <4>1
    <3>4. run'[r] = run[r] BY <2>2
    <3>5. InstallLate(run[r], Ini(r), Med(r), h, Mail(r)')
      BY <1>1, <2>3, <2>7, <2>12, <3>3 DEF InstallLate, Lists, Responder
    <3> QED BY <2>4, <3>4, <3>5 DEF Late, LateAt
  <2>14. Apart(r)
    BY <1>2, <2>2, <2>6, Moves DEF Roles, Apart
  <2>15. k = Rsp(r) /\ Rsp(r).pc = "wait6" /\ b \in {b, "abi", "ab"} BY <1>1 DEF Rsp
  <2>16. Agree(Responder(r), Rsp(r), Med(r)) /\ Agree(Initiator(r), Ini(r), Med(r))
    BY <2>7 DEF Responder, Initiator
  <2> HIDE DEF sigs, k, va
  <2> QED BY <1>2, <2>1, <2>2, <2>4, <2>12, <2>13, <2>14, <2>15, <2>16, Commits6
<1> QED BY <1>3, <1>4

LEMMA ResponderFreesDoes ==
  ASSUME Base, IInv, NEW m \in net, ResponderFrees(m)
  PROVE  Base' /\ (Calm \/ RspCommits(m.run))
<1> DEFINE r == m.run
           b == Responder(r)
           k == half[r]["responder"]
<1>1. m.n = 6 /\ run[r].op.kind = "uninstall" /\ k.pc = "wait6"
  BY WaitingIs DEF ResponderFrees, Handles
<1>2. r \in Runs /\ Mail(r) = {m} /\ Early(r)
      /\ EarlyAt(6, run[r], Ini(r), Med(r), Rsp(r), Mail(r))
  BY <1>1, AtEarly
<1>3. CASE Throws(m, "responder")
  BY <1>1, <1>3, Refuses, WaitingIs DEF Roles
<1>4. CASE ~Throws(m, "responder")
  <2>1. PICK h : h = Saving(k, <<"ab", "abi", b>>) OBVIOUS
  <2>2. /\ Signature(Ingrid, FreeOf(b, k.post)) \in m.sigs /\ net' = net \ {m}
        /\ Goes(r, "responder", h) /\ UNCHANGED <<store, run, leases>>
    BY <1>4, <2>1, Zenon DEF ResponderFrees, Stores
  <2>3. h.pc = "saving" /\ h.post = k.post /\ h.left = <<"ab", "abi", b>>
    BY <2>1, SavingIs
  <2>4. Ini(r)' = Ini(r) /\ Med(r)' = Med(r) /\ Rsp(r)' = h
    BY <1>2, <2>2, Moves DEF Roles
  <2>6. Mail(r)' = {} /\ \A s \in Runs \ {r} : Mail(s)' = Mail(s)
    BY <1>2, <2>2, MailTaken
  <2>7. /\ Agree(run[r].by, Ini(r), Med(r))
        /\ Carries({m}, "freeBalance", FreeOf(b, Med(r).post))
    BY <1>1, <1>2 DEF EarlyAt, Responder
  <2>9. Agree(b, Rsp(r), Med(r))
    <3>1. FreeOf(b, k.post) = FreeOf(b, Med(r).post) BY <2>2, <2>7, FreeAgrees, CarriesIs
    <3> QED BY <3>1, FreeAgrees DEF Rsp
  <2>12. Ini(r).pc = "wait8" /\ Med(r).pc = "wait7" BY <1>2, EarlyPcs
  <2>13. Late(r)'
    <3>4. run'[r] = run[r] BY <2>2
    <3>5. UninstallLate(run[r], Ini(r), Med(r), h, {})
      BY <1>1, <2>3, <2>12, WaitingIs DEF UninstallLate, Lists, Responder
    <3>6. UninstallLate(run[r], Ini(r), Med(r), h, Mail(r)') BY <2>6, <3>5
    <3> QED BY <2>4, <3>4, <3>6 DEF Late, LateAt
  <2>14. Apart(r)
    BY <1>2, <2>2, <2>6, Moves DEF Roles, Apart
  <2>15. k = Rsp(r) /\ Rsp(r).pc = "wait6" /\ b \in {"ab", "abi", b} BY <1>1 DEF Rsp
  <2>16. Agree(Initiator(r), Ini(r), Med(r)) BY <2>7 DEF Initiator
  <2> HIDE DEF k
  <2> QED BY <1>2, <2>1, <2>2, <2>4, <2>9, <2>12, <2>13, <2>14, <2>15, <2>16, Commits6
<1> QED BY <1>3, <1>4

-----------------------------------------------------------------------------
(* m7 and m8: Ingrid and the initiator begin to persist.                    *)

\* The half of a run that succeeds starts to persist what it has computed.
Begins(r, role) ==
  /\ role \in {"initiator", "intermediary"}
  /\ Apart(r) /\ UNCHANGED <<store, run>> /\ Late(r) /\ ~Still(r) /\ Late(r)'
  /\ \A x \in Roles : x # role => half'[r][x] = half[r][x]
  /\ half[r][role].pc \in Waiting /\ half'[r][role].pc = "saving"
  /\ half'[r][role].post = half[r][role].post
  /\ role = "initiator" => Owing(half'[r][role], Initiator(r))
  /\ role = "intermediary" => /\ \A u \in Users : Owing(half'[r][role], u)
                              /\ Ini(r).pc \in Waiting

LEMMA Begins78 ==
  ASSUME Base, IInv, NEW r \in Runs, Late(r), ~Still(r), Late(r)', Apart(r),
         UNCHANGED <<store, run, leases>>, NEW role \in Roles, NEW h,
         role \in {"initiator", "intermediary"},
         NEW x, NEW y, NEW z,
         h = Saving(half[r][role], <<x, y, z>>),
         \A s \in Roles : half'[r][s] = IF s = role THEN h ELSE half[r][s],
         role = "initiator" => Initiator(r) \in {x, y, z},
         role = "intermediary" => Initiator(r) \in {x, y, z} /\ Responder(r) \in {x, y, z},
         half[r][role].pc \in Waiting, Ini(r).pc \in Waiting
  PROVE  Base' /\ Begins(r, role)
<1>1. h.pc = "saving" /\ h.post = half[r][role].post /\ h.left = <<x, y, z>> BY SavingIs
<1>2. \A u : Owing(h, u) <=> u \in {x, y, z}
  BY <1>1, Threes DEF Owing
<1>3. half'[r][role] = h OBVIOUS
<1>4. \A u : Owing(half'[r][role], u) <=> u \in {x, y, z} BY <1>2, <1>3 DEF Owing
<1>5. \A u \in Users : u = Initiator(r) \/ u = Responder(r)
  BY OtherIs DEF Initiator, Responder, IInv, Shape
<1>6. Begins(r, role)
  BY <1>1, <1>3, <1>4, <1>5 DEF Begins
<1>7. \A s \in Roles : KnownChannels(half'[r][s].post)
  BY <1>1 DEF Base, Known
<1>8. store' = [p \in Parties |-> store'[p]] /\ \A p \in Parties : KnownChannels(store'[p])
  BY DEF Base, Known
<1>9. Ini(r).pc # "idle" /\ Going(Ini(r)) BY WaitingIs
<1>10. Ini(r)'.pc # "idle"
  BY <1>1, <1>9 DEF Ini, Roles
<1>11. Base' BY <1>7, <1>8, <1>9, <1>10, BaseStep
<1> QED BY <1>6, <1>11

\* A late message nobody is satisfied with.
LEMMA LateRefused ==
  ASSUME Base, IInv, NEW m \in net, m.n \in {7, 8}, NEW role \in Roles,
         Throws(m, role), half[m.run][role].pc \in Waiting, Ini(m.run).pc \in Waiting,
         \A x \in Roles : half[m.run][x].pc # "saving"
  PROVE  Base' /\ Calm
<1>1. m.run \in Runs /\ Mail(m.run) = {m} BY AtLate
<1>2. Fails(m.run) BY <1>1, ThrowsFails
<1> QED BY <1>1, <1>2, FailsCalm

LEMMA IntermediaryFinishesDoes ==
  ASSUME Base, IInv, NEW m \in net, IntermediaryFinishes(m)
  PROVE  Base' /\ Begins(m.run, "intermediary")
<1> DEFINE r == m.run
           a == Initiator(r)
           b == Responder(r)
           k == half[r]["intermediary"]
           sigs == {s \in m.sigs : s.by = b} \cup {Signature(Ingrid, k.pass)}
<1>1. m.n = 7 /\ run[r].op.kind = "install" /\ k.pc = "wait7"
  BY WaitingIs DEF IntermediaryFinishes, Handles
<1>2. r \in Runs /\ Mail(r) = {m} /\ Late(r) /\ ~Still(r)
      /\ InstallLate(run[r], Ini(r), Med(r), Rsp(r), {m})
  <2>1. r \in Runs /\ ~Still(r) BY NetRuns
  <2>2. Mail(r) = {m} /\ Late(r) BY <1>1, AtLate
  <2>3. ~UninstallLate(run[r], Ini(r), Med(r), Rsp(r), Mail(r))
    BY <1>1 DEF UninstallLate
  <2> QED BY <1>1, <2>1, <2>2, <2>3, AtLate
<1>3. Ini(r).pc = "wait8" /\ k = Med(r)
  BY <1>2 DEF InstallLate, Med
<1>4. Ini(r).pass = Med(r).pass /\ Says({m}, 7, RspSigned(run[r], Ini(r)))
  BY <1>1, <1>2, <1>3 DEF InstallLate
<1>5. RspSigned(run[r], Ini(r)) \subseteq m.sigs
  BY <1>4 DEF Says
<1>6. Signature(b, k.pass) \in m.sigs
  BY <1>3, <1>4, <1>5 DEF RspSigned, Responder
<1>7. PICK h : h = Saving(k, <<"abi", b, a>>) OBVIOUS
<1>8. /\ Answered(m, m.n + 1, a, sigs)
      /\ Goes(r, "intermediary", h) /\ UNCHANGED <<store, run, leases>>
  BY <1>6, <1>7, Zenon DEF IntermediaryFinishes, Segment
<1>9. h.pc = "saving" /\ h.post = k.post /\ h.left = <<"abi", b, a>> BY <1>7, SavingIs
<1>10. /\ Ini(r)' = Ini(r) /\ Med(r)' = h /\ Rsp(r)' = Rsp(r)
       /\ \A s \in Runs \ {r} : half'[s] = half[s]
       /\ \A s \in Roles : half'[r][s] = IF s = "intermediary" THEN h ELSE half[r][s]
  BY <1>2, <1>8, Moves DEF Roles
<1>11. m.n + 1 = 8 BY <1>1
<1>12. /\ Mail(r)' = {[run |-> r, n |-> 8, to |-> a, sigs |-> sigs]}
       /\ \A s \in Runs \ {r} : Mail(s)' = Mail(s)
  <2> HIDE DEF sigs, a
  <2> QED BY <1>2, <1>8, <1>11, MailAnswered
<1>13. RspSigned(run[r], Ini(r)) \cup {Signature(Ingrid, Ini(r).pass)} \subseteq sigs
  BY <1>3, <1>4, <1>5 DEF RspSigned, Responder, Signature
<1>14. Late(r)'
  <2>1. PICK x : x = [run |-> r, n |-> 8, to |-> a, sigs |-> sigs] OBVIOUS
  <2>2. x.n = 8 /\ Mail(r)' = {x}
        /\ RspSigned(run[r], Ini(r)) \cup {Signature(Ingrid, Ini(r).pass)} \subseteq x.sigs
    BY <1>12, <1>13, <2>1
  <2>3. Says({x}, 8, RspSigned(run[r], Ini(r)) \cup {Signature(Ingrid, Ini(r).pass)})
    BY <2>2 DEF Says
  <2>4. run'[r] = run[r] BY <1>8
  <2>5. InstallLate(run[r], Ini(r), h, Rsp(r), {x})
    BY <1>2, <1>3, <1>9, <2>3 DEF InstallLate, Lists, Responder, Initiator
  <2>6. InstallLate(run[r], Ini(r), h, Rsp(r), Mail(r)') BY <2>2, <2>5
  <2> QED BY <1>10, <2>4, <2>6 DEF Late, LateAt
<1>15. Apart(r) BY <1>8, <1>10, <1>12 DEF Apart
<1>16. k.pc \in Waiting /\ Ini(r).pc \in Waiting BY <1>1, <1>3 DEF Waiting
<1> HIDE DEF k, sigs
<1> QED
  BY <1>2, <1>7, <1>8, <1>10, <1>14, <1>15, <1>16, Begins78 DEF k, Roles

LEMMA InitiatorFinishesDoes ==
  ASSUME Base, IInv, NEW m \in net, InitiatorFinishes(m)
  PROVE  Base' /\ Begins(m.run, "initiator")
<1> DEFINE r == m.run
           a == Initiator(r)
           b == Responder(r)
           k == half[r]["initiator"]
<1>1. m.n = 8 /\ run[r].op.kind = "install" /\ k.pc = "wait8"
  BY WaitingIs DEF InitiatorFinishes, Handles
<1>2. r \in Runs /\ Mail(r) = {m} /\ Late(r) /\ ~Still(r)
      /\ InstallLate(run[r], Ini(r), Med(r), Rsp(r), {m})
  <2>1. r \in Runs /\ ~Still(r) BY NetRuns
  <2>2. Mail(r) = {m} /\ Late(r) BY <1>1, AtLate
  <2>3. ~UninstallLate(run[r], Ini(r), Med(r), Rsp(r), Mail(r))
    BY <1>1 DEF UninstallLate
  <2> QED BY <1>1, <2>1, <2>2, <2>3, AtLate
<1>3. k = Ini(r) BY DEF Ini
<1>4. Med(r).pc # "wait7"
  BY <1>1, <1>2, <1>3 DEF InstallLate, Says
<1>5. Says({m}, 8, RspSigned(run[r], Ini(r)) \cup {Signature(Ingrid, Ini(r).pass)})
  BY <1>1, <1>2, <1>3, <1>4 DEF InstallLate
<1>6. RspSigned(run[r], Ini(r)) \cup {Signature(Ingrid, Ini(r).pass)} \subseteq m.sigs
  BY <1>5 DEF Says
<1>7. Both(Ingrid, b, k.pass) \cup {Signature(b, NewVirtualState(r, k.post))} \subseteq m.sigs
  <2>1. NewVirtualState(r, k.post) = VirtualState(run[r].op, Ini(r).post)
    BY <1>2, <1>3, VirtualKind
  <2> QED BY <1>3, <1>6, <2>1 DEF RspSigned, Responder, Both
<1>8. PICK h : h = Saving(k, <<a, "ab", "abi">>) OBVIOUS
<1>9. /\ net' = net \ {m} /\ Goes(r, "initiator", h) /\ UNCHANGED <<store, run, leases>>
  BY <1>7, <1>8, Zenon DEF InitiatorFinishes, Stores
<1>10. h.pc = "saving" /\ h.post = k.post /\ h.left = <<a, "ab", "abi">> BY <1>8, SavingIs
<1>11. /\ Ini(r)' = h /\ Med(r)' = Med(r) /\ Rsp(r)' = Rsp(r)
       /\ \A s \in Runs \ {r} : half'[s] = half[s]
       /\ \A s \in Roles : half'[r][s] = IF s = "initiator" THEN h ELSE half[r][s]
  BY <1>2, <1>9, Moves DEF Roles
<1>12. Mail(r)' = {} /\ \A s \in Runs \ {r} : Mail(s)' = Mail(s)
  BY <1>2, <1>9, MailTaken
<1>14. Late(r)'
  <2>4. run'[r] = run[r] BY <1>9
  <2>5. InstallLate(run[r], h, Med(r), Rsp(r), {})
    BY <1>2, <1>4, <1>10 DEF InstallLate, Lists, Responder, Initiator
  <2>6. InstallLate(run[r], h, Med(r), Rsp(r), Mail(r)') BY <1>12, <2>5
  <2> QED BY <1>11, <2>4, <2>6 DEF Late, LateAt
<1>15. Apart(r) BY <1>9, <1>11, <1>12 DEF Apart
<1>16. k.pc \in Waiting /\ Ini(r).pc \in Waiting BY <1>1, <1>3 DEF Waiting
<1> HIDE DEF k
<1> QED
  BY <1>2, <1>8, <1>9, <1>11, <1>14, <1>15, <1>16, Begins78 DEF k, Roles

LEMMA IntermediaryHasFreedDoes ==
  ASSUME Base, IInv, NEW m \in net, IntermediaryHasFreed(m)
  PROVE  Base' /\ (Calm \/ Begins(m.run, "intermediary"))
<1> DEFINE r == m.run
           a == Initiator(r)
           b == Responder(r)
           k == half[r]["intermediary"]
<1>1. m.n = 7 /\ run[r].op.kind = "uninstall" /\ k.pc = "wait7"
  BY WaitingIs DEF IntermediaryHasFreed, Handles
<1>2. r \in Runs /\ Mail(r) = {m} /\ Late(r) /\ ~Still(r)
      /\ UninstallLate(run[r], Ini(r), Med(r), Rsp(r), {m})
  <2>1. r \in Runs /\ ~Still(r) BY NetRuns
  <2>2. Mail(r) = {m} /\ Late(r) BY <1>1, AtLate
  <2>3. ~InstallLate(run[r], Ini(r), Med(r), Rsp(r), Mail(r))
    BY <1>1 DEF InstallLate
  <2> QED BY <1>1, <2>1, <2>2, <2>3, AtLate
<1>3. Ini(r).pc = "wait8" /\ k = Med(r) /\ Rsp(r).pc = "done"
  BY <1>1, <1>2 DEF UninstallLate, Med, One
<1>4. k.pc \in Waiting /\ Ini(r).pc \in Waiting BY <1>1, <1>3 DEF Waiting
<1>5. CASE Throws(m, "intermediary")
  <2>1. \A x \in Roles : half[r][x].pc # "saving"
    BY <1>1, <1>3 DEF Ini, Med, Rsp, Roles
  <2> QED BY <1>1, <1>4, <1>5, <2>1, LateRefused DEF Roles
<1>6. CASE ~Throws(m, "intermediary")
  <2>1. PICK h : h = Saving(k, <<a, "abi", b>>) OBVIOUS
  <2>2. /\ net' = net \ {m} /\ Goes(r, "intermediary", h) /\ UNCHANGED <<store, run, leases>>
    BY <1>6, <2>1, Zenon DEF IntermediaryHasFreed, Stores
  <2>3. h.pc = "saving" /\ h.post = k.post /\ h.left = <<a, "abi", b>> BY <2>1, SavingIs
  <2>4. /\ Ini(r)' = Ini(r) /\ Med(r)' = h /\ Rsp(r)' = Rsp(r)
        /\ \A s \in Runs \ {r} : half'[s] = half[s]
        /\ \A s \in Roles : half'[r][s] = IF s = "intermediary" THEN h ELSE half[r][s]
    BY <1>2, <2>2, Moves DEF Roles
  <2>5. Mail(r)' = {} /\ \A s \in Runs \ {r} : Mail(s)' = Mail(s)
    BY <1>2, <2>2, MailTaken
  <2>6. Late(r)'
    <3>1. run'[r] = run[r] BY <2>2
    <3>2. UninstallLate(run[r], Ini(r), h, Rsp(r), {})
      BY <1>1, <1>3, <2>3 DEF UninstallLate, Lists, Responder, Initiator
    <3>3. UninstallLate(run[r], Ini(r), h, Rsp(r), Mail(r)') BY <2>5, <3>2
    <3> QED BY <2>4, <3>1, <3>3 DEF Late, LateAt
  <2>7. Apart(r) BY <2>2, <2>4, <2>5 DEF Apart
  <2> HIDE DEF k
  <2> QED BY <1>2, <1>4, <2>1, <2>2, <2>4, <2>6, <2>7, Begins78 DEF k, Roles
<1> QED BY <1>5, <1>6

LEMMA InitiatorHasFreedDoes ==
  ASSUME Base, IInv, NEW m \in net, InitiatorHasFreed(m)
  PROVE  Base' /\ (Calm \/ Begins(m.run, "initiator"))
<1> DEFINE r == m.run
           a == Initiator(r)
           k == half[r]["initiator"]
<1>1. m.n = 8 /\ run[r].op.kind = "uninstall" /\ k.pc = "wait8"
  BY WaitingIs DEF InitiatorHasFreed, Handles
<1>2. r \in Runs /\ Mail(r) = {m} /\ Late(r) /\ ~Still(r)
      /\ UninstallLate(run[r], Ini(r), Med(r), Rsp(r), {m})
  <2>1. r \in Runs /\ ~Still(r) BY NetRuns
  <2>2. Mail(r) = {m} /\ Late(r) BY <1>1, AtLate
  <2>3. ~InstallLate(run[r], Ini(r), Med(r), Rsp(r), Mail(r))
    BY <1>1 DEF InstallLate
  <2> QED BY <1>1, <2>1, <2>2, <2>3, AtLate
<1>3. Med(r).pc = "done" /\ k = Ini(r) /\ Rsp(r).pc = "done"
  BY <1>1, <1>2 DEF UninstallLate, Ini, One
<1>4. k.pc \in Waiting /\ Ini(r).pc \in Waiting BY <1>1, <1>3 DEF Waiting
<1>5. CASE Throws(m, "initiator")
  <2>1. \A x \in Roles : half[r][x].pc # "saving"
    BY <1>1, <1>3 DEF Ini, Med, Rsp, Roles
  <2> QED BY <1>1, <1>4, <1>5, <2>1, LateRefused DEF Roles
<1>6. CASE ~Throws(m, "initiator")
  <2>1. PICK h : h = Saving(k, <<a, "abi", "ab">>) OBVIOUS
  <2>2. /\ net' = net \ {m} /\ Goes(r, "initiator", h) /\ UNCHANGED <<store, run, leases>>
    BY <1>6, <2>1, Zenon DEF InitiatorHasFreed, Stores
  <2>3. h.pc = "saving" /\ h.post = k.post /\ h.left = <<a, "abi", "ab">> BY <2>1, SavingIs
  <2>4. /\ Ini(r)' = h /\ Med(r)' = Med(r) /\ Rsp(r)' = Rsp(r)
        /\ \A s \in Runs \ {r} : half'[s] = half[s]
        /\ \A s \in Roles : half'[r][s] = IF s = "initiator" THEN h ELSE half[r][s]
    BY <1>2, <2>2, Moves DEF Roles
  <2>5. Mail(r)' = {} /\ \A s \in Runs \ {r} : Mail(s)' = Mail(s)
    BY <1>2, <2>2, MailTaken
  <2>6. Late(r)'
    <3>1. run'[r] = run[r] BY <2>2
    <3>2. UninstallLate(run[r], h, Med(r), Rsp(r), {})
      BY <1>1, <1>3, <2>3 DEF UninstallLate, Lists, Responder, Initiator
    <3>3. UninstallLate(run[r], h, Med(r), Rsp(r), Mail(r)') BY <2>5, <3>2
    <3> QED BY <2>4, <3>1, <3>3 DEF Late, LateAt
  <2>7. Apart(r) BY <2>2, <2>4, <2>5 DEF Apart
  <2> HIDE DEF k
  <2> QED BY <1>2, <1>4, <2>1, <2>2, <2>4, <2>6, <2>7, Begins78 DEF k, Roles
<1> QED BY <1>5, <1>6

-----------------------------------------------------------------------------
(* Persisting.                                                              *)

In(left, u) == \E i \in DOMAIN left : left[i] = u

Ends3(x, y, z) == {<<x, y, z>>, <<y, z>>, <<z>>, << >>}

LEMMA TailOfThree ==
  ASSUME NEW x, NEW y, NEW z, x # y, y # z, x # z, NEW left, left \in Ends3(x, y, z)
  PROVE  /\ left # << >> =>
              /\ Tail(left) \in Ends3(x, y, z) /\ Head(left) \in {x, y, z}
              /\ In(left, Head(left))
              /\ \A u : In(Tail(left), u) <=> In(left, u) /\ u # Head(left)
         /\ In(left, x) => left = <<x, y, z>>
         /\ In(left, y) => left = <<x, y, z>> \/ left = <<y, z>>
         /\ left = << >> => \A u : ~In(left, u)
<1>1. CASE left = <<x, y, z>>
  <2>1. /\ Tail(left) = <<y, z>> /\ Head(left) = x
        /\ \A u : In(left, u) <=> u \in {x, y, z}
        /\ \A u : In(<<y, z>>, u) <=> u \in {y, z}
    BY <1>1, Threes DEF In
  <2> QED BY <1>1, <2>1 DEF Ends3
<1>2. CASE left = <<y, z>>
  <2>1. /\ Tail(left) = <<z>> /\ Head(left) = y
        /\ \A u : In(left, u) <=> u \in {y, z}
        /\ \A u : In(<<z>>, u) <=> u = z
    BY <1>2, Threes DEF In
  <2> QED BY <1>2, <2>1 DEF Ends3
<1>3. CASE left = <<z>>
  <2>1. /\ Tail(left) = << >> /\ Head(left) = z
        /\ \A u : In(left, u) <=> u = z
        /\ \A u : ~In(<< >>, u)
    BY <1>3, Threes DEF In
  <2> QED BY <1>3, <2>1 DEF Ends3
<1>4. CASE left = << >>
  <2>1. \A u : ~In(left, u) BY <1>4, Threes DEF In
  <2> QED BY <1>4, <2>1 DEF Ends3
<1> QED BY <1>1, <1>2, <1>3, <1>4 DEF Ends3

\* What each half of a run that succeeds has to persist, in its order.
LeftOf(e, role, left) ==
  LET a == e.by
      b == Other(e.by)
  IN  \/ /\ e.op.kind = "install"
         /\ role = "responder" => left \in Ends3(b, "abi", "ab")
         /\ role = "intermediary" => left \in Ends3("abi", b, a)
         /\ role = "initiator" => left \in Ends3(a, "ab", "abi")
      \/ /\ e.op.kind = "uninstall"
         /\ role = "responder" => left \in Ends3("ab", "abi", b)
         /\ role = "intermediary" => left \in Ends3(a, "abi", b)
         /\ role = "initiator" => left \in Ends3(a, "abi", "ab")

LEMMA LateLeft ==
  ASSUME NEW r, Late(r), NEW role \in Roles, half[r][role].pc = "saving"
  PROVE  LeftOf(run[r], role, half[r][role].left)
<1> DEFINE h == half[r][role]
<1>1. CASE InstallLate(run[r], Ini(r), Med(r), Rsp(r), Mail(r))
  <2>1. CASE role = "initiator" BY <1>1, <2>1 DEF InstallLate, Lists, Ini, LeftOf, Ends3
  <2>2. CASE role = "intermediary" BY <1>1, <2>2 DEF InstallLate, Lists, Med, LeftOf, Ends3
  <2>3. CASE role = "responder" BY <1>1, <2>3 DEF InstallLate, Lists, Rsp, LeftOf, Ends3
  <2> QED BY <2>1, <2>2, <2>3 DEF Roles
<1>2. CASE UninstallLate(run[r], Ini(r), Med(r), Rsp(r), Mail(r))
  <2>1. CASE role = "initiator" BY <1>2, <2>1 DEF UninstallLate, Lists, Ini, LeftOf, Ends3
  <2>2. CASE role = "intermediary" BY <1>2, <2>2 DEF UninstallLate, Lists, Med, LeftOf, Ends3
  <2>3. CASE role = "responder" BY <1>2, <2>3 DEF UninstallLate, Lists, Rsp, LeftOf, Ends3
  <2> QED BY <2>1, <2>2, <2>3 DEF Roles
<1> QED BY <1>1, <1>2 DEF Late, LateAt

\* A run in which a half persists is a late one.
LEMMA SavingIsLate ==
  ASSUME Base, IInv, NEW r \in Runs, NEW role \in Roles, half[r][role].pc = "saving"
  PROVE  Late(r) /\ ~Still(r) /\ ~Early(r) /\ Ini(r).pc # "idle"
<1>1. ~Still(r) BY DEF Still, StillAt, Ini, Med, Rsp, Roles
<1>2. ~Early(r) BY EarlyIs DEF Ini, Med, Rsp, Roles
<1>3. Ini(r).pc # "idle" BY DEF IInv, Begun, Ini
<1> QED BY <1>1, <1>2, <1>3 DEF Base, Flow

LEMMA LeftMoves ==
  ASSUME NEW e, e.by \in Users, NEW role \in Roles, NEW left, LeftOf(e, role, left)
  PROVE  /\ left # << >> =>
              /\ LeftOf(e, role, Tail(left)) /\ Head(left) \in Users \cup {"ab", "abi"}
              /\ In(left, Head(left))
              /\ \A u : In(Tail(left), u) <=> In(left, u) /\ u # Head(left)
         /\ \A u \in Users : In(left, u) /\ role = "initiator" => u = e.by
         /\ \A u \in Users : In(left, u) /\ role = "responder" => u = Other(e.by)
         /\ left = << >> => \A u : ~In(left, u)
         /\ role = "intermediary" /\ e.op.kind = "install" /\ In(left, Other(e.by)) => In(left, e.by)
         /\ role = "intermediary" /\ e.op.kind = "uninstall" /\ In(left, e.by) => In(left, Other(e.by))
<1> DEFINE a == e.by
           b == Other(e.by)
<1>1. a \in Users /\ b \in Users /\ a # b /\ "ab" # "abi"
      /\ a # "ab" /\ a # "abi" /\ b # "ab" /\ b # "abi"
  BY OtherIs, OpeningSettled
<1>2. PICK x, y, z :
        /\ x # y /\ y # z /\ x # z /\ left \in Ends3(x, y, z)
        /\ {x, y, z} \subseteq {a, b, "ab", "abi"}
        /\ \A l \in Ends3(x, y, z) : LeftOf(e, role, l)
        /\ role = "initiator" => b \notin {x, y, z}
        /\ role = "responder" => a \notin {x, y, z}
        /\ role = "intermediary" /\ e.op.kind = "install" => y = b /\ z = a
        /\ role = "intermediary" /\ e.op.kind = "uninstall" => x = a /\ z = b
  <2>1. CASE e.op.kind = "install" /\ role = "responder"
    <3> WITNESS b, "abi", "ab"
    <3> QED BY <1>1, <2>1 DEF LeftOf
  <2>2. CASE e.op.kind = "install" /\ role = "intermediary"
    <3> WITNESS "abi", b, a
    <3> QED BY <1>1, <2>2 DEF LeftOf
  <2>3. CASE e.op.kind = "install" /\ role = "initiator"
    <3> WITNESS a, "ab", "abi"
    <3> QED BY <1>1, <2>3 DEF LeftOf
  <2>4. CASE e.op.kind = "uninstall" /\ role = "responder"
    <3> WITNESS "ab", "abi", b
    <3> QED BY <1>1, <2>4 DEF LeftOf
  <2>5. CASE e.op.kind = "uninstall" /\ role = "intermediary"
    <3> WITNESS a, "abi", b
    <3> QED BY <1>1, <2>5 DEF LeftOf
  <2>6. CASE e.op.kind = "uninstall" /\ role = "initiator"
    <3> WITNESS a, "abi", "ab"
    <3> QED BY <1>1, <2>6 DEF LeftOf
  <2> QED BY <2>1, <2>2, <2>3, <2>4, <2>5, <2>6 DEF LeftOf, Roles
<1>3. /\ left # << >> =>
              /\ Tail(left) \in Ends3(x, y, z) /\ Head(left) \in {x, y, z}
              /\ In(left, Head(left))
              /\ \A u : In(Tail(left), u) <=> In(left, u) /\ u # Head(left)
      /\ In(left, x) => left = <<x, y, z>>
      /\ In(left, y) => left = <<x, y, z>> \/ left = <<y, z>>
      /\ left = << >> => \A u : ~In(left, u)
  BY <1>2, TailOfThree
<1>4. \A u : In(left, u) => u \in {x, y, z}
  BY <1>2, Threes DEF Ends3, In
<1>5. left = <<x, y, z>> => In(left, z) BY Threes DEF In
<1>6. left = <<y, z>> => In(left, z) BY Threes DEF In
<1>7. \A u \in Users : u = a \/ u = b BY <1>1, OtherIs
<1> QED BY <1>1, <1>2, <1>3, <1>4, <1>5, <1>6, <1>7

LEMMA SavedInto ==
  ASSUME NEW ch, NEW post, KnownChannels(ch), KnownChannels(post),
         NEW c, c \in Users \cup {"ab", "abi"}, NEW next,
         c = "ab" => next = [ch EXCEPT !.ab = post.ab],
         c = "abi" => next = [ch EXCEPT !.abi = post.abi],
         c \in Users => next = [ch EXCEPT !.link[c] = post.link[c]]
  PROVE  /\ KnownChannels(next)
         /\ c \in Users => /\ next.link[c] = post.link[c]
                           /\ \A v \in Users : v # c => next.link[v] = ch.link[v]
         /\ c \notin Users => next.link = ch.link
<1>1. /\ ch.link \in [Users -> Link] /\ ch.ab \in AB /\ ch.abi \in ABI
      /\ ch = [link |-> ch.link, ab |-> ch.ab, abi |-> ch.abi]
      /\ post.link \in [Users -> Link] /\ post.ab \in AB /\ post.abi \in ABI
  BY ChannelsAre DEF KnownChannels
<1>2. "ab" \notin Users /\ "abi" \notin Users /\ "ab" # "abi" BY OpeningSettled
<1>3. CASE c = "ab"
  <2>1. next = [link |-> ch.link, ab |-> post.ab, abi |-> ch.abi] BY <1>1, <1>2, <1>3
  <2>2. next \in Channels /\ next.link = ch.link /\ next.ab = post.ab BY <1>1, <2>1 DEF Channels
  <2> QED BY <1>2, <1>3, <2>2 DEF KnownChannels
<1>4. CASE c = "abi"
  <2>1. next = [link |-> ch.link, ab |-> ch.ab, abi |-> post.abi] BY <1>1, <1>2, <1>4
  <2>2. next \in Channels /\ next.link = ch.link /\ next.ab = ch.ab BY <1>1, <2>1 DEF Channels
  <2> QED BY <1>2, <1>4, <2>2 DEF KnownChannels
<1>5. CASE c \in Users
  <2> DEFINE L == [ch.link EXCEPT ![c] = post.link[c]]
  <2>1. next = [ch EXCEPT !.link[c] = post.link[c]] BY <1>2, <1>5
  <2>2. next = [link |-> L, ab |-> ch.ab, abi |-> ch.abi] BY <1>1, <2>1
  <2>3. L \in [Users -> Link] /\ L[c] = post.link[c] /\ \A v \in Users : v # c => L[v] = ch.link[v]
    BY <1>1, <1>5
  <2> HIDE DEF L
  <2>4. next \in Channels /\ next.link = L /\ next.ab = ch.ab BY <1>1, <2>2, <2>3 DEF Channels
  <2>5. \A v \in Users : KnownLink(L[v]) BY <2>3 DEF KnownChannels
  <2> QED BY <1>5, <2>3, <2>4, <2>5 DEF KnownChannels
<1> QED BY <1>3, <1>4, <1>5

LEMMA PartyIs ==
  ASSUME IInv, NEW r \in Runs
  PROVE  /\ PartyOf(r, "initiator") = Initiator(r) /\ PartyOf(r, "intermediary") = Ingrid
         /\ PartyOf(r, "responder") = Responder(r)
         /\ Initiator(r) \in Users /\ Responder(r) \in Users /\ Initiator(r) # Responder(r)
         /\ Responder(r) = Other(Initiator(r)) /\ Initiator(r) = run[r].by
         /\ Initiator(r) # Ingrid /\ Responder(r) # Ingrid
         /\ \A u \in Users : u = Initiator(r) \/ u = Responder(r)
         /\ \A role \in Roles : PartyOf(r, role) \in Parties
BY OtherIs DEF PartyOf, Initiator, Responder, IInv, Shape, Roles

LEMMA LateMoves ==
  ASSUME NEW r \in Runs, Late(r), NEW role \in Roles, half[r][role].pc = "saving",
         NEW h, h.pc = "saving", LeftOf(run[r], role, h.left),
         \A x \in Roles : half'[r][x] = IF x = role THEN h ELSE half[r][x],
         run'[r] = run[r], Mail(r)' = Mail(r)
  PROVE  Late(r)'
<1>1. CASE role = "initiator"
  <2>1. Ini(r)' = h /\ Med(r)' = Med(r) /\ Rsp(r)' = Rsp(r) /\ Ini(r).pc = "saving"
    BY <1>1 DEF Ini, Med, Rsp, Roles
  <2>2. LateAt(run[r], h, Med(r), Rsp(r), Mail(r))
    <3>1. InstallLate(run[r], Ini(r), Med(r), Rsp(r), Mail(r))
            => InstallLate(run[r], h, Med(r), Rsp(r), Mail(r))
      BY <1>1, <2>1 DEF InstallLate, LeftOf, Lists, Ends3
    <3>2. UninstallLate(run[r], Ini(r), Med(r), Rsp(r), Mail(r))
            => UninstallLate(run[r], h, Med(r), Rsp(r), Mail(r))
      BY <1>1, <2>1 DEF UninstallLate, LeftOf, Lists, Ends3
    <3> QED BY <3>1, <3>2 DEF Late, LateAt
  <2> QED BY <2>1, <2>2, Zenon DEF Late
<1>2. CASE role = "intermediary"
  <2>1. Ini(r)' = Ini(r) /\ Med(r)' = h /\ Rsp(r)' = Rsp(r) /\ Med(r).pc = "saving"
    BY <1>2 DEF Ini, Med, Rsp, Roles
  <2>2. LateAt(run[r], Ini(r), h, Rsp(r), Mail(r))
    <3>1. InstallLate(run[r], Ini(r), Med(r), Rsp(r), Mail(r))
            => InstallLate(run[r], Ini(r), h, Rsp(r), Mail(r))
      BY <1>2, <2>1 DEF InstallLate, LeftOf, Lists, Ends3
    <3>2. UninstallLate(run[r], Ini(r), Med(r), Rsp(r), Mail(r))
            => UninstallLate(run[r], Ini(r), h, Rsp(r), Mail(r))
      BY <1>2, <2>1 DEF UninstallLate, LeftOf, Lists, Ends3
    <3> QED BY <3>1, <3>2 DEF Late, LateAt
  <2> QED BY <2>1, <2>2, Zenon DEF Late
<1>3. CASE role = "responder"
  <2>1. Ini(r)' = Ini(r) /\ Med(r)' = Med(r) /\ Rsp(r)' = h /\ Rsp(r).pc = "saving"
    BY <1>3 DEF Ini, Med, Rsp, Roles
  <2>2. LateAt(run[r], Ini(r), Med(r), h, Mail(r))
    <3>1. InstallLate(run[r], Ini(r), Med(r), Rsp(r), Mail(r))
            => InstallLate(run[r], Ini(r), Med(r), h, Mail(r))
      BY <1>3, <2>1 DEF InstallLate, LeftOf, Lists, Ends3
    <3>2. UninstallLate(run[r], Ini(r), Med(r), Rsp(r), Mail(r))
            => UninstallLate(run[r], Ini(r), Med(r), h, Mail(r))
      BY <1>3, <2>1 DEF UninstallLate, LeftOf, Lists, Ends3
    <3> QED BY <3>1, <3>2 DEF Late, LateAt
  <2> QED BY <2>1, <2>2, Zenon DEF Late
<1> QED BY <1>1, <1>2, <1>3 DEF Roles

\* The half that plays `role` in run r writes the link of u.
SavesLink(r, role, u) ==
  LET p == PartyOf(r, role)
      h == half[r][role]
      k == half'[r][role]
  IN  /\ role \in Roles /\ Apart(r) /\ run' = run
      /\ Late(r) /\ Late(r)' /\ ~Still(r)
      /\ \A x \in Roles : x # role => half'[r][x] = half[r][x]
      /\ k.pc = "saving" /\ k.post = h.post /\ h.pc = "saving"
      /\ Owing(h, u) /\ \A v \in Users : Owing(k, v) <=> Owing(h, v) /\ v # u
      /\ store'[p].link[u] = h.post.link[u]
      /\ \A q \in Parties, v \in Users : q # p \/ v # u => store'[q].link[v] = store[q].link[v]

LEMMA SaveChannelDoes ==
  ASSUME Base, IInv, NEW r \in Runs, NEW role \in Roles, SaveChannel(r, role)
  PROVE  Base' /\ (Calm \/ \E u \in Users : SavesLink(r, role, u))
<1> DEFINE h == half[r][role]
           p == PartyOf(r, role)
           c == Head(h.left)
<1>1. h.pc = "saving" /\ h.left # <<>> /\ UNCHANGED <<run, net, leases>>
  BY DEF SaveChannel
<1>2. Late(r) /\ ~Still(r) /\ ~Early(r) /\ Ini(r).pc # "idle" BY <1>1, SavingIsLate
<1>3. p \in Parties BY PartyIs
<1>4. LeftOf(run[r], role, h.left) BY <1>1, <1>2, LateLeft
<1>5. /\ LeftOf(run[r], role, Tail(h.left)) /\ c \in Users \cup {"ab", "abi"}
      /\ In(h.left, c)
      /\ \A u : In(Tail(h.left), u) <=> In(h.left, u) /\ u # c
  <2>1. run[r].by \in Users BY DEF IInv, Shape
  <2> QED BY <1>1, <1>4, <2>1, LeftMoves
<1>6. PICK k : k = Saving(h, Tail(h.left)) OBVIOUS
<1>7. k.pc = "saving" /\ k.post = h.post /\ k.left = Tail(h.left) BY <1>6, SavingIs
<1>8. Goes(r, role, k) BY <1>6 DEF SaveChannel
<1>9. /\ \A s \in Runs \ {r} : half'[s] = half[s]
      /\ \A x \in Roles : half'[r][x] = IF x = role THEN k ELSE half[r][x]
  BY <1>8, Moves
<1>10. \A s : Mail(s)' = Mail(s) BY <1>1 DEF Mail
<1>11. Apart(r) BY <1>1, <1>9, <1>10 DEF Apart
<1>12. Late(r)'
  <2> HIDE DEF h
  <2>1. half[r][role].pc = "saving" BY <1>1 DEF h
  <2> QED BY <1>1, <1>2, <1>5, <1>7, <1>9, <1>10, <2>1, LateMoves
<1>13. PICK ch, post : ch = store[p] /\ post = h.post OBVIOUS
<1>14. PICK next :
         next = CASE c = "ab"  -> [ch EXCEPT !.ab = post.ab]
                  [] c = "abi" -> [ch EXCEPT !.abi = post.abi]
                  [] OTHER     -> [ch EXCEPT !.link[c] = post.link[c]]
  OBVIOUS
<1>15. store' = [store EXCEPT ![p] = next]
  BY <1>13, <1>14, Zenon DEF SaveChannel
<1>25. /\ KnownChannels(ch) /\ KnownChannels(post)
       /\ store = [q \in Parties |-> store[q]]
  BY <1>3, <1>13 DEF Base, Known
<1>16. /\ KnownChannels(next)
       /\ c \in Users => /\ next.link[c] = h.post.link[c]
                         /\ \A v \in Users : v # c => next.link[v] = store[p].link[v]
       /\ c \notin Users => next.link = store[p].link
  <2>1. /\ KnownChannels(next)
        /\ c \in Users => /\ next.link[c] = post.link[c]
                          /\ \A v \in Users : v # c => next.link[v] = ch.link[v]
        /\ c \notin Users => next.link = ch.link
    <3> HIDE DEF c, h
    <3>1. "ab" \notin Users /\ "abi" \notin Users /\ "ab" # "abi" BY OpeningSettled
    <3>2. c = "ab" => next = [ch EXCEPT !.ab = post.ab] BY <1>14, <3>1
    <3>3. c = "abi" => next = [ch EXCEPT !.abi = post.abi] BY <1>14, <3>1
    <3>4. c \in Users => next = [ch EXCEPT !.link[c] = post.link[c]] BY <1>14, <3>1
    <3> QED BY <1>5, <1>25, <3>2, <3>3, <3>4, SavedInto
  <2> QED BY <1>13, <2>1
<1>17. /\ store' = [q \in Parties |-> store'[q]] /\ store'[p] = next
       /\ \A q \in Parties : q # p => store'[q] = store[q]
  <2> HIDE DEF p
  <2> QED BY <1>3, <1>15, <1>25
<1>18. \A q \in Parties : KnownChannels(store'[q])
  BY <1>16, <1>17 DEF Base, Known
<1>19. \A x \in Roles : KnownChannels(half'[r][x].post)
  BY <1>7, <1>9 DEF Base, Known
<1>20. Ini(r)'.pc # "idle" /\ (Going(Ini(r)') => Going(Ini(r)))
  BY <1>1, <1>2, <1>7, <1>9, WaitingIs DEF Ini, Roles
<1>21. Base'
  BY <1>1, <1>2, <1>11, <1>12, <1>17, <1>18, <1>19, <1>20, BaseStep
<1>22. \A u : /\ Owing(h, u) <=> In(h.left, u)
              /\ Owing(k, u) <=> In(k.left, u)
  BY <1>1, <1>7 DEF Owing, In
<1>23. CASE c \in Users
  <2>1. \A u : Owing(half'[r][role], u) <=> Owing(k, u) BY <1>9 DEF Owing
  <2>2. Owing(h, c) /\ \A v \in Users : Owing(half'[r][role], v) <=> Owing(h, v) /\ v # c
    BY <1>5, <1>7, <1>22, <2>1
  <2>3. store'[p].link[c] = h.post.link[c] BY <1>16, <1>17, <1>23
  <2>4. \A q \in Parties, v \in Users : q # p \/ v # c => store'[q].link[v] = store[q].link[v]
    BY <1>16, <1>17, <1>23
  <2>5. half'[r][role].pc = "saving" /\ half'[r][role].post = h.post BY <1>7, <1>9
  <2>6. SavesLink(r, role, c)
    BY <1>1, <1>2, <1>9, <1>11, <1>12, <2>2, <2>3, <2>4, <2>5 DEF SavesLink
  <2> QED BY <1>21, <1>23, <2>6
<1>24. CASE c \notin Users
  <2>1. \A q \in Parties : store'[q].link = store[q].link
    BY <1>16, <1>17, <1>24
  <2>2. \A u \in Users : Owing(h, u) <=> Owing(k, u)
    BY <1>5, <1>7, <1>22, <1>24
  <2>3. GoesOn(h, k)
    BY <1>1, <1>7, <2>2 DEF GoesOn, Going
  <2>4. \A x \in Roles : GoesOn(half[r][x], half'[r][x])
    BY <1>9, <2>3 DEF GoesOn
  <2>5. IniKeeps(r)
    BY <1>1, <1>7, <1>9 DEF IniKeeps, Ini, Roles, Going
  <2>6. CalmRun(r) BY <1>2, <1>12, <2>4, <2>5 DEF CalmRun
  <2>7. Calm BY <1>1, <1>11, <2>1, <2>6, ApartIsCalm
  <2> QED BY <1>21, <2>7
<1> QED BY <1>23, <1>24

LEMMA PropsRemoved ==
  ASSUME Base, NEW p \in Parties, NEW id, RemoveProposal(p, id)
  PROVE  /\ store' = [q \in Parties |-> store'[q]]
         /\ \A q \in Parties : KnownChannels(store'[q]) /\ store'[q].link = store[q].link
<1> DEFINE props == {q \in store[p].ab.props : q.id # id}
<1>1. PICK ch : ch = store[p] OBVIOUS
<1>2. PICK next : next = [ch EXCEPT !.ab.props = {q \in @ : q.id # id}] OBVIOUS
<1>3. store' = [store EXCEPT ![p] = next]
  BY <1>1, <1>2, Zenon DEF RemoveProposal
<1>4. KnownChannels(ch) /\ store = [q \in Parties |-> store[q]]
  BY <1>1 DEF Base, Known
<1>5. /\ ch.link \in [Users -> Link] /\ ch.ab \in AB /\ ch.abi \in ABI
      /\ ch = [link |-> ch.link, ab |-> ch.ab, abi |-> ch.abi]
      /\ ch.ab = [np |-> ch.ab.np, props |-> ch.ab.props, apps |-> ch.ab.apps]
      /\ ch.ab.np \in Nat /\ ch.ab.apps \subseteq VirtualApp /\ ch.ab.props \subseteq Proposal
  BY <1>4, ChannelsAre DEF KnownChannels
<1> DEFINE ab == [np |-> ch.ab.np, props |-> props, apps |-> ch.ab.apps]
<1>6. next = [link |-> ch.link, ab |-> ab, abi |-> ch.abi]
  BY <1>1, <1>2, <1>5
<1>7. props \subseteq ch.ab.props BY <1>1
<1> HIDE DEF props
<1>8. ab \in AB /\ ab.props = props /\ ab.apps = ch.ab.apps
  BY <1>5, <1>7 DEF AB
<1> HIDE DEF ab
<1>9. next \in Channels /\ next.link = ch.link /\ next.ab = ab
  BY <1>5, <1>6, <1>8 DEF Channels
<1>10. KnownChannels(next)
  BY <1>4, <1>7, <1>8, <1>9 DEF KnownChannels, KnownAB
<1>11. /\ store' = [q \in Parties |-> store'[q]] /\ store'[p] = next
       /\ \A q \in Parties : q # p => store'[q] = store[q]
  BY <1>3, <1>4
<1>12. \A q \in Parties : KnownChannels(store[q]) BY DEF Base, Known
<1> QED BY <1>1, <1>9, <1>10, <1>11, <1>12

\* A half that has persisted its channels is over.
LEMMA EndsCalm ==
  ASSUME Base, IInv, NEW r \in Runs, NEW role \in Roles, Late(r), ~Still(r),
         half[r][role].pc = "saving", half[r][role].left = <<>>,
         NEW how, how = IF role = "initiator" THEN "returned" ELSE "done",
         NEW h, h = Ended(how), Apart(r), run' = run,
         \A x \in Roles : half'[r][x] = IF x = role THEN h ELSE half[r][x],
         store' = [q \in Parties |-> store'[q]],
         \A q \in Parties : KnownChannels(store'[q]) /\ store'[q].link = store[q].link,
         leases' = IF role = "initiator" THEN leases \ {r} ELSE leases,
         Late(r)' \/ Still(r)'
  PROVE  Base' /\ Calm
<1>1. h.pc = how /\ h.post = Opening BY EndedIs
<1>2. Ini(r).pc # "idle" BY SavingIsLate
<1>3. Ini(r)' = (IF role = "initiator" THEN h ELSE Ini(r)) BY DEF Ini, Roles
<1>4. \A x \in Roles : KnownChannels(half'[r][x].post)
  BY <1>1, OpeningKnown DEF Base, Known
<1>5. Base'
  <2>1. CASE role = "initiator"
    <3>1. Ini(r)'.pc = "returned" BY <1>1, <1>3, <2>1
    <3>2. ~Going(Ini(r)') BY <3>1, WaitingIs
    <3> QED BY <1>2, <1>4, <2>1, <3>1, <3>2, BaseStep
  <2>2. CASE role # "initiator"
    BY <1>2, <1>3, <1>4, <2>2, BaseStep
  <2> QED BY <2>1, <2>2
<1>6. \A u \in Users : ~Owing(half[r][role], u) BY DEF Owing
<1>7. Stops(half[r][role], h) BY <1>1, <1>6 DEF Stops
<1>8. \A x \in Roles : x # role => GoesOn(half[r][x], half'[r][x]) BY DEF GoesOn
<1>9. IniKeeps(r)
  <2>1. CASE role = "initiator"
    <3>1. Ini(r).pc = "saving" /\ Ini(r)'.pc = "returned" BY <1>1, <1>3, <2>1 DEF Ini
    <3> QED BY <3>1, WaitingIs DEF IniKeeps
  <2>2. CASE role # "initiator"
    BY <1>3, <2>2 DEF IniKeeps
  <2> QED BY <2>1, <2>2
<1>10. CalmRun(r)
  BY <1>7, <1>8, <1>9 DEF CalmRun
<1> QED BY <1>5, <1>10, ApartIsCalm

LEMMA InstallReturnsDoes ==
  ASSUME Base, IInv, NEW r \in Runs, InstallReturns(r)
  PROVE  Base' /\ Calm
<1>1. /\ Ini(r).pc = "saving" /\ Ini(r).left = <<>> /\ run[r].op.kind = "install"
      /\ half[r]["initiator"].pc = "saving" /\ half[r]["initiator"].left = <<>>
      /\ leases' = leases \ {r} /\ UNCHANGED <<run, net>>
      /\ RemoveProposal(Initiator(r), run[r].op.q.id) /\ Goes(r, "initiator", Ended("returned"))
  BY DEF InstallReturns, Saved, Leave, Ini
<1>2. Late(r) /\ ~Still(r) BY <1>1, SavingIsLate DEF Roles
<1>3. PICK h : h = Ended("returned") OBVIOUS
<1>4. /\ \A s \in Runs \ {r} : half'[s] = half[s]
      /\ \A x \in Roles : half'[r][x] = IF x = "initiator" THEN h ELSE half[r][x]
      /\ Ini(r)' = h /\ Med(r)' = Med(r) /\ Rsp(r)' = Rsp(r)
  BY <1>1, <1>3, Moves DEF Roles
<1>5. \A s : Mail(s)' = Mail(s) BY <1>1 DEF Mail
<1>6. Apart(r) BY <1>1, <1>4, <1>5 DEF Apart
<1>7. /\ store' = [q \in Parties |-> store'[q]]
      /\ \A q \in Parties : KnownChannels(store'[q]) /\ store'[q].link = store[q].link
  BY <1>1, PropsRemoved, PartyIs DEF Parties
<1>8. Late(r)'
  <2>1. InstallLate(run[r], Ini(r), Med(r), Rsp(r), Mail(r))
    BY <1>1, <1>2 DEF Late, LateAt, UninstallLate
  <2>2. h.pc = "returned" BY <1>3, EndedIs
  <2>3. InstallLate(run[r], h, Med(r), Rsp(r), Mail(r))
    BY <1>1, <2>1, <2>2 DEF InstallLate, Lists
  <2> QED BY <1>1, <1>4, <1>5, <2>3, Zenon DEF Late, LateAt
<1> QED BY <1>1, <1>2, <1>3, <1>4, <1>6, <1>7, <1>8, EndsCalm DEF Roles

LEMMA ResponderCleansUpDoes ==
  ASSUME Base, IInv, NEW r \in Runs, ResponderCleansUp(r)
  PROVE  Base' /\ Calm
<1>1. /\ Rsp(r).pc = "saving" /\ Rsp(r).left = <<>> /\ run[r].op.kind = "install"
      /\ half[r]["responder"].pc = "saving" /\ half[r]["responder"].left = <<>>
      /\ leases' = leases /\ UNCHANGED <<run, net>>
      /\ (\E id : RemoveProposal(Responder(r), id)) /\ Goes(r, "responder", Ended("done"))
  BY DEF ResponderCleansUp, Saved, Rsp
<1>2. Late(r) /\ ~Still(r) BY <1>1, SavingIsLate DEF Roles
<1>3. PICK h : h = Ended("done") OBVIOUS
<1>4. /\ \A s \in Runs \ {r} : half'[s] = half[s]
      /\ \A x \in Roles : half'[r][x] = IF x = "responder" THEN h ELSE half[r][x]
      /\ Ini(r)' = Ini(r) /\ Med(r)' = Med(r) /\ Rsp(r)' = h
  BY <1>1, <1>3, Moves DEF Roles
<1>5. \A s : Mail(s)' = Mail(s) BY <1>1 DEF Mail
<1>6. Apart(r) BY <1>1, <1>4, <1>5 DEF Apart
<1>7. /\ store' = [q \in Parties |-> store'[q]]
      /\ \A q \in Parties : KnownChannels(store'[q]) /\ store'[q].link = store[q].link
  BY <1>1, PropsRemoved, PartyIs DEF Parties
<1>8. Late(r)'
  <2>1. InstallLate(run[r], Ini(r), Med(r), Rsp(r), Mail(r))
    BY <1>1, <1>2 DEF Late, LateAt, UninstallLate
  <2>2. h.pc = "done" BY <1>3, EndedIs
  <2>3. InstallLate(run[r], Ini(r), Med(r), h, Mail(r))
    BY <1>1, <2>1, <2>2 DEF InstallLate, Lists
  <2> QED BY <1>1, <1>4, <1>5, <2>3, Zenon DEF Late, LateAt
<1> QED BY <1>1, <1>2, <1>3, <1>4, <1>6, <1>7, <1>8, EndsCalm DEF Roles

LEMMA IntermediaryEndsDoes ==
  ASSUME Base, IInv, NEW r \in Runs, IntermediaryEnds(r)
  PROVE  Base' /\ Calm
<1>1. /\ Med(r).pc = "saving" /\ Med(r).left = <<>> /\ run[r].op.kind = "install"
      /\ half[r]["intermediary"].pc = "saving" /\ half[r]["intermediary"].left = <<>>
      /\ leases' = leases /\ UNCHANGED <<store, run, net>>
      /\ Goes(r, "intermediary", Ended("done"))
  BY DEF IntermediaryEnds, Saved, Med
<1>2. Late(r) /\ ~Still(r) BY <1>1, SavingIsLate DEF Roles
<1>3. PICK h : h = Ended("done") OBVIOUS
<1>4. /\ \A s \in Runs \ {r} : half'[s] = half[s]
      /\ \A x \in Roles : half'[r][x] = IF x = "intermediary" THEN h ELSE half[r][x]
      /\ Ini(r)' = Ini(r) /\ Med(r)' = h /\ Rsp(r)' = Rsp(r)
  BY <1>1, <1>3, Moves DEF Roles
<1>5. \A s : Mail(s)' = Mail(s) BY <1>1 DEF Mail
<1>6. Apart(r) BY <1>1, <1>4, <1>5 DEF Apart
<1>7. /\ store' = [q \in Parties |-> store'[q]]
      /\ \A q \in Parties : KnownChannels(store'[q]) /\ store'[q].link = store[q].link
  BY <1>1 DEF Base, Known
<1>8. Late(r)'
  <2>1. InstallLate(run[r], Ini(r), Med(r), Rsp(r), Mail(r))
    BY <1>1, <1>2 DEF Late, LateAt, UninstallLate
  <2>2. h.pc = "done" BY <1>3, EndedIs
  <2>3. InstallLate(run[r], Ini(r), h, Rsp(r), Mail(r))
    BY <1>1, <2>1, <2>2 DEF InstallLate, Lists
  <2> QED BY <1>1, <1>4, <1>5, <2>3, Zenon DEF Late, LateAt
<1> QED BY <1>1, <1>2, <1>3, <1>4, <1>6, <1>7, <1>8, EndsCalm DEF Roles

LEMMA UninstallReturnsDoes ==
  ASSUME Base, IInv, NEW r \in Runs, UninstallReturns(r)
  PROVE  Base' /\ Calm
<1>1. /\ Ini(r).pc = "saving" /\ Ini(r).left = <<>> /\ run[r].op.kind = "uninstall"
      /\ half[r]["initiator"].pc = "saving" /\ half[r]["initiator"].left = <<>>
      /\ leases' = leases \ {r} /\ UNCHANGED <<store, run, net>>
      /\ Goes(r, "initiator", Ended("returned"))
  BY DEF UninstallReturns, Saved, Leave, Ini
<1>2. Late(r) /\ ~Still(r) BY <1>1, SavingIsLate DEF Roles
<1>3. PICK h : h = Ended("returned") OBVIOUS
<1>4. /\ \A s \in Runs \ {r} : half'[s] = half[s]
      /\ \A x \in Roles : half'[r][x] = IF x = "initiator" THEN h ELSE half[r][x]
      /\ Ini(r)' = h /\ Med(r)' = Med(r) /\ Rsp(r)' = Rsp(r)
  BY <1>1, <1>3, Moves DEF Roles
<1>5. \A s : Mail(s)' = Mail(s) BY <1>1 DEF Mail
<1>6. Apart(r) BY <1>1, <1>4, <1>5 DEF Apart
<1>7. /\ store' = [q \in Parties |-> store'[q]]
      /\ \A q \in Parties : KnownChannels(store'[q]) /\ store'[q].link = store[q].link
  BY <1>1 DEF Base, Known
<1>8. Still(r)'
  <2>1. UninstallLate(run[r], Ini(r), Med(r), Rsp(r), Mail(r))
    BY <1>1, <1>2 DEF Late, LateAt, InstallLate
  <2>2. Mail(r) = {} /\ Med(r).pc = "done" /\ Rsp(r).pc = "done"
    BY <1>1, <2>1 DEF UninstallLate
  <2>3. h.pc = "returned" BY <1>3, EndedIs
  <2> QED BY <1>4, <1>5, <2>2, <2>3 DEF Still, StillAt
<1> QED BY <1>1, <1>2, <1>3, <1>4, <1>6, <1>7, <1>8, EndsCalm DEF Roles

LEMMA ResponderAnswersDoes ==
  ASSUME Base, IInv, NEW r \in Runs, ResponderAnswers(r)
  PROVE  Base' /\ Calm
<1>1. /\ Rsp(r).pc = "saving" /\ Rsp(r).left = <<>> /\ run[r].op.kind = "uninstall"
      /\ half[r]["responder"].pc = "saving" /\ half[r]["responder"].left = <<>>
      /\ UNCHANGED <<store, run, leases>> /\ Goes(r, "responder", Ended("done"))
      /\ \E sigs : Sent(r, 7, Ingrid, sigs)
  BY DEF ResponderAnswers, Saved, Rsp
<1>2. Late(r) /\ ~Still(r) BY <1>1, SavingIsLate DEF Roles
<1>3. PICK h : h = Ended("done") OBVIOUS
<1>4. /\ \A s \in Runs \ {r} : half'[s] = half[s]
      /\ \A x \in Roles : half'[r][x] = IF x = "responder" THEN h ELSE half[r][x]
      /\ Ini(r)' = Ini(r) /\ Med(r)' = Med(r) /\ Rsp(r)' = h
  BY <1>1, <1>3, Moves DEF Roles
<1>5. UninstallLate(run[r], Ini(r), Med(r), Rsp(r), Mail(r))
  BY <1>1, <1>2 DEF Late, LateAt, InstallLate
<1>6. Mail(r) = {} /\ Ini(r).pc = "wait8" /\ Med(r).pc = "wait7"
  BY <1>1, <1>5 DEF UninstallLate
<1>7. PICK x : Mail(r)' = {x} /\ x.n = 7
  <2>1. PICK sigs : Sent(r, 7, Ingrid, sigs) BY <1>1
  <2> DEFINE y == [run |-> r, n |-> 7, to |-> Ingrid, sigs |-> sigs]
  <2>2. Mail(r)' = {y} BY <1>6, <2>1, MailSent
  <2>3. y.n = 7 OBVIOUS
  <2> HIDE DEF y
  <2> QED BY <2>2, <2>3
<1>8. \A s \in Runs \ {r} : Mail(s)' = Mail(s)
  BY <1>1, <1>6, MailSent
<1>9. Apart(r) BY <1>1, <1>4, <1>8 DEF Apart
<1>10. /\ store' = [q \in Parties |-> store'[q]]
       /\ \A q \in Parties : KnownChannels(store'[q]) /\ store'[q].link = store[q].link
  BY <1>1 DEF Base, Known
<1>11. Late(r)'
  <2>1. h.pc = "done" BY <1>3, EndedIs
  <2>2. One({x}, 7) BY <1>7 DEF One
  <2>3. UninstallLate(run[r], Ini(r), Med(r), h, {x})
    BY <1>1, <1>5, <1>6, <2>1, <2>2 DEF UninstallLate, Lists
  <2> QED BY <1>1, <1>4, <1>7, <2>3, Zenon DEF Late, LateAt
<1> QED BY <1>1, <1>2, <1>3, <1>4, <1>9, <1>10, <1>11, EndsCalm DEF Roles

LEMMA IntermediaryAnswersDoes ==
  ASSUME Base, IInv, NEW r \in Runs, IntermediaryAnswers(r)
  PROVE  Base' /\ Calm
<1>1. /\ Med(r).pc = "saving" /\ Med(r).left = <<>> /\ run[r].op.kind = "uninstall"
      /\ half[r]["intermediary"].pc = "saving" /\ half[r]["intermediary"].left = <<>>
      /\ UNCHANGED <<store, run, leases>> /\ Goes(r, "intermediary", Ended("done"))
      /\ \E to, sigs : Sent(r, 8, to, sigs)
  BY DEF IntermediaryAnswers, Saved, Med
<1>2. Late(r) /\ ~Still(r) BY <1>1, SavingIsLate DEF Roles
<1>3. PICK h : h = Ended("done") OBVIOUS
<1>4. /\ \A s \in Runs \ {r} : half'[s] = half[s]
      /\ \A x \in Roles : half'[r][x] = IF x = "intermediary" THEN h ELSE half[r][x]
      /\ Ini(r)' = Ini(r) /\ Med(r)' = h /\ Rsp(r)' = Rsp(r)
  BY <1>1, <1>3, Moves DEF Roles
<1>5. UninstallLate(run[r], Ini(r), Med(r), Rsp(r), Mail(r))
  BY <1>1, <1>2 DEF Late, LateAt, InstallLate
<1>6. Mail(r) = {} /\ Ini(r).pc = "wait8" /\ Rsp(r).pc = "done"
  BY <1>1, <1>5 DEF UninstallLate
<1>7. PICK x : Mail(r)' = {x} /\ x.n = 8
  <2>1. PICK to, sigs : Sent(r, 8, to, sigs) BY <1>1
  <2> DEFINE y == [run |-> r, n |-> 8, to |-> to, sigs |-> sigs]
  <2>2. Mail(r)' = {y} BY <1>6, <2>1, MailSent
  <2>3. y.n = 8 OBVIOUS
  <2> HIDE DEF y
  <2> QED BY <2>2, <2>3
<1>8. \A s \in Runs \ {r} : Mail(s)' = Mail(s)
  BY <1>1, <1>6, MailSent
<1>9. Apart(r) BY <1>1, <1>4, <1>8 DEF Apart
<1>10. /\ store' = [q \in Parties |-> store'[q]]
       /\ \A q \in Parties : KnownChannels(store'[q]) /\ store'[q].link = store[q].link
  BY <1>1 DEF Base, Known
<1>11. Late(r)'
  <2>1. h.pc = "done" BY <1>3, EndedIs
  <2>2. One({x}, 8) BY <1>7 DEF One
  <2>3. UninstallLate(run[r], Ini(r), h, Rsp(r), {x})
    BY <1>1, <1>5, <1>6, <2>1, <2>2 DEF UninstallLate, Lists
  <2> QED BY <1>1, <1>4, <1>7, <2>3, Zenon DEF Late, LateAt
<1> QED BY <1>1, <1>2, <1>3, <1>4, <1>9, <1>10, <1>11, EndsCalm DEF Roles

LEMMA TimeoutDoes ==
  ASSUME Base, IInv, NEW r \in Runs, NEW role \in Roles, Timeout(r, role)
  PROVE  Base' /\ Calm
<1> DEFINE how == IF role = "initiator" THEN "threw" ELSE "done"
<1>1. /\ half[r][role].pc \in Waiting /\ Still(r) /\ UNCHANGED <<store, run, net>>
      /\ Goes(r, role, Ended(how))
      /\ leases' = IF role = "initiator" THEN leases \ {r} ELSE leases
  BY StillIsQuiet DEF Timeout, Leave
<1>2. PICK h : h = Ended(how) OBVIOUS
<1>3. /\ \A s \in Runs \ {r} : half'[s] = half[s]
      /\ \A x \in Roles : half'[r][x] = IF x = role THEN h ELSE half[r][x]
  BY <1>1, <1>2, Moves
<1>4. \A s : Mail(s)' = Mail(s) BY <1>1 DEF Mail
<1>5. Apart(r) BY <1>1, <1>3, <1>4 DEF Apart
<1>6. Mail(r)' = {} /\ \A x \in Roles : half[r][x].pc # "saving"
  BY <1>1, <1>4 DEF Still, StillAt, Ini, Med, Rsp, Roles
<1>7. h.pc = how /\ h \in {Ended("done"), Ended("threw")} BY <1>2, EndedIs
<1>8. Ini(r).pc # "idle"
  BY <1>1, WaitingIs DEF IInv, Begun, Ini
<1>9. Ini(r)' = (IF role = "initiator" THEN h ELSE Ini(r)) BY <1>3 DEF Ini, Roles
<1>10. Ini(r).pc \notin Waiting => Ini(r)' = Ini(r)
  BY <1>1, <1>9 DEF Ini
<1>11. leases' = leases \/ (leases' = leases \ {r} /\ ~Going(Ini(r)'))
  BY <1>1, <1>7, <1>9, WaitingIs
<1> HIDE DEF how
<1>12. Fails(r)
  BY <1>1, <1>3, <1>5, <1>6, <1>7, <1>8, <1>10, <1>11 DEF Fails
<1> QED BY <1>12, FailsCalm

LEMMA TakeActionDoes ==
  ASSUME Base, NEW va \in store[Alice].ab.apps \cap store[Bob].ab.apps,
         NEW toAlice \in 0..Pot(va), TakeAction(va, toAlice)
  PROVE  Base' /\ Calm
<1> DEFINE new == [va EXCEPT !.ver = @ + 1, !.toAlice = toAlice]
<1>1. UNCHANGED <<run, half, net, leases>> BY DEF TakeAction
<1>2. PICK f : f = [p \in Parties |-> [store[p] EXCEPT !.ab.apps = (@ \ {va}) \cup {new}]]
  OBVIOUS
<1>3. store' = [p \in Parties |-> IF p = Ingrid THEN store[p] ELSE f[p]]
  BY <1>2 DEF TakeAction
<1>4. Alice \in Users /\ Bob \in Users /\ Alice \in Parties BY OtherIs DEF Users
<1>5. /\ va \in VirtualApp /\ Pot(va) = CapitalOf[va.id]
  BY <1>4, ChannelsAre DEF Base, Known, KnownChannels, KnownAB
<1>6. Pot(va) \in Nat /\ toAlice \in Nat /\ toAlice <= Pot(va) BY <1>5, PotType
<1>7. /\ new \in VirtualApp /\ new.id = va.id /\ new.dep = va.dep /\ new.toAlice = toAlice
  <2>1. /\ va.id \in Nat /\ va.ver \in Nat /\ va.dep \in [Users -> Nat]
        /\ va = [id |-> va.id, dep |-> va.dep, ver |-> va.ver, toAlice |-> va.toAlice]
    BY <1>5 DEF VirtualApp
  <2>2. va.ver + 1 \in Nat BY <2>1
  <2> DEFINE x == [va EXCEPT !.ver = @ + 1]
  <2>3. x = [id |-> va.id, dep |-> va.dep, ver |-> va.ver + 1, toAlice |-> va.toAlice] BY <2>1
  <2>4. new = [x EXCEPT !.toAlice = toAlice] BY Zenon
  <2> HIDE DEF x, new
  <2>5. new = [id |-> va.id, dep |-> va.dep, ver |-> va.ver + 1, toAlice |-> toAlice]
    BY <2>3, <2>4
  <2> QED BY <1>6, <2>1, <2>2, <2>5 DEF VirtualApp
<1>8. Pot(new) = Pot(va) BY <1>7 DEF Pot
<1> HIDE DEF new
<1>9. \A p \in Parties : KnownChannels(f[p]) /\ f[p].link = store[p].link
  <2> TAKE p \in Parties
  <2>1. PICK ch : ch = store[p] OBVIOUS
  <2>2. PICK apps : apps = (ch.ab.apps \ {va}) \cup {new} OBVIOUS
  <2>3. KnownChannels(ch) BY <2>1 DEF Base, Known
  <2>4. /\ ch.link \in [Users -> Link] /\ ch.ab \in AB /\ ch.abi \in ABI
        /\ ch = [link |-> ch.link, ab |-> ch.ab, abi |-> ch.abi]
        /\ ch.ab = [np |-> ch.ab.np, props |-> ch.ab.props, apps |-> ch.ab.apps]
        /\ ch.ab.np \in Nat /\ ch.ab.apps \subseteq VirtualApp /\ ch.ab.props \subseteq Proposal
    BY <2>3, ChannelsAre DEF KnownChannels
  <2> DEFINE ab == [np |-> ch.ab.np, props |-> ch.ab.props, apps |-> apps]
  <2>5. f[p] = [link |-> ch.link, ab |-> ab, abi |-> ch.abi]
    BY <1>2, <2>1, <2>2, <2>4
  <2>6. ab \in AB /\ ab.props = ch.ab.props /\ ab.apps = apps
    BY <1>7, <2>2, <2>4 DEF AB
  <2> HIDE DEF ab
  <2>7. f[p] \in Channels /\ f[p].link = ch.link /\ f[p].ab = ab
    BY <2>4, <2>5, <2>6 DEF Channels
  <2>8. KnownAB(ab)
    <3>1. KnownAB(ch.ab) BY <2>3 DEF KnownChannels
    <3> QED BY <1>5, <1>6, <1>7, <1>8, <2>2, <2>6, <3>1 DEF KnownAB
  <2> QED BY <2>1, <2>3, <2>7, <2>8 DEF KnownChannels
<1>10. /\ store' = [p \in Parties |-> store'[p]]
       /\ \A p \in Parties : KnownChannels(store'[p]) /\ store'[p].link = store[p].link
  <2>1. \A p \in Parties : store'[p] = IF p = Ingrid THEN store[p] ELSE f[p] BY <1>3
  <2>2. \A p \in Parties : KnownChannels(store[p]) BY DEF Base, Known
  <2>3. store' = [p \in Parties |-> store'[p]] BY <1>3
  <2> QED BY <1>9, <2>1, <2>2, <2>3
<1> QED BY <1>1, <1>10, StillCalm

LEMMA RestDoes ==
  ASSUME Base, IInv
  PROVE  /\ \A m \in net : Lose(m) \/ IgnoreUnexpected(m) => Base' /\ Calm
         /\ \A r \in leases : LeaseExpires(r) => Base' /\ Calm
         /\ UNCHANGED vars => Base' /\ Calm
<1>1. ASSUME NEW m \in net, Lose(m) \/ IgnoreUnexpected(m) PROVE Base' /\ Calm
  BY <1>1, LostCalm DEF Lose, IgnoreUnexpected
<1>2. /\ store = [p \in Parties |-> store[p]]
      /\ \A p \in Parties : KnownChannels(store[p])
  BY DEF Base, Known
<1>3. ASSUME NEW r \in leases, LeaseExpires(r) PROVE Base' /\ Calm
  BY <1>2, <1>3, StillCalm DEF LeaseExpires, Ini
<1>4. ASSUME UNCHANGED vars PROVE Base' /\ Calm
  BY <1>2, <1>4, StillCalm DEF vars
<1> QED BY <1>1, <1>3, <1>4

-----------------------------------------------------------------------------
(* The start of a run.                                                      *)

UserComputed(u, op, c, d) ==
  \/ /\ op.kind = "install" /\ op.q \in Opening.ab.props /\ op.q.by = Other(u)
     /\ \E pass \in Nat : CanAgree(c, u, op.q) /\ d = AddAgreement(c, u, op.q, pass)
  \/ /\ op.kind = "uninstall" /\ op.app \in Active(c)
     /\ op.toAlice \in Nat /\ op.toAlice <= CapitalOf[op.app]
     /\ d = RemoveAgreement(c, u, op.app, op.toAlice)

Starts(r, p) ==
  /\ Apart(r) /\ UNCHANGED store /\ p \in Users /\ r \in Runs
  /\ run'[r].by = p
  /\ \A role \in Roles : half[r][role].pc = "idle"
  /\ \A s \in Runs : ~Going(Ini(s))
  /\ Early(r)' /\ Ini(r)'.pc \in Waiting
  /\ Med(r)' = Med(r) /\ Rsp(r)' = Rsp(r)
  /\ UserComputed(p, run'[r].op, store[p].link[p], Ini(r)'.post.link[p])

LEMMA EarlyBegins ==
  \A e, i, c, s, mail, x :
    i.pc = "wait4" /\ c.pc = "idle" /\ s.pc = "idle" /\ mail = {x} /\ x.n = 1
      => EarlyAt(1, e, i, c, s, mail)
BY DEF EarlyAt, Due, One

LEMMA StartDoes ==
  ASSUME Base, IInv, NEW r \in Runs, NEW p \in Users, NEW op, NEW post, NEW pass,
         NEW to, NEW sigs, Start(r, p, op, post, pass), Sent(r, 1, to, sigs),
         KnownChannels(post), KnownOp([by |-> p, op |-> op], "wait4"),
         UserComputed(p, op, store[p].link[p], post.link[p])
  PROVE  Base' /\ Starts(r, p)
<1>1. PICK h : h = Waits("wait4", post, pass) OBVIOUS
<1>2. PICK e : e = [by |-> p, op |-> op] OBVIOUS
<1>3. e.by = p /\ e.op = op BY <1>2
<1>4. /\ Ini(r).pc = "idle" /\ leases = {} /\ leases' = {r} /\ store' = store
      /\ run' = [run EXCEPT ![r] = e] /\ Goes(r, "initiator", h)
      /\ \A s \in 1..(r - 1) : Ini(s).pc # "idle"
  BY <1>1, <1>2 DEF Start, Ini
<1>5. h.pc = "wait4" /\ h.post = post /\ h.pc \in Waiting BY <1>1, WaitsIs DEF Waiting
<1>6. /\ \A s \in Runs \ {r} : half'[s] = half[s]
      /\ \A x \in Roles : half'[r][x] = IF x = "initiator" THEN h ELSE half[r][x]
      /\ Ini(r)' = h /\ Med(r)' = Med(r) /\ Rsp(r)' = Rsp(r)
  BY <1>4, Moves DEF Roles
<1>7. (\A role \in Roles : half[r][role].pc = "idle") /\ \A m \in net : m.run # r
  BY <1>4 DEF IInv, Begun, Ini
<1>8. Med(r).pc = "idle" /\ Rsp(r).pc = "idle" BY <1>7 DEF Med, Rsp, Roles
<1>9. Mail(r) = {} BY <1>7 DEF Mail
<1> DEFINE x == [run |-> r, n |-> 1, to |-> to, sigs |-> sigs]
<1>10. Mail(r)' = {x} /\ \A s \in Runs \ {r} : Mail(s)' = Mail(s)
  BY <1>9, MailSent
<1>11. x.n = 1 OBVIOUS
<1> HIDE DEF x
<1>12. run = [s \in Runs |-> run[s]] BY DEF IInv, Shape
<1>13. run'[r] = e /\ \A s \in Runs \ {r} : run'[s] = run[s] BY <1>4, <1>12
<1>14. Apart(r) BY <1>6, <1>10, <1>13 DEF Apart
<1>15. EarlyAt(1, run'[r], Ini(r)', Med(r)', Rsp(r)', Mail(r)')
  BY <1>5, <1>6, <1>8, <1>10, <1>11, EarlyBegins, Zenon
<1>16. Early(r)'
  <2>1. 1 \in 1..6 OBVIOUS
  <2> QED BY <1>15, <2>1, Zenon DEF Early
<1>17. \A s \in Runs : ~Going(Ini(s)) BY <1>4 DEF Base, Serial
<1>18. \A s \in Runs : s < r => Ini(s).pc # "idle" BY <1>4 DEF Runs
<1>19. \A s \in Runs : s > r => Ini(s).pc = "idle" BY <1>4 DEF Base, Serial
<1>20. \A s \in Runs : s # r => /\ Ini(s)' = Ini(s) /\ half'[s] = half[s]
                                /\ Still(s)' = Still(s) /\ Early(s)' = Early(s)
                                /\ Late(s)' = Late(s) /\ run'[s] = run[s]
  BY <1>14, Frame
<1>21. Known'
  <2>1. \A s \in Runs, role \in Roles : KnownChannels(half[s][role].post)
    BY DEF Base, Known
  <2>2. \A s \in Runs, role \in Roles : KnownChannels(half'[s][role].post)
    <3> TAKE s \in Runs, role \in Roles
    <3>1. CASE s = r BY <1>5, <1>6, <2>1, <3>1
    <3>2. CASE s # r BY <1>20, <2>1, <3>2
    <3> QED BY <3>1, <3>2
  <2>3. \A s \in Runs : KnownOp(run'[s], Ini(s)'.pc)
    <3> TAKE s \in Runs
    <3>1. KnownOp(run[s], Ini(s).pc) BY DEF Base, Known
    <3>2. CASE s = r BY <1>2, <1>5, <1>6, <1>13, <3>2
    <3>3. CASE s # r BY <1>20, <3>1, <3>3
    <3> QED BY <3>2, <3>3
  <2> QED BY <1>4, <2>2, <2>3 DEF Known, Base
<1>22. Serial'
  <2>1. leases' \subseteq Runs BY <1>4
  <2>2. Ini(r)'.pc = "wait4" /\ Ini(r)'.pc # "idle" BY <1>5, <1>6
  <2>3. \A s, t \in Runs : s < t /\ Ini(s).pc = "idle" => Ini(t).pc = "idle"
    BY DEF Base, Serial
  <2>4. \A s, t \in Runs : s < t /\ Ini(s)'.pc = "idle" => Ini(t)'.pc = "idle"
    BY <1>18, <1>20, <2>2, <2>3
  <2>5. \A s, t \in Runs : s \in leases' /\ t \in leases' => s = t BY <1>4
  <2>6. \A s \in Runs : s # r => ~Going(Ini(s)')
    BY <1>17, <1>20
  <2>7. \A s \in Runs : Going(Ini(s)') => s \in leases' BY <1>4, <2>6
  <2>8. \A s, t \in Runs : s < t /\ Ini(t)'.pc # "idle" => ~Going(Ini(s)')
    <3> TAKE s, t \in Runs
    <3> HAVE s < t /\ Ini(t)'.pc # "idle"
    <3>1. CASE s # r BY <2>6, <3>1
    <3>2. CASE s = r
      <4>1. t > r /\ t # r BY <3>2 DEF Runs
      <4> QED BY <1>19, <1>20, <4>1
    <3> QED BY <3>1, <3>2
  <2>9. \A s : Going(Ini(s))' <=> Going(Ini(s)') BY DEF Going
  <2> QED BY <2>1, <2>4, <2>5, <2>7, <2>8, <2>9 DEF Serial
<1>23. Flow'
  BY <1>16, <1>20 DEF Base, Flow
<1>24. Base' BY <1>21, <1>22, <1>23 DEF Base
<1>25. Ini(r)'.pc \in Waiting /\ Ini(r)'.post = post BY <1>5, <1>6
<1>26. Starts(r, p)
  BY <1>3, <1>4, <1>6, <1>7, <1>13, <1>14, <1>16, <1>17, <1>25 DEF Starts
<1> QED BY <1>24, <1>26

LEMMA InstallStartDoes ==
  ASSUME Base, IInv, NEW r \in Runs, NEW p \in Users, InstallStart(r, p)
  PROVE  Base' /\ Starts(r, p)
<1>1. PICK q \in store[p].ab.props :
        /\ q.by = Other(p) /\ CanInstall(p, q)
        /\ LET post == InstalledByUser(p, q)
               c    == Conditional(p, post.link[p], q.id)
           IN  /\ Start(r, p, [kind |-> "install", q |-> q], post, NewPassState(post))
               /\ Sent(r, 1, Ingrid, {Signature(p, c)})
  BY Zenon DEF InstallStart
<1> DEFINE post == InstalledByUser(p, q)
           pass == NewPassState(post)
           sigs == {Signature(p, Conditional(p, post.link[p], q.id))}
<1>2. PICK op : op = [kind |-> "install", q |-> q] OBVIOUS
<1>3. op.kind = "install" /\ op.q = q BY <1>2
<1>4. Start(r, p, op, post, pass) /\ Sent(r, 1, Ingrid, sigs)
  BY <1>1, <1>2
<1>5. KnownChannels(store[p]) BY OtherIs DEF Base, Known
<1>6. q \in Opening.ab.props BY <1>1, <1>5 DEF KnownChannels, KnownAB
<1>7. /\ KnownChannels(post) /\ CanAgree(store[p].link[p], p, q)
      /\ post.link[p] = AddAgreement(store[p].link[p], p, q, store[p].abi.np)
      /\ store[p].abi.np \in Nat
  BY <1>1, <1>5, <1>6, UserInstalls
<1> HIDE DEF post, pass, sigs
<1>8. UserComputed(p, op, store[p].link[p], post.link[p])
  BY <1>1, <1>3, <1>6, <1>7 DEF UserComputed
<1>9. KnownOp([by |-> p, op |-> op], "wait4")
  BY <1>1, <1>2, <1>3, <1>6 DEF KnownOp
<1> QED BY <1>4, <1>7, <1>8, <1>9, StartDoes

LEMMA UninstallStartDoes ==
  ASSUME Base, IInv, NEW r \in Runs, NEW p \in Users, UninstallStart(r, p)
  PROVE  Base' /\ Starts(r, p)
<1>1. PICK va \in store[p].ab.apps :
        LET op   == [kind |-> "uninstall", app |-> va.id, toAlice |-> va.toAlice]
            post == UninstalledByUser(p, op)
            pass == FinalPass(p, p, op)
        IN  /\ CanUninstall(p, op, FALSE)
            /\ Start(r, p, op, post, pass)
            /\ Sent(r, 1, Ingrid, {Signature(p, pass)})
  BY Zenon DEF UninstallStart
<1>2. PICK op : op = [kind |-> "uninstall", app |-> va.id, toAlice |-> va.toAlice] OBVIOUS
<1> DEFINE post == UninstalledByUser(p, op)
           pass == FinalPass(p, p, op)
           sigs == {Signature(p, pass)}
<1>3. op.kind = "uninstall" /\ op.app = va.id /\ op.toAlice = va.toAlice BY <1>2
<1>4. CanUninstall(p, op, FALSE) /\ Start(r, p, op, post, pass) /\ Sent(r, 1, Ingrid, sigs)
  BY <1>1, <1>2
<1>5. KnownChannels(store[p]) BY OtherIs DEF Base, Known
<1>6. op.toAlice \in Nat /\ op.toAlice <= CapitalOf[op.app]
  <2>1. va \in VirtualApp /\ Pot(va) = CapitalOf[va.id] /\ va.toAlice <= Pot(va)
    BY <1>5, ChannelsAre DEF KnownChannels, KnownAB
  <2> QED BY <1>3, <2>1, PotType
<1>7. op.app \in Active(store[p].link[p])
  <2>1. p \in LinksOf(p) BY OtherIs DEF LinksOf
  <2> QED BY <1>4, <2>1 DEF CanUninstall, Active
<1>8. /\ KnownChannels(post)
      /\ post.link[p] = RemoveAgreement(store[p].link[p], p, op.app, op.toAlice)
  BY <1>5, <1>6, <1>7, UserUninstalls
<1> HIDE DEF post, pass, sigs
<1>9. UserComputed(p, op, store[p].link[p], post.link[p])
  BY <1>3, <1>6, <1>7, <1>8 DEF UserComputed
<1>10. KnownOp([by |-> p, op |-> op], "wait4")
  BY <1>3, <1>6 DEF KnownOp
<1> QED BY <1>4, <1>8, <1>9, <1>10, StartDoes

\* What a step of a run can do about the links.
Counts(r) ==
  \/ \E p \in Users : Starts(r, p)
  \/ HubComputes(r) \/ RspComputes(r) \/ RspCommits(r)
  \/ \E role \in Roles : Begins(r, role)
  \/ \E role \in Roles, u \in Users : SavesLink(r, role, u)

LEMMA ReceivesDo ==
  ASSUME Base, IInv, NEW m \in net, Receive(m)
  PROVE  Base' /\ (Calm \/ Counts(m.run))
<1>1. ASSUME HandleInstall(m) PROVE Base' /\ (Calm \/ Counts(m.run))
  BY <1>1, IntermediaryForwardsDoes, ResponderSignsDoes, IntermediaryCommitsDoes,
     InitiatorActivatesDoes, IntermediaryActivatesDoes, ResponderActivatesDoes,
     IntermediaryFinishesDoes, InitiatorFinishesDoes
     DEF HandleInstall, Counts, Roles
<1>2. ASSUME HandleUninstall(m) PROVE Base' /\ (Calm \/ Counts(m.run))
  BY <1>2, IntermediaryFixesDoes, ResponderFixesDoes, IntermediaryHasFixedDoes,
     InitiatorFreesDoes, IntermediaryFreesDoes, ResponderFreesDoes,
     IntermediaryHasFreedDoes, InitiatorHasFreedDoes
     DEF HandleUninstall, Counts, Roles
<1>3. ASSUME IgnoreUnexpected(m) PROVE Base' /\ (Calm \/ Counts(m.run))
  BY <1>3, RestDoes
<1> QED BY <1>1, <1>2, <1>3 DEF Receive

LEMMA GoesDo ==
  ASSUME Base, IInv, NEW r \in Runs, Go(r)
  PROVE  Base' /\ (Calm \/ Counts(r))
<1>1. ASSUME NEW role \in Roles, SaveChannel(r, role) PROVE Base' /\ (Calm \/ Counts(r))
  BY <1>1, SaveChannelDoes DEF Counts
<1>2. ASSUME NEW role \in Roles, Timeout(r, role) PROVE Base' /\ Calm
  BY <1>2, TimeoutDoes
<1>3. ASSUME \/ InstallReturns(r) \/ ResponderCleansUp(r) \/ IntermediaryEnds(r)
             \/ UninstallReturns(r) \/ ResponderAnswers(r) \/ IntermediaryAnswers(r)
      PROVE  Base' /\ Calm
  BY <1>3, InstallReturnsDoes, ResponderCleansUpDoes, IntermediaryEndsDoes,
     UninstallReturnsDoes, ResponderAnswersDoes, IntermediaryAnswersDoes
<1> QED BY <1>1, <1>2, <1>3 DEF Go

LEMMA StepDoes ==
  ASSUME Base, IInv, "crash" \notin faults, [Next]_vars
  PROVE  Base' /\ (Calm \/ \E r \in Runs : Counts(r))
<1>1. ASSUME Call PROVE Base' /\ (Calm \/ \E r \in Runs : Counts(r))
  <2>1. ASSUME NEW r \in Runs, NEW p \in Users, InstallStart(r, p) \/ UninstallStart(r, p)
        PROVE  Base' /\ Counts(r)
    BY <2>1, InstallStartDoes, UninstallStartDoes DEF Counts
  <2> QED BY <1>1, <2>1, TakeActionDoes DEF Call
<1>2. ASSUME NEW m \in net, Receive(m) PROVE Base' /\ (Calm \/ \E r \in Runs : Counts(r))
  BY <1>2, ReceivesDo, NetRuns
<1>3. ASSUME NEW m \in net, Lose(m) PROVE Base' /\ Calm
  BY <1>3, RestDoes
<1>4. ASSUME NEW r \in Runs, Go(r) PROVE Base' /\ (Calm \/ \E s \in Runs : Counts(s))
  BY <1>4, GoesDo
<1>5. ASSUME NEW r \in leases, LeaseExpires(r) PROVE Base' /\ Calm
  BY <1>5, RestDoes
<1>6. ASSUME UNCHANGED vars PROVE Base' /\ Calm
  BY <1>6, RestDoes
<1>7. \A p \in Parties : ~Crash(p) BY DEF Crash
<1> QED BY <1>1, <1>2, <1>3, <1>4, <1>5, <1>6, <1>7 DEF Next, Step

LEMMA BaseInit ==
  ASSUME Init
  PROVE  Base /\ \A r \in Runs, role \in Roles : half[r][role].pc = "idle"
<1>1. PICK h : h = Ended("idle") OBVIOUS
<1>2. h.pc = "idle" /\ h.post = Opening BY <1>1, EndedIs
<1>3. \A r \in Runs, role \in Roles : half[r][role] = h
  BY <1>1 DEF Init, Idle
<1>4. \A r \in Runs : Ini(r) = h /\ Med(r) = h /\ Rsp(r) = h
  BY <1>3 DEF Ini, Med, Rsp, Roles
<1>5. \A r \in Runs : Mail(r) = {} BY DEF Init, Mail
<1>6. \A r \in Runs : Still(r) BY <1>2, <1>4, <1>5 DEF Still, StillAt
<1>7. Known
  <2>1. /\ store = [p \in Parties |-> store[p]]
        /\ \A p \in Parties : KnownChannels(store[p])
    BY OpeningKnown DEF Init
  <2>2. \A r \in Runs, role \in Roles : KnownChannels(half[r][role].post)
    BY <1>2, <1>3, OpeningKnown
  <2>3. \A r \in Runs : KnownOp(run[r], Ini(r).pc)
    BY <1>2, <1>4 DEF Init, KnownOp
  <2> QED BY <2>1, <2>2, <2>3 DEF Known
<1>8. Serial
  <2>1. \A r \in Runs : Ini(r).pc = "idle" /\ ~Going(Ini(r))
    BY <1>2, <1>4, WaitingIs
  <2> QED BY <2>1 DEF Serial, Init
<1> QED BY <1>2, <1>3, <1>6, <1>7, <1>8 DEF Base, Flow

-----------------------------------------------------------------------------
(* The half of a user in a run, and what the two parties of its link are to *)
(* persist.                                                                 *)

Side(r, u) == IF run[r].by = u THEN Ini(r) ELSE Rsp(r)

Draft(r, u) == Side(r, u).post.link[u]
HubDraft(r, u) == Med(r).post.link[u]

Owes(r, u) == Owing(Side(r, u), u)
HubOwes(r, u) == Owing(Med(r), u)
OwesAny(r) == \E u \in Users : Owes(r, u) \/ HubOwes(r, u)

LEMMA SideRole ==
  ASSUME IInv, NEW r \in Runs, NEW u \in Users, run'[r] = run[r]
  PROVE  \E role \in {"initiator", "responder"} :
           /\ Side(r, u) = half[r][role] /\ Side(r, u)' = half'[r][role]
           /\ role = "initiator" <=> run[r].by = u
           /\ PartyOf(r, role) = u /\ role \in Roles
<1>1. CASE run[r].by = u
  <2>1. Side(r, u) = half[r]["initiator"] /\ Side(r, u)' = half'[r]["initiator"]
    BY <1>1 DEF Side, Ini
  <2> QED BY <1>1, <2>1, PartyIs DEF Roles
<1>2. CASE run[r].by # u
  <2>1. Side(r, u) = half[r]["responder"] /\ Side(r, u)' = half'[r]["responder"]
    BY <1>2 DEF Side, Rsp
  <2>2. PartyOf(r, "responder") = u BY <1>2, PartyIs
  <2> QED BY <1>2, <2>1, <2>2 DEF Roles
<1> QED BY <1>1, <1>2

\* What is left of a step of a run that has begun, for the users' halves.
Works(r) ==
  \/ RspCommits(r)
  \/ \E role \in Roles : Begins(r, role)
  \/ \E role \in Roles, u \in Users : SavesLink(r, role, u)

LEMMA CountsAre ==
  ASSUME NEW r
  PROVE  Counts(r) <=> (\E p \in Users : Starts(r, p)) \/ HubComputes(r) \/ RspComputes(r) \/ Works(r)
BY Zenon DEF Counts, Works

LEMMA WorksKeep ==
  ASSUME Base, IInv, NEW r \in Runs, Works(r)
  PROVE  /\ run' = run /\ Apart(r) /\ IniKeeps(r)
         /\ \A role \in Roles : Going(half'[r][role]) =>
              Going(half[r][role]) /\ half'[r][role].post = half[r][role].post
<1>1. CASE RspCommits(r)
  <2>1. run' = run /\ Apart(r) /\ Ini(r)' = Ini(r) /\ Med(r)' = Med(r)
        /\ Rsp(r).pc \in Waiting /\ Rsp(r)'.post = Rsp(r).post
    BY <1>1 DEF RspCommits
  <2> QED BY <2>1, WaitingIs DEF IniKeeps, Ini, Med, Rsp, Roles
<1>2. ASSUME NEW role \in Roles, Begins(r, role)
      PROVE /\ run' = run /\ Apart(r) /\ IniKeeps(r)
            /\ \A x \in Roles : Going(half'[r][x]) =>
                 Going(half[r][x]) /\ half'[r][x].post = half[r][x].post
  <2>1. /\ run' = run /\ Apart(r) /\ half[r][role].pc \in Waiting
        /\ half'[r][role].post = half[r][role].post
        /\ \A x \in Roles : x # role => half'[r][x] = half[r][x]
    BY <1>2 DEF Begins
  <2>2. IniKeeps(r)
    BY <2>1, WaitingIs DEF IniKeeps, Ini, Roles
  <2> QED BY <2>1, <2>2, WaitingIs
<1>3. ASSUME NEW role \in Roles, NEW u \in Users, SavesLink(r, role, u)
      PROVE /\ run' = run /\ Apart(r) /\ IniKeeps(r)
            /\ \A x \in Roles : Going(half'[r][x]) =>
                 Going(half[r][x]) /\ half'[r][x].post = half[r][x].post
  <2>1. /\ run' = run /\ Apart(r) /\ half[r][role].pc = "saving" /\ half'[r][role].pc = "saving"
        /\ half'[r][role].post = half[r][role].post
        /\ \A x \in Roles : x # role => half'[r][x] = half[r][x]
    BY <1>3 DEF SavesLink
  <2>2. IniKeeps(r)
    BY <2>1, WaitingIs DEF IniKeeps, Ini, Roles
  <2> QED BY <2>1, <2>2, WaitingIs
<1> QED BY <1>1, <1>2, <1>3 DEF Works

LEMMA StepKeeps ==
  ASSUME Base, IInv, NEW r \in Runs, Calm \/ HubComputes(r) \/ RspComputes(r) \/ Works(r)
  PROVE  run' = run /\ \A s \in Runs : IniKeeps(s)
<1>1. CASE Calm BY <1>1 DEF Calm, CalmRun
<1>2. ASSUME Apart(r), IniKeeps(r) PROVE \A s \in Runs : IniKeeps(s)
  <2> TAKE s \in Runs
  <2>1. s # r => Ini(s)' = Ini(s) BY <1>2, Frame
  <2> QED BY <1>2, <2>1 DEF IniKeeps
<1>3. CASE HubComputes(r)
  BY <1>2, <1>3 DEF HubComputes, IniKeeps
<1>4. CASE RspComputes(r)
  BY <1>2, <1>4 DEF RspComputes, IniKeeps
<1>5. CASE Works(r)
  BY <1>2, <1>5, WorksKeep
<1> QED BY <1>1, <1>3, <1>4, <1>5

\* Nobody can take back that an install that returned was run again.
LEMMA RetriesStay ==
  ASSUME Base, IInv, NEW r \in Runs, Calm \/ Counts(r), OnlyRetries'
  PROVE  OnlyRetries
<1> SUFFICES ASSUME NEW t \in Runs, NEW s \in Runs, t < s, run[t].op.kind = "install",
                    run[s].op = run[t].op
             PROVE  half[t]["initiator"].pc = "threw"
  BY DEF OnlyRetries
<1>1. Ini(s).pc # "idle" /\ Ini(t).pc # "idle"
  BY DEF Base, Known, KnownOp
<1>2. ~Going(Ini(t)) BY <1>1 DEF Base, Serial
<1>3. CASE \E p \in Users : Starts(r, p)
  <2>1. r # s /\ r # t /\ Apart(r) BY <1>1, <1>3 DEF Starts, Ini, Roles
  <2>2. run'[t] = run[t] /\ run'[s] = run[s] /\ half'[t] = half[t] BY <2>1 DEF Apart
  <2>3. half'[t]["initiator"].pc = "threw" BY <2>2 DEF OnlyRetries
  <2> QED BY <2>2, <2>3
<1>4. CASE Calm \/ HubComputes(r) \/ RspComputes(r) \/ Works(r)
  <2>1. run' = run /\ IniKeeps(t) BY <1>4, StepKeeps
  <2>2. Ini(t)' = Ini(t) BY <1>2, <2>1 DEF IniKeeps
  <2>3. half'[t]["initiator"].pc = "threw" BY <2>1 DEF OnlyRetries
  <2> QED BY <2>2, <2>3 DEF Ini
<1> QED BY <1>3, <1>4, CountsAre

-----------------------------------------------------------------------------
(* Where agreements come from.                                              *)

\* Agreement i was there to begin with, or an install has made it that u, if
\* it is u's, is about to return from.
FromRun(i, u) ==
  \/ i \in Active(Opening.link[Alice])
  \/ \E t \in Runs : /\ run[t].op.kind = "install" /\ run[t].op.q.id = i
                     /\ run[t].by = u => Ini(t).pc \in {"saving", "returned"}

\* Run r is to make an agreement for app i.
Installs(r, i) == run[r].op.kind = "install" /\ run[r].op.q.id = i

\* An agreement that is persisted, or computed, has its run.
NoDup ==
  /\ \A u \in Users : \A i \in Active(store[u].link[u]) : FromRun(i, u)
  /\ \A r \in Runs, u \in Users : Going(Side(r, u)) =>
       \A i \in Active(Draft(r, u)) : FromRun(i, u) \/ Installs(r, i)

LEMMA FromStays ==
  ASSUME Base, IInv, NEW r \in Runs, Calm \/ Counts(r), NEW u \in Users, NEW i, FromRun(i, u)
  PROVE  FromRun(i, u)'
<1>1. CASE i \in Active(Opening.link[Alice]) BY <1>1 DEF FromRun
<1>2. ASSUME NEW t \in Runs, run[t].op.kind = "install", run[t].op.q.id = i,
             run[t].by = u => Ini(t).pc \in {"saving", "returned"}
      PROVE  FromRun(i, u)'
  <2>1. Ini(t).pc # "idle" BY <1>2 DEF Base, Known, KnownOp
  <2>2. run'[t] = run[t] /\ IniKeeps(t)
    <3>1. CASE \E p \in Users : Starts(r, p)
      <4>1. r # t /\ Apart(r) BY <2>1, <3>1 DEF Starts, Ini, Roles
      <4> QED BY <4>1 DEF Apart, IniKeeps, Ini
    <3>2. CASE Calm \/ HubComputes(r) \/ RspComputes(r) \/ Works(r)
      BY <3>2, StepKeeps
    <3> QED BY <3>1, <3>2, CountsAre
  <2>3. Ini(t).pc \in {"saving", "returned"} => Ini(t)'.pc \in {"saving", "returned"}
    BY <2>2, WaitingIs DEF IniKeeps
  <2> QED BY <1>2, <2>2, <2>3 DEF FromRun
<1> QED BY <1>1, <1>2 DEF FromRun

\* A draft of a user that goes on holds what it held.
LEMMA SidesStay ==
  ASSUME Base, IInv, NoDup, NEW r \in Runs, Calm \/ Counts(r),
         NEW s \in Runs, NEW u \in Users, run'[s] = run[s], Going(Side(s, u)'),
         Going(Side(s, u)) /\ Side(s, u)'.post = Side(s, u).post
  PROVE  \A i \in Active(Draft(s, u)') : FromRun(i, u)' \/ Installs(s, i)'
<1> TAKE i \in Active(Draft(s, u)')
<1>1. Draft(s, u)' = Draft(s, u) BY DEF Draft
<1>2. FromRun(i, u) \/ Installs(s, i) BY <1>1 DEF NoDup
<1>3. Installs(s, i) => Installs(s, i)' BY DEF Installs
<1> QED BY <1>2, <1>3, FromStays

LEMMA CalmSides ==
  ASSUME IInv, NEW s \in Runs, NEW u \in Users, run'[s] = run[s],
         \A role \in Roles : GoesOn(half[s][role], half'[s][role])
                               \/ Stops(half[s][role], half'[s][role]),
         Going(Side(s, u)')
  PROVE  Going(Side(s, u)) /\ Side(s, u)'.post = Side(s, u).post
<1>1. PICK role \in {"initiator", "responder"} :
        Side(s, u) = half[s][role] /\ Side(s, u)' = half'[s][role]
  BY SideRole
<1>2. ~Stops(half[s][role], half'[s][role])
  BY <1>1, WaitingIs DEF Stops
<1>3. GoesOn(half[s][role], half'[s][role]) BY <1>2 DEF Roles
<1> QED BY <1>1, <1>3 DEF GoesOn

LEMMA CalmHalves ==
  ASSUME Calm, NEW s \in Runs
  PROVE  /\ run'[s] = run[s]
         /\ \A role \in Roles : GoesOn(half[s][role], half'[s][role])
                                  \/ Stops(half[s][role], half'[s][role])
BY DEF Calm, CalmRun

LEMMA ApartSide ==
  ASSUME NEW r, Apart(r), NEW s \in Runs, s # r, NEW u
  PROVE  /\ Side(s, u)' = Side(s, u) /\ Draft(s, u)' = Draft(s, u)
         /\ HubDraft(s, u)' = HubDraft(s, u) /\ Med(s)' = Med(s)
         /\ Owes(s, u)' = Owes(s, u) /\ HubOwes(s, u)' = HubOwes(s, u)
         /\ Ini(s)' = Ini(s) /\ Rsp(s)' = Rsp(s)
<1>1. Ini(s)' = Ini(s) /\ Rsp(s)' = Rsp(s) /\ run'[s] = run[s] /\ Med(s)' = Med(s) BY Frame
<1>2. Side(s, u)' = Side(s, u) BY <1>1 DEF Side
<1> QED BY <1>1, <1>2 DEF Draft, HubDraft, Owes, HubOwes, Owing

LEMMA ApartSides ==
  ASSUME NEW r, Apart(r), NEW s \in Runs, s # r, NEW u, Going(Side(s, u)')
  PROVE  run'[s] = run[s] /\ Going(Side(s, u)) /\ Side(s, u)'.post = Side(s, u).post
<1>1. Side(s, u)' = Side(s, u) /\ run'[s] = run[s] BY ApartSide, Frame
<1> QED BY <1>1

\* What the initiator of a new run has computed.
LEMMA ComputedActive ==
  ASSUME NEW u \in Users, NEW op, NEW c, KnownLink(c), NEW d, UserComputed(u, op, c, d)
  PROVE  /\ \A i \in Active(d) : i \in Active(c) \/ (op.kind = "install" /\ i = op.q.id)
         /\ d.ver = c.ver + 2
<1>1. CASE op.kind = "install" /\ op.q \in Opening.ab.props
  <2>1. PICK pass \in Nat : CanAgree(c, u, op.q) /\ d = AddAgreement(c, u, op.q, pass)
    BY <1>1 DEF UserComputed
  <2> DEFINE q == op.q
  <2>2. q \in Opening.ab.props BY <1>1
  <2> HIDE DEF q
  <2>3. CanAgree(c, u, q) /\ d = AddAgreement(c, u, q, pass) BY <2>1 DEF q
  <2>4. Active(d) = Active(c) \cup {q.id} /\ d.ver = c.ver + 2
    BY <2>2, <2>3, AddWorth
  <2> QED BY <1>1, <2>4 DEF q
<1>2. CASE op.kind = "uninstall"
  <2> DEFINE app == op.app
             toAlice == op.toAlice
  <2>1. app \in Active(c) /\ toAlice \in Nat /\ toAlice <= CapitalOf[app]
        /\ d = RemoveAgreement(c, u, app, toAlice)
    BY <1>2 DEF UserComputed
  <2> HIDE DEF app, toAlice
  <2>2. Active(d) \subseteq Active(c) /\ d.ver = c.ver + 2 BY <2>1, RemoveWorth
  <2> QED BY <2>2
<1> QED BY <1>1, <1>2 DEF UserComputed

LEMMA NoDupStays ==
  ASSUME Base, IInv, NoDup, NEW r \in Runs, Calm \/ Counts(r), Base'
  PROVE  NoDup'
<1>1. \A u \in Users : \A i \in Active(store[u].link[u]) : FromRun(i, u)'
  BY FromStays DEF NoDup
<1>2. \A u \in Users : KnownLink(store[u].link[u])
  BY OtherIs DEF Base, Known, KnownChannels
<1>3. CASE Calm
  <2>1. \A u \in Users : store'[u].link = store[u].link BY <1>3, OtherIs DEF Calm
  <2>2. \A s \in Runs, u \in Users : Going(Side(s, u)') =>
          \A i \in Active(Draft(s, u)') : FromRun(i, u)' \/ Installs(s, i)'
    <3> TAKE s \in Runs, u \in Users
    <3> HAVE Going(Side(s, u)')
    <3>1. /\ run'[s] = run[s]
          /\ \A role \in Roles : GoesOn(half[s][role], half'[s][role])
                                  \/ Stops(half[s][role], half'[s][role])
      BY <1>3, CalmHalves
    <3>2. Going(Side(s, u)) /\ Side(s, u)'.post = Side(s, u).post
      BY <3>1, CalmSides
    <3> QED BY <1>3, <3>1, <3>2, SidesStay
  <2> QED BY <1>1, <2>1, <2>2 DEF NoDup, Going
<1>4. ASSUME NEW p \in Users, Starts(r, p) PROVE NoDup'
  <2>1. /\ store' = store /\ Apart(r) /\ run'[r].by = p /\ Rsp(r)' = Rsp(r) /\ Rsp(r).pc = "idle"
        /\ UserComputed(p, run'[r].op, store[p].link[p], Ini(r)'.post.link[p])
    BY <1>4 DEF Starts, Rsp, Roles
  <2>2. \A s \in Runs, u \in Users : Going(Side(s, u)') =>
          \A i \in Active(Draft(s, u)') : FromRun(i, u)' \/ Installs(s, i)'
    <3> TAKE s \in Runs, u \in Users
    <3> HAVE Going(Side(s, u)')
    <3>1. CASE s # r
      <4>1. run'[s] = run[s] /\ Going(Side(s, u)) /\ Side(s, u)'.post = Side(s, u).post
        BY <2>1, <3>1, ApartSides
      <4> QED BY <1>4, <4>1, SidesStay, CountsAre
    <3>2. CASE s = r
      <4>1. u = p
        <5>1. u # p => Side(r, u)' = Rsp(r)' BY <2>1 DEF Side
        <5> QED BY <2>1, <3>2, <5>1, WaitingIs
      <4>2. Draft(r, u)' = Ini(r)'.post.link[p] BY <2>1, <4>1 DEF Draft, Side
      <4>3. \A i \in Active(Ini(r)'.post.link[p]) :
              i \in Active(store[p].link[p]) \/ (run'[r].op.kind = "install" /\ i = run'[r].op.q.id)
        <5>1. PICK op, c, d : op = run'[r].op /\ c = store[p].link[p] /\ d = Ini(r)'.post.link[p]
          OBVIOUS
        <5>2. KnownLink(c) /\ UserComputed(p, op, c, d) BY <1>2, <2>1, <5>1
        <5>3. /\ \A i \in Active(d) : i \in Active(c) \/ (op.kind = "install" /\ i = op.q.id)
              /\ d.ver = c.ver + 2
          BY <5>2, ComputedActive
        <5> QED BY <5>1, <5>3
      <4>4. \A i : Active(Draft(r, u)') = Active(Ini(r)'.post.link[p]) BY <4>2
      <4> QED BY <1>1, <3>2, <4>1, <4>3, <4>4 DEF Installs
    <3> QED BY <3>1, <3>2
  <2> QED BY <1>1, <2>1, <2>2 DEF NoDup, Going
<1>5. CASE HubComputes(r)
  <2>1. store' = store /\ run' = run /\ Apart(r) /\ Ini(r)' = Ini(r) /\ Rsp(r)' = Rsp(r)
    BY <1>5 DEF HubComputes
  <2>2. \A s \in Runs, u \in Users : Side(s, u)' = Side(s, u)
    BY <2>1, ApartSide DEF Side
  <2>3. \A s \in Runs, u \in Users : Going(Side(s, u)') =>
          \A i \in Active(Draft(s, u)') : FromRun(i, u)' \/ Installs(s, i)'
    BY <1>5, <2>1, <2>2, SidesStay, CountsAre
  <2> QED BY <1>1, <2>1, <2>3 DEF NoDup, Going
<1>6. CASE RspComputes(r)
  <2> DEFINE b == Responder(r)
  <2>1. /\ store' = store /\ run' = run /\ Apart(r) /\ Ini(r)' = Ini(r)
        /\ \A i \in Active(Rsp(r)'.post.link[b]) :
             i \in Active(store[b].link[b]) \/ (run[r].op.kind = "install" /\ i = run[r].op.q.id)
    BY <1>6 DEF RspComputes
  <2>2. b \in Users /\ b # run[r].by /\ \A u \in Users : u = b \/ u = run[r].by BY PartyIs
  <2>3. \A s \in Runs, u \in Users : Going(Side(s, u)') =>
          \A i \in Active(Draft(s, u)') : FromRun(i, u)' \/ Installs(s, i)'
    <3> TAKE s \in Runs, u \in Users
    <3> HAVE Going(Side(s, u)')
    <3>1. CASE s # r
      <4>1. run'[s] = run[s] /\ Going(Side(s, u)) /\ Side(s, u)'.post = Side(s, u).post
        BY <2>1, <3>1, ApartSides
      <4> QED BY <1>6, <4>1, SidesStay, CountsAre
    <3>2. CASE s = r /\ u = run[r].by
      <4>1. Side(s, u)' = Side(s, u) BY <2>1, <3>2 DEF Side
      <4> QED BY <1>6, <2>1, <4>1, SidesStay, CountsAre
    <3>3. CASE s = r /\ u = b
      <4>1. Side(s, u)' = Rsp(r)' BY <2>1, <2>2, <3>3 DEF Side
      <4>2. Draft(s, u)' = Rsp(r)'.post.link[b] BY <3>3, <4>1 DEF Draft
      <4>3. Active(Draft(s, u)') = Active(Rsp(r)'.post.link[b]) BY <4>2
      <4> HIDE DEF b
      <4> QED BY <1>1, <2>1, <2>2, <3>3, <4>3 DEF Installs
    <3> QED BY <2>2, <3>1, <3>2, <3>3
  <2> QED BY <1>1, <2>1, <2>3 DEF NoDup, Going
<1>7. CASE Works(r)
  <2>1. /\ run' = run /\ Apart(r)
        /\ \A role \in Roles : Going(half'[r][role]) =>
             Going(half[r][role]) /\ half'[r][role].post = half[r][role].post
    BY <1>7, WorksKeep
  <2>2. \A s \in Runs, u \in Users : Going(Side(s, u)') =>
          \A i \in Active(Draft(s, u)') : FromRun(i, u)' \/ Installs(s, i)'
    <3> TAKE s \in Runs, u \in Users
    <3> HAVE Going(Side(s, u)')
    <3>1. run'[s] = run[s] /\ Going(Side(s, u)) /\ Side(s, u)'.post = Side(s, u).post
      <4>1. CASE s # r BY <2>1, <4>1, ApartSides
      <4>2. CASE s = r
        <5>1. PICK role \in {"initiator", "responder"} :
                Side(s, u) = half[s][role] /\ Side(s, u)' = half'[s][role]
          BY <2>1, SideRole
        <5> QED BY <2>1, <4>2, <5>1 DEF Roles
      <4> QED BY <4>1, <4>2
    <3> QED BY <1>7, <3>1, SidesStay, CountsAre
  <2>3. \A u \in Users : \A i \in Active(store'[u].link[u]) : FromRun(i, u)'
    <3>1. CASE store' = store BY <1>1, <3>1
    <3>2. ASSUME NEW role \in Roles, NEW v \in Users, SavesLink(r, role, v)
          PROVE  \A u \in Users : \A i \in Active(store'[u].link[u]) : FromRun(i, u)'
      <4> TAKE u \in Users
      <4> DEFINE p == PartyOf(r, role)
      <4>1. /\ half[r][role].pc = "saving" /\ half'[r][role].pc = "saving"
            /\ half'[r][role].post = half[r][role].post
            /\ store'[p].link[v] = half[r][role].post.link[v]
            /\ \A q \in Parties, w \in Users : q # p \/ w # v => store'[q].link[w] = store[q].link[w]
        BY <3>2 DEF SavesLink
      <4>2. CASE u # p \/ u # v
        BY <1>1, <4>1, <4>2, OtherIs
      <4>3. CASE u = p /\ u = v
        <5>1. Side(r, u)' = half'[r][role] /\ (run[r].by = u => role = "initiator")
          BY <2>1, <4>3, PartyIs DEF Roles, Side, Ini, Rsp
        <5>2. Going(Side(r, u)') BY <4>1, <5>1, WaitingIs
        <5>3. Draft(r, u)' = store'[u].link[u] BY <4>1, <4>3, <5>1 DEF Draft
        <5>4. \A i \in Active(Draft(r, u)') : FromRun(i, u)' \/ Installs(r, i)'
          BY <2>2, <5>2
        <5>5. \A i : Installs(r, i)' => FromRun(i, u)'
          BY <2>1, <4>1, <5>1 DEF Installs, FromRun, Ini
        <5>6. Active(Draft(r, u)') = Active(store'[u].link[u]) BY <5>3
        <5> QED BY <5>4, <5>5, <5>6
      <4> QED BY <4>2, <4>3
    <3>3. store' = store \/ \E role \in Roles, v \in Users : SavesLink(r, role, v)
      BY <1>7 DEF Works, RspCommits, Begins
    <3> QED BY <3>1, <3>2, <3>3
  <2> QED BY <2>2, <2>3 DEF NoDup, Going
<1> QED BY <1>3, <1>4, <1>5, <1>6, <1>7, CountsAre

-----------------------------------------------------------------------------
(* What the books and the drafts are worth.                                 *)

IsW(h) == h.pc \in Waiting

\* What the two parties of the link of u have persisted.
Mine(u) == store[u].link[u]
Hers(u) == store[Ingrid].link[u]

Right(u, c) == LinkWorth(c) = LinkWorth(Opening.link[u])

IniAgrees(r) == Agree(Initiator(r), Ini(r), Med(r))
RspAgrees(r) == Agree(Responder(r), Rsp(r), Med(r))

\* Ingrid's draft for u comes next, and takes from her or leaves the agreements.
HubNextOn(r, u) ==
  /\ HubDraft(r, u).ver = Hers(u).ver + 2
  /\ HubDraft(r, u).agr = Hers(u).agr =>
       HubDraft(r, u).hub <= Hers(u).hub /\ HubDraft(r, u).user <= Hers(u).user

\* No other run has the link to write, on the side of u or on Ingrid's.
NobodyElse(r, u) == \A t \in Runs \ {r} : ~Owes(t, u)
NoHubElse(r) == \A t \in Runs \ {r} : \A u \in Users : ~HubOwes(t, u)

\* The draft was computed from what is persisted now.
FreshUser(r, u) == Draft(r, u).ver = Mine(u).ver + 2 /\ NobodyElse(r, u)

FreshHub(r) ==
  /\ NoHubElse(r) /\ \A u \in Users : HubNextOn(r, u)
  /\ \E k \in Nat : HubShort(Med(r).post.link, k)

\* Everybody has computed from what it keeps.
AllFresh(r) ==
  /\ \A u \in Users : IsW(Side(r, u)) => FreshUser(r, u)
  /\ IsW(Med(r)) => FreshHub(r)

\* Ingrid's draft for u is older than the one u has, or will compute.
OlderHub(r, u) ==
  /\ IsW(Med(r))
  /\ \/ Side(r, u).pc = "idle" /\ Mine(u).ver + 2 > HubDraft(r, u).ver
     \/ IsW(Side(r, u)) /\ Draft(r, u).ver > HubDraft(r, u).ver

\* The draft of u is older than the one Ingrid has, or will compute.
OlderUser(r, u) ==
  /\ IsW(Side(r, u))
  /\ \/ Med(r).pc = "idle" /\ Hers(u).ver + 2 > Draft(r, u).ver
     \/ IsW(Med(r)) /\ HubDraft(r, u).ver > Draft(r, u).ver

\* It will be when Ingrid has written what she owes.
ToBeOlder(r, u) ==
  /\ IsW(Side(r, u)) /\ Med(r).pc = "idle"
  /\ \E t \in Runs \ {r} : HubOwes(t, u) /\ HubDraft(t, u).ver >= Draft(r, u).ver

\* Each refuses a signature on a version that is not its own.
D1(r) == \E u \in Users : OlderHub(r, u)
D2(r) == \E u \in Users : OlderUser(r, u)
D3(r) == \E u \in Users : ToBeOlder(r, u)

\* A run nobody has persisted anything of can succeed only with fresh drafts.
EarlyInv(r) ==
  /\ Right(Initiator(r), Draft(r, Initiator(r)))
  /\ AllFresh(r) \/ D1(r) \/ D2(r) \/ D3(r)

\* A run that succeeds.
UserLate(r, u) ==
  Owes(r, u) \/ IsW(Side(r, u)) => Right(u, Draft(r, u)) /\ Draft(r, u).ver = Mine(u).ver + 2

HubLate(r, u) == HubOwes(r, u) \/ IsW(Med(r)) => HubNextOn(r, u)

\* While the initiator is at work or anything is to be written, no other run writes.
Alone(r) == Going(Ini(r)) \/ OwesAny(r) => \A t \in Runs \ {r} : ~OwesAny(t)

LateInv(r) ==
  /\ \A u \in Users : UserLate(r, u)
  /\ \A u \in Users : HubLate(r, u)
  /\ Going(Med(r)) => HubShort(Med(r).post.link, 0)
  /\ Going(Ini(r)) /\ Going(Med(r)) => IniAgrees(r)
  /\ Going(Rsp(r)) /\ Going(Med(r)) => RspAgrees(r)
  /\ Ini(r).pc \in {"saving", "returned"} /\ ~Owes(r, Initiator(r)) /\ HubOwes(r, Initiator(r)) =>
       Mine(Initiator(r)).ver = HubDraft(r, Initiator(r)).ver
  /\ Owes(r, Responder(r)) /\ ~IsW(Med(r)) /\ ~HubOwes(r, Responder(r)) =>
       Hers(Responder(r)).ver = Draft(r, Responder(r)).ver
  /\ Alone(r)

\* Run t still writes while run r is on its way.
Trail(t, r) ==
  /\ HubOwes(t, Initiator(t)) /\ IsW(Side(r, Initiator(t))) =>
       Draft(r, Initiator(t)).ver > HubDraft(t, Initiator(t)).ver
  /\ HubOwes(t, Initiator(t)) /\ IsW(Med(r)) => D1(r)
  /\ Owes(t, Responder(t)) /\ ~HubOwes(t, Responder(t)) /\ IsW(Med(r)) =>
       HubDraft(r, Responder(t)).ver > Draft(t, Responder(t)).ver \/ D1(r)

\* Ingrid's two links are even, or she has written one of the two.
HubStore ==
  \/ /\ \A t \in Runs : HubOwes(t, Alice) <=> HubOwes(t, Bob)
     /\ HubShort(store[Ingrid].link, 0)
  \/ \E t \in Runs, u \in Users :
       /\ HubOwes(t, u) /\ ~HubOwes(t, Other(u))
       /\ Hers(Other(u)) = HubDraft(t, Other(u))

\* The links and the drafts add up.
Books ==
  /\ \A r \in Runs : Early(r) => EarlyInv(r)
  /\ \A r \in Runs : Late(r) /\ ~Still(r) => LateInv(r)
  /\ \A r \in Runs, t \in Runs : t # r /\ Early(r) => Trail(t, r)
  /\ HubStore
  /\ \A u \in Users : Right(u, Mine(u)) /\ Right(u, Hers(u))

-----------------------------------------------------------------------------
(* Early, late and still runs are told apart.                               *)

LEMMA EarlyNotLateAt ==
  \A n, e, i, c, s, mail :
    n \in 1..6 /\ EarlyAt(n, e, i, c, s, mail) =>
      ~LateAt(e, i, c, s, mail) /\ ~StillAt(i, c, s, mail) /\ i.pc \in {"wait4", "wait8"}
<1> SUFFICES ASSUME NEW n \in 1..6, NEW e, NEW i, NEW c, NEW s, NEW mail,
                    EarlyAt(n, e, i, c, s, mail)
             PROVE  /\ ~LateAt(e, i, c, s, mail) /\ ~StillAt(i, c, s, mail)
                    /\ i.pc \in {"wait4", "wait8"}
  OBVIOUS
<1>1. i.pc \in {"wait4", "wait8"} /\ s.pc \in {"idle", "wait6"} BY EarlyPcs
<1>2. mail # {} BY DEF EarlyAt, One
<1> QED BY <1>1, <1>2 DEF LateAt, InstallLate, UninstallLate, StillAt

LEMMA EarlyNext ==
  ASSUME NEW r, Early(r)'
  PROVE  ~Late(r)' /\ ~Still(r)' /\ Ini(r)'.pc \in {"wait4", "wait8"}
<1>1. PICK n \in 1..6 : EarlyAt(n, run[r], Ini(r), Med(r), Rsp(r), Mail(r))'
  BY DEF Early
<1>2. EarlyAt(n, run'[r], Ini(r)', Med(r)', Rsp(r)', Mail(r)') BY <1>1
<1>3. ~LateAt(run'[r], Ini(r)', Med(r)', Rsp(r)', Mail(r)')
      /\ ~StillAt(Ini(r)', Med(r)', Rsp(r)', Mail(r)')
      /\ Ini(r)'.pc \in {"wait4", "wait8"}
  BY <1>2, EarlyNotLateAt, Zenon
<1> QED BY <1>3 DEF Late, Still

LEMMA EarlyNotLate ==
  ASSUME NEW r, Early(r)
  PROVE  ~Late(r) /\ ~Still(r) /\ Going(Ini(r))
BY EarlyIs DEF Late, LateAt, InstallLate, UninstallLate, Waiting

LEMMA LateIs ==
  ASSUME NEW r, Late(r), ~Still(r)
  PROVE  /\ Rsp(r).pc \in {"saving", "done"} /\ Ini(r).pc \in {"wait8", "saving", "returned"}
         /\ Med(r).pc \in {"wait7", "saving", "done"}
         /\ ~IsW(Rsp(r)) /\ Rsp(r).pc # "idle" /\ Med(r).pc # "idle" /\ Ini(r).pc # "idle"
         /\ ~Going(Ini(r)) => /\ run[r].op.kind = "install" /\ Ini(r).pc = "returned"
                              /\ ~IsW(Med(r))
BY WaitingIs DEF Late, LateAt, InstallLate, UninstallLate, IsW

LEMMA OwesIs ==
  ASSUME Base, IInv, NEW t \in Runs, NEW u \in Users, Owes(t, u) \/ HubOwes(t, u)
  PROVE  /\ Late(t) /\ ~Still(t) /\ ~Early(t)
         /\ Owes(t, u) => Going(Side(t, u)) /\ Side(t, u).pc = "saving" /\ ~IsW(Side(t, u))
         /\ HubOwes(t, u) => Going(Med(t)) /\ Med(t).pc = "saving" /\ ~IsW(Med(t))
         /\ Owes(t, u) /\ ~Going(Ini(t)) => u = Responder(t) /\ Side(t, u) = Rsp(t)
<1>1. Owes(t, u) => Going(Side(t, u)) /\ Side(t, u).pc = "saving" /\ ~IsW(Side(t, u))
  BY WaitingIs DEF Owes, Owing, IsW
<1>2. HubOwes(t, u) => Going(Med(t)) /\ Med(t).pc = "saving" /\ ~IsW(Med(t))
  BY WaitingIs DEF HubOwes, Owing, IsW
<1>3. \E role \in Roles : half[t][role].pc = "saving"
  BY <1>1, <1>2 DEF Side, Ini, Med, Rsp, Roles
<1>4. Late(t) /\ ~Still(t) /\ ~Early(t) BY <1>3, SavingIsLate
<1>5. Owes(t, u) /\ ~Going(Ini(t)) => u = Responder(t) /\ Side(t, u) = Rsp(t)
  BY <1>1, PartyIs DEF Side
<1> QED BY <1>1, <1>2, <1>4, <1>5

\* Ingrid writes the initiator's link last when she installs.
LEMMA HubOrder ==
  ASSUME Base, IInv, NEW t \in Runs, NEW u \in Users, HubOwes(t, u), ~Going(Ini(t))
  PROVE  HubOwes(t, Initiator(t))
<1>1. Late(t) /\ ~Still(t) /\ Med(t).pc = "saving" BY OwesIs
<1>2. run[t].op.kind = "install" BY <1>1, LateIs
<1>3. LeftOf(run[t], "intermediary", Med(t).left)
  BY <1>1, LateLeft DEF Med, Roles
<1>4. In(Med(t).left, u) BY DEF HubOwes, Owing, In
<1>5. In(Med(t).left, Other(run[t].by)) => In(Med(t).left, run[t].by)
  BY <1>2, <1>3, PartyIs, LeftMoves DEF Roles
<1>6. In(Med(t).left, run[t].by)
  BY <1>4, <1>5, PartyIs
<1> QED BY <1>1, <1>6, PartyIs DEF HubOwes, Owing, In

\* There is one live run.
LEMMA OneLives ==
  ASSUME Base, NEW r \in Runs, Going(Ini(r)), NEW s \in Runs, s # r
  PROVE  ~Going(Ini(s)) /\ ~Early(s)
BY EarlyNotLate DEF Base, Serial

LEMMA SideIs ==
  ASSUME IInv, NEW r \in Runs
  PROVE  /\ Side(r, Initiator(r)) = Ini(r) /\ Side(r, Responder(r)) = Rsp(r)
         /\ Initiator(r) \in Users /\ Responder(r) \in Users
         /\ Initiator(r) # Responder(r) /\ Responder(r) = Other(Initiator(r))
         /\ \A u \in Users : u = Initiator(r) \/ u = Responder(r)
         /\ \A u \in Users : Side(r, u) = Ini(r) <=> u = Initiator(r) \/ Ini(r) = Rsp(r)
BY PartyIs DEF Side

LEMMA Vers ==
  ASSUME Base, IInv, NEW r \in Runs, NEW u \in Users
  PROVE  /\ KnownLink(Mine(u)) /\ KnownLink(Hers(u))
         /\ KnownLink(Draft(r, u)) /\ KnownLink(HubDraft(r, u))
         /\ Mine(u).ver \in Nat /\ Hers(u).ver \in Nat
         /\ Draft(r, u).ver \in Nat /\ HubDraft(r, u).ver \in Nat
<1>1. KnownLink(Mine(u)) /\ KnownLink(Hers(u))
  BY OtherIs DEF Base, Known, KnownChannels, Mine, Hers
<1>2. KnownLink(Draft(r, u)) /\ KnownLink(HubDraft(r, u))
  BY DEF Base, Known, KnownChannels, Draft, HubDraft, Side, Ini, Med, Rsp, Roles
<1> QED BY <1>1, <1>2, WorthTypes

-----------------------------------------------------------------------------
(* Steps that have nothing to do with the links.                            *)

LEMMA HalfCalm ==
  ASSUME NEW h, NEW k
  PROVE  /\ GoesOn(h, k) \/ Stops(h, k) =>
              /\ \A u \in Users : Owing(k, u) <=> Owing(h, u)
              /\ \A u \in Users : Owing(h, u) => k.post = h.post
              /\ Going(k) => Going(h) /\ k.post = h.post
              /\ IsW(k) => IsW(h)
              /\ k.pc = "returned" => h.pc \in {"returned", "saving"} \/ IsW(h) \/ h.pc # "saving"
         /\ GoesOn(h, k) =>
              /\ IsW(k) <=> IsW(h)
              /\ k.pc = "idle" <=> h.pc = "idle"
              /\ k.pc \in {"saving", "returned"} => h.pc \in {"saving", "returned"}
         /\ h.pc = "saving" => ~IsW(h)
         /\ Stops(h, k) => ~IsW(k) /\ k.pc # "saving"
BY WaitingIs DEF GoesOn, Stops, Owing, Going, IsW

LEMMA CalmSide ==
  ASSUME IInv, Calm, NEW s \in Runs, NEW u \in Users
  PROVE  /\ Owes(s, u)' <=> Owes(s, u)
         /\ HubOwes(s, u)' <=> HubOwes(s, u)
         /\ Owes(s, u) => Draft(s, u)' = Draft(s, u)
         /\ HubOwes(s, u) => Med(s)'.post = Med(s).post
         /\ Going(Side(s, u)') => Going(Side(s, u)) /\ Draft(s, u)' = Draft(s, u)
         /\ Going(Med(s)') => Going(Med(s)) /\ Med(s)'.post = Med(s).post
         /\ Mine(u)' = Mine(u) /\ Hers(u)' = Hers(u)
<1>1. /\ run'[s] = run[s]
      /\ \A role \in Roles : GoesOn(half[s][role], half'[s][role])
                               \/ Stops(half[s][role], half'[s][role])
  BY CalmHalves
<1>2. PICK role \in Roles : Side(s, u) = half[s][role] /\ Side(s, u)' = half'[s][role]
  BY <1>1, SideRole
<1>3. GoesOn(Side(s, u), Side(s, u)') \/ Stops(Side(s, u), Side(s, u)')
  BY <1>1, <1>2
<1>4. GoesOn(Med(s), Med(s)') \/ Stops(Med(s), Med(s)')
  BY <1>1 DEF Med, Roles
<1>5. Owes(s, u)' <=> Owing(Side(s, u)', u) BY DEF Owes, Owing
<1>6. HubOwes(s, u)' <=> Owing(Med(s)', u) BY DEF HubOwes, Owing
<1>7. /\ Owes(s, u)' <=> Owes(s, u)
      /\ Owes(s, u) => Side(s, u)'.post = Side(s, u).post
      /\ Going(Side(s, u)') => Going(Side(s, u)) /\ Side(s, u)'.post = Side(s, u).post
  BY <1>3, <1>5, HalfCalm DEF Owes
<1>8. /\ HubOwes(s, u)' <=> HubOwes(s, u)
      /\ HubOwes(s, u) => Med(s)'.post = Med(s).post
      /\ Going(Med(s)') => Going(Med(s)) /\ Med(s)'.post = Med(s).post
  BY <1>4, <1>6, HalfCalm DEF HubOwes
<1>9. Mine(u)' = Mine(u) /\ Hers(u)' = Hers(u) BY OtherIs DEF Calm, Mine, Hers
<1>10. Side(s, u)'.post = Side(s, u).post => Draft(s, u)' = Draft(s, u) BY DEF Draft
<1> QED BY <1>7, <1>8, <1>9, <1>10

LEMMA CalmEarly ==
  ASSUME IInv, Calm, NEW s \in Runs, Early(s)'
  PROVE  /\ Early(s)
         /\ \A u \in Users : /\ IsW(Side(s, u)') <=> IsW(Side(s, u))
                             /\ Side(s, u)'.pc = "idle" <=> Side(s, u).pc = "idle"
                             /\ IsW(Side(s, u)) => Draft(s, u)' = Draft(s, u)
         /\ IsW(Med(s)') <=> IsW(Med(s))
         /\ Med(s)'.pc = "idle" <=> Med(s).pc = "idle"
         /\ IsW(Med(s)) => Med(s)'.post = Med(s).post
         /\ run'[s] = run[s]
<1>1. ~Still(s)' /\ ~Late(s)' BY EarlyNext
<1>2. Early(s) /\ \A role \in Roles : GoesOn(half[s][role], half'[s][role])
  BY <1>1 DEF Calm, CalmRun
<1>3. run'[s] = run[s] BY DEF Calm
<1>4. \A u \in Users : GoesOn(Side(s, u), Side(s, u)')
  <2> TAKE u \in Users
  <2>1. PICK role \in Roles : Side(s, u) = half[s][role] /\ Side(s, u)' = half'[s][role]
    BY <1>3, SideRole
  <2> QED BY <1>2, <2>1
<1>5. GoesOn(Med(s), Med(s)') BY <1>2 DEF Med, Roles
<1>6. \A h, k : GoesOn(h, k) /\ IsW(h) => k.post = h.post BY DEF GoesOn
<1>7. \A u \in Users : Side(s, u)'.post = Side(s, u).post => Draft(s, u)' = Draft(s, u)
  BY DEF Draft
<1> QED BY <1>2, <1>3, <1>4, <1>5, <1>6, <1>7, HalfCalm

LEMMA CalmLate ==
  ASSUME IInv, Calm, NEW s \in Runs, Late(s)', ~Still(s)'
  PROVE  /\ Late(s) /\ ~Still(s)
         /\ \A u \in Users : IsW(Side(s, u)') <=> IsW(Side(s, u))
         /\ IsW(Med(s)') <=> IsW(Med(s))
         /\ Ini(s)'.pc \in {"saving", "returned"} => Ini(s).pc \in {"saving", "returned"}
         /\ run'[s] = run[s]
<1>1. ~Early(s)' BY EarlyNext
<1>2. /\ Late(s) /\ ~Still(s)
      /\ \A role \in Roles :
           \/ GoesOn(half[s][role], half'[s][role])
           \/ half[s][role].pc = "saving" /\ Stops(half[s][role], half'[s][role])
  BY <1>1 DEF Calm, CalmRun
<1>3. run'[s] = run[s] BY DEF Calm
<1>4. \A u \in Users : IsW(Side(s, u)') <=> IsW(Side(s, u))
  <2> TAKE u \in Users
  <2>1. PICK role \in Roles : Side(s, u) = half[s][role] /\ Side(s, u)' = half'[s][role]
    BY <1>3, SideRole
  <2> QED BY <1>2, <2>1, HalfCalm
<1>5. IsW(Med(s)') <=> IsW(Med(s)) BY <1>2, HalfCalm DEF Med, Roles
<1>6. Ini(s)'.pc \in {"saving", "returned"} => Ini(s).pc \in {"saving", "returned"}
  BY <1>2, HalfCalm DEF Ini, Roles
<1> QED BY <1>2, <1>3, <1>4, <1>5, <1>6

LEMMA CalmEarlyInv ==
  ASSUME Base, IInv, Calm, NEW s \in Runs, Early(s)', EarlyInv(s)
  PROVE  EarlyInv(s)'
<1>1. \A t \in Runs, u \in Users :
        /\ Owes(t, u)' <=> Owes(t, u)
        /\ HubOwes(t, u)' <=> HubOwes(t, u)
        /\ HubOwes(t, u) => HubDraft(t, u)' = HubDraft(t, u)
        /\ Mine(u)' = Mine(u) /\ Hers(u)' = Hers(u)
  BY CalmSide DEF HubDraft
<1>2. /\ Early(s)
      /\ \A u \in Users : /\ IsW(Side(s, u))' <=> IsW(Side(s, u))
                          /\ Side(s, u)'.pc = "idle" <=> Side(s, u).pc = "idle"
                          /\ IsW(Side(s, u)) => Draft(s, u)' = Draft(s, u)
      /\ IsW(Med(s))' <=> IsW(Med(s))
      /\ Med(s)'.pc = "idle" <=> Med(s).pc = "idle"
      /\ IsW(Med(s)) => Med(s)'.post = Med(s).post
      /\ run'[s] = run[s]
  BY CalmEarly DEF IsW
<1>3. IsW(Med(s)) => \A u \in Users : HubDraft(s, u)' = HubDraft(s, u)
  BY <1>2 DEF HubDraft
<1>4. Right(Initiator(s), Draft(s, Initiator(s)))'
  <2>1. Initiator(s)' = Initiator(s) BY <1>2 DEF Initiator
  <2>2. IsW(Side(s, Initiator(s))) BY <1>2, SideIs, EarlyIs DEF IsW
  <2>3. Draft(s, Initiator(s))' = Draft(s, Initiator(s))
    <3>1. \A u : u = Initiator(s) => Draft(s, u)' = Draft(s, u) BY <1>2, <2>2, SideIs
    <3> QED BY <2>1, <3>1 DEF Draft, Side
  <2> QED BY <2>1, <2>3 DEF EarlyInv, Right
<1>5. AllFresh(s) => AllFresh(s)'
  <2> HAVE AllFresh(s)
  <2>1. ASSUME NEW u \in Users, IsW(Side(s, u))' PROVE FreshUser(s, u)'
    BY <1>1, <1>2, <2>1 DEF AllFresh, FreshUser, NobodyElse
  <2>2. ASSUME IsW(Med(s))' PROVE FreshHub(s)'
    BY <1>1, <1>2, <1>3, <2>2 DEF AllFresh, FreshHub, NoHubElse, HubNextOn
  <2> QED BY <2>1, <2>2 DEF AllFresh
<1>6. D1(s) => D1(s)'
  <2>1. ASSUME NEW u \in Users, OlderHub(s, u) PROVE OlderHub(s, u)'
    BY <1>1, <1>2, <1>3, <2>1 DEF OlderHub
  <2> QED BY <2>1 DEF D1
<1>7. D2(s) => D2(s)'
  <2>1. ASSUME NEW u \in Users, OlderUser(s, u) PROVE OlderUser(s, u)'
    BY <1>1, <1>2, <1>3, <2>1 DEF OlderUser
  <2> QED BY <2>1 DEF D2
<1>8. D3(s) => D3(s)'
  <2>1. ASSUME NEW u \in Users, ToBeOlder(s, u) PROVE ToBeOlder(s, u)'
    BY <1>1, <1>2, <2>1 DEF ToBeOlder
  <2> QED BY <2>1 DEF D3
<1> QED BY <1>4, <1>5, <1>6, <1>7, <1>8 DEF EarlyInv

LEMMA CalmLateInv ==
  ASSUME Base, IInv, Calm, NEW s \in Runs, Late(s)', ~Still(s)', LateInv(s)
  PROVE  LateInv(s)'
<1>1. \A t \in Runs, u \in Users :
        /\ Owes(t, u)' <=> Owes(t, u)
        /\ HubOwes(t, u)' <=> HubOwes(t, u)
        /\ Owes(t, u) => Draft(t, u)' = Draft(t, u)
        /\ HubOwes(t, u) => Med(t)'.post = Med(t).post
        /\ Going(Side(t, u)') => Going(Side(t, u)) /\ Draft(t, u)' = Draft(t, u)
        /\ Going(Med(t)') => Going(Med(t)) /\ Med(t)'.post = Med(t).post
        /\ Mine(u)' = Mine(u) /\ Hers(u)' = Hers(u)
  BY CalmSide
<1>2. /\ Late(s) /\ ~Still(s)
      /\ \A u \in Users : IsW(Side(s, u))' <=> IsW(Side(s, u))
      /\ IsW(Med(s))' <=> IsW(Med(s))
      /\ Ini(s)'.pc \in {"saving", "returned"} => Ini(s).pc \in {"saving", "returned"}
      /\ run'[s] = run[s]
  BY CalmLate DEF IsW
<1>3. \A t \in Runs : OwesAny(t)' <=> OwesAny(t)
  <2> TAKE t \in Runs
  <2>1. OwesAny(t)' <=> \E u \in Users : Owes(t, u)' \/ HubOwes(t, u)' BY DEF OwesAny
  <2> QED BY <1>1, <2>1 DEF OwesAny
<1>4. /\ Initiator(s)' = Initiator(s) /\ Responder(s)' = Responder(s)
      /\ Initiator(s) \in Users /\ Responder(s) \in Users
      /\ Side(s, Initiator(s)) = Ini(s) /\ Side(s, Responder(s)) = Rsp(s)
      /\ Side(s, Initiator(s))' = Ini(s)' /\ Side(s, Responder(s))' = Rsp(s)'
  BY <1>2, SideIs DEF Initiator, Responder, Side
<1>5. /\ \A h : Going(h) <=> IsW(h) \/ h.pc = "saving"
      /\ \A h : IsW(h) => Going(h)
  BY WaitingIs DEF IsW
<1>6. \A u \in Users : IsW(Side(s, u))' => IsW(Side(s, u)) /\ Draft(s, u)' = Draft(s, u)
  <2> TAKE u \in Users
  <2> HAVE IsW(Side(s, u))'
  <2>1. Going(Side(s, u)') BY <1>5 DEF IsW
  <2> QED BY <1>1, <1>2, <2>1
<1>7. HubOwes(s, Alice) \/ HubOwes(s, Bob) \/ IsW(Med(s)) => Med(s)'.post = Med(s).post
  <2>1. IsW(Med(s)) => Going(Med(s)')
    BY <1>2, <1>5 DEF IsW
  <2> QED BY <1>1, <2>1 DEF Users
<1>8. \A u \in Users : UserLate(s, u)'
  BY <1>1, <1>6 DEF LateInv, UserLate, Right
<1>9. \A u \in Users : HubLate(s, u)'
  <2> TAKE u \in Users
  <2>1. HubLate(s, u) BY DEF LateInv
  <2>2. HubOwes(s, u) \/ IsW(Med(s)) => HubDraft(s, u)' = HubDraft(s, u)
    BY <1>7 DEF HubDraft, Users
  <2> QED BY <1>1, <1>2, <2>1, <2>2 DEF HubLate, HubNextOn
<1>10. Going(Med(s))' => Med(s)'.post = Med(s).post /\ Going(Med(s))
  BY <1>1, <1>4 DEF Going
<1>11. Going(Med(s))' => HubShort(Med(s).post.link, 0)'
  BY <1>10 DEF LateInv, HubShort, HubWorth
<1>12. (Going(Ini(s)) /\ Going(Med(s)))' => IniAgrees(s)'
  <2> HAVE (Going(Ini(s)) /\ Going(Med(s)))'
  <2>1. Going(Side(s, Initiator(s))') /\ Going(Med(s)') BY <1>4 DEF Going
  <2>2. Going(Ini(s)) /\ Draft(s, Initiator(s))' = Draft(s, Initiator(s))
    <3>1. \A u \in Users : Going(Side(s, u)') => Going(Side(s, u)) /\ Draft(s, u)' = Draft(s, u)
      BY <1>1
    <3>2. \A u \in Users : u = Initiator(s) => Draft(s, u)' = Draft(s, Initiator(s))'
      BY <1>4 DEF Draft, Side
    <3> QED BY <1>4, <2>1, <3>1, <3>2
  <2>3. Draft(s, Initiator(s))' = Ini(s)'.post.link[Initiator(s)]
        /\ Draft(s, Initiator(s)) = Ini(s).post.link[Initiator(s)]
    BY <1>4 DEF Draft
  <2>4. IniAgrees(s) BY <1>10, <2>2 DEF LateInv
  <2> QED BY <1>4, <1>10, <2>2, <2>3, <2>4 DEF IniAgrees, Agree
<1>13. (Going(Rsp(s)) /\ Going(Med(s)))' => RspAgrees(s)'
  <2> HAVE (Going(Rsp(s)) /\ Going(Med(s)))'
  <2>1. Going(Side(s, Responder(s))') /\ Going(Med(s)') BY <1>4 DEF Going
  <2>2. Going(Rsp(s)) /\ Draft(s, Responder(s))' = Draft(s, Responder(s))
    <3>1. \A u \in Users : Going(Side(s, u)') => Going(Side(s, u)) /\ Draft(s, u)' = Draft(s, u)
      BY <1>1
    <3>2. \A u \in Users : u = Responder(s) => Draft(s, u)' = Draft(s, Responder(s))'
      BY <1>4 DEF Draft, Side
    <3> QED BY <1>4, <2>1, <3>1, <3>2
  <2>3. Draft(s, Responder(s))' = Rsp(s)'.post.link[Responder(s)]
        /\ Draft(s, Responder(s)) = Rsp(s).post.link[Responder(s)]
    BY <1>4 DEF Draft
  <2>4. RspAgrees(s) BY <1>10, <2>2 DEF LateInv
  <2> QED BY <1>4, <1>10, <2>2, <2>3, <2>4 DEF RspAgrees, Agree
<1>14. (Ini(s).pc \in {"saving", "returned"} /\ ~Owes(s, Initiator(s)) /\ HubOwes(s, Initiator(s)))'
         => (Mine(Initiator(s)).ver = HubDraft(s, Initiator(s)).ver)'
  <2> DEFINE u == Initiator(s)
  <2>1. u \in Users /\ Initiator(s)' = u BY <1>4
  <2>2. /\ Owes(s, Initiator(s))' <=> Owes(s, u)'
        /\ HubOwes(s, Initiator(s))' <=> HubOwes(s, u)'
        /\ HubDraft(s, Initiator(s))' = HubDraft(s, u)'
        /\ Mine(Initiator(s))' = Mine(u)'
    BY <2>1 DEF Owes, HubOwes, HubDraft, Mine, Side
  <2>3. HubOwes(s, u) => HubDraft(s, u)' = HubDraft(s, u) BY <1>1, <2>1 DEF HubDraft
  <2>4. Ini(s).pc \in {"saving", "returned"} /\ ~Owes(s, u) /\ HubOwes(s, u)
          => Mine(u).ver = HubDraft(s, u).ver
    BY DEF LateInv
  <2> HIDE DEF u
  <2> QED BY <1>1, <1>2, <2>1, <2>2, <2>3, <2>4
<1>15. (Owes(s, Responder(s)) /\ ~IsW(Med(s)) /\ ~HubOwes(s, Responder(s)))'
         => (Hers(Responder(s)).ver = Draft(s, Responder(s)).ver)'
  <2> DEFINE u == Responder(s)
  <2>1. u \in Users /\ Responder(s)' = u BY <1>4
  <2>2. /\ Owes(s, Responder(s))' <=> Owes(s, u)'
        /\ HubOwes(s, Responder(s))' <=> HubOwes(s, u)'
        /\ Draft(s, Responder(s))' = Draft(s, u)'
        /\ Hers(Responder(s))' = Hers(u)'
    BY <2>1 DEF Owes, HubOwes, Draft, Hers, Side
  <2>4. Owes(s, u) /\ ~IsW(Med(s)) /\ ~HubOwes(s, u) => Hers(u).ver = Draft(s, u).ver
    BY DEF LateInv
  <2> HIDE DEF u
  <2> QED BY <1>1, <1>2, <2>1, <2>2, <2>4
<1>16. Alone(s)'
  <2>1. Going(Ini(s))' => Going(Ini(s))
    <3>1. IniKeeps(s) BY DEF Calm, CalmRun
    <3> QED BY <3>1 DEF IniKeeps, Going
  <2>2. Alone(s) BY DEF LateInv
  <2> QED BY <1>3, <2>1, <2>2 DEF Alone
<1> QED
  BY <1>8, <1>9, <1>11, <1>12, <1>13, <1>14, <1>15, <1>16 DEF LateInv

LEMMA CalmBooks ==
  ASSUME Base, IInv, Books, Calm
  PROVE  Books'
<1>1. \A t \in Runs, u \in Users :
        /\ Owes(t, u)' <=> Owes(t, u)
        /\ HubOwes(t, u)' <=> HubOwes(t, u)
        /\ Owes(t, u) => Draft(t, u)' = Draft(t, u)
        /\ HubOwes(t, u) => Med(t)'.post = Med(t).post
        /\ Mine(u)' = Mine(u) /\ Hers(u)' = Hers(u)
  BY CalmSide
<1>2. \A t \in Runs, u, v \in Users : HubOwes(t, u) => HubDraft(t, v)' = HubDraft(t, v)
  BY <1>1 DEF HubDraft
<1>3. \A r \in Runs : Early(r)' => EarlyInv(r)'
  <2> TAKE r \in Runs
  <2> HAVE Early(r)'
  <2>1. EarlyInv(r) BY CalmEarly DEF Books
  <2> QED BY <2>1, CalmEarlyInv
<1>4. \A r \in Runs : (Late(r) /\ ~Still(r))' => LateInv(r)'
  <2> TAKE r \in Runs
  <2> HAVE (Late(r) /\ ~Still(r))'
  <2>1. LateInv(r) BY CalmLate DEF Books
  <2> QED BY <2>1, CalmLateInv
<1>5. ASSUME NEW r \in Runs, NEW t \in Runs, t # r, Early(r)' PROVE Trail(t, r)'
  <2>1. /\ Early(r)
        /\ \A u \in Users : /\ IsW(Side(r, u))' <=> IsW(Side(r, u))
                            /\ Side(r, u)'.pc = "idle" <=> Side(r, u).pc = "idle"
                            /\ IsW(Side(r, u)) => Draft(r, u)' = Draft(r, u)
        /\ IsW(Med(r))' <=> IsW(Med(r))
        /\ IsW(Med(r)) => Med(r)'.post = Med(r).post
    BY <1>5, CalmEarly DEF IsW
  <2>2. Trail(t, r) BY <1>5, <2>1 DEF Books
  <2>3. IsW(Med(r)) => \A u \in Users : HubDraft(r, u)' = HubDraft(r, u) BY <2>1 DEF HubDraft
  <2>4. D1(r) => D1(r)'
    <3>1. ASSUME NEW u \in Users, OlderHub(r, u) PROVE OlderHub(r, u)'
      BY <1>1, <2>1, <2>3, <3>1 DEF OlderHub
    <3> QED BY <3>1 DEF D1
  <2>12. PICK a, b : a = Initiator(t) /\ b = Responder(t) OBVIOUS
  <2>5. a \in Users /\ b \in Users BY <2>12, <1>5, SideIs
  <2>6. Initiator(t)' = a /\ Responder(t)' = b BY <2>12 DEF Calm, Initiator, Responder
  <2>7. /\ HubOwes(t, Initiator(t))' <=> HubOwes(t, a)'
        /\ HubOwes(t, Responder(t))' <=> HubOwes(t, b)'
        /\ Owes(t, Responder(t))' <=> Owes(t, b)'
        /\ Draft(r, Initiator(t))' = Draft(r, a)' /\ HubDraft(t, Initiator(t))' = HubDraft(t, a)'
        /\ HubDraft(r, Responder(t))' = HubDraft(r, b)' /\ Draft(t, Responder(t))' = Draft(t, b)'
        /\ IsW(Side(r, Initiator(t)))' <=> IsW(Side(r, a))'
    BY <2>6 DEF HubOwes, Owes, Draft, HubDraft, Side
  <2>8. /\ HubOwes(t, a) /\ IsW(Side(r, a)) => Draft(r, a).ver > HubDraft(t, a).ver
        /\ HubOwes(t, a) /\ IsW(Med(r)) => D1(r)
        /\ Owes(t, b) /\ ~HubOwes(t, b) /\ IsW(Med(r)) =>
             HubDraft(r, b).ver > Draft(t, b).ver \/ D1(r)
    BY <2>2, <2>12 DEF Trail
  <2>9. HubOwes(t, a)' /\ IsW(Side(r, a))' => Draft(r, a)'.ver > HubDraft(t, a)'.ver
    BY <1>1, <1>2, <1>5, <2>1, <2>5, <2>8
  <2>10. HubOwes(t, a)' /\ IsW(Med(r))' => D1(r)'
    BY <1>1, <1>5, <2>1, <2>4, <2>5, <2>8
  <2>11. Owes(t, b)' /\ ~HubOwes(t, b)' /\ IsW(Med(r))' =>
           HubDraft(r, b)'.ver > Draft(t, b)'.ver \/ D1(r)'
    BY <1>1, <1>5, <2>1, <2>3, <2>4, <2>5, <2>8
  <2> QED BY <2>7, <2>9, <2>10, <2>11 DEF Trail
<1>6. HubStore'
  <2>1. CASE /\ \A t \in Runs : HubOwes(t, Alice) <=> HubOwes(t, Bob)
             /\ HubShort(store[Ingrid].link, 0)
    <3>1. store'[Ingrid].link = store[Ingrid].link BY OtherIs DEF Calm
    <3>2. HubShort(store[Ingrid].link, 0)' BY <2>1, <3>1 DEF HubShort, HubWorth
    <3>3. \A t \in Runs : HubOwes(t, Alice)' <=> HubOwes(t, Bob)' BY <1>1, <2>1 DEF Users
    <3> QED BY <3>2, <3>3 DEF HubStore
  <2>2. CASE \E t \in Runs, u \in Users :
               /\ HubOwes(t, u) /\ ~HubOwes(t, Other(u))
               /\ Hers(Other(u)) = HubDraft(t, Other(u))
    <3>1. PICK t \in Runs, u \in Users : /\ HubOwes(t, u) /\ ~HubOwes(t, Other(u))
                                         /\ Hers(Other(u)) = HubDraft(t, Other(u))
      BY <2>2
    <3>2. /\ HubOwes(t, u)' /\ ~HubOwes(t, Other(u))'
          /\ Hers(Other(u))' = HubDraft(t, Other(u))'
      BY <1>1, <1>2, <3>1, OtherIs
    <3> QED BY <3>2 DEF HubStore
  <2> QED BY <2>1, <2>2 DEF HubStore, Books
<1>7. \A u \in Users : Right(u, Mine(u))' /\ Right(u, Hers(u))'
  <2>1. \A u \in Users : Mine(u)' = Mine(u) /\ Hers(u)' = Hers(u)
    BY OtherIs DEF Calm, Mine, Hers
  <2> QED BY <2>1 DEF Books, Right
<1> QED BY <1>3, <1>4, <1>5, <1>6, <1>7 DEF Books

-----------------------------------------------------------------------------
(* Steps of a run r that write nothing.                                     *)

LEMMA LinksKept ==
  ASSUME \A p \in Parties : store'[p].link = store[p].link
  PROVE  /\ \A u \in Users : Mine(u)' = Mine(u) /\ Hers(u)' = Hers(u)
         /\ HubShort(store[Ingrid].link, 0)' <=> HubShort(store[Ingrid].link, 0)
<1>1. store'[Ingrid].link = store[Ingrid].link BY OtherIs
<1> QED BY <1>1, OtherIs DEF Mine, Hers, HubShort, HubWorth

LEMMA ApartOwes ==
  ASSUME NEW r, Apart(r), NEW s \in Runs, s # r
  PROVE  OwesAny(s)' <=> OwesAny(s)
<1>1. \A u \in Users : (Owes(s, u)' <=> Owes(s, u)) /\ (HubOwes(s, u)' <=> HubOwes(s, u))
  BY ApartSide
<1>2. OwesAny(s)' <=> \E u \in Users : Owes(s, u)' \/ HubOwes(s, u)' BY DEF OwesAny
<1> QED BY <1>1, <1>2 DEF OwesAny

LEMMA ApartLate ==
  ASSUME IInv, NEW r \in Runs, Apart(r), NEW s \in Runs, s # r, LateInv(s),
         \A u \in Users : Mine(u)' = Mine(u) /\ Hers(u)' = Hers(u),
         OwesAny(r)' => OwesAny(r) \/ (~Going(Ini(s)) /\ ~OwesAny(s))
  PROVE  LateInv(s)'
<1>1. \A u \in Users :
        /\ Side(s, u)' = Side(s, u) /\ Draft(s, u)' = Draft(s, u)
        /\ HubDraft(s, u)' = HubDraft(s, u)
        /\ Owes(s, u)' <=> Owes(s, u)
        /\ HubOwes(s, u)' <=> HubOwes(s, u)
  BY ApartSide
<1>2. /\ run'[s] = run[s] /\ Med(s)' = Med(s) /\ Ini(s)' = Ini(s) /\ Rsp(s)' = Rsp(s)
  BY Frame
<1>3. PICK a, b : a = Initiator(s) /\ b = Responder(s) OBVIOUS
<1>4. /\ Initiator(s)' = a /\ Responder(s)' = b /\ a \in Users /\ b \in Users
  BY <1>2, <1>3, SideIs DEF Initiator, Responder
<1>5. /\ Owes(s, Initiator(s))' <=> Owes(s, a)'
      /\ HubOwes(s, Initiator(s))' <=> HubOwes(s, a)'
      /\ HubDraft(s, Initiator(s))' = HubDraft(s, a)'
      /\ Mine(Initiator(s))' = Mine(a)'
      /\ Owes(s, Responder(s))' <=> Owes(s, b)'
      /\ HubOwes(s, Responder(s))' <=> HubOwes(s, b)'
      /\ Draft(s, Responder(s))' = Draft(s, b)'
      /\ Hers(Responder(s))' = Hers(b)'
  BY <1>4 DEF Owes, HubOwes, HubDraft, Draft, Mine, Hers, Side
<1>6. \A u \in Users : UserLate(s, u)'
  BY <1>1 DEF LateInv, UserLate, Right, IsW
<1>7. \A u \in Users : HubLate(s, u)'
  BY <1>1, <1>2 DEF LateInv, HubLate, HubNextOn, IsW
<1>8. Going(Med(s))' => HubShort(Med(s).post.link, 0)'
  BY <1>2 DEF LateInv, HubShort, HubWorth, Going
<1>9. (Going(Ini(s)) /\ Going(Med(s)))' => IniAgrees(s)'
  BY <1>2, <1>3, <1>4 DEF LateInv, IniAgrees, Agree, Going
<1>10. (Going(Rsp(s)) /\ Going(Med(s)))' => RspAgrees(s)'
  BY <1>2, <1>3, <1>4 DEF LateInv, RspAgrees, Agree, Going
<1>11. (Ini(s).pc \in {"saving", "returned"} /\ ~Owes(s, Initiator(s)) /\ HubOwes(s, Initiator(s)))'
         => (Mine(Initiator(s)).ver = HubDraft(s, Initiator(s)).ver)'
  <2>1. Ini(s).pc \in {"saving", "returned"} /\ ~Owes(s, a) /\ HubOwes(s, a)
          => Mine(a).ver = HubDraft(s, a).ver
    BY <1>3 DEF LateInv
  <2> QED BY <1>1, <1>2, <1>4, <1>5, <2>1
<1>12. (Owes(s, Responder(s)) /\ ~IsW(Med(s)) /\ ~HubOwes(s, Responder(s)))'
         => (Hers(Responder(s)).ver = Draft(s, Responder(s)).ver)'
  <2>1. Owes(s, b) /\ ~IsW(Med(s)) /\ ~HubOwes(s, b) => Hers(b).ver = Draft(s, b).ver
    BY <1>3 DEF LateInv
  <2>2. IsW(Med(s))' <=> IsW(Med(s)) BY <1>2 DEF IsW
  <2> QED BY <1>1, <1>4, <1>5, <2>1, <2>2
<1>13. Alone(s)'
  <2>1. \A t \in Runs : t # r => (OwesAny(t)' <=> OwesAny(t)) BY ApartOwes
  <2>2. Going(Ini(s))' <=> Going(Ini(s)) BY <1>2 DEF Going
  <2>3. Alone(s) BY DEF LateInv
  <2> QED BY <2>1, <2>2, <2>3 DEF Alone
<1> QED
  BY <1>6, <1>7, <1>8, <1>9, <1>10, <1>11, <1>12, <1>13 DEF LateInv

LEMMA HubStoreKept ==
  ASSUME Base, NEW r \in Runs, Apart(r), HubStore,
         \A p \in Parties : store'[p].link = store[p].link,
         \A u \in Users : HubOwes(r, u)' <=> HubOwes(r, u),
         \A u \in Users : HubOwes(r, u) => Med(r)'.post = Med(r).post
  PROVE  HubStore'
<1>1. \A t \in Runs, u \in Users : HubOwes(t, u)' <=> HubOwes(t, u)
  BY ApartSide
<1>2. \A t \in Runs, u, v \in Users : HubOwes(t, u) => HubDraft(t, v)' = HubDraft(t, v)
  <2> TAKE t \in Runs, u, v \in Users
  <2> HAVE HubOwes(t, u)
  <2>1. CASE t # r BY <2>1, ApartSide
  <2>2. CASE t = r BY <2>2 DEF HubDraft
  <2> QED BY <2>1, <2>2
<1>3. /\ \A u \in Users : Hers(u)' = Hers(u)
      /\ HubShort(store[Ingrid].link, 0)' <=> HubShort(store[Ingrid].link, 0)
  BY LinksKept
<1>4. CASE /\ \A t \in Runs : HubOwes(t, Alice) <=> HubOwes(t, Bob)
           /\ HubShort(store[Ingrid].link, 0)
  <2>1. \A t \in Runs : HubOwes(t, Alice)' <=> HubOwes(t, Bob)' BY <1>1, <1>4 DEF Users
  <2> QED BY <1>3, <1>4, <2>1 DEF HubStore
<1>5. CASE \E t \in Runs, u \in Users :
             /\ HubOwes(t, u) /\ ~HubOwes(t, Other(u))
             /\ Hers(Other(u)) = HubDraft(t, Other(u))
  <2>1. PICK t \in Runs, u \in Users : /\ HubOwes(t, u) /\ ~HubOwes(t, Other(u))
                                       /\ Hers(Other(u)) = HubDraft(t, Other(u))
    BY <1>5
  <2>2. /\ HubOwes(t, u)' /\ ~HubOwes(t, Other(u))'
        /\ Hers(Other(u))' = HubDraft(t, Other(u))'
    BY <1>1, <1>2, <1>3, <2>1, OtherIs
  <2> QED BY <2>2 DEF HubStore
<1> QED BY <1>4, <1>5 DEF HubStore

LEMMA ApartBooks ==
  ASSUME Base, IInv, Books, NEW r \in Runs, Apart(r),
         \A p \in Parties : store'[p].link = store[p].link,
         \A s \in Runs : s # r => ~Early(s),
         Early(r)' => EarlyInv(r)' /\ \A t \in Runs : t # r => Trail(t, r)',
         (Late(r) /\ ~Still(r))' => LateInv(r)',
         OwesAny(r)' => OwesAny(r)
           \/ \A s \in Runs : s # r => ~Going(Ini(s)) /\ ~OwesAny(s),
         HubStore'
  PROVE  Books'
<1>1. \A s \in Runs : s # r => /\ Still(s)' = Still(s) /\ Early(s)' = Early(s)
                               /\ Late(s)' = Late(s)
  BY Frame
<1>2. \A u \in Users : Mine(u)' = Mine(u) /\ Hers(u)' = Hers(u) BY LinksKept
<1>3. \A s \in Runs : Early(s)' => EarlyInv(s)' BY <1>1
<1>4. \A s \in Runs : (Late(s) /\ ~Still(s))' => LateInv(s)'
  <2> TAKE s \in Runs
  <2> HAVE (Late(s) /\ ~Still(s))'
  <2>1. CASE s # r
    <3>1. LateInv(s) BY <1>1, <2>1 DEF Books
    <3> QED BY <1>2, <2>1, <3>1, ApartLate
  <2> QED BY <2>1
<1>5. \A s \in Runs, t \in Runs : t # s /\ Early(s)' => Trail(t, s)' BY <1>1
<1>6. \A u \in Users : Right(u, Mine(u))' /\ Right(u, Hers(u))'
  BY <1>2 DEF Books, Right
<1> QED BY <1>3, <1>4, <1>5, <1>6 DEF Books

-----------------------------------------------------------------------------
(* The start of a run.                                                      *)

\* An app that is installed once more has no agreement.
LEMMA NewIsNew ==
  ASSUME Base, IInv, NoDup, Base', OnlyRetries', NEW r \in Runs, NEW p \in Users, Starts(r, p),
         run'[r].op.kind = "install"
  PROVE  run'[r].op.q.id \notin Active(Mine(p))
<1>1. PICK op : op = run'[r].op OBVIOUS
<1>2. /\ Apart(r) /\ Ini(r).pc = "idle" /\ UserComputed(p, op, Mine(p), Ini(r)'.post.link[p])
  BY <1>1 DEF Starts, Ini, Roles, Mine
<1>3. op.kind = "install" /\ op.q \in Opening.ab.props /\ op.q.by = Other(p)
  BY <1>1, <1>2 DEF UserComputed
<1>4. op = [kind |-> "install", q |-> op.q]
  <2>1. KnownOp(run[r], Ini(r).pc)' BY DEF Base, Known
  <2>2. KnownOp(run'[r], Ini(r)'.pc) BY <2>1 DEF KnownOp
  <2> QED BY <1>1, <1>3, <2>2 DEF KnownOp
<1>5. SUFFICES ASSUME op.q.id \in Active(Mine(p)) PROVE FALSE BY <1>1
<1>6. FromRun(op.q.id, p) BY <1>5 DEF NoDup, Mine
<1>7. op.q.id \notin Active(Opening.link[Alice]) BY <1>3, OpeningSettled DEF Active
<1>8. PICK t \in Runs : /\ run[t].op.kind = "install" /\ run[t].op.q.id = op.q.id
                        /\ run[t].by = p => Ini(t).pc \in {"saving", "returned"}
  BY <1>6, <1>7 DEF FromRun
<1>9. KnownOp(run[t], Ini(t).pc) BY DEF Base, Known
<1>10. /\ Ini(t).pc # "idle" /\ run[t].op = [kind |-> "install", q |-> run[t].op.q]
       /\ run[t].op.q \in Opening.ab.props /\ run[t].op.q.by = Other(run[t].by)
  BY <1>8, <1>9 DEF KnownOp
<1>11. run[t].op.q = op.q BY <1>3, <1>8, <1>10, OpeningSettled
<1>12. run[t].by = p
  <2>1. run[t].by \in Users BY PartyIs
  <2> QED BY <1>3, <1>10, <1>11, <2>1, OtherIs
<1>13. t # r BY <1>2, <1>10
<1>14. t < r
  <2>1. t \in Nat /\ r \in Nat BY VirtualConstants DEF Runs
  <2> QED BY <1>2, <1>10, <1>13, <2>1 DEF Base, Serial
<1>15. run'[t] = run[t] /\ half'[t] = half[t] BY <1>2, <1>13 DEF Apart
<1>16. run'[r].op = run'[t].op BY <1>1, <1>4, <1>10, <1>11, <1>15
<1>17. half'[t]["initiator"].pc = "threw"
  BY <1>8, <1>14, <1>15, <1>16 DEF OnlyRetries
<1> QED BY <1>8, <1>12, <1>15, <1>17 DEF Ini

LEMMA StartsBooks ==
  ASSUME Base, IInv, NoDup, Books, Base', OnlyRetries', NEW r \in Runs, NEW p \in Users,
         Starts(r, p)
  PROVE  Books'
<1>1. /\ Apart(r) /\ store' = store /\ run'[r].by = p
      /\ Ini(r).pc = "idle" /\ Med(r).pc = "idle" /\ Rsp(r).pc = "idle"
      /\ \A s \in Runs : ~Going(Ini(s))
      /\ Early(r)' /\ Ini(r)'.pc \in Waiting
      /\ Med(r)' = Med(r) /\ Rsp(r)' = Rsp(r)
      /\ UserComputed(p, run'[r].op, Mine(p), Ini(r)'.post.link[p])
  BY DEF Starts, Ini, Med, Rsp, Roles, Mine
<1>2. \A s \in Runs : ~Early(s) BY <1>1, EarlyIs
<1>3. \A q \in Parties : store'[q].link = store[q].link BY <1>1
<1>4. \A u \in Users : Mine(u)' = Mine(u) /\ Hers(u)' = Hers(u) BY <1>3, LinksKept
<1>5. /\ Side(r, p)' = Ini(r)' /\ Draft(r, p)' = Ini(r)'.post.link[p]
      /\ \A u \in Users : u # p => Side(r, u)' = Rsp(r)
      /\ Initiator(r)' = p
  BY <1>1 DEF Side, Draft, Initiator
<1>6. /\ IsW(Side(r, p))' /\ ~IsW(Med(r))' /\ \A u \in Users : IsW(Side(r, u))' => u = p
  BY <1>1, <1>5, WaitingIs DEF IsW
<1>7. /\ KnownLink(Mine(p)) /\ Mine(p).ver \in Nat /\ Draft(r, p)'.ver = Mine(p).ver + 2
  <2>1. KnownLink(Mine(p)) /\ Mine(p).ver \in Nat BY Vers
  <2>2. PICK op, c, d : op = run'[r].op /\ c = Mine(p) /\ d = Ini(r)'.post.link[p] OBVIOUS
  <2>3. UserComputed(p, op, c, d) /\ KnownLink(c) BY <1>1, <2>1, <2>2
  <2>4. d.ver = c.ver + 2
    BY <2>3 DEF UserComputed, AddAgreement, RemoveAgreement
  <2> QED BY <1>5, <2>1, <2>2, <2>4
<1>8. Right(p, Draft(r, p)')
  <2>1. PICK op, d : op = run'[r].op /\ d = Ini(r)'.post.link[p] OBVIOUS
  <2>2. PICK c : c = Mine(p) OBVIOUS
  <2>3. UserComputed(p, op, c, d) /\ KnownLink(c) /\ LinkWorth(c) = LinkWorth(Opening.link[p])
    BY <1>1, <1>7, <2>1, <2>2 DEF Books, Right
  <2>4. CASE op.kind = "install"
    <3>1. op.q \in Opening.ab.props /\ op.q.id \notin Active(c)
      BY <2>1, <2>2, <2>3, <2>4, NewIsNew DEF UserComputed
    <3>2. PICK pass \in Nat : CanAgree(c, p, op.q) /\ d = AddAgreement(c, p, op.q, pass)
      BY <2>3, <2>4 DEF UserComputed
    <3>3. PICK q : q = op.q OBVIOUS
    <3>4. LinkWorth(d) = LinkWorth(c) BY <2>3, <3>1, <3>2, <3>3, AddWorth
    <3> QED BY <1>5, <2>1, <2>3, <3>4 DEF Right
  <2>5. CASE op.kind # "install"
    <3>1. /\ op.app \in Active(c) /\ op.toAlice \in Nat /\ op.toAlice <= CapitalOf[op.app]
          /\ d = RemoveAgreement(c, p, op.app, op.toAlice)
      BY <2>3, <2>5 DEF UserComputed
    <3>2. PICK app, toAlice : app = op.app /\ toAlice = op.toAlice OBVIOUS
    <3>3. LinkWorth(d) = LinkWorth(c) BY <2>3, <3>1, <3>2, RemoveWorth
    <3> QED BY <1>5, <2>1, <2>3, <3>3 DEF Right
  <2> QED BY <2>4, <2>5
<1>9. \A t \in Runs : t # r => \A u \in Users :
        /\ Owes(t, u)' <=> Owes(t, u)
        /\ HubOwes(t, u)' <=> HubOwes(t, u)
        /\ HubDraft(t, u)' = HubDraft(t, u)
  BY <1>1, ApartSide
<1>10. AllFresh(r)' \/ D2(r)' \/ D3(r)'
  <2>1. CASE \A t \in Runs : t # r => ~Owes(t, p)
    <3>1. FreshUser(r, p)'
      BY <1>4, <1>7, <1>9, <2>1 DEF FreshUser, NobodyElse
    <3> QED BY <1>6, <3>1 DEF AllFresh
  <2>2. ASSUME NEW t \in Runs, t # r, Owes(t, p) PROVE D2(r)' \/ D3(r)'
    <3>1. /\ Late(t) /\ ~Still(t) /\ p = Responder(t) /\ Side(t, p) = Rsp(t)
          /\ Going(Rsp(t)) /\ ~Going(Ini(t))
      BY <1>1, <2>2, OwesIs
    <3>2. LateInv(t) BY <3>1 DEF Books
    <3>3. Draft(t, p).ver = Mine(p).ver + 2 BY <2>2, <3>2 DEF LateInv, UserLate
    <3>4. CASE HubOwes(t, p)
      <4>1. Going(Med(t)) BY <3>4, OwesIs
      <4>2. SetFreeBalance(p, Draft(t, p)) = SetFreeBalance(p, HubDraft(t, p))
        BY <3>1, <3>2, <4>1 DEF LateInv, RspAgrees, Agree, Draft, HubDraft
      <4>3. PICK c, d : c = Draft(t, p) /\ d = HubDraft(t, p) OBVIOUS
      <4>4. c.ver = d.ver BY <4>2, <4>3, Vers, SameWorth
      <4>5. HubDraft(t, p).ver >= Draft(r, p)'.ver /\ HubOwes(t, p)'
        BY <1>7, <1>9, <2>2, <3>3, <3>4, <4>3, <4>4
      <4>6. HubDraft(t, p)'.ver >= Draft(r, p)'.ver BY <1>9, <2>2, <4>5
      <4>7. Med(r)'.pc = "idle" BY <1>1
      <4>8. ToBeOlder(r, p)' BY <1>6, <2>2, <4>5, <4>6, <4>7 DEF ToBeOlder
      <4> QED BY <4>8 DEF D3
    <3>5. CASE ~HubOwes(t, p)
      <4>1. ~IsW(Med(t)) BY <3>1, LateIs
      <4>2. Hers(p).ver = Draft(t, p).ver BY <2>2, <3>1, <3>2, <3>5, <4>1 DEF LateInv
      <4>3. Hers(p)'.ver + 2 > Draft(r, p)'.ver BY <1>4, <1>7, <3>3, <4>2
      <4>4. OlderUser(r, p)' BY <1>1, <1>6, <4>3 DEF OlderUser
      <4> QED BY <4>4 DEF D2
    <3> QED BY <3>4, <3>5
  <2> QED BY <2>1, <2>2
<1>11. EarlyInv(r)'
  BY <1>5, <1>8, <1>10 DEF EarlyInv, Right, Draft
<1>12. ASSUME NEW t \in Runs, t # r PROVE Trail(t, r)'
  <2>1. PICK a : a = Initiator(t) OBVIOUS
  <2>2. a \in Users /\ Initiator(t)' = a /\ Side(t, a) = Ini(t)
    <3>1. run'[t] = run[t] BY <1>1, <1>12, Frame
    <3> QED BY <2>1, <3>1, SideIs DEF Initiator
  <2>3. ASSUME HubOwes(t, a)', IsW(Side(r, a))'
        PROVE  Draft(r, a)'.ver > HubDraft(t, a)'.ver
    <3>1. a = p /\ HubOwes(t, a) BY <1>6, <1>9, <1>12, <2>2, <2>3
    <3>2. Late(t) /\ ~Still(t) BY <2>2, <3>1, OwesIs
    <3>3. Ini(t).pc = "returned" BY <1>1, <3>2, LateIs
    <3>4. ~Owes(t, a) BY <1>1, <2>2, OwesIs
    <3>5. LateInv(t) BY <3>2 DEF Books
    <3>6. Mine(a).ver = HubDraft(t, a).ver
      BY <2>1, <3>1, <3>3, <3>4, <3>5 DEF LateInv
    <3> QED BY <1>7, <1>9, <1>12, <2>2, <3>1, <3>6
  <2>4. /\ HubOwes(t, Initiator(t))' <=> HubOwes(t, a)'
        /\ IsW(Side(r, Initiator(t)))' <=> IsW(Side(r, a))'
        /\ Draft(r, Initiator(t))' = Draft(r, a)' /\ HubDraft(t, Initiator(t))' = HubDraft(t, a)'
    BY <2>2 DEF HubOwes, Draft, HubDraft, Side
  <2> QED BY <1>6, <2>3, <2>4 DEF Trail
<1>13. ~OwesAny(r)'
  <2>1. \A u \in Users : Side(r, u)'.pc # "saving"
    BY <1>1, <1>5, WaitingIs
  <2>2. \A u \in Users : ~Owes(r, u)' /\ ~HubOwes(r, u)'
    BY <1>1, <2>1 DEF Owes, HubOwes, Owing
  <2> QED BY <2>2 DEF OwesAny
<1>14. HubStore'
  <2>1. \A u \in Users : HubOwes(r, u)' <=> HubOwes(r, u) BY <1>1 DEF HubOwes
  <2>2. HubStore BY DEF Books
  <2> QED BY <1>1, <1>3, <2>1, <2>2, HubStoreKept
<1>15. ~Late(r)' BY <1>1, EarlyNext
<1> QED
  BY <1>1, <1>2, <1>3, <1>11, <1>12, <1>13, <1>14, <1>15, ApartBooks

-----------------------------------------------------------------------------
(* Ingrid computes her two drafts.                                          *)

LEMMA HubComputedIs ==
  ASSUME NEW links, NEW next, \A u \in Users : KnownLink(links[u]), HubComputed(links, next)
  PROVE  /\ \A u \in Users :
              /\ next[u].ver = links[u].ver + 2
              /\ next[u].agr = links[u].agr =>
                   next[u].hub <= links[u].hub /\ next[u].user <= links[u].user
         /\ HubShort(links, 0) => \E k \in Nat : HubShort(next, k)
<1>1. CASE \E q \in Opening.ab.props, pass \in Nat : \A u \in Users :
             CanAgree(links[u], u, q) /\ next[u] = AddAgreement(links[u], u, q, pass)
  <2>1. PICK q \in Opening.ab.props, pass \in Nat : \A u \in Users :
          CanAgree(links[u], u, q) /\ next[u] = AddAgreement(links[u], u, q, pass)
    BY <1>1
  <2>2. ASSUME NEW u \in Users
        PROVE  next[u].ver = links[u].ver + 2 /\ next[u].hub <= links[u].hub
               /\ next[u].user <= links[u].user
    <3>1. PICK c, d : c = links[u] /\ d = next[u] OBVIOUS
    <3>2. KnownLink(c) /\ CanAgree(c, u, q) /\ d = AddAgreement(c, u, q, pass)
      BY <2>1, <2>2, <3>1
    <3>3. d.ver = c.ver + 2 /\ d.hub <= c.hub /\ d.user <= c.user
      BY <2>1, <2>2, <3>2, AddWorth
    <3> QED BY <3>1, <3>3
  <2>3. HubShort(links, 0) => \E k \in Nat : HubShort(next, k)
    BY <2>1, HubAdds
  <2> QED BY <2>2, <2>3
<1>2. CASE \E app : \E toAlice \in Nat : \A u \in Users :
             /\ app \in Active(links[u]) /\ toAlice <= CapitalOf[app]
             /\ next[u] = RemoveAgreement(links[u], u, app, toAlice)
  <2>1. PICK app : \E toAlice \in Nat : \A u \in Users :
          /\ app \in Active(links[u]) /\ toAlice <= CapitalOf[app]
          /\ next[u] = RemoveAgreement(links[u], u, app, toAlice)
    BY <1>2
  <2>2. PICK toAlice \in Nat : \A u \in Users :
          /\ app \in Active(links[u]) /\ toAlice <= CapitalOf[app]
          /\ next[u] = RemoveAgreement(links[u], u, app, toAlice)
    BY <2>1
  <2>3. ASSUME NEW u \in Users
        PROVE  next[u].ver = links[u].ver + 2 /\ next[u].agr # links[u].agr
    <3>1. PICK c, d : c = links[u] /\ d = next[u] OBVIOUS
    <3>2. /\ KnownLink(c) /\ app \in Active(c) /\ toAlice <= CapitalOf[app]
          /\ d = RemoveAgreement(c, u, app, toAlice)
      BY <2>2, <2>3, <3>1
    <3>3. d.ver = c.ver + 2 /\ d.agr # c.agr
      BY <2>2, <2>3, <3>2, RemoveWorth
    <3> QED BY <3>1, <3>3
  <2>4. HubShort(links, 0) => HubShort(next, 0)
    <3>1. Alice \in Users BY DEF Users
    <3>2. app \in Active(links[Alice]) /\ toAlice <= CapitalOf[app] BY <2>2, <3>1
    <3> QED BY <2>2, <3>2, HubRemoves
  <2> QED BY <2>3, <2>4
<1> QED BY <1>1, <1>2 DEF HubComputed

LEMMA HubComputesBooks ==
  ASSUME Base, IInv, Books, NEW r \in Runs, HubComputes(r)
  PROVE  Books'
<1>1. /\ Apart(r) /\ store' = store /\ run' = run /\ Early(r) /\ Early(r)'
      /\ Ini(r)' = Ini(r) /\ Rsp(r)' = Rsp(r) /\ Rsp(r).pc = "idle"
      /\ Med(r).pc = "idle" /\ Med(r)'.pc \in Waiting
      /\ HubComputed(store[Ingrid].link, Med(r)'.post.link)
  BY DEF HubComputes
<1>2. PICK a, b : a = Initiator(r) /\ b = Responder(r) OBVIOUS
<1>3. /\ a \in Users /\ b \in Users /\ a # b /\ \A u \in Users : u = a \/ u = b
      /\ Side(r, a) = Ini(r) /\ Side(r, b) = Rsp(r) /\ Initiator(r)' = a
  BY <1>1, <1>2, SideIs DEF Initiator
<1>4. Going(Ini(r)) /\ Ini(r).pc \in Waiting /\ Ini(r).pc # "saving" BY <1>1, EarlyIs
<1>5. \A s \in Runs : s # r => ~Going(Ini(s)) /\ ~Early(s) BY <1>4, OneLives
<1>6. \A q \in Parties : store'[q].link = store[q].link BY <1>1
<1>7. \A u \in Users : /\ Mine(u)' = Mine(u) /\ Hers(u)' = Hers(u)
                       /\ Side(r, u)' = Side(r, u) /\ Draft(r, u)' = Draft(r, u)
  BY <1>1, <1>6, LinksKept DEF Side, Draft
<1>8. \A t \in Runs : t # r => \A u \in Users :
        /\ Owes(t, u)' <=> Owes(t, u)
        /\ HubOwes(t, u)' <=> HubOwes(t, u)
        /\ HubDraft(t, u)' = HubDraft(t, u)
        /\ Draft(t, u)' = Draft(t, u)
  BY <1>1, ApartSide
<1>9. /\ ~IsW(Med(r)) /\ IsW(Med(r))' /\ IsW(Side(r, a)) /\ ~IsW(Side(r, b))
      /\ Side(r, b).pc = "idle"
  BY <1>1, <1>3, <1>4, WaitingIs DEF IsW
<1>10. /\ \A u \in Users : HubNextOn(r, u)'
       /\ HubShort(store[Ingrid].link, 0) => \E k \in Nat : HubShort(Med(r)'.post.link, k)
       /\ \A u \in Users : HubDraft(r, u)'.ver = Hers(u).ver + 2
  <2>1. PICK links, next : links = store[Ingrid].link /\ next = Med(r)'.post.link OBVIOUS
  <2>2. \A u \in Users : KnownLink(links[u])
    BY <2>1, Vers DEF Hers
  <2>3. HubComputed(links, next) BY <1>1, <2>1
  <2>4. \A u \in Users : /\ next[u].ver = links[u].ver + 2
                         /\ next[u].agr = links[u].agr =>
                              next[u].hub <= links[u].hub /\ next[u].user <= links[u].user
    BY <2>2, <2>3, HubComputedIs
  <2>5. HubShort(links, 0) => \E k \in Nat : HubShort(next, k)
    BY <2>2, <2>3, HubComputedIs
  <2>6. \A u \in Users : HubDraft(r, u)' = next[u] /\ Hers(u)' = links[u] /\ Hers(u) = links[u]
    BY <1>7, <2>1 DEF HubDraft, Hers
  <2>7. \A u \in Users : HubNextOn(r, u)' BY <2>4, <2>6 DEF HubNextOn
  <2> QED BY <2>1, <2>4, <2>5, <2>6, <2>7
<1>11. ASSUME NEW t \in Runs, t # r, NEW v \in Users, HubOwes(t, v) PROVE D1(r)'
  <2>1. PICK c : c = Initiator(t) OBVIOUS
  <2>2. ~Going(Ini(t)) BY <1>5, <1>11
  <2>3. HubOwes(t, c) BY <1>11, <2>1, <2>2, HubOrder
  <2>4. c \in Users /\ Side(t, c) = Ini(t) BY <2>1, SideIs
  <2>5. Late(t) /\ ~Still(t) BY <2>3, <2>4, OwesIs
  <2>6. LateInv(t) BY <2>5 DEF Books
  <2>7. Ini(t).pc = "returned" BY <2>2, <2>5, LateIs
  <2>8. ~Owes(t, c) BY <2>2, <2>4, OwesIs
  <2>9. Mine(c).ver = HubDraft(t, c).ver BY <2>1, <2>3, <2>6, <2>7, <2>8 DEF LateInv
  <2>10. HubDraft(t, c).ver = Hers(c).ver + 2
    BY <2>3, <2>4, <2>6 DEF LateInv, HubLate, HubNextOn
  <2>11. HubDraft(r, c)'.ver = HubDraft(t, c).ver BY <1>10, <2>4, <2>10
  <2>12. Mine(c).ver \in Nat BY <2>4, Vers
  <2>13. CASE c = a
    <3>1. Trail(t, r) BY <1>1, <1>11 DEF Books
    <3>2. Draft(r, c).ver > HubDraft(t, c).ver BY <1>9, <2>1, <2>3, <2>13, <3>1 DEF Trail
    <3>3. IsW(Side(r, c))' BY <1>7, <1>9, <2>4, <2>13 DEF IsW
    <3>4. Draft(r, c)'.ver > HubDraft(r, c)'.ver BY <1>7, <2>4, <2>11, <3>2
    <3>5. OlderHub(r, c)' BY <1>9, <3>3, <3>4 DEF OlderHub
    <3> QED BY <2>4, <3>5 DEF D1
  <2>14. CASE c = b
    <3>1. Side(r, c)'.pc = "idle" BY <1>7, <1>9, <2>4, <2>14
    <3>2. Mine(c)'.ver + 2 > HubDraft(r, c)'.ver BY <1>7, <2>4, <2>9, <2>11, <2>12
    <3>3. OlderHub(r, c)' BY <1>9, <3>1, <3>2 DEF OlderHub
    <3> QED BY <2>4, <3>3 DEF D1
  <2> QED BY <1>3, <2>4, <2>13, <2>14
<1>12. EarlyInv(r)'
  <2>1. EarlyInv(r) BY <1>1 DEF Books
  <2>2. Right(Initiator(r), Draft(r, Initiator(r)))'
    <3>1. Right(a, Draft(r, a)) BY <1>2, <2>1 DEF EarlyInv
    <3>2. Draft(r, Initiator(r))' = Draft(r, a)' BY <1>3 DEF Draft, Side
    <3> QED BY <1>3, <1>7, <3>1, <3>2 DEF Right
  <2>3. CASE \E t \in Runs, v \in Users : t # r /\ HubOwes(t, v)
    BY <1>11, <2>2, <2>3 DEF EarlyInv
  <2>4. CASE \A t \in Runs, v \in Users : t # r => ~HubOwes(t, v)
    <3>1. ~D1(r) BY <1>9 DEF D1, OlderHub
    <3>2. ~D3(r) BY <2>4 DEF D3, ToBeOlder
    <3>3. D2(r) => D2(r)'
      <4>1. ASSUME NEW u \in Users, OlderUser(r, u) PROVE OlderUser(r, u)'
        <5>1. IsW(Side(r, u)) /\ Hers(u).ver + 2 > Draft(r, u).ver
          BY <1>9, <4>1 DEF OlderUser
        <5>2. IsW(Side(r, u))' BY <1>7, <4>1, <5>1 DEF IsW
        <5>3. HubDraft(r, u)'.ver > Draft(r, u)'.ver BY <1>7, <1>10, <4>1, <5>1
        <5> QED BY <1>9, <5>2, <5>3 DEF OlderUser
      <4> QED BY <4>1 DEF D2
    <3>4. AllFresh(r) => AllFresh(r)'
      <4> HAVE AllFresh(r)
      <4>1. ASSUME NEW u \in Users, IsW(Side(r, u))' PROVE FreshUser(r, u)'
        <5>1. FreshUser(r, u) BY <1>7, <4>1 DEF AllFresh, IsW
        <5> QED BY <1>7, <1>8, <4>1, <5>1 DEF FreshUser, NobodyElse
      <4>2. FreshHub(r)'
        <5>1. NoHubElse(r)' BY <1>8, <2>4 DEF NoHubElse
        <5>2. HubShort(store[Ingrid].link, 0)
          <6>1. \A u \in Users : ~HubOwes(r, u) BY <1>1 DEF HubOwes, Owing
          <6>2. \A t \in Runs, u \in Users : ~HubOwes(t, u) BY <2>4, <6>1
          <6> QED BY <6>2 DEF Books, HubStore
        <5>3. PICK k \in Nat : HubShort(Med(r)'.post.link, k) BY <1>10, <5>2
        <5>4. HubShort(Med(r).post.link, k)' BY <5>3 DEF HubShort, HubWorth
        <5> QED BY <1>10, <5>1, <5>4 DEF FreshHub
      <4> QED BY <4>1, <4>2 DEF AllFresh
    <3> QED BY <2>1, <2>2, <3>1, <3>2, <3>3, <3>4 DEF EarlyInv
  <2> QED BY <2>3, <2>4
<1>13. ASSUME NEW t \in Runs, t # r PROVE Trail(t, r)'
  <2>1. PICK c, d : c = Initiator(t) /\ d = Responder(t) OBVIOUS
  <2>2. c \in Users /\ d \in Users /\ Initiator(t)' = c /\ Responder(t)' = d
    BY <1>1, <2>1, SideIs DEF Initiator, Responder
  <2>3. Trail(t, r) BY <1>1, <1>13 DEF Books
  <2>4. HubOwes(t, c)' /\ IsW(Side(r, c))' => Draft(r, c)'.ver > HubDraft(t, c)'.ver
    <3>1. IsW(Side(r, c))' <=> IsW(Side(r, c)) BY <1>7, <2>2 DEF IsW
    <3>2. HubOwes(t, c) /\ IsW(Side(r, c)) => Draft(r, c).ver > HubDraft(t, c).ver
      BY <2>1, <2>3 DEF Trail
    <3> QED BY <1>7, <1>8, <1>13, <2>2, <3>1, <3>2
  <2>5. HubOwes(t, c)' => D1(r)' BY <1>8, <1>11, <1>13, <2>2
  <2>6. Owes(t, d)' /\ ~HubOwes(t, d)' => HubDraft(r, d)'.ver > Draft(t, d)'.ver
    <3> HAVE Owes(t, d)' /\ ~HubOwes(t, d)'
    <3>1. Owes(t, d) /\ ~HubOwes(t, d) BY <1>8, <1>13, <2>2
    <3>2. Late(t) /\ ~Still(t) BY <2>2, <3>1, OwesIs
    <3>3. LateInv(t) BY <3>2 DEF Books
    <3>4. ~IsW(Med(t)) BY <1>5, <1>13, <3>2, LateIs
    <3>5. Hers(d).ver = Draft(t, d).ver BY <2>1, <3>1, <3>3, <3>4 DEF LateInv
    <3>6. Hers(d).ver \in Nat BY <2>2, Vers
    <3> QED BY <1>8, <1>10, <1>13, <2>2, <3>5, <3>6
  <2>7. /\ HubOwes(t, Initiator(t))' <=> HubOwes(t, c)'
        /\ HubOwes(t, Responder(t))' <=> HubOwes(t, d)'
        /\ Owes(t, Responder(t))' <=> Owes(t, d)'
        /\ IsW(Side(r, Initiator(t)))' <=> IsW(Side(r, c))'
        /\ Draft(r, Initiator(t))' = Draft(r, c)' /\ HubDraft(t, Initiator(t))' = HubDraft(t, c)'
        /\ HubDraft(r, Responder(t))' = HubDraft(r, d)' /\ Draft(t, Responder(t))' = Draft(t, d)'
    BY <2>2 DEF HubOwes, Owes, Draft, HubDraft, Side
  <2> QED BY <2>4, <2>5, <2>6, <2>7 DEF Trail
<1>14. /\ \A u \in Users : ~HubOwes(r, u) /\ ~HubOwes(r, u)' /\ ~Owes(r, u)'
       /\ ~OwesAny(r)'
  <2>1. \A u \in Users : ~HubOwes(r, u) /\ ~HubOwes(r, u)'
    BY <1>1, WaitingIs DEF HubOwes, Owing
  <2>2. \A u \in Users : Side(r, u)'.pc # "saving"
    <3>1. Side(r, a)'.pc # "saving" /\ Side(r, b)'.pc # "saving"
      BY <1>3, <1>4, <1>7, <1>9
    <3> QED BY <1>3, <3>1
  <2>3. \A u \in Users : ~Owes(r, u)' BY <2>2 DEF Owes, Owing
  <2> QED BY <2>1, <2>3 DEF OwesAny
<1>15. HubStore'
  <2>1. HubStore BY DEF Books
  <2> QED BY <1>1, <1>6, <1>14, <2>1, HubStoreKept
<1>16. ~Late(r)' BY <1>1, EarlyNext
<1> QED
  BY <1>1, <1>5, <1>6, <1>12, <1>13, <1>14, <1>15, <1>16, ApartBooks

-----------------------------------------------------------------------------
(* The responder computes its draft.                                        *)

LEMMA RspComputesBooks ==
  ASSUME Base, IInv, Books, NEW r \in Runs, RspComputes(r)
  PROVE  Books'
<1>2. PICK a, b : a = Initiator(r) /\ b = Responder(r) OBVIOUS
<1>1. /\ Apart(r) /\ store' = store /\ run' = run /\ Early(r) /\ Early(r)'
      /\ Ini(r)' = Ini(r) /\ Med(r)' = Med(r) /\ Med(r).pc \in Waiting
      /\ Rsp(r).pc = "idle" /\ Rsp(r)'.pc \in Waiting
      /\ Rsp(r)'.post.link[b].ver = Mine(b).ver + 2
  BY <1>2 DEF RspComputes, Mine
<1>3. /\ a \in Users /\ b \in Users /\ a # b /\ \A u \in Users : u = a \/ u = b
      /\ Side(r, a) = Ini(r) /\ Side(r, b) = Rsp(r) /\ Initiator(r)' = a
      /\ Side(r, a)' = Ini(r)' /\ Side(r, b)' = Rsp(r)'
  BY <1>1, <1>2, SideIs DEF Initiator, Side
<1>4. Going(Ini(r)) /\ Ini(r).pc \in Waiting /\ Ini(r).pc # "saving" BY <1>1, EarlyIs
<1>5. \A s \in Runs : s # r => ~Going(Ini(s)) /\ ~Early(s) BY <1>4, OneLives
<1>6. \A q \in Parties : store'[q].link = store[q].link BY <1>1
<1>7. /\ \A u \in Users : /\ Mine(u)' = Mine(u) /\ Hers(u)' = Hers(u)
                          /\ HubDraft(r, u)' = HubDraft(r, u)
      /\ Side(r, a)' = Side(r, a) /\ Draft(r, a)' = Draft(r, a)
  BY <1>1, <1>3, <1>6, LinksKept DEF Draft, HubDraft
<1>8. \A t \in Runs : t # r => \A u \in Users :
        /\ Owes(t, u)' <=> Owes(t, u)
        /\ HubOwes(t, u)' <=> HubOwes(t, u)
        /\ HubDraft(t, u)' = HubDraft(t, u)
        /\ Draft(t, u)' = Draft(t, u)
  BY <1>1, ApartSide
<1>9. /\ IsW(Med(r)) /\ IsW(Med(r))' /\ IsW(Side(r, a)) /\ IsW(Side(r, a))'
      /\ ~IsW(Side(r, b)) /\ IsW(Side(r, b))' /\ Side(r, b).pc = "idle"
      /\ Side(r, a).pc # "idle" /\ Med(r).pc # "idle"
  BY <1>1, <1>3, <1>4, WaitingIs DEF IsW
<1>10. Draft(r, b)'.ver = Mine(b).ver + 2 /\ Mine(b).ver \in Nat
  BY <1>1, <1>3, Vers DEF Draft
<1>11. D1(r) => D1(r)'
  <2> HAVE D1(r)
  <2>1. PICK u \in Users : OlderHub(r, u) BY DEF D1
  <2>2. CASE u = a
    <3>1. Draft(r, u).ver > HubDraft(r, u).ver BY <1>9, <2>1, <2>2 DEF OlderHub
    <3>2. Draft(r, u)'.ver > HubDraft(r, u)'.ver /\ IsW(Side(r, u))' BY <1>7, <1>9, <2>2, <3>1
    <3>3. OlderHub(r, u)' BY <1>9, <3>2 DEF OlderHub
    <3> QED BY <3>3 DEF D1
  <2>3. CASE u = b
    <3>1. Mine(u).ver + 2 > HubDraft(r, u).ver BY <1>9, <2>1, <2>3 DEF OlderHub
    <3>2. Draft(r, u)'.ver > HubDraft(r, u)'.ver /\ IsW(Side(r, u))' BY <1>7, <1>9, <1>10, <2>3, <3>1
    <3>3. OlderHub(r, u)' BY <1>9, <3>2 DEF OlderHub
    <3> QED BY <3>3 DEF D1
  <2> QED BY <1>3, <2>2, <2>3
<1>12. EarlyInv(r)'
  <2>1. EarlyInv(r) BY <1>1 DEF Books
  <2>2. Right(Initiator(r), Draft(r, Initiator(r)))'
    <3>1. Right(a, Draft(r, a)) BY <1>2, <2>1 DEF EarlyInv
    <3>2. Draft(r, Initiator(r))' = Draft(r, a)' BY <1>3 DEF Draft, Side
    <3> QED BY <1>3, <1>7, <3>1, <3>2 DEF Right
  <2>3. D2(r) => D2(r)'
    <3> HAVE D2(r)
    <3>1. PICK u \in Users : OlderUser(r, u) BY DEF D2
    <3>2. u = a BY <1>3, <1>9, <3>1 DEF OlderUser
    <3>3. HubDraft(r, u).ver > Draft(r, u).ver BY <1>9, <3>1 DEF OlderUser
    <3>4. HubDraft(r, u)'.ver > Draft(r, u)'.ver /\ IsW(Side(r, u))' BY <1>7, <1>9, <3>2, <3>3
    <3>5. OlderUser(r, u)' BY <1>9, <3>4 DEF OlderUser
    <3> QED BY <3>5 DEF D2
  <2>4. ~D3(r) BY <1>9 DEF D3, ToBeOlder
  <2>5. ASSUME AllFresh(r) PROVE AllFresh(r)' \/ D1(r)' \/ D2(r)'
    <3>1. FreshUser(r, a) /\ FreshHub(r) BY <1>3, <1>9, <2>5 DEF AllFresh
    <3>2. CASE \A t \in Runs : t # r => ~Owes(t, b)
      <4>1. FreshUser(r, a)' BY <1>3, <1>7, <1>8, <3>1 DEF FreshUser, NobodyElse
      <4>2. FreshUser(r, b)' BY <1>3, <1>7, <1>8, <1>10, <3>2 DEF FreshUser, NobodyElse
      <4>3. FreshHub(r)'
        BY <1>1, <1>7, <1>8, <3>1 DEF FreshHub, NoHubElse, HubNextOn, HubShort, HubWorth
      <4>4. \A u \in Users : FreshUser(r, u)'
        <5> TAKE u \in Users
        <5>1. CASE u = a BY <4>1, <5>1
        <5>2. CASE u = b BY <4>2, <5>2
        <5> QED BY <1>3, <5>1, <5>2
      <4> QED BY <4>3, <4>4 DEF AllFresh
    <3>3. ASSUME NEW t \in Runs, t # r, Owes(t, b) PROVE D1(r)' \/ D2(r)'
      <4>1. ~Going(Ini(t)) BY <1>5, <3>3
      <4>2. Late(t) /\ ~Still(t) /\ b = Responder(t) BY <1>3, <3>3, <4>1, OwesIs
      <4>3. ~HubOwes(t, b) BY <1>3, <3>1, <3>3 DEF FreshHub, NoHubElse
      <4>4. Trail(t, r) BY <1>1, <3>3 DEF Books
      <4>5. HubDraft(r, b).ver > Draft(t, b).ver \/ D1(r)
        BY <1>9, <3>3, <4>2, <4>3, <4>4 DEF Trail
      <4>6. LateInv(t) BY <4>2 DEF Books
      <4>7. Draft(t, b).ver = Mine(b).ver + 2 BY <1>3, <3>3, <4>6 DEF LateInv, UserLate
      <4>8. CASE HubDraft(r, b).ver > Draft(t, b).ver
        <5>1. HubDraft(r, b)'.ver > Draft(r, b)'.ver BY <1>3, <1>7, <1>10, <4>7, <4>8
        <5>2. OlderUser(r, b)' BY <1>9, <5>1 DEF OlderUser
        <5> QED BY <1>3, <5>2 DEF D2
      <4> QED BY <1>11, <4>5, <4>8
    <3> QED BY <3>2, <3>3
  <2> QED BY <1>11, <2>1, <2>2, <2>3, <2>4, <2>5 DEF EarlyInv
<1>13. ASSUME NEW t \in Runs, t # r PROVE Trail(t, r)'
  <2>1. PICK c, d : c = Initiator(t) /\ d = Responder(t) OBVIOUS
  <2>2. c \in Users /\ d \in Users /\ Initiator(t)' = c /\ Responder(t)' = d
        /\ Side(t, c) = Ini(t)
    BY <1>1, <2>1, SideIs DEF Initiator, Responder
  <2>3. Trail(t, r) BY <1>1, <1>13 DEF Books
  <2>4. HubOwes(t, c)' /\ IsW(Side(r, c))' => Draft(r, c)'.ver > HubDraft(t, c)'.ver
    <3> HAVE HubOwes(t, c)' /\ IsW(Side(r, c))'
    <3>1. HubOwes(t, c) BY <1>8, <1>13, <2>2
    <3>2. CASE c = a
      <4>1. Draft(r, c).ver > HubDraft(t, c).ver BY <1>9, <2>1, <2>3, <3>1, <3>2 DEF Trail
      <4> QED BY <1>7, <1>8, <1>13, <2>2, <3>2, <4>1
    <3>3. CASE c = b
      <4>1. ~Going(Ini(t)) BY <1>5, <1>13
      <4>2. Late(t) /\ ~Still(t) BY <2>2, <3>1, OwesIs
      <4>3. LateInv(t) BY <4>2 DEF Books
      <4>4. Ini(t).pc = "returned" BY <4>1, <4>2, LateIs
      <4>5. ~Owes(t, c) BY <2>2, <4>1, OwesIs
      <4>6. Mine(c).ver = HubDraft(t, c).ver BY <2>1, <3>1, <4>3, <4>4, <4>5 DEF LateInv
      <4> QED BY <1>8, <1>10, <1>13, <2>2, <3>3, <4>6
    <3> QED BY <1>3, <2>2, <3>2, <3>3
  <2>5. HubOwes(t, c)' => D1(r)'
    <3>1. HubOwes(t, c) => D1(r) BY <1>9, <2>1, <2>3 DEF Trail
    <3> QED BY <1>8, <1>11, <1>13, <2>2, <3>1
  <2>6. Owes(t, d)' /\ ~HubOwes(t, d)' => HubDraft(r, d)'.ver > Draft(t, d)'.ver \/ D1(r)'
    <3>1. Owes(t, d) /\ ~HubOwes(t, d) => HubDraft(r, d).ver > Draft(t, d).ver \/ D1(r)
      BY <1>9, <2>1, <2>3 DEF Trail
    <3> QED BY <1>7, <1>8, <1>11, <1>13, <2>2, <3>1
  <2>7. /\ HubOwes(t, Initiator(t))' <=> HubOwes(t, c)'
        /\ HubOwes(t, Responder(t))' <=> HubOwes(t, d)'
        /\ Owes(t, Responder(t))' <=> Owes(t, d)'
        /\ IsW(Side(r, Initiator(t)))' <=> IsW(Side(r, c))'
        /\ Draft(r, Initiator(t))' = Draft(r, c)' /\ HubDraft(t, Initiator(t))' = HubDraft(t, c)'
        /\ HubDraft(r, Responder(t))' = HubDraft(r, d)' /\ Draft(t, Responder(t))' = Draft(t, d)'
    BY <2>2 DEF HubOwes, Owes, Draft, HubDraft, Side
  <2> QED BY <2>4, <2>5, <2>6, <2>7 DEF Trail
<1>14. /\ \A u \in Users : ~HubOwes(r, u) /\ ~HubOwes(r, u)' /\ ~Owes(r, u)'
       /\ ~OwesAny(r)'
  <2>1. \A u \in Users : ~HubOwes(r, u) /\ ~HubOwes(r, u)'
    BY <1>1, WaitingIs DEF HubOwes, Owing
  <2>2. \A u \in Users : Side(r, u)'.pc # "saving"
    <3>1. Side(r, a)'.pc # "saving" /\ Side(r, b)'.pc # "saving"
      BY <1>1, <1>3, <1>4, WaitingIs
    <3> QED BY <1>3, <3>1
  <2>3. \A u \in Users : ~Owes(r, u)' BY <2>2 DEF Owes, Owing
  <2> QED BY <2>1, <2>3 DEF OwesAny
<1>15. HubStore'
  <2>1. HubStore BY DEF Books
  <2> QED BY <1>1, <1>6, <1>14, <2>1, HubStoreKept
<1>16. ~Late(r)' BY <1>1, EarlyNext
<1> QED
  BY <1>1, <1>5, <1>6, <1>12, <1>13, <1>14, <1>15, <1>16, ApartBooks

-----------------------------------------------------------------------------
(* The responder commits the three of them.                                 *)

LEMMA RspCommitsBooks ==
  ASSUME Base, IInv, Books, NEW r \in Runs, RspCommits(r)
  PROVE  Books'
<1>2. PICK a, b : a = Initiator(r) /\ b = Responder(r) OBVIOUS
<1>1. /\ Apart(r) /\ store' = store /\ run' = run /\ Early(r) /\ Late(r)'
      /\ Ini(r)' = Ini(r) /\ Ini(r).pc \in Waiting
      /\ Med(r)' = Med(r) /\ Med(r).pc \in Waiting
      /\ Rsp(r).pc \in Waiting /\ Rsp(r)'.pc = "saving" /\ Rsp(r)'.post = Rsp(r).post
      /\ Agree(a, Ini(r), Med(r)) /\ Agree(b, Rsp(r), Med(r))
  BY <1>2 DEF RspCommits
<1>3. /\ a \in Users /\ b \in Users /\ a # b /\ \A u \in Users : u = a \/ u = b
      /\ Side(r, a) = Ini(r) /\ Side(r, b) = Rsp(r)
      /\ Initiator(r)' = a /\ Responder(r)' = b
      /\ Side(r, a)' = Ini(r) /\ Side(r, b)' = Rsp(r)'
  BY <1>1, <1>2, SideIs DEF Initiator, Responder, Side
<1>4. Going(Ini(r)) /\ Going(Med(r)) /\ Going(Rsp(r)) BY <1>1, WaitingIs
<1>5. \A s \in Runs : s # r => ~Going(Ini(s)) /\ ~Early(s) BY <1>4, OneLives
<1>6. \A q \in Parties : store'[q].link = store[q].link BY <1>1
<1>7. \A u \in Users : /\ Mine(u)' = Mine(u) /\ Hers(u)' = Hers(u)
                       /\ HubDraft(r, u)' = HubDraft(r, u)
                       /\ Draft(r, u)' = Draft(r, u)
  <2>1. \A u \in Users : Mine(u)' = Mine(u) /\ Hers(u)' = Hers(u) BY <1>6, LinksKept
  <2>2. \A u \in Users : Side(r, u)'.post = Side(r, u).post
    <3>1. Side(r, a)'.post = Side(r, a).post /\ Side(r, b)'.post = Side(r, b).post BY <1>1, <1>3
    <3> QED BY <1>3, <3>1
  <2> QED BY <1>1, <2>1, <2>2 DEF Draft, HubDraft
<1>8. \A t \in Runs : t # r => \A u \in Users :
        /\ Owes(t, u)' <=> Owes(t, u)
        /\ HubOwes(t, u)' <=> HubOwes(t, u)
  BY <1>1, ApartSide
<1>9. /\ IsW(Med(r)) /\ IsW(Side(r, a)) /\ IsW(Side(r, b))
      /\ Side(r, a).pc # "idle" /\ Side(r, b).pc # "idle" /\ Med(r).pc # "idle"
  BY <1>1, <1>3, WaitingIs DEF IsW
<1>10. \A u \in Users : /\ LinkWorth(Draft(r, u)) = LinkWorth(HubDraft(r, u))
                        /\ Draft(r, u).ver = HubDraft(r, u).ver
                        /\ HubDraft(r, u).ver \in Nat
  <2> TAKE u \in Users
  <2>1. SetFreeBalance(u, Draft(r, u)) = SetFreeBalance(u, HubDraft(r, u))
    <3>1. CASE u = a BY <1>1, <1>3, <3>1 DEF Agree, Draft, HubDraft
    <3>2. CASE u = b BY <1>1, <1>3, <3>2 DEF Agree, Draft, HubDraft
    <3> QED BY <1>3, <3>1, <3>2
  <2>2. PICK c, d : c = Draft(r, u) /\ d = HubDraft(r, u) OBVIOUS
  <2>3. KnownLink(c) /\ KnownLink(d) /\ d.ver \in Nat BY <2>2, Vers
  <2>4. LinkWorth(c) = LinkWorth(d) /\ c.ver = d.ver BY <2>1, <2>2, <2>3, SameWorth
  <2> QED BY <2>2, <2>3, <2>4
<1>11. EarlyInv(r) BY <1>1 DEF Books
<1>12. AllFresh(r)
  <2>1. \A u \in Users : IsW(Side(r, u)) /\ Side(r, u).pc # "idle"
    <3> TAKE u \in Users
    <3>1. CASE u = a BY <1>9, <3>1
    <3>2. CASE u = b BY <1>9, <3>2
    <3> QED BY <1>3, <3>1, <3>2
  <2>2. ~D1(r)
    <3> SUFFICES ASSUME NEW u \in Users, OlderHub(r, u) PROVE FALSE BY DEF D1
    <3>1. Draft(r, u).ver > HubDraft(r, u).ver BY <2>1 DEF OlderHub
    <3> QED BY <1>10, <3>1
  <2>3. ~D2(r)
    <3> SUFFICES ASSUME NEW u \in Users, OlderUser(r, u) PROVE FALSE BY DEF D2
    <3>1. HubDraft(r, u).ver > Draft(r, u).ver BY <1>9 DEF OlderUser
    <3> QED BY <1>10, <3>1
  <2>4. ~D3(r) BY <1>9 DEF D3, ToBeOlder
  <2> QED BY <1>11, <2>2, <2>3, <2>4 DEF EarlyInv
<1>13. FreshUser(r, a) /\ FreshUser(r, b) /\ FreshHub(r)
  BY <1>3, <1>9, <1>12 DEF AllFresh
<1>14. /\ HubShort(Med(r).post.link, 0)
       /\ \A u \in Users : Right(u, Draft(r, u))
  <2>1. PICK k \in Nat : HubShort(Med(r).post.link, k) BY <1>13 DEF FreshHub
  <2>2. \A u \in Users : LinkWorth(HubDraft(r, u)) + k = LinkWorth(Opening.link[u])
    BY <2>1 DEF HubShort, HubDraft
  <2>3. LinkWorth(Draft(r, a)) = LinkWorth(Opening.link[a])
    BY <1>2, <1>11 DEF EarlyInv, Right
  <2>4. \A u \in Users : LinkWorth(HubDraft(r, u)) \in Nat BY Vers, WorthTypes
  <2>5. k = 0
    <3>1. PICK x, y : x = LinkWorth(HubDraft(r, a)) /\ y = LinkWorth(Opening.link[a]) OBVIOUS
    <3>2. x \in Nat /\ x = y /\ x + k = y BY <1>3, <1>10, <2>2, <2>3, <2>4, <3>1
    <3> QED BY <3>2
  <2>6. \A u \in Users : Right(u, Draft(r, u))
    <3> TAKE u \in Users
    <3>1. PICK x, y : x = LinkWorth(HubDraft(r, u)) /\ y = LinkWorth(Opening.link[u]) OBVIOUS
    <3>2. x \in Nat /\ x + 0 = y BY <2>2, <2>4, <2>5, <3>1
    <3>3. x = y BY <3>2
    <3> QED BY <1>10, <3>1, <3>3 DEF Right
  <2> QED BY <2>1, <2>5, <2>6
<1>15. \A s \in Runs : s # r => ~OwesAny(s)
  <2> TAKE s \in Runs
  <2> HAVE s # r
  <2>1. \A u \in Users : ~Owes(s, u) /\ ~HubOwes(s, u)
    <3> TAKE u \in Users
    <3>1. CASE u = a BY <1>13, <3>1 DEF FreshUser, NobodyElse, FreshHub, NoHubElse
    <3>2. CASE u = b BY <1>13, <3>2 DEF FreshUser, NobodyElse, FreshHub, NoHubElse
    <3> QED BY <1>3, <3>1, <3>2
  <2> QED BY <2>1 DEF OwesAny
<1>16. LateInv(r)'
  <2>1. \A u \in Users : UserLate(r, u)'
    <3> TAKE u \in Users
    <3>1. Draft(r, u).ver = Mine(u).ver + 2
      <4>1. CASE u = a BY <1>13, <4>1 DEF FreshUser
      <4>2. CASE u = b BY <1>13, <4>2 DEF FreshUser
      <4> QED BY <1>3, <4>1, <4>2
    <3> QED BY <1>7, <1>14, <3>1 DEF UserLate, Right
  <2>2. \A u \in Users : HubLate(r, u)'
    BY <1>7, <1>13 DEF FreshHub, HubLate, HubNextOn
  <2>3. HubShort(Med(r).post.link, 0)' BY <1>1, <1>14 DEF HubShort, HubWorth
  <2>4. IniAgrees(r)' /\ RspAgrees(r)'
    <3>1. SetFreeBalance(a, Ini(r).post.link[a]) = SetFreeBalance(a, Med(r).post.link[a])
      BY <1>1 DEF Agree
    <3>2. SetFreeBalance(b, Rsp(r).post.link[b]) = SetFreeBalance(b, Med(r).post.link[b])
      BY <1>1 DEF Agree
    <3> QED BY <1>1, <1>3, <3>1, <3>2 DEF IniAgrees, RspAgrees, Agree
  <2>5. Ini(r)'.pc \notin {"saving", "returned"} /\ IsW(Med(r))' BY <1>1, WaitingIs DEF IsW
  <2>6. Alone(r)'
    <3>1. \A t \in Runs : t # r => ~OwesAny(t)' BY <1>1, <1>15, ApartOwes
    <3> QED BY <3>1 DEF Alone
  <2> QED BY <2>1, <2>2, <2>3, <2>4, <2>5, <2>6 DEF LateInv
<1>17. HubStore'
  <2>1. HubStore /\ \A u \in Users : HubOwes(r, u)' <=> HubOwes(r, u) BY <1>1 DEF Books, HubOwes
  <2> QED BY <1>1, <1>6, <2>1, HubStoreKept
<1>18. ~Early(r)' BY <1>1, EarlyNext
<1> QED BY <1>1, <1>5, <1>6, <1>15, <1>16, <1>17, <1>18, ApartBooks

-----------------------------------------------------------------------------
(* Ingrid or the initiator begins to persist.                               *)

LEMMA BeginsBooks ==
  ASSUME Base, IInv, Books, NEW r \in Runs, NEW role \in Roles, Begins(r, role)
  PROVE  Books'
<1>2. PICK a, b : a = Initiator(r) /\ b = Responder(r) OBVIOUS
<1>1. /\ Apart(r) /\ store' = store /\ run' = run /\ Late(r) /\ ~Still(r) /\ Late(r)'
      /\ role = "initiator" \/ role = "intermediary"
      /\ Rsp(r)' = Rsp(r)
      /\ role = "initiator" => /\ Med(r)' = Med(r)
                               /\ Ini(r).pc \in Waiting /\ Ini(r)'.pc = "saving"
                               /\ Ini(r)'.post = Ini(r).post /\ Owing(Ini(r)', a)
      /\ role = "intermediary" => /\ Ini(r)' = Ini(r) /\ Ini(r).pc \in Waiting
                                  /\ Med(r).pc \in Waiting /\ Med(r)'.pc = "saving"
                                  /\ Med(r)'.post = Med(r).post
                                  /\ \A u \in Users : Owing(Med(r)', u)
  BY <1>2 DEF Begins, Ini, Med, Rsp, Roles
<1>3. /\ a \in Users /\ b \in Users /\ a # b /\ \A u \in Users : u = a \/ u = b
      /\ Side(r, a) = Ini(r) /\ Side(r, b) = Rsp(r)
      /\ Initiator(r)' = a /\ Responder(r)' = b
      /\ Side(r, a)' = Ini(r)' /\ Side(r, b)' = Rsp(r)
  BY <1>1, <1>2, SideIs DEF Initiator, Responder, Side
<1>4. Going(Ini(r)) /\ Ini(r).pc \in Waiting BY <1>1, WaitingIs
<1>5. \A s \in Runs : s # r => ~Going(Ini(s)) /\ ~Early(s) BY <1>4, OneLives
<1>6. \A q \in Parties : store'[q].link = store[q].link BY <1>1
<1>7. /\ Ini(r)'.post = Ini(r).post /\ Med(r)'.post = Med(r).post
      /\ \A u \in Users : /\ Mine(u)' = Mine(u) /\ Hers(u)' = Hers(u)
                          /\ HubDraft(r, u)' = HubDraft(r, u)
                          /\ Draft(r, u)' = Draft(r, u)
  <2>1. \A u \in Users : Mine(u)' = Mine(u) /\ Hers(u)' = Hers(u) BY <1>6, LinksKept
  <2>2. Ini(r)'.post = Ini(r).post /\ Med(r)'.post = Med(r).post BY <1>1
  <2>3. \A u \in Users : Side(r, u)'.post = Side(r, u).post
    <3>1. Side(r, a)'.post = Side(r, a).post /\ Side(r, b)'.post = Side(r, b).post
      BY <1>3, <2>2
    <3> QED BY <1>3, <3>1
  <2> QED BY <2>1, <2>2, <2>3 DEF Draft, HubDraft
<1>8. LateInv(r) BY <1>1 DEF Books
<1>9. \A s \in Runs : s # r => ~OwesAny(s) BY <1>4, <1>8 DEF LateInv, Alone
<1>10. /\ IsW(Side(r, a)) /\ \A u \in Users : IsW(Side(r, u))' => IsW(Side(r, u))
       /\ \A u \in Users : Owes(r, u)' => Owes(r, u) \/ IsW(Side(r, u))
       /\ Owes(r, b)' <=> Owes(r, b)
  <2>1. IsW(Side(r, a)) BY <1>3, <1>4 DEF IsW
  <2>2. IsW(Side(r, b))' <=> IsW(Side(r, b)) BY <1>3 DEF IsW
  <2>3. Owes(r, b)' <=> Owes(r, b) BY <1>3 DEF Owes, Owing
  <2>4. ASSUME NEW u \in Users
        PROVE  /\ IsW(Side(r, u))' => IsW(Side(r, u))
               /\ Owes(r, u)' => Owes(r, u) \/ IsW(Side(r, u))
    <3>1. CASE u = a BY <2>1, <3>1
    <3>2. CASE u = b BY <2>2, <2>3, <3>2
    <3> QED BY <1>3, <2>4, <3>1, <3>2
  <2> QED BY <2>1, <2>3, <2>4
<1>11. /\ role = "initiator" => /\ \A u \in Users : HubOwes(r, u)' <=> HubOwes(r, u)
                                /\ IsW(Med(r))' <=> IsW(Med(r))
                                /\ Going(Med(r))' <=> Going(Med(r))
       /\ role = "intermediary" => /\ IsW(Med(r)) /\ ~IsW(Med(r))' /\ Going(Med(r))
                                   /\ \A u \in Users : HubOwes(r, u)' /\ ~HubOwes(r, u)
  BY <1>1, WaitingIs DEF HubOwes, IsW, Going, Owing
<1>12. LateInv(r)'
  <2>1. \A u \in Users : UserLate(r, u)' BY <1>7, <1>8, <1>10 DEF LateInv, UserLate, Right
  <2>2. \A u \in Users : HubLate(r, u)'
    BY <1>1, <1>7, <1>8, <1>11 DEF LateInv, HubLate, HubNextOn
  <2>3. Going(Med(r))' => HubShort(Med(r).post.link, 0)'
    <3>1. Going(Med(r))' => Going(Med(r)) BY <1>1, <1>11
    <3> QED BY <1>7, <1>8, <3>1 DEF LateInv, HubShort, HubWorth
  <2>4. Going(Med(r))' => IniAgrees(r)'
    <3> HAVE Going(Med(r))'
    <3>1. IniAgrees(r) BY <1>1, <1>4, <1>8, <1>11 DEF LateInv
    <3> QED BY <1>2, <1>3, <1>7, <3>1 DEF IniAgrees, Agree
  <2>5. Going(Rsp(r))' /\ Going(Med(r))' => RspAgrees(r)'
    <3> HAVE Going(Rsp(r))' /\ Going(Med(r))'
    <3>1. RspAgrees(r) BY <1>1, <1>8, <1>11 DEF LateInv, Going
    <3> QED BY <1>1, <1>2, <1>3, <1>7, <3>1 DEF RspAgrees, Agree
  <2>6. ~(Ini(r)'.pc \in {"saving", "returned"} /\ ~Owes(r, Initiator(r))')
    <3>1. CASE role = "initiator"
      <4>1. Owes(r, Initiator(r))' <=> Owing(Ini(r)', a) BY <1>3 DEF Owes, Side
      <4> QED BY <1>1, <3>1, <4>1
    <3>2. CASE role = "intermediary" BY <1>1, <3>2, WaitingIs
    <3> QED BY <1>1, <3>1, <3>2
  <2>7. Owes(r, Responder(r))' /\ ~IsW(Med(r))' /\ ~HubOwes(r, Responder(r))'
          => Hers(Responder(r))'.ver = Draft(r, Responder(r))'.ver
    <3>1. /\ Owes(r, Responder(r))' <=> Owes(r, b)' /\ Hers(Responder(r))' = Hers(b)'
          /\ HubOwes(r, Responder(r))' <=> HubOwes(r, b)'
          /\ Draft(r, Responder(r))' = Draft(r, b)'
      BY <1>3 DEF Owes, HubOwes, Hers, Draft, Side
    <3>2. Owes(r, b) /\ ~IsW(Med(r)) /\ ~HubOwes(r, b) => Hers(b).ver = Draft(r, b).ver
      BY <1>2, <1>8 DEF LateInv
    <3> QED BY <1>1, <1>3, <1>7, <1>10, <1>11, <3>1, <3>2
  <2>8. Alone(r)'
    <3>1. \A t \in Runs : t # r => ~OwesAny(t)' BY <1>1, <1>9, ApartOwes
    <3> QED BY <3>1 DEF Alone
  <2> QED BY <2>1, <2>2, <2>3, <2>4, <2>5, <2>6, <2>7, <2>8 DEF LateInv
<1>13. HubStore'
  <2>1. CASE role = "initiator"
    <3>1. HubStore BY DEF Books
    <3> QED BY <1>1, <1>6, <1>7, <1>11, <2>1, <3>1, HubStoreKept
  <2>2. CASE role = "intermediary"
    <3>1. \A t \in Runs, u \in Users : ~HubOwes(t, u)
      BY <1>9, <1>11, <2>2 DEF OwesAny
    <3>2. HubShort(store[Ingrid].link, 0) BY <3>1 DEF Books, HubStore
    <3>3. HubShort(store[Ingrid].link, 0)' BY <1>6, <3>2, LinksKept
    <3>4. \A t \in Runs : HubOwes(t, Alice)' <=> HubOwes(t, Bob)'
      <4> TAKE t \in Runs
      <4>1. Alice \in Users /\ Bob \in Users BY DEF Users
      <4>2. CASE t = r BY <1>11, <2>2, <4>1, <4>2
      <4>3. CASE t # r BY <1>1, <3>1, <4>1, <4>3, ApartSide
      <4> QED BY <4>2, <4>3
    <3> QED BY <3>3, <3>4 DEF HubStore
  <2> QED BY <1>1, <2>1, <2>2
<1>14. ~Early(r)' BY <1>1, EarlyNext
<1> QED BY <1>1, <1>5, <1>6, <1>9, <1>12, <1>13, <1>14, ApartBooks

-----------------------------------------------------------------------------
(* A half writes a link.                                                    *)

\* The user u, or Ingrid, writes its link in run r.
Writes(r) ==
  /\ run' = run /\ Apart(r) /\ Late(r) /\ Late(r)' /\ ~Still(r) /\ OwesAny(r)
  /\ \A role \in Roles : /\ half'[r][role].pc = half[r][role].pc
                         /\ half'[r][role].post = half[r][role].post

UserWrites(r, u) ==
  /\ Writes(r) /\ u \in Users
  /\ Owes(r, u) /\ Side(r, u).pc = "saving"
  /\ \A v \in Users : (Owes(r, v)' <=> Owes(r, v) /\ v # u) /\ (HubOwes(r, v)' <=> HubOwes(r, v))
  /\ Mine(u)' = Draft(r, u)
  /\ \A v \in Users : (v # u => Mine(v)' = Mine(v)) /\ Hers(v)' = Hers(v)

HubWrites(r, u) ==
  /\ Writes(r) /\ u \in Users
  /\ HubOwes(r, u) /\ Med(r).pc = "saving"
  /\ \A v \in Users : (HubOwes(r, v)' <=> HubOwes(r, v) /\ v # u) /\ (Owes(r, v)' <=> Owes(r, v))
  /\ Hers(u)' = HubDraft(r, u)
  /\ \A v \in Users : (v # u => Hers(v)' = Hers(v)) /\ Mine(v)' = Mine(v)

LEMMA SavesIs ==
  ASSUME Base, IInv, NEW r \in Runs, NEW role \in Roles, NEW u \in Users, SavesLink(r, role, u)
  PROVE  UserWrites(r, u) \/ HubWrites(r, u)
<1>1. PICK p, h, k : p = PartyOf(r, role) /\ h = half[r][role] /\ k = half'[r][role] OBVIOUS
<1>2. /\ Apart(r) /\ run' = run /\ Late(r) /\ Late(r)' /\ ~Still(r)
      /\ \A x \in Roles : x # role => half'[r][x] = half[r][x]
      /\ k.pc = "saving" /\ k.post = h.post /\ h.pc = "saving"
      /\ Owing(h, u) /\ \A v \in Users : Owing(k, v) <=> Owing(h, v) /\ v # u
      /\ store'[p].link[u] = h.post.link[u]
      /\ \A q \in Parties, v \in Users : q # p \/ v # u => store'[q].link[v] = store[q].link[v]
  BY <1>1 DEF SavesLink
<1>3. \A x \in Roles : half'[r][x].pc = half[r][x].pc /\ half'[r][x].post = half[r][x].post
  BY <1>1, <1>2
<1>4. PICK a, b : a = Initiator(r) /\ b = Responder(r) OBVIOUS
<1>5. /\ a \in Users /\ b \in Users /\ a # b /\ \A v \in Users : v = a \/ v = b
      /\ Side(r, a) = Ini(r) /\ Side(r, b) = Rsp(r)
      /\ Side(r, a)' = Ini(r)' /\ Side(r, b)' = Rsp(r)'
  <2>1. /\ a \in Users /\ b \in Users /\ a # b /\ \A v \in Users : v = a \/ v = b
        /\ Side(r, a) = Ini(r) /\ Side(r, b) = Rsp(r)
    BY <1>4, SideIs
  <2>2. run'[r].by = a BY <1>2, <1>4, PartyIs
  <2>3. Side(r, a)' = Ini(r)' /\ Side(r, b)' = Rsp(r)' BY <2>1, <2>2 DEF Side
  <2> QED BY <2>1, <2>3
<1>6. /\ PartyOf(r, "initiator") = a /\ PartyOf(r, "intermediary") = Ingrid
      /\ PartyOf(r, "responder") = b
  BY <1>4, PartyIs
<1>7. In(h.left, u) /\ LeftOf(run[r], role, h.left)
  BY <1>1, <1>2, LateLeft DEF Owing, In
<1>8. (role = "initiator" => u = a) /\ (role = "responder" => u = b)
  <2>1. run[r].by = a /\ Other(run[r].by) = b /\ run[r].by \in Users BY <1>4, PartyIs
  <2> QED BY <1>7, <2>1, LeftMoves
<1>9. CASE role = "intermediary"
  <2>1. h = Med(r) /\ k = Med(r)' /\ p = Ingrid BY <1>1, <1>6, <1>9 DEF Med
  <2>2. Ini(r)' = Ini(r) /\ Rsp(r)' = Rsp(r) BY <1>2, <1>9 DEF Ini, Rsp, Roles
  <2>3. \A v \in Users : HubOwes(r, v) <=> Owing(h, v) BY <2>1 DEF HubOwes
  <2>4. \A v \in Users : HubOwes(r, v)' <=> Owing(k, v) BY <2>1 DEF HubOwes
  <2>5. \A v \in Users : Owes(r, v)' <=> Owes(r, v)
    <3>1. \A v \in Users : Side(r, v)' = Side(r, v)
      BY <1>5, <2>2
    <3> QED BY <3>1 DEF Owes
  <2>6. Hers(u)' = HubDraft(r, u) BY <1>2, <2>1 DEF Hers, HubDraft
  <2>7. \A v \in Users : (v # u => Hers(v)' = Hers(v)) /\ Mine(v)' = Mine(v)
    BY <1>2, <2>1, OtherIs DEF Hers, Mine
  <2>8. OwesAny(r) BY <1>2, <2>3 DEF OwesAny
  <2>9. Writes(r) BY <1>2, <1>3, <2>8 DEF Writes
  <2>10. HubOwes(r, u) /\ Med(r).pc = "saving" BY <1>2, <2>1, <2>3
  <2>11. \A v \in Users : (HubOwes(r, v)' <=> HubOwes(r, v) /\ v # u)
    BY <1>2, <2>3, <2>4
  <2> QED BY <2>5, <2>6, <2>7, <2>9, <2>10, <2>11 DEF HubWrites
<1>10. CASE role # "intermediary"
  <2>1. role = "initiator" \/ role = "responder" BY <1>10 DEF Roles
  <2>2. p = u BY <1>1, <1>6, <1>8, <2>1
  <2>3. h = Side(r, u) /\ k = Side(r, u)' BY <1>1, <1>5, <1>8, <2>1 DEF Ini, Rsp
  <2>4. Med(r)' = Med(r) BY <1>2, <1>10 DEF Med, Roles
  <2>5. \A v \in Users : v # u => Side(r, v)' = Side(r, v)
    <3>1. CASE role = "initiator"
      <4>1. Rsp(r)' = Rsp(r) BY <1>2, <3>1 DEF Rsp, Roles
      <4> QED BY <1>5, <1>8, <3>1, <4>1
    <3>2. CASE role = "responder"
      <4>1. Ini(r)' = Ini(r) BY <1>2, <3>2 DEF Ini, Roles
      <4> QED BY <1>5, <1>8, <3>2, <4>1
    <3> QED BY <2>1, <3>1, <3>2
  <2>6. Owes(r, u) <=> Owing(h, u) BY <2>3 DEF Owes
  <2>7. Owes(r, u)' <=> Owing(k, u) BY <2>3 DEF Owes
  <2>8. \A v \in Users : v # u => (Owes(r, v)' <=> Owes(r, v)) BY <2>5 DEF Owes
  <2>9. \A v \in Users : HubOwes(r, v)' <=> HubOwes(r, v) BY <2>4 DEF HubOwes
  <2>10. Mine(u)' = Draft(r, u) BY <1>2, <2>2, <2>3 DEF Mine, Draft
  <2>11. \A v \in Users : (v # u => Mine(v)' = Mine(v)) /\ Hers(v)' = Hers(v)
    BY <1>2, <2>2, OtherIs DEF Hers, Mine
  <2>12. OwesAny(r) BY <1>2, <2>6 DEF OwesAny
  <2>13. Writes(r) BY <1>2, <1>3, <2>12 DEF Writes
  <2>14. Owes(r, u) /\ Side(r, u).pc = "saving" BY <1>2, <2>3, <2>6
  <2>15. \A v \in Users : Owes(r, v)' <=> Owes(r, v) /\ v # u
    <3> TAKE v \in Users
    <3>1. CASE v = u BY <1>2, <2>7, <3>1
    <3>2. CASE v # u BY <2>8, <3>2
    <3> QED BY <3>1, <3>2
  <2> QED BY <2>9, <2>10, <2>11, <2>13, <2>14, <2>15 DEF UserWrites
<1> QED BY <1>9, <1>10

\* What the halves keep when one of them writes.
LEMMA WritesKeep ==
  ASSUME Base, IInv, Books, NEW r \in Runs, Writes(r)
  PROVE  /\ LateInv(r) /\ \A s \in Runs : s # r => ~OwesAny(s) /\ ~OwesAny(s)'
         /\ \A u \in Users : /\ Draft(r, u)' = Draft(r, u) /\ HubDraft(r, u)' = HubDraft(r, u)
                             /\ IsW(Side(r, u))' <=> IsW(Side(r, u))
         /\ IsW(Med(r))' <=> IsW(Med(r))
         /\ Going(Ini(r))' <=> Going(Ini(r))
         /\ Going(Med(r))' <=> Going(Med(r))
         /\ Going(Rsp(r))' <=> Going(Rsp(r))
         /\ Ini(r)'.pc = Ini(r).pc
         /\ Ini(r)'.post = Ini(r).post /\ Med(r)'.post = Med(r).post /\ Rsp(r)'.post = Rsp(r).post
<1>1. LateInv(r) /\ Alone(r) BY DEF Writes, Books, LateInv
<1>2. \A s \in Runs : s # r => ~OwesAny(s) /\ ~OwesAny(s)'
  BY <1>1, ApartOwes DEF Writes, Alone
<1>3. /\ Ini(r)'.pc = Ini(r).pc /\ Med(r)'.pc = Med(r).pc /\ Rsp(r)'.pc = Rsp(r).pc
      /\ Ini(r)'.post = Ini(r).post /\ Med(r)'.post = Med(r).post /\ Rsp(r)'.post = Rsp(r).post
  BY DEF Writes, Ini, Med, Rsp, Roles
<1>4. \A u \in Users : Side(r, u)'.pc = Side(r, u).pc /\ Side(r, u)'.post = Side(r, u).post
  BY <1>3 DEF Writes, Side
<1> QED BY <1>1, <1>2, <1>3, <1>4 DEF IsW, Going, Draft, HubDraft

\* Runs that succeeded and have nothing to write do not mind what another writes.
LEMMA WritesLate ==
  ASSUME Base, IInv, Books, NEW r \in Runs, Writes(r), NEW s \in Runs, s # r, Late(s)', ~Still(s)'
  PROVE  LateInv(s)'
<1>1. Late(s) /\ ~Still(s) BY Frame DEF Writes
<1>2. LateInv(s) BY <1>1 DEF Books
<1>3. ~OwesAny(s) /\ ~OwesAny(s)' BY WritesKeep
<1>4. ~Going(Ini(s))
  <2>1. Alone(s) /\ OwesAny(r) BY <1>2 DEF LateInv, Writes
  <2> QED BY <2>1 DEF Alone
<1>5. PICK a, b : a = Initiator(s) /\ b = Responder(s) OBVIOUS
<1>6. /\ a \in Users /\ b \in Users /\ \A u \in Users : u = a \/ u = b
      /\ Side(s, a) = Ini(s) /\ Side(s, b) = Rsp(s)
      /\ Initiator(s)' = a /\ Responder(s)' = b
  BY <1>5, SideIs DEF Writes, Initiator, Responder
<1>7. ~IsW(Med(s)) /\ \A u \in Users : ~IsW(Side(s, u))
  <2>1. ~IsW(Med(s)) /\ ~IsW(Rsp(s)) /\ ~IsW(Ini(s))
    BY <1>1, <1>4, LateIs DEF IsW, Going
  <2> QED BY <1>6, <2>1
<1>8. /\ Ini(s)' = Ini(s) /\ Med(s)' = Med(s) /\ Rsp(s)' = Rsp(s)
      /\ \A u \in Users : Side(s, u)' = Side(s, u)
  BY Frame, ApartSide DEF Writes
<1>9. \A u \in Users : ~Owes(s, u)' /\ ~HubOwes(s, u)' BY <1>3 DEF OwesAny
<1>10. /\ ~IsW(Med(s))' /\ \A u \in Users : ~IsW(Side(s, u))'
       /\ ~Going(Ini(s))' /\ (Going(Med(s))' => Going(Med(s))) /\ (Going(Rsp(s))' => Going(Rsp(s)))
  BY <1>4, <1>7, <1>8 DEF IsW, Going
<1>11. (\A u \in Users : UserLate(s, u)') /\ (\A u \in Users : HubLate(s, u)')
  BY <1>9, <1>10 DEF UserLate, HubLate
<1>12. Going(Med(s))' => HubShort(Med(s).post.link, 0)'
  BY <1>2, <1>8, <1>10 DEF LateInv, HubShort, HubWorth
<1>13. Going(Rsp(s))' /\ Going(Med(s))' => RspAgrees(s)'
  BY <1>2, <1>5, <1>6, <1>8, <1>10 DEF LateInv, RspAgrees, Agree
<1>14. ~HubOwes(s, Initiator(s))' /\ ~Owes(s, Responder(s))'
  <2>1. /\ HubOwes(s, Initiator(s))' <=> HubOwes(s, a)'
        /\ Owes(s, Responder(s))' <=> Owes(s, b)'
    BY <1>6 DEF HubOwes, Owes, Side
  <2> QED BY <1>6, <1>9, <2>1
<1>15. Alone(s)' BY <1>3, <1>10 DEF Alone
<1> QED BY <1>10, <1>11, <1>12, <1>13, <1>14, <1>15 DEF LateInv

LEMMA UserWritesBooks ==
  ASSUME Base, IInv, Books, NEW r \in Runs, NEW u \in Users, UserWrites(r, u)
  PROVE  Books'
<1>1. /\ Writes(r) /\ Owes(r, u) /\ Side(r, u).pc = "saving"
      /\ \A v \in Users : (Owes(r, v)' <=> Owes(r, v) /\ v # u) /\ (HubOwes(r, v)' <=> HubOwes(r, v))
      /\ Mine(u)' = Draft(r, u)
      /\ \A v \in Users : (v # u => Mine(v)' = Mine(v)) /\ Hers(v)' = Hers(v)
      /\ run' = run /\ Apart(r) /\ Late(r) /\ Late(r)' /\ ~Still(r)
  BY DEF UserWrites, Writes
<1>2. PICK a, b : a = Initiator(r) /\ b = Responder(r) OBVIOUS
<1>3. /\ a \in Users /\ b \in Users /\ a # b /\ \A v \in Users : v = a \/ v = b
      /\ Side(r, a) = Ini(r) /\ Side(r, b) = Rsp(r)
  BY <1>2, SideIs
<1>4. Initiator(r)' = a /\ Responder(r)' = b BY <1>1, <1>2 DEF Initiator, Responder
<1>5. /\ LateInv(r) /\ \A s \in Runs : s # r => ~OwesAny(s) /\ ~OwesAny(s)'
      /\ \A v \in Users : /\ Draft(r, v)' = Draft(r, v) /\ HubDraft(r, v)' = HubDraft(r, v)
                          /\ IsW(Side(r, v))' <=> IsW(Side(r, v))
      /\ IsW(Med(r))' <=> IsW(Med(r))
      /\ Going(Ini(r))' <=> Going(Ini(r))
      /\ Going(Med(r))' <=> Going(Med(r))
      /\ Going(Rsp(r))' <=> Going(Rsp(r))
      /\ Ini(r)'.pc = Ini(r).pc
      /\ Ini(r)'.post = Ini(r).post /\ Med(r)'.post = Med(r).post /\ Rsp(r)'.post = Rsp(r).post
  BY <1>1, WritesKeep
<1>6. Right(u, Draft(r, u)) /\ Draft(r, u).ver = Mine(u).ver + 2
  BY <1>1, <1>5 DEF LateInv, UserLate
<1>7. \A v \in Users : Mine(v)'.ver >= Mine(v).ver
  <2> TAKE v \in Users
  <2>1. Mine(v).ver \in Nat BY Vers
  <2>2. CASE v = u BY <1>1, <1>6, <2>1, <2>2
  <2>3. CASE v # u BY <1>1, <2>1, <2>3
  <2> QED BY <2>2, <2>3
<1>8. \A v \in Users : Right(v, Mine(v))' /\ Right(v, Hers(v))'
  <2> TAKE v \in Users
  <2>1. Right(v, Mine(v)) /\ Right(v, Hers(v)) BY DEF Books
  <2>2. CASE v = u BY <1>1, <1>6, <2>1, <2>2 DEF Right
  <2>3. CASE v # u BY <1>1, <2>1, <2>3 DEF Right
  <2> QED BY <2>2, <2>3
<1>9. LateInv(r)'
  <2>1. \A v \in Users : UserLate(r, v)'
    <3> TAKE v \in Users
    <3>1. CASE v = u
      <4>1. ~Owes(r, v)' BY <1>1, <3>1
      <4>2. ~IsW(Side(r, v))' BY <1>1, <1>5, <3>1, WaitingIs DEF IsW
      <4> QED BY <4>1, <4>2 DEF UserLate
    <3>2. CASE v # u
      <4>1. UserLate(r, v) BY <1>5 DEF LateInv
      <4> QED BY <1>1, <1>5, <3>2, <4>1 DEF UserLate, Right
    <3> QED BY <3>1, <3>2
  <2>2. \A v \in Users : HubLate(r, v)'
    BY <1>1, <1>5 DEF LateInv, HubLate, HubNextOn
  <2>3. Going(Med(r))' => HubShort(Med(r).post.link, 0)'
    BY <1>5 DEF LateInv, HubShort, HubWorth
  <2>4. Going(Ini(r))' /\ Going(Med(r))' => IniAgrees(r)'
    BY <1>2, <1>4, <1>5 DEF LateInv, IniAgrees, Agree
  <2>5. Going(Rsp(r))' /\ Going(Med(r))' => RspAgrees(r)'
    BY <1>2, <1>4, <1>5 DEF LateInv, RspAgrees, Agree
  <2>6. Ini(r)'.pc \in {"saving", "returned"} /\ ~Owes(r, Initiator(r))' /\ HubOwes(r, Initiator(r))'
          => Mine(Initiator(r))'.ver = HubDraft(r, Initiator(r))'.ver
    <3>1. /\ Owes(r, Initiator(r))' <=> Owes(r, a)'
          /\ HubOwes(r, Initiator(r))' <=> HubOwes(r, a)'
          /\ Mine(Initiator(r))' = Mine(a)' /\ HubDraft(r, Initiator(r))' = HubDraft(r, a)'
      BY <1>4 DEF Owes, HubOwes, Mine, HubDraft, Side
    <3>2. CASE u = a
      <4>1. ASSUME HubOwes(r, a) PROVE Mine(a)'.ver = HubDraft(r, a)'.ver
        <5>1. Going(Med(r)) /\ Going(Ini(r))
          BY <1>1, <1>3, <3>2, <4>1, OwesIs, WaitingIs
        <5>2. SetFreeBalance(a, Draft(r, a)) = SetFreeBalance(a, HubDraft(r, a))
          BY <1>2, <1>3, <1>5, <5>1 DEF LateInv, IniAgrees, Agree, Draft, HubDraft
        <5>3. PICK c, d : c = Draft(r, a) /\ d = HubDraft(r, a) OBVIOUS
        <5>4. KnownLink(c) /\ KnownLink(d) BY <1>3, <5>3, Vers
        <5>5. LinkWorth(c) = LinkWorth(d) /\ c.ver = d.ver BY <5>2, <5>3, <5>4, SameWorth
        <5> QED BY <1>1, <1>3, <1>5, <3>2, <5>3, <5>5
      <4> QED BY <1>1, <1>3, <3>1, <4>1
    <3>3. CASE u # a
      <4>1. Ini(r).pc \in {"saving", "returned"} /\ ~Owes(r, a) /\ HubOwes(r, a)
              => Mine(a).ver = HubDraft(r, a).ver
        BY <1>2, <1>5 DEF LateInv
      <4> QED BY <1>1, <1>3, <1>5, <3>1, <3>3, <4>1
    <3> QED BY <3>2, <3>3
  <2>7. Owes(r, Responder(r))' /\ ~IsW(Med(r))' /\ ~HubOwes(r, Responder(r))'
          => Hers(Responder(r))'.ver = Draft(r, Responder(r))'.ver
    <3>1. /\ Owes(r, Responder(r))' <=> Owes(r, b)'
          /\ HubOwes(r, Responder(r))' <=> HubOwes(r, b)'
          /\ Hers(Responder(r))' = Hers(b)' /\ Draft(r, Responder(r))' = Draft(r, b)'
      BY <1>4 DEF Owes, HubOwes, Hers, Draft, Side
    <3>2. Owes(r, b) /\ ~IsW(Med(r)) /\ ~HubOwes(r, b) => Hers(b).ver = Draft(r, b).ver
      BY <1>2, <1>5 DEF LateInv
    <3> QED BY <1>1, <1>3, <1>5, <3>1, <3>2
  <2>8. Alone(r)' BY <1>5 DEF Alone
  <2> QED BY <2>1, <2>2, <2>3, <2>4, <2>5, <2>6, <2>7, <2>8 DEF LateInv
<1>10. \A s \in Runs : (Late(s) /\ ~Still(s))' => LateInv(s)'
  <2> TAKE s \in Runs
  <2> HAVE (Late(s) /\ ~Still(s))'
  <2>1. CASE s = r BY <1>9, <2>1
  <2>2. CASE s # r BY <1>1, <2>2, WritesLate
  <2> QED BY <2>1, <2>2
<1>11. \A t \in Runs, v \in Users : /\ HubOwes(t, v)' <=> HubOwes(t, v)
                                    /\ HubDraft(t, v)' = HubDraft(t, v)
                                    /\ Draft(t, v)' = Draft(t, v)
                                    /\ Owes(t, v)' => Owes(t, v)
  <2> TAKE t \in Runs, v \in Users
  <2>1. CASE t = r BY <1>1, <1>5, <2>1
  <2>2. CASE t # r BY <1>1, <2>2, ApartSide
  <2> QED BY <2>1, <2>2
<1>12. \A s \in Runs : Early(s)' =>
         /\ Early(s) /\ s # r
         /\ Med(s)' = Med(s) /\ Initiator(s)' = Initiator(s)
         /\ \A v \in Users : Side(s, v)' = Side(s, v)
  <2> TAKE s \in Runs
  <2> HAVE Early(s)'
  <2>1. s # r BY <1>1, EarlyNext
  <2> QED BY <1>1, <2>1, Frame, ApartSide DEF Initiator
<1>13. ASSUME NEW s \in Runs, Early(s)' PROVE D1(s) => D1(s)'
  <2>1. ASSUME NEW v \in Users, OlderHub(s, v) PROVE OlderHub(s, v)'
    <3>1. IsW(Med(s))' /\ Side(s, v)' = Side(s, v) /\ (IsW(Side(s, v))' <=> IsW(Side(s, v)))
      BY <1>12, <1>13, <2>1 DEF OlderHub, IsW
    <3>2. /\ Mine(v)'.ver >= Mine(v).ver /\ Draft(s, v)' = Draft(s, v)
          /\ HubDraft(s, v)' = HubDraft(s, v)
      BY <1>7, <1>11, <1>13, <2>1
    <3>3. Mine(v).ver \in Nat /\ Mine(v)'.ver \in Nat /\ HubDraft(s, v).ver \in Nat
      <4>1. Mine(v).ver \in Nat /\ HubDraft(s, v).ver \in Nat BY <1>13, <2>1, Vers
      <4>2. Mine(v)'.ver \in Nat
        BY <1>1, <1>6, <2>1, <4>1, Vers
      <4> QED BY <4>1, <4>2
    <3>4. Side(s, v).pc = "idle" /\ Mine(v).ver + 2 > HubDraft(s, v).ver
            => Mine(v)'.ver + 2 > HubDraft(s, v).ver
      BY <3>2, <3>3
    <3> QED BY <2>1, <3>1, <3>2, <3>4 DEF OlderHub
  <2> QED BY <2>1 DEF D1
<1>14. ASSUME NEW s \in Runs, Early(s)' PROVE EarlyInv(s)'
  <2>1. EarlyInv(s) /\ s # r BY <1>12, <1>14 DEF Books
  <2>2. Right(Initiator(s), Draft(s, Initiator(s)))'
    <3>1. PICK c : c = Initiator(s) OBVIOUS
    <3>2. c \in Users /\ Initiator(s)' = c BY <1>12, <1>14, <3>1, SideIs
    <3>3. Draft(s, Initiator(s))' = Draft(s, c)' BY <3>2 DEF Draft, Side
    <3> QED BY <1>11, <1>14, <2>1, <3>1, <3>2, <3>3 DEF EarlyInv, Right
  <2>3. AllFresh(s) => AllFresh(s)'
    <3> HAVE AllFresh(s)
    <3>1. ASSUME NEW v \in Users, IsW(Side(s, v))' PROVE FreshUser(s, v)'
      <4>1. FreshUser(s, v) BY <1>12, <1>14, <3>1 DEF AllFresh, IsW
      <4>2. v # u BY <1>1, <2>1, <4>1 DEF FreshUser, NobodyElse
      <4> QED BY <1>1, <1>11, <1>14, <3>1, <4>1, <4>2 DEF FreshUser, NobodyElse
    <3>2. ASSUME IsW(Med(s))' PROVE FreshHub(s)'
      <4>1. FreshHub(s) /\ Med(s)' = Med(s) BY <1>12, <1>14, <3>2 DEF AllFresh, IsW
      <4> QED BY <1>1, <1>11, <1>14, <4>1 DEF FreshHub, NoHubElse, HubNextOn, HubShort, HubWorth
    <3> QED BY <3>1, <3>2 DEF AllFresh
  <2>4. D2(s) => D2(s)'
    <3>1. ASSUME NEW v \in Users, OlderUser(s, v) PROVE OlderUser(s, v)'
      BY <1>1, <1>11, <1>12, <1>14, <3>1 DEF OlderUser, IsW
    <3> QED BY <3>1 DEF D2
  <2>5. D3(s) => D3(s)'
    <3>1. ASSUME NEW v \in Users, ToBeOlder(s, v) PROVE ToBeOlder(s, v)'
      BY <1>1, <1>11, <1>12, <1>14, <3>1 DEF ToBeOlder, IsW
    <3> QED BY <3>1 DEF D3
  <2> QED BY <1>13, <1>14, <2>1, <2>2, <2>3, <2>4, <2>5 DEF EarlyInv
<1>15. ASSUME NEW s \in Runs, NEW t \in Runs, t # s, Early(s)' PROVE Trail(t, s)'
  <2>1. PICK c, d : c = Initiator(t) /\ d = Responder(t) OBVIOUS
  <2>2. c \in Users /\ d \in Users /\ Initiator(t)' = c /\ Responder(t)' = d
    BY <1>1, <2>1, SideIs DEF Initiator, Responder
  <2>3. Early(s) /\ s # r /\ Trail(t, s) BY <1>12, <1>15 DEF Books
  <2>4. /\ IsW(Med(s))' <=> IsW(Med(s))
        /\ \A v \in Users : IsW(Side(s, v))' <=> IsW(Side(s, v))
    BY <1>12, <1>15 DEF IsW
  <2>5. HubOwes(t, c)' /\ IsW(Side(s, c))' => Draft(s, c)'.ver > HubDraft(t, c)'.ver
    <3>1. HubOwes(t, c) /\ IsW(Side(s, c)) => Draft(s, c).ver > HubDraft(t, c).ver
      BY <2>1, <2>3 DEF Trail
    <3> QED BY <1>11, <1>15, <2>2, <2>4, <3>1
  <2>6. HubOwes(t, c)' /\ IsW(Med(s))' => D1(s)'
    <3>1. HubOwes(t, c) /\ IsW(Med(s)) => D1(s) BY <2>1, <2>3 DEF Trail
    <3> QED BY <1>11, <1>13, <1>15, <2>2, <2>4, <3>1
  <2>7. Owes(t, d)' /\ ~HubOwes(t, d)' /\ IsW(Med(s))' =>
          HubDraft(s, d)'.ver > Draft(t, d)'.ver \/ D1(s)'
    <3>1. Owes(t, d) /\ ~HubOwes(t, d) /\ IsW(Med(s)) =>
            HubDraft(s, d).ver > Draft(t, d).ver \/ D1(s)
      BY <2>1, <2>3 DEF Trail
    <3> QED BY <1>11, <1>13, <1>15, <2>2, <2>4, <3>1
  <2>8. /\ HubOwes(t, Initiator(t))' <=> HubOwes(t, c)'
        /\ HubOwes(t, Responder(t))' <=> HubOwes(t, d)'
        /\ Owes(t, Responder(t))' <=> Owes(t, d)'
        /\ IsW(Side(s, Initiator(t)))' <=> IsW(Side(s, c))'
        /\ Draft(s, Initiator(t))' = Draft(s, c)' /\ HubDraft(t, Initiator(t))' = HubDraft(t, c)'
        /\ HubDraft(s, Responder(t))' = HubDraft(s, d)' /\ Draft(t, Responder(t))' = Draft(t, d)'
    BY <2>2 DEF HubOwes, Owes, Draft, HubDraft, Side
  <2> QED BY <2>5, <2>6, <2>7, <2>8 DEF Trail
<1>16. HubStore'
  <2>1. CASE /\ \A t \in Runs : HubOwes(t, Alice) <=> HubOwes(t, Bob)
             /\ HubShort(store[Ingrid].link, 0)
    <3>1. store'[Ingrid].link[Alice] = store[Ingrid].link[Alice]
          /\ store'[Ingrid].link[Bob] = store[Ingrid].link[Bob]
      BY <1>1 DEF Hers, Users
    <3>2. HubShort(store[Ingrid].link, 0)' BY <2>1, <3>1 DEF HubShort, HubWorth, Users
    <3>3. \A t \in Runs : HubOwes(t, Alice)' <=> HubOwes(t, Bob)' BY <1>11, <2>1 DEF Users
    <3> QED BY <3>2, <3>3 DEF HubStore
  <2>2. CASE \E t \in Runs, v \in Users :
               /\ HubOwes(t, v) /\ ~HubOwes(t, Other(v))
               /\ Hers(Other(v)) = HubDraft(t, Other(v))
    <3>1. PICK t \in Runs, v \in Users : /\ HubOwes(t, v) /\ ~HubOwes(t, Other(v))
                                         /\ Hers(Other(v)) = HubDraft(t, Other(v))
      BY <2>2
    <3>2. /\ HubOwes(t, v)' /\ ~HubOwes(t, Other(v))'
          /\ Hers(Other(v))' = HubDraft(t, Other(v))'
      BY <1>1, <1>11, <3>1, OtherIs
    <3> QED BY <3>2 DEF HubStore
  <2> QED BY <2>1, <2>2 DEF HubStore, Books
<1> QED BY <1>8, <1>10, <1>14, <1>15, <1>16 DEF Books

LEMMA HubWritesBooks ==
  ASSUME Base, IInv, Books, NEW r \in Runs, NEW u \in Users, HubWrites(r, u)
  PROVE  Books'
<1>1. /\ Writes(r) /\ HubOwes(r, u) /\ Med(r).pc = "saving"
      /\ \A v \in Users : (HubOwes(r, v)' <=> HubOwes(r, v) /\ v # u) /\ (Owes(r, v)' <=> Owes(r, v))
      /\ Hers(u)' = HubDraft(r, u)
      /\ \A v \in Users : (v # u => Hers(v)' = Hers(v)) /\ Mine(v)' = Mine(v)
      /\ run' = run /\ Apart(r) /\ Late(r) /\ Late(r)' /\ ~Still(r)
  BY DEF HubWrites, Writes
<1>2. PICK a, b : a = Initiator(r) /\ b = Responder(r) OBVIOUS
<1>3. /\ a \in Users /\ b \in Users /\ a # b /\ \A v \in Users : v = a \/ v = b
      /\ Side(r, a) = Ini(r) /\ Side(r, b) = Rsp(r)
  BY <1>2, SideIs
<1>4. Initiator(r)' = a /\ Responder(r)' = b BY <1>1, <1>2 DEF Initiator, Responder
<1>5. /\ LateInv(r) /\ \A s \in Runs : s # r => ~OwesAny(s) /\ ~OwesAny(s)'
      /\ \A v \in Users : /\ Draft(r, v)' = Draft(r, v) /\ HubDraft(r, v)' = HubDraft(r, v)
                          /\ IsW(Side(r, v))' <=> IsW(Side(r, v))
      /\ IsW(Med(r))' <=> IsW(Med(r))
      /\ Going(Ini(r))' <=> Going(Ini(r))
      /\ Going(Med(r))' <=> Going(Med(r))
      /\ Going(Rsp(r))' <=> Going(Rsp(r))
      /\ Ini(r)'.pc = Ini(r).pc
      /\ Ini(r)'.post = Ini(r).post /\ Med(r)'.post = Med(r).post /\ Rsp(r)'.post = Rsp(r).post
  BY <1>1, WritesKeep
<1>6. /\ ~IsW(Med(r)) /\ Going(Med(r)) /\ HubShort(Med(r).post.link, 0)
      /\ HubDraft(r, u).ver = Hers(u).ver + 2
  BY <1>1, <1>5, WaitingIs DEF LateInv, HubLate, HubNextOn, IsW
<1>7. \A v \in Users : /\ Hers(v)'.ver >= Hers(v).ver
                       /\ Hers(v).ver \in Nat /\ Hers(v)'.ver \in Nat
  <2> TAKE v \in Users
  <2>1. Hers(v).ver \in Nat BY Vers
  <2>2. CASE v = u BY <1>1, <1>6, <2>1, <2>2
  <2>3. CASE v # u BY <1>1, <2>1, <2>3
  <2> QED BY <2>2, <2>3
<1>8. \A v \in Users : Right(v, Mine(v))' /\ Right(v, Hers(v))'
  <2> TAKE v \in Users
  <2>1. Right(v, Mine(v)) /\ Right(v, Hers(v)) BY DEF Books
  <2>2. CASE v = u
    <3>1. LinkWorth(HubDraft(r, u)) + 0 = LinkWorth(Opening.link[u])
      BY <1>6 DEF HubShort, HubDraft
    <3>2. PICK x, y : x = LinkWorth(HubDraft(r, u)) /\ y = LinkWorth(Opening.link[u]) OBVIOUS
    <3>3. x \in Nat BY <3>2, Vers, WorthTypes
    <3>4. x = y BY <3>1, <3>2, <3>3
    <3> QED BY <1>1, <2>1, <2>2, <3>2, <3>4 DEF Right
  <2>3. CASE v # u BY <1>1, <2>1, <2>3 DEF Right
  <2> QED BY <2>2, <2>3
<1>9. LateInv(r)'
  <2>1. \A v \in Users : UserLate(r, v)'
    BY <1>1, <1>5 DEF LateInv, UserLate, Right
  <2>2. \A v \in Users : HubLate(r, v)'
    <3> TAKE v \in Users
    <3>1. ~IsW(Med(r))' BY <1>5, <1>6
    <3>2. CASE v = u BY <1>1, <3>1, <3>2 DEF HubLate
    <3>3. CASE v # u
      <4>1. HubLate(r, v) BY <1>5 DEF LateInv
      <4> QED BY <1>1, <1>5, <3>1, <3>3, <4>1 DEF HubLate, HubNextOn
    <3> QED BY <3>2, <3>3
  <2>3. Going(Med(r))' => HubShort(Med(r).post.link, 0)'
    BY <1>5 DEF LateInv, HubShort, HubWorth
  <2>4. Going(Ini(r))' /\ Going(Med(r))' => IniAgrees(r)'
    BY <1>2, <1>4, <1>5 DEF LateInv, IniAgrees, Agree
  <2>5. Going(Rsp(r))' /\ Going(Med(r))' => RspAgrees(r)'
    BY <1>2, <1>4, <1>5 DEF LateInv, RspAgrees, Agree
  <2>6. Ini(r)'.pc \in {"saving", "returned"} /\ ~Owes(r, Initiator(r))' /\ HubOwes(r, Initiator(r))'
          => Mine(Initiator(r))'.ver = HubDraft(r, Initiator(r))'.ver
    <3>1. /\ Owes(r, Initiator(r))' <=> Owes(r, a)'
          /\ HubOwes(r, Initiator(r))' <=> HubOwes(r, a)'
          /\ Mine(Initiator(r))' = Mine(a)' /\ HubDraft(r, Initiator(r))' = HubDraft(r, a)'
      BY <1>4 DEF Owes, HubOwes, Mine, HubDraft, Side
    <3>2. Ini(r).pc \in {"saving", "returned"} /\ ~Owes(r, a) /\ HubOwes(r, a)
            => Mine(a).ver = HubDraft(r, a).ver
      BY <1>2, <1>5 DEF LateInv
    <3> QED BY <1>1, <1>3, <1>5, <3>1, <3>2
  <2>7. Owes(r, Responder(r))' /\ ~IsW(Med(r))' /\ ~HubOwes(r, Responder(r))'
          => Hers(Responder(r))'.ver = Draft(r, Responder(r))'.ver
    <3>1. /\ Owes(r, Responder(r))' <=> Owes(r, b)'
          /\ HubOwes(r, Responder(r))' <=> HubOwes(r, b)'
          /\ Hers(Responder(r))' = Hers(b)' /\ Draft(r, Responder(r))' = Draft(r, b)'
      BY <1>4 DEF Owes, HubOwes, Hers, Draft, Side
    <3>2. CASE u = b
      <4>1. ASSUME Owes(r, b) PROVE Hers(b)'.ver = Draft(r, b)'.ver
        <5>1. Going(Rsp(r))
          BY <1>3, <4>1, OwesIs, WaitingIs
        <5>2. SetFreeBalance(b, Draft(r, b)) = SetFreeBalance(b, HubDraft(r, b))
          BY <1>2, <1>3, <1>5, <1>6, <5>1 DEF LateInv, RspAgrees, Agree, Draft, HubDraft
        <5>3. PICK c, d : c = Draft(r, b) /\ d = HubDraft(r, b) OBVIOUS
        <5>4. KnownLink(c) /\ KnownLink(d) BY <1>3, <5>3, Vers
        <5>5. LinkWorth(c) = LinkWorth(d) /\ c.ver = d.ver BY <5>2, <5>3, <5>4, SameWorth
        <5> QED BY <1>1, <1>3, <1>5, <3>2, <5>3, <5>5
      <4> QED BY <1>1, <1>3, <3>1, <4>1
    <3>3. CASE u # b
      <4>1. Owes(r, b) /\ ~IsW(Med(r)) /\ ~HubOwes(r, b) => Hers(b).ver = Draft(r, b).ver
        BY <1>2, <1>5 DEF LateInv
      <4> QED BY <1>1, <1>3, <1>5, <3>1, <3>3, <4>1
    <3> QED BY <3>2, <3>3
  <2>8. Alone(r)' BY <1>5 DEF Alone
  <2> QED BY <2>1, <2>2, <2>3, <2>4, <2>5, <2>6, <2>7, <2>8 DEF LateInv
<1>10. \A s \in Runs : (Late(s) /\ ~Still(s))' => LateInv(s)'
  <2> TAKE s \in Runs
  <2> HAVE (Late(s) /\ ~Still(s))'
  <2>1. CASE s = r BY <1>9, <2>1
  <2>2. CASE s # r BY <1>1, <2>2, WritesLate
  <2> QED BY <2>1, <2>2
<1>11. \A t \in Runs, v \in Users : /\ HubOwes(t, v)' => HubOwes(t, v)
                                    /\ HubOwes(t, v) => HubOwes(t, v)' \/ (t = r /\ v = u)
                                    /\ HubDraft(t, v)' = HubDraft(t, v)
                                    /\ Draft(t, v)' = Draft(t, v)
                                    /\ Owes(t, v)' <=> Owes(t, v)
  <2> TAKE t \in Runs, v \in Users
  <2>1. CASE t = r BY <1>1, <1>5, <2>1
  <2>2. CASE t # r BY <1>1, <2>2, ApartSide
  <2> QED BY <2>1, <2>2
<1>12. \A s \in Runs : Early(s)' =>
         /\ Early(s) /\ s # r
         /\ Med(s)' = Med(s) /\ Initiator(s)' = Initiator(s)
         /\ \A v \in Users : Side(s, v)' = Side(s, v)
  <2> TAKE s \in Runs
  <2> HAVE Early(s)'
  <2>1. s # r BY <1>1, EarlyNext
  <2> QED BY <1>1, <2>1, Frame, ApartSide DEF Initiator
<1>13. ASSUME NEW s \in Runs, Early(s)' PROVE D1(s) => D1(s)'
  <2>1. ASSUME NEW v \in Users, OlderHub(s, v) PROVE OlderHub(s, v)'
    BY <1>1, <1>11, <1>12, <1>13, <2>1 DEF OlderHub, IsW
  <2> QED BY <2>1 DEF D1
<1>14. ASSUME NEW s \in Runs, Early(s)' PROVE EarlyInv(s)'
  <2>1. EarlyInv(s) /\ s # r BY <1>12, <1>14 DEF Books
  <2>2. Right(Initiator(s), Draft(s, Initiator(s)))'
    <3>1. PICK c : c = Initiator(s) OBVIOUS
    <3>2. c \in Users /\ Initiator(s)' = c BY <1>12, <1>14, <3>1, SideIs
    <3>3. Draft(s, Initiator(s))' = Draft(s, c)' BY <3>2 DEF Draft, Side
    <3> QED BY <1>11, <1>14, <2>1, <3>1, <3>2, <3>3 DEF EarlyInv, Right
  <2>3. AllFresh(s) => AllFresh(s)'
    <3> HAVE AllFresh(s)
    <3>1. ASSUME NEW v \in Users, IsW(Side(s, v))' PROVE FreshUser(s, v)'
      <4>1. FreshUser(s, v) BY <1>12, <1>14, <3>1 DEF AllFresh, IsW
      <4> QED BY <1>1, <1>11, <1>14, <3>1, <4>1 DEF FreshUser, NobodyElse
    <3>2. ~IsW(Med(s))'
      <4> SUFFICES ASSUME IsW(Med(s))' PROVE FALSE OBVIOUS
      <4>1. FreshHub(s) BY <1>12, <1>14 DEF AllFresh, IsW
      <4> QED BY <1>1, <2>1, <4>1 DEF FreshHub, NoHubElse
    <3> QED BY <3>1, <3>2 DEF AllFresh
  <2>4. D2(s) => D2(s)'
    <3>1. ASSUME NEW v \in Users, OlderUser(s, v) PROVE OlderUser(s, v)'
      <4>1. /\ IsW(Side(s, v))' /\ Med(s)' = Med(s) /\ (IsW(Med(s))' <=> IsW(Med(s)))
            /\ Draft(s, v)' = Draft(s, v) /\ HubDraft(s, v)' = HubDraft(s, v)
        BY <1>11, <1>12, <1>14, <3>1 DEF OlderUser, IsW
      <4>2. Draft(s, v).ver \in Nat BY <1>14, <3>1, Vers
      <4>3. Hers(v).ver + 2 > Draft(s, v).ver => Hers(v)'.ver + 2 > Draft(s, v).ver
        BY <1>7, <3>1, <4>2
      <4> QED BY <3>1, <4>1, <4>3 DEF OlderUser
    <3> QED BY <3>1 DEF D2
  <2>5. D3(s) => D2(s)' \/ D3(s)'
    <3>1. ASSUME NEW v \in Users, ToBeOlder(s, v) PROVE OlderUser(s, v)' \/ ToBeOlder(s, v)'
      <4>1. /\ IsW(Side(s, v))' /\ Med(s)'.pc = "idle"
            /\ Draft(s, v)' = Draft(s, v)
        BY <1>11, <1>12, <1>14, <3>1 DEF ToBeOlder, IsW
      <4>2. PICK t \in Runs : t # s /\ HubOwes(t, v) /\ HubDraft(t, v).ver >= Draft(s, v).ver
        BY <3>1 DEF ToBeOlder
      <4>3. CASE HubOwes(t, v)'
        <5>1. HubDraft(t, v)'.ver >= Draft(s, v)'.ver BY <1>11, <1>14, <3>1, <4>1, <4>2
        <5> QED BY <4>1, <4>2, <4>3, <5>1 DEF ToBeOlder
      <4>4. CASE ~HubOwes(t, v)'
        <5>1. t = r /\ v = u BY <1>11, <3>1, <4>2, <4>4
        <5>2. Hers(v)' = HubDraft(t, v) BY <1>1, <5>1
        <5>3. Draft(s, v).ver \in Nat /\ HubDraft(t, v).ver \in Nat BY <1>14, <3>1, Vers
        <5>4. Hers(v)'.ver + 2 > Draft(s, v)'.ver BY <4>1, <4>2, <5>2, <5>3
        <5> QED BY <4>1, <5>4 DEF OlderUser
      <4> QED BY <4>3, <4>4
    <3> QED BY <3>1 DEF D2, D3
  <2> QED BY <1>13, <1>14, <2>1, <2>2, <2>3, <2>4, <2>5 DEF EarlyInv
<1>15. ASSUME NEW s \in Runs, NEW t \in Runs, t # s, Early(s)' PROVE Trail(t, s)'
  <2>1. PICK c, d : c = Initiator(t) /\ d = Responder(t) OBVIOUS
  <2>2. c \in Users /\ d \in Users /\ Initiator(t)' = c /\ Responder(t)' = d
    BY <1>1, <2>1, SideIs DEF Initiator, Responder
  <2>3. Early(s) /\ s # r /\ Trail(t, s) BY <1>12, <1>15 DEF Books
  <2>4. /\ IsW(Med(s))' <=> IsW(Med(s))
        /\ \A v \in Users : IsW(Side(s, v))' <=> IsW(Side(s, v))
    BY <1>12, <1>15 DEF IsW
  <2>5. HubOwes(t, c)' /\ IsW(Side(s, c))' => Draft(s, c)'.ver > HubDraft(t, c)'.ver
    <3>1. HubOwes(t, c) /\ IsW(Side(s, c)) => Draft(s, c).ver > HubDraft(t, c).ver
      BY <2>1, <2>3 DEF Trail
    <3> QED BY <1>11, <1>15, <2>2, <2>4, <3>1
  <2>6. HubOwes(t, c) /\ IsW(Med(s))' => D1(s)'
    <3>1. HubOwes(t, c) /\ IsW(Med(s)) => D1(s) BY <2>1, <2>3 DEF Trail
    <3> QED BY <1>13, <1>15, <2>4, <3>1
  <2>7. Owes(t, d)' /\ ~HubOwes(t, d)' /\ IsW(Med(s))' =>
          HubDraft(s, d)'.ver > Draft(t, d)'.ver \/ D1(s)'
    <3> HAVE Owes(t, d)' /\ ~HubOwes(t, d)' /\ IsW(Med(s))'
    <3>1. CASE ~HubOwes(t, d)
      <4>1. Owes(t, d) /\ ~HubOwes(t, d) /\ IsW(Med(s)) =>
              HubDraft(s, d).ver > Draft(t, d).ver \/ D1(s)
        BY <2>1, <2>3 DEF Trail
      <4> QED BY <1>11, <1>13, <1>15, <2>2, <2>4, <3>1, <4>1
    <3>2. CASE HubOwes(t, d)
      <4>1. Going(Ini(s)) BY <2>3, EarlyIs
      <4>2. ~Going(Ini(t)) BY <1>15, <4>1, OneLives
      <4>3. HubOwes(t, c) BY <1>15, <2>1, <2>2, <3>2, <4>2, HubOrder
      <4> QED BY <2>6, <4>3
    <3> QED BY <3>1, <3>2
  <2>8. /\ HubOwes(t, Initiator(t))' <=> HubOwes(t, c)'
        /\ HubOwes(t, Responder(t))' <=> HubOwes(t, d)'
        /\ Owes(t, Responder(t))' <=> Owes(t, d)'
        /\ IsW(Side(s, Initiator(t)))' <=> IsW(Side(s, c))'
        /\ Draft(s, Initiator(t))' = Draft(s, c)' /\ HubDraft(t, Initiator(t))' = HubDraft(t, c)'
        /\ HubDraft(s, Responder(t))' = HubDraft(s, d)' /\ Draft(t, Responder(t))' = Draft(t, d)'
    BY <2>2 DEF HubOwes, Owes, Draft, HubDraft, Side
  <2>9. HubOwes(t, c)' => HubOwes(t, c) BY <1>11, <1>15, <2>2
  <2> QED BY <2>5, <2>6, <2>7, <2>8, <2>9 DEF Trail
<1>16. HubStore'
  <2>1. PICK v : v = Other(u) OBVIOUS
  <2>2. v \in Users /\ v # u /\ Other(v) = u /\ \A w \in Users : w = u \/ w = v
    BY <2>1, OtherIs
  <2>3. CASE HubOwes(r, v)
    <3>1. HubOwes(r, v)' /\ ~HubOwes(r, Other(v))' /\ Hers(Other(v))' = HubDraft(r, Other(v))'
      BY <1>1, <1>5, <2>2, <2>3
    <3> QED BY <2>2, <3>1 DEF HubStore
  <2>4. CASE ~HubOwes(r, v)
    <3>1. Alice \in Users /\ Bob \in Users BY DEF Users
    <3>2. ~ \A t \in Runs : HubOwes(t, Alice) <=> HubOwes(t, Bob)
      BY <1>1, <2>2, <2>4, OtherIs DEF Users
    <3>3. PICK t \in Runs, w \in Users : /\ HubOwes(t, w) /\ ~HubOwes(t, Other(w))
                                         /\ Hers(Other(w)) = HubDraft(t, Other(w))
      BY <3>2 DEF Books, HubStore
    <3>4. t = r BY <1>5, <3>3 DEF OwesAny
    <3>5. w = u BY <2>2, <2>4, <3>3, <3>4
    <3>6. Hers(v)' = HubDraft(r, v) BY <1>1, <2>1, <2>2, <3>3, <3>4, <3>5
    <3>7. \A x \in Users : store'[Ingrid].link[x] = Med(r).post.link[x]
      BY <1>1, <2>2, <3>6 DEF Hers, HubDraft
    <3>8. HubShort(store[Ingrid].link, 0)'
      BY <1>6, <3>1, <3>7 DEF HubShort, HubWorth
    <3>9. \A x \in Runs, y \in Users : ~HubOwes(x, y)'
      <4> TAKE x \in Runs, y \in Users
      <4>1. CASE x = r BY <1>1, <2>2, <2>4, <4>1
      <4>2. CASE x # r BY <1>5, <4>2 DEF OwesAny
      <4> QED BY <4>1, <4>2
    <3> QED BY <3>1, <3>8, <3>9 DEF HubStore
  <2> QED BY <2>3, <2>4
<1> QED BY <1>8, <1>10, <1>14, <1>15, <1>16 DEF Books

-----------------------------------------------------------------------------
(* The books, along a behaviour.                                            *)

LEMMA BooksInit ==
  ASSUME Init
  PROVE  Base /\ NoDup /\ Books
<1>1. Base /\ \A r \in Runs, role \in Roles : half[r][role].pc = "idle" BY BaseInit
<1>2. /\ \A r \in Runs : Ini(r).pc = "idle" /\ Med(r).pc = "idle" /\ Rsp(r).pc = "idle"
      /\ \A r \in Runs, u \in Users : Side(r, u).pc = "idle"
  BY <1>1 DEF Side, Ini, Med, Rsp, Roles
<1>3. \A p \in Parties : store[p] = Opening BY DEF Init
<1>4. Opening.link[Bob].agr = Opening.link[Alice].agr BY OpeningSettled
<1>5. \A u \in Users : Mine(u) = Opening.link[u] /\ Hers(u) = Opening.link[u]
  BY <1>3, OtherIs DEF Mine, Hers
<1>6. NoDup
  <2>1. \A u \in Users : Active(Mine(u)) = Active(Opening.link[Alice])
    BY <1>4, <1>5 DEF Active, Users
  <2>2. \A r \in Runs, u \in Users : ~Going(Side(r, u)) BY <1>2, WaitingIs
  <2> QED BY <2>1, <2>2 DEF NoDup, FromRun, Mine
<1>7. \A r \in Runs : ~Early(r) BY <1>2, EarlyIs
<1>8. \A r \in Runs : ~Late(r) BY <1>2 DEF Late, LateAt, InstallLate, UninstallLate
<1>9. HubStore
  <2>1. \A r \in Runs, u \in Users : ~HubOwes(r, u) BY <1>2 DEF HubOwes, Owing
  <2>2. \A u \in Users : store[Ingrid].link[u] = Opening.link[u] BY <1>5 DEF Hers
  <2>3. Alice \in Users /\ Bob \in Users BY DEF Users
  <2>4. \A u \in Users : LinkWorth(store[Ingrid].link[u]) + 0 = LinkWorth(Opening.link[u])
    <3> TAKE u \in Users
    <3>1. PICK c, x : c = Opening.link[u] /\ x = LinkWorth(Opening.link[u]) OBVIOUS
    <3>2. KnownLink(c) BY <3>1, StakesAre
    <3>3. x \in Nat BY <3>1, <3>2, WorthTypes
    <3>4. x + 0 = x BY <3>3
    <3> QED BY <2>2, <3>1, <3>4
  <2>5. HubWorth(store[Ingrid].link) + 0 = HubWorth(Opening.link)
    <3>1. PICK c, d : c = Opening.link[Alice] /\ d = Opening.link[Bob] OBVIOUS
    <3>2. KnownLink(c) /\ KnownLink(d) BY <2>3, <3>1, StakesAre
    <3>3. c.hub \in Nat /\ d.hub \in Nat /\ Capital(c) \in Nat BY <3>2, WorthTypes
    <3>4. (c.hub + d.hub + Capital(c)) + 0 = c.hub + d.hub + Capital(c) BY <3>3
    <3> QED BY <2>2, <2>3, <3>1, <3>4 DEF HubWorth
  <2>6. store[Ingrid].link[Alice].agr = store[Ingrid].link[Bob].agr BY <1>4, <2>2, <2>3
  <2>7. HubShort(store[Ingrid].link, 0) BY <2>4, <2>5, <2>6 DEF HubShort
  <2>8. Alice \in Users /\ Bob \in Users BY DEF Users
  <2> QED BY <2>1, <2>7, <2>8 DEF HubStore
<1> QED BY <1>1, <1>5, <1>6, <1>7, <1>8, <1>9 DEF Books, Right

LEMMA BooksStep ==
  ASSUME Base, IInv, NoDup, OnlyRetries => Books, Base', NEW r \in Runs, Calm \/ Counts(r)
  PROVE  OnlyRetries' => Books'
<1> HAVE OnlyRetries'
<1>1. Books BY RetriesStay
<1>2. CASE Calm BY <1>1, <1>2, CalmBooks
<1>3. ASSUME NEW p \in Users, Starts(r, p) PROVE Books' BY <1>1, <1>3, StartsBooks
<1>4. CASE HubComputes(r) BY <1>1, <1>4, HubComputesBooks
<1>5. CASE RspComputes(r) BY <1>1, <1>5, RspComputesBooks
<1>6. CASE RspCommits(r) BY <1>1, <1>6, RspCommitsBooks
<1>7. ASSUME NEW role \in Roles, Begins(r, role) PROVE Books' BY <1>1, <1>7, BeginsBooks
<1>8. ASSUME NEW role \in Roles, NEW u \in Users, SavesLink(r, role, u) PROVE Books'
  <2>1. UserWrites(r, u) \/ HubWrites(r, u) BY <1>8, SavesIs
  <2> QED BY <1>1, <1>8, <2>1, UserWritesBooks, HubWritesBooks
<1> QED BY <1>2, <1>3, <1>4, <1>5, <1>6, <1>7, <1>8 DEF Counts

\* What holds of the books while nobody restarts.
Sound == "crash" \notin faults => Base /\ NoDup /\ (OnlyRetries => Books)

LEMMA SoundNext ==
  ASSUME IInv, Sound, [Next]_vars
  PROVE  Sound'
<1>1. faults' = faults BY DEF Next, vars
<1>2. SUFFICES ASSUME "crash" \notin faults PROVE Base' /\ NoDup' /\ (OnlyRetries' => Books')
  BY <1>1 DEF Sound
<1>3. Base /\ NoDup /\ (OnlyRetries => Books) BY <1>2 DEF Sound
<1>4. Base' /\ (Calm \/ \E r \in Runs : Counts(r)) BY <1>2, <1>3, StepDoes
<1>5. CASE \E r \in Runs : TRUE
  <2>1. PICK r \in Runs : Calm \/ Counts(r) BY <1>4, <1>5
  <2>2. NoDup' BY <1>3, <1>4, <2>1, NoDupStays
  <2>3. OnlyRetries' => Books' BY <1>3, <1>4, <2>1, BooksStep
  <2> QED BY <1>4, <2>2, <2>3
<1>6. CASE Runs = {}
  <2>1. Calm BY <1>4, <1>6
  <2>2. NoDup' BY <1>3, <1>6, <2>1, OtherIs DEF NoDup, FromRun, Calm
  <2>3. OnlyRetries BY <1>6 DEF OnlyRetries
  <2>4. Books' BY <1>3, <2>1, <2>3, CalmBooks
  <2> QED BY <1>4, <2>2, <2>4
<1> QED BY <1>5, <1>6

LEMMA BooksBalance ==
  ASSUME Books
  PROVE  LinksBalance
<1> SUFFICES ASSUME NEW p \in Parties, NEW u \in LinksOf(p)
             PROVE  LinkWorth(store[p].link[u]) = LinkWorth(Opening.link[u])
  BY DEF LinksBalance
<1>1. \A v \in Users : Right(v, Mine(v)) /\ Right(v, Hers(v)) BY DEF Books
<1>2. CASE p = Ingrid BY <1>1, <1>2 DEF LinksOf, Right, Hers
<1>3. CASE p # Ingrid
  <2>1. p \in Users /\ u = p BY <1>3 DEF LinksOf, Parties
  <2> QED BY <1>1, <2>1 DEF Right, Mine
<1> QED BY <1>2, <1>3

LEMMA BooksNeutral ==
  ASSUME Base, IInv, Books
  PROVE  MediatorNeutral
<1> SUFFICES ASSUME Hers(Alice).agr = Hers(Bob).agr
             PROVE  HubWorth(store[Ingrid].link) = HubWorth(Opening.link)
  BY DEF MediatorNeutral, Hers
<1>0. Alice \in Users /\ Bob \in Users BY DEF Users
<1> DEFINE W == HubWorth(store[Ingrid].link)
<1>1. W = Hers(Alice).hub + Hers(Bob).hub + Capital(Hers(Alice)) BY DEF HubWorth, Hers
<1>2. ASSUME NEW v \in Users
      PROVE  /\ LinkWorth(Hers(v)) = Hers(v).user + Hers(v).hub + Capital(Hers(v))
             /\ Hers(v).user \in Nat /\ Hers(v).hub \in Nat /\ Capital(Hers(v)) \in Nat
  <2>1. PICK c : c = Hers(v) OBVIOUS
  <2>2. KnownLink(c) BY <1>2, <2>1, OtherIs DEF Base, Known, KnownChannels, Hers
  <2> QED BY <2>1, <2>2, WorthTypes
<1>3. CASE HubShort(store[Ingrid].link, 0)
  <2>1. W + 0 = HubWorth(Opening.link) BY <1>3 DEF HubShort
  <2>2. W \in Nat BY <1>0, <1>1, <1>2
  <2> HIDE DEF W
  <2>3. W + 0 = W BY <2>2
  <2> QED BY <2>1, <2>3 DEF W
<1>4. CASE \E t \in Runs, u \in Users :
             /\ HubOwes(t, u) /\ ~HubOwes(t, Other(u))
             /\ Hers(Other(u)) = HubDraft(t, Other(u))
  <2>1. PICK t \in Runs, u \in Users : /\ HubOwes(t, u) /\ ~HubOwes(t, Other(u))
                                       /\ Hers(Other(u)) = HubDraft(t, Other(u))
    BY <1>4
  <2>2. Late(t) /\ ~Still(t) /\ Going(Med(t)) BY <2>1, OwesIs
  <2>3. LateInv(t) BY <2>2 DEF Books
  <2>4. HubShort(Med(t).post.link, 0) BY <2>2, <2>3 DEF LateInv
  <2>5. HubNextOn(t, u) BY <2>1, <2>3 DEF LateInv, HubLate
  <2>6. PICK c, d, o : c = HubDraft(t, u) /\ d = Hers(u) /\ o = Hers(Other(u)) OBVIOUS
  <2>7. HubDraft(t, Alice).agr = HubDraft(t, Bob).agr BY <2>4 DEF HubShort, HubDraft
  <2>8. c.agr = o.agr /\ d.agr = o.agr
    <3>1. (u = Alice /\ Other(u) = Bob) \/ (u = Bob /\ Other(u) = Alice) BY OtherIs DEF Users
    <3> QED BY <2>1, <2>6, <2>7, <3>1
  <2>9. c.hub <= d.hub /\ c.user <= d.user BY <2>5, <2>6, <2>8 DEF HubNextOn
  <2>10. KnownLink(c) /\ KnownLink(d) /\ KnownLink(o) BY <2>1, <2>6, Vers, OtherIs
  <2>11. Capital(c) = Capital(d) /\ Capital(c) = Capital(o) BY <2>8 DEF Capital
  <2>12. c.hub = d.hub
    <3>1. LinkWorth(c) + 0 = LinkWorth(Opening.link[u]) BY <2>4, <2>6 DEF HubShort, HubDraft
    <3>2. LinkWorth(d) = LinkWorth(Opening.link[u]) BY <2>6 DEF Books, Right
    <3>3. /\ LinkWorth(c) = c.user + c.hub + Capital(c) /\ LinkWorth(d) = d.user + d.hub + Capital(d)
          /\ c.user \in Nat /\ c.hub \in Nat /\ Capital(c) \in Nat
          /\ d.user \in Nat /\ d.hub \in Nat /\ Capital(d) \in Nat
      BY <2>10, WorthTypes
    <3>4. (c.user + c.hub + Capital(c)) + 0 = d.user + d.hub + Capital(c)
      BY <2>11, <3>1, <3>2, <3>3
    <3> QED BY <2>9, <3>3, <3>4
  <2>13. /\ W = d.hub + o.hub + Capital(o)
         /\ HubWorth(Med(t).post.link) = c.hub + o.hub + Capital(o)
         /\ c.hub \in Nat /\ o.hub \in Nat /\ Capital(o) \in Nat
    <3>1. c.hub \in Nat /\ d.hub \in Nat /\ o.hub \in Nat /\ Capital(o) \in Nat
      BY <2>10, WorthTypes
    <3>2. HubWorth(Med(t).post.link) =
            HubDraft(t, Alice).hub + HubDraft(t, Bob).hub + Capital(HubDraft(t, Alice))
      BY DEF HubWorth, HubDraft
    <3>3. CASE u = Alice /\ Other(u) = Bob
      <4>1. W = d.hub + o.hub + Capital(o) BY <1>1, <2>6, <2>11, <3>3
      <4>2. HubWorth(Med(t).post.link) = c.hub + o.hub + Capital(o)
        BY <2>1, <2>6, <2>11, <3>2, <3>3
      <4> QED BY <3>1, <4>1, <4>2
    <3>4. CASE u = Bob /\ Other(u) = Alice
      <4>1. W = o.hub + d.hub + Capital(o) BY <1>1, <2>6, <3>4
      <4>2. HubWorth(Med(t).post.link) = o.hub + c.hub + Capital(o)
        BY <2>1, <2>6, <3>2, <3>4
      <4> HIDE DEF W
      <4> QED BY <3>1, <4>1, <4>2
    <3> QED BY <3>3, <3>4, OtherIs DEF Users
  <2>14. HubWorth(Med(t).post.link) + 0 = HubWorth(Opening.link) BY <2>4 DEF HubShort
  <2> HIDE DEF W
  <2>15. W = HubWorth(Opening.link)
    <3>1. PICK x, y : x = HubWorth(Med(t).post.link) /\ y = HubWorth(Opening.link) OBVIOUS
    <3>2. W = x BY <2>12, <2>13, <3>1
    <3>3. x \in Nat BY <2>13, <3>1
    <3>4. x + 0 = y BY <2>14, <3>1
    <3> QED BY <3>1, <3>2, <3>3, <3>4
  <2> QED BY <2>15 DEF W
<1> QED BY <1>3, <1>4 DEF Books, HubStore

\* As long as nobody restarts, and no install that has returned is asked for again,
\* whatever messages are lost and however the runs overlap: what the two parties of a
\* link have persisted of it is worth what the link was opened with, the stakes locked
\* up for virtual apps included. No installation or removal of an agreement, persisted
\* by one party only or by both, makes or loses money.
THEOREM LinksBalanced == Spec => []("crash" \notin faults => LinksBalance)
<1>1. Init => IInv /\ Sound BY InitHolds, BooksInit DEF Sound
<1>2. IInv /\ Sound /\ [Next]_vars => IInv' /\ Sound' BY NextHolds, SoundNext
<1>3. IInv /\ Sound => ("crash" \notin faults => LinksBalance)
  BY BooksBalance DEF Sound, LinksBalance
<1> QED BY <1>1, <1>2, <1>3, PTL DEF Spec

\* Under the same conditions: whenever the two links, as Ingrid has persisted them, carry
\* the same agreements, what she has on them and has locked up for the apps is what
\* she began with, although the two are written one after the other and some of the
\* runs end half way. Mediating costs her nothing and brings her nothing.
THEOREM HubStaysNeutral == Spec => []("crash" \notin faults => MediatorNeutral)
<1>1. Init => IInv /\ Sound BY InitHolds, BooksInit DEF Sound
<1>2. IInv /\ Sound /\ [Next]_vars => IInv' /\ Sound' BY NextHolds, SoundNext
<1>3. IInv /\ Sound => ("crash" \notin faults => MediatorNeutral)
  BY BooksNeutral DEF Sound, MediatorNeutral
<1> QED BY <1>1, <1>2, <1>3, PTL DEF Spec

=============================================================================
