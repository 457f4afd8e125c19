--------------------------- MODULE DisputesProofs ---------------------------
(***************************************************************************)
(* Proofs about Disputes: whatever the apps, the histories and the periods, *)
(* and whatever contracts are named, no challenge ends with a version       *)
(* outdated for the watchful party, and a challenge whose outcome was set   *)
(* stands, as does the outcome unless a call names another contract; and    *)
(* while none is named for a state or an outcome, what outcomes promise is  *)
(* in the wallet and the watchful party gets no less than was agreed. The   *)
(* inductive invariant says what every challenge was made of (Made), that   *)
(* one whose deadline has passed was not worth answering (Answered), and    *)
(* that outcomes are of challenges that have ended (Drawn). On it rests     *)
(* that of the money: the pots of the apps are covered (Backing), and the   *)
(* parties have been paid what was executed (PaidOut).                      *)
(***************************************************************************)
EXTENDS Disputes, Sums, TLAPS

AnyState ==
  (UNION {FinalStates(u) : u \in Updates(Len(history))}) \cup OtherStates \cup {None}

Challenges == [status : {"none", "deadline", "explicit"}, state : AnyState,
               version : Nat, left : Int]

Shape ==
  /\ history \in Histories
  /\ signed \in Nat /\ signed <= Len(history)
  /\ held \in Nat /\ held <= signed /\ signed <= held + 1
  /\ challenge \in [Apps -> Challenges]
  /\ DOMAIN outcome = Apps

Made ==
  \A a \in Apps : challenge[a].status # "none" =>
    \E u \in UpdatesOf(a, signed) :
      /\ u.version = challenge[a].version
      /\ a \in otherState \/ challenge[a].state \in FinalStates(u)
      /\ challenge[a].status = "deadline" \/ u.timeout = 0

Answered ==
  \A a \in Apps : challenge[a].status = "deadline" /\ challenge[a].left < 0 =>
    \A u \in UpdatesOf(a, held) : u.version <= challenge[a].version

Drawn ==
  \A a \in Apps : outcome[a] # None =>
    /\ Ended(challenge[a])
    /\ a \in otherOutcome \/ outcome[a] = ComputeOutcome(challenge[a].state)

IInv == Shape /\ Made /\ Answered /\ Drawn

-----------------------------------------------------------------------------
\* What DisputesConstants says of an update that someone holds.
LEMMA UpdateFacts ==
  ASSUME history \in Histories,
         NEW n \in Nat, n <= Len(history), NEW u \in Updates(n)
  PROVE  u.app \in Apps /\ u.version \in Nat \ {0} /\ u.timeout \in Nat
<1>1. PICK i \in 1..n : u = history[i]
  BY DEF Updates
<1>2. i \in DOMAIN history
  BY DisputesConstants
<1> QED
  BY <1>1, <1>2, DisputesConstants

\* Who holds more updates holds those of fewer; nobody holds more than someone.
LEMMA UsableSigned ==
  ASSUME Shape, NEW p
  PROVE  /\ Usable(p) \subseteq Updates(signed)
         /\ Updates(held) \subseteq Updates(signed)
         /\ Updates(signed) \subseteq Updates(Len(history))
<1> Len(history) \in Nat
  BY DisputesConstants DEF Shape
<1>1. \A m, n \in Nat : m <= n => Updates(m) \subseteq Updates(n)
  BY DEF Updates
<1> QED
  BY <1>1 DEF Usable, Shape

LEMMA NoneIsState == None \in AnyState
  BY Zenon DEF AnyState

LEMMA InitInv == Init => IInv
<1> SUFFICES ASSUME Init PROVE IInv
  OBVIOUS
<1> Len(history) \in Nat
  BY DisputesConstants DEF Init
<1>1. Shape
  <2>1. NoChallenge \in Challenges
    BY NoneIsState DEF NoChallenge, Challenges
  <2>2. challenge \in [Apps -> Challenges] /\ DOMAIN outcome = Apps
    BY <2>1 DEF Init, RegistryInit
  <2> QED
    BY <2>2 DEF Init, Shape
<1>2. Made /\ Answered /\ Drawn
  BY DEF Init, RegistryInit, Made, Answered, Drawn, NoChallenge
<1> QED
  BY <1>1, <1>2 DEF IInv

-----------------------------------------------------------------------------
(***************************************************************************)
(* Transactions that set a challenge. Both SetState and SetStateWithAction  *)
(* leave a challenge of some version, with a state an update can end with    *)
(* or one that another contract made, and a deadline not yet passed unless  *)
(* the update has no timeout.                                               *)
(***************************************************************************)
Sets(u, c) ==
  /\ MaySet(challenge[u.app], u.version)
  /\ challenge' = [challenge EXCEPT ![u.app] = c]
  /\ c \in [status : {"deadline", "explicit"}, state : FinalStates(u) \cup OtherStates,
            version : {u.version}, left : {u.timeout}]
  /\ u.app \in otherState' \/ c.state \in FinalStates(u)
  /\ c.status = "deadline" \/ u.timeout = 0
  /\ otherState \subseteq otherState'
  /\ UNCHANGED <<outcome, otherOutcome>>

LEMMA SetStateSets ==
  ASSUME IInv, NEW u \in Updates(signed), SetState(u), UNCHANGED named
  PROVE  \E c : Sets(u, c)
<1> DEFINE c == [status |-> IF u.timeout > 0 THEN "deadline" ELSE "explicit",
                 state |-> u.state, version |-> u.version, left |-> u.timeout]
<1>1. u.timeout \in Nat
  BY UpdateFacts DEF IInv, Shape
<1>2. c.status = "deadline" \/ u.timeout = 0
  BY <1>1
<1>3. Sets(u, c)
  BY <1>2 DEF SetState, Sets, FinalStates, named
<1> QED
  BY <1>3

LEMMA SetStateWithActionSets ==
  ASSUME IInv, NEW u \in Updates(signed), NEW x \in Actions(u.state, Amounts),
         SetStateWithAction(u, x), UNCHANGED named
  PROVE  \E c : Sets(u, c)
<1> DEFINE c == [status |-> "deadline", state |-> ApplyAction(u.state, x),
                 version |-> u.version, left |-> u.timeout]
<1>1. ApplyAction(u.state, x) \in FinalStates(u)
  BY DEF SetStateWithAction, FinalStates
<1>2. Sets(u, c)
  BY <1>1 DEF SetStateWithAction, Progress, Sets, named
<1> QED
  BY <1>2

LEMMA SetStateWithOtherActionSets ==
  ASSUME IInv, NEW u \in Updates(signed), SetStateWithOtherAction(u),
         otherState' = otherState \cup {u.app}, UNCHANGED otherOutcome
  PROVE  \E c : Sets(u, c)
<1>1. PICK s \in OtherStates : Progress(u, s)
  BY DEF SetStateWithOtherAction
<1> DEFINE c == [status |-> "deadline", state |-> s, version |-> u.version, left |-> u.timeout]
<1>2. Sets(u, c)
  BY <1>1 DEF Progress, Sets
<1> QED
  BY <1>2

LEMMA SetsStep ==
  ASSUME IInv, NEW u \in Updates(signed), NEW c, Sets(u, c),
         UNCHANGED <<history, signed, held>>
  PROVE  IInv' /\ \A a \in Apps : outcome[a] # None => challenge'[a] = challenge[a]
<1>1. u.app \in Apps /\ u.version \in Nat /\ u.timeout \in Nat
  BY UpdateFacts DEF IInv, Shape
<1>2. c \in Challenges
  <2>1. u \in Updates(Len(history))
    BY UsableSigned DEF IInv
  <2>2. c.state \in AnyState
    BY <2>1 DEF AnyState, Sets
  <2> QED
    BY <1>1, <2>2 DEF Sets, Challenges
<1>3. \A a \in Apps : challenge'[a] = IF a = u.app THEN c ELSE challenge[a]
  BY DEF Sets, IInv, Shape
<1>4. AnyState' = AnyState
  BY DEF AnyState, Updates, FinalStates
<1>5. Shape'
  BY <1>2, <1>4 DEF Shape, IInv, Sets, Challenges
<1>6. Made'
  <2>a. \A v : FinalStates(v)' = FinalStates(v)
    BY DEF FinalStates
  <2> SUFFICES ASSUME NEW a \in Apps, challenge'[a].status # "none"
               PROVE  \E v \in UpdatesOf(a, signed) :
                        /\ v.version = challenge'[a].version
                        /\ a \in otherState' \/ challenge'[a].state \in FinalStates(v)
                        /\ challenge'[a].status = "deadline" \/ v.timeout = 0
    BY <2>a DEF Made, UpdatesOf, Updates
  <2>1. CASE a = u.app
    BY <1>3, <2>1 DEF Sets, UpdatesOf
  <2>2. CASE a # u.app
    <3>1. PICK v \in UpdatesOf(a, signed) :
            /\ v.version = challenge[a].version
            /\ a \in otherState \/ challenge[a].state \in FinalStates(v)
            /\ challenge[a].status = "deadline" \/ v.timeout = 0
      BY <1>3, <2>2 DEF IInv, Made
    <3>2. a \in otherState' \/ challenge[a].state \in FinalStates(v)
      BY <3>1 DEF Sets
    <3> QED
      BY <1>3, <2>2, <3>1, <3>2
  <2> QED
    BY <2>1, <2>2
<1>7. Answered'
  <2> SUFFICES ASSUME NEW a \in Apps, challenge'[a].status = "deadline",
                      challenge'[a].left < 0
               PROVE  \A v \in UpdatesOf(a, held) : v.version <= challenge'[a].version
    BY DEF Answered, UpdatesOf, Updates
  <2>1. a # u.app
    BY <1>1, <1>3 DEF Sets
  <2> QED
    BY <1>3, <2>1 DEF IInv, Answered
<1>8. outcome[u.app] = None
  BY <1>1 DEF IInv, Drawn, Sets, MaySet, Ended, Open, Shape, Challenges
<1>9. Drawn'
  BY <1>3, <1>8 DEF IInv, Drawn, Sets, Ended
<1> QED
  BY <1>3, <1>5, <1>6, <1>7, <1>8, <1>9 DEF IInv

(***************************************************************************)
(* The other steps, in each of which outcomes and their challenges stand.   *)
(***************************************************************************)
Stands == \A a \in Apps : outcome[a] # None =>
            /\ challenge'[a] = challenge[a]
            /\ outcome'[a] = outcome[a] \/ a \in otherOutcome'

\* Nothing on chain changes, and what the watchful party comes to hold is of
\* an app with no challenge that has ended.
LEMMA OffChain ==
  ASSUME IInv, UNCHANGED <<registryVars, history, named>>,
         signed' \in Nat, signed <= signed', signed' <= Len(history),
         held' \in Nat, held' <= signed', signed' <= held' + 1,
         \A u \in Updates(signed') :
           u \in Updates(held) \/ ~Ended(challenge[u.app]) \/ u \notin Updates(held')
  PROVE  IInv' /\ Stands
<1> USE DEF registryVars, named
<1> Len(history) \in Nat
  BY DisputesConstants DEF IInv, Shape
<1>1. \A n : Updates(n)' = Updates(n')
  BY DEF Updates
<1>2. Updates(signed) \subseteq Updates(signed')
  BY DEF Updates, IInv, Shape
<1>3. Updates(held') \subseteq Updates(signed')
  BY DEF Updates
<1>4. Shape'
  <2>1. AnyState' = AnyState
    BY DEF AnyState, Updates, FinalStates
  <2> QED
    BY <2>1 DEF IInv, Shape, Challenges
<1>5. Made'
  <2>1. \A u : FinalStates(u)' = FinalStates(u)
    BY DEF FinalStates
  <2> SUFFICES ASSUME NEW a \in Apps, challenge[a].status # "none"
               PROVE  \E u \in Updates(signed') :
                        /\ u.app = a
                        /\ u.version = challenge[a].version
                        /\ a \in otherState \/ challenge[a].state \in FinalStates(u)
                        /\ challenge[a].status = "deadline" \/ u.timeout = 0
    BY <1>1, <2>1, Zenon DEF Made, UpdatesOf, Updates, FinalStates
  <2> QED
    BY <1>2 DEF IInv, Made, UpdatesOf
<1>6. Answered'
  <2> SUFFICES ASSUME NEW a \in Apps, challenge[a].status = "deadline",
                      challenge[a].left < 0, NEW u \in Updates(held'), u.app = a
               PROVE  u.version <= challenge[a].version
    BY DEF Answered, UpdatesOf, Updates
  <2>1. Ended(challenge[a])
    BY DEF Ended
  <2>2. u \in Updates(held)
    BY <1>3, <2>1
  <2> QED
    BY <2>2 DEF IInv, Answered, UpdatesOf
<1>7. Drawn' /\ Stands
  BY DEF IInv, Drawn, Stands
<1> QED
  BY <1>4, <1>5, <1>6, <1>7 DEF IInv

LEMMA CoSignInv == ASSUME IInv, CoSign PROVE IInv' /\ Stands
<1> Len(history) \in Nat
  BY DisputesConstants DEF IInv, Shape
<1>1. \A u \in Updates(signed') : u.app \in Apps
  BY UpdateFacts DEF IInv, Shape, CoSign
<1>2. \A u \in Updates(signed') : ~Ended(challenge[u.app])
  BY <1>1 DEF CoSign, Ended
<1>3. signed \in Nat /\ held = signed /\ signed' = signed + 1 /\ held' \in {signed, signed + 1}
  BY DEF CoSign, IInv, Shape
<1>4. signed' <= Len(history) /\ UNCHANGED <<registryVars, history, named>>
  BY <1>3 DEF CoSign
<1>5. signed' \in Nat /\ signed <= signed' /\ held' \in Nat /\ held' <= signed' /\ signed' <= held' + 1
  <2>1. CASE held' = signed
    BY <1>3, <2>1
  <2>2. CASE held' = signed + 1
    BY <1>3, <2>2
  <2> QED
    BY <1>3, <2>1, <2>2
<1> QED
  BY <1>2, <1>4, <1>5, OffChain

LEMMA DeliverInv == ASSUME IInv, Deliver PROVE IInv' /\ Stands
<1> Len(history) \in Nat
  BY DisputesConstants DEF IInv, Shape
<1>1. \A u \in Updates(signed') : u \in Updates(held) \/ ~Ended(challenge[u.app])
  BY DEF Deliver, Updates, IInv, Shape
<1>2. /\ UNCHANGED <<registryVars, history, named>> /\ signed' \in Nat /\ signed <= signed'
      /\ signed' <= Len(history) /\ held' \in Nat /\ held' <= signed' /\ signed' <= held' + 1
  BY DEF Deliver, IInv, Shape
<1> QED
  BY <1>1, <1>2, OffChain

\* A challenge that was open is no more.
LEMMA ClearsStep ==
  ASSUME IInv, NEW a \in Apps, NEW c \in Challenges, c.status = "none",
         Open(challenge[a]), challenge' = [challenge EXCEPT ![a] = c],
         UNCHANGED <<outcome, history, signed, held, named>>
  PROVE  IInv' /\ Stands
<1> USE DEF named
<1>1. \A b \in Apps : challenge'[b] = IF b = a THEN c ELSE challenge[b]
  BY DEF IInv, Shape
<1>2. outcome[a] = None
  BY DEF IInv, Shape, Drawn, Open, Ended, Challenges
<1>3. AnyState' = AnyState
  BY DEF AnyState, Updates, FinalStates
<1>4. Shape'
  BY <1>3 DEF IInv, Shape, Challenges
<1>5. Made'
  BY <1>1 DEF IInv, Made, UpdatesOf, Updates, FinalStates
<1>6. Answered'
  BY <1>1 DEF IInv, Answered, UpdatesOf, Updates
<1>7. Drawn' /\ Stands
  BY <1>1, <1>2 DEF IInv, Drawn, Stands
<1> QED
  BY <1>4, <1>5, <1>6, <1>7 DEF IInv

\* An outcome is set, of the challenge by the app's own contract or of another.
LEMMA OutcomeStep ==
  ASSUME IInv, NEW a \in Apps, NEW o, Ended(challenge[a]),
         outcome' = [outcome EXCEPT ![a] = o],
         a \in otherOutcome' \/ o = ComputeOutcome(challenge[a].state),
         otherOutcome \subseteq otherOutcome',
         UNCHANGED <<challenge, history, signed, held, otherState>>
  PROVE  IInv' /\ Stands
<1>1. \A b \in Apps : outcome'[b] = IF b = a THEN o ELSE outcome[b]
  BY DEF IInv, Shape
<1>2. AnyState' = AnyState
  BY DEF AnyState, Updates, FinalStates
<1>3. Shape'
  BY <1>2 DEF IInv, Shape, Challenges
<1>4. Made' /\ Answered'
  BY DEF IInv, Made, Answered, UpdatesOf, Updates, FinalStates
<1>5. Drawn'
  BY <1>1 DEF IInv, Drawn
<1>6. Stands
  BY <1>1 DEF IInv, Drawn, Stands
<1> QED
  BY <1>3, <1>4, <1>5, <1>6 DEF IInv

LEMMA StoreOutcomeInv ==
  ASSUME IInv, NEW a \in Apps, StoreOutcome(a) \/ StoreOtherOutcome(a)
  PROVE  IInv' /\ Stands
<1>1. CASE StoreOutcome(a)
  BY <1>1, OutcomeStep DEF StoreOutcome, SetOutcome, named
<1>2. CASE StoreOtherOutcome(a)
  <2>1. PICK o \in OtherOutcomes : outcome' = [outcome EXCEPT ![a] = o]
    BY <1>2 DEF StoreOtherOutcome, SetOtherOutcome
  <2> QED
    BY <1>2, <2>1, OutcomeStep DEF StoreOtherOutcome, SetOtherOutcome
<1> QED
  BY <1>1, <1>2

LEMMA MineInv == ASSUME IInv, Mine PROVE IInv' /\ Stands
<1>1. UNCHANGED <<outcome, history, signed, held, otherState, otherOutcome>>
  BY DEF Mine, NextBlock, named
<1>2. \A a \in Apps :
        challenge'[a] = IF Open(challenge[a])
                        THEN [challenge[a] EXCEPT !.left = @ - 1] ELSE challenge[a]
  BY DEF Mine, NextBlock
<1>3. \A a \in Apps :
        /\ challenge'[a] \in Challenges
        /\ challenge'[a].status = challenge[a].status
        /\ challenge'[a].state = challenge[a].state
        /\ challenge'[a].version = challenge[a].version
        /\ challenge'[a].left < 0 => challenge[a].left <= 0
        /\ Ended(challenge[a]) => challenge'[a] = challenge[a]
  <2> SUFFICES ASSUME NEW a \in Apps, NEW c, c = challenge[a]
               PROVE  /\ challenge'[a] \in Challenges
                      /\ challenge'[a].status = c.status
                      /\ challenge'[a].state = c.state
                      /\ challenge'[a].version = c.version
                      /\ challenge'[a].left < 0 => c.left <= 0
                      /\ Ended(c) => challenge'[a] = c
    BY Zenon
  <2>1. c \in Challenges
    BY DEF IInv, Shape
  <2>2. CASE Open(c)
    <3>1. challenge'[a] = [c EXCEPT !.left = @ - 1]
      BY <1>2, <2>2, Zenon
    <3>2. ~Ended(c)
      BY <2>1, <2>2 DEF Open, Ended, Challenges
    <3> QED
      BY <2>1, <3>1, <3>2 DEF Challenges
  <2>3. CASE ~Open(c)
    <3>1. challenge'[a] = c
      BY <1>2, <2>3, Zenon
    <3>2. c.left < 0 => c.left <= 0
      BY <2>1 DEF Challenges
    <3> QED
      BY <2>1, <3>1, <3>2
  <2> QED
    BY <2>2, <2>3
<1>4. AnyState' = AnyState
  BY <1>1 DEF AnyState, Updates, FinalStates
<1>5. Shape'
  <2>1. challenge' \in [Apps -> Challenges]
    BY <1>3 DEF Mine, NextBlock
  <2> QED
    BY <1>1, <1>4, <2>1 DEF IInv, Shape, Challenges
<1>6. Made'
  <2>1. \A u : FinalStates(u)' = FinalStates(u)
    BY DEF FinalStates
  <2> QED
    BY <1>1, <1>3, <2>1 DEF IInv, Made, UpdatesOf, Updates
<1>7. Answered'
  <2> SUFFICES ASSUME NEW a \in Apps, challenge'[a].status = "deadline",
                      challenge'[a].left < 0, NEW u \in UpdatesOf(a, held)
               PROVE  u.version <= challenge[a].version
    BY <1>1, <1>3 DEF Answered, UpdatesOf, Updates
  <2>1. u.version \in Nat /\ challenge[a].version \in Nat /\ challenge[a].left \in Int
    <3>1. u \in Updates(held)
      BY DEF UpdatesOf
    <3> QED
      BY <3>1, UsableSigned, UpdateFacts DEF IInv, Shape, Challenges
  <2>2. CASE challenge[a].left < 0
    BY <1>3, <2>2 DEF IInv, Answered
  <2>3. CASE challenge[a].left = 0
    BY <1>3, <2>1, <2>3 DEF Mine, Overdue, MaySet, Open
  <2> QED
    BY <1>3, <2>1, <2>2, <2>3
<1>8. Drawn' /\ Stands
  BY <1>1, <1>3 DEF IInv, Drawn, Stands
<1> QED
  BY <1>5, <1>6, <1>7, <1>8 DEF IInv

-----------------------------------------------------------------------------
\* One case for each action.
LEMMA StepInv == IInv /\ [Next]_vars => IInv' /\ Stands
<1> SUFFICES ASSUME IInv, [Next]_vars PROVE IInv' /\ Stands
  OBVIOUS
<1>1. CASE CoSign
  BY <1>1, CoSignInv
<1>2. CASE Deliver
  BY <1>2, DeliverInv
<1>3. CASE Mine
  BY <1>3, MineInv
<1>4. ASSUME NEW u \in Updates(signed), NEW c, Sets(u, c), UNCHANGED <<history, signed, held>>
      PROVE  IInv' /\ Stands
  <2>1. UNCHANGED <<outcome, otherOutcome>>
    BY <1>4 DEF Sets
  <2> QED
    BY <1>4, <2>1, SetsStep DEF Stands
<1>5. ASSUME NEW p \in Parties, NEW a \in Apps, Submit(p, a) PROVE IInv' /\ Stands
  <2>1. PICK u \in Updates(signed) : SetState(u)
    BY <1>5, UsableSigned DEF Submit, IInv
  <2>2. PICK c : Sets(u, c)
    BY <1>5, <2>1, SetStateSets DEF Submit
  <2> QED
    BY <1>4, <1>5, <2>2 DEF Submit
<1>6. ASSUME NEW p \in Parties, NEW a \in Apps, SubmitWithAction(p, a) PROVE IInv' /\ Stands
  <2>1. PICK u \in Updates(signed) : \E x \in Actions(u.state, Amounts) : SetStateWithAction(u, x)
    BY <1>6, UsableSigned DEF SubmitWithAction, IInv
  <2>2. PICK c : Sets(u, c)
    BY <1>6, <2>1, SetStateWithActionSets DEF SubmitWithAction
  <2> QED
    BY <1>4, <1>6, <2>2 DEF SubmitWithAction
<1>7. ASSUME NEW p \in Parties, NEW a \in Apps, Respond(p, a) PROVE IInv' /\ Stands
  <2>1. PICK x : RespondToChallenge(a, x)
    BY <1>7 DEF Respond
  <2>2. NoChallenge \in Challenges /\ NoChallenge.status = "none"
    BY NoneIsState DEF NoChallenge, Challenges
  <2> QED
    BY <1>7, <2>1, <2>2, ClearsStep DEF RespondToChallenge, Remove, Respond
<1>8. ASSUME NEW p \in Parties, NEW a \in Apps, Cancel(p, a) PROVE IInv' /\ Stands
  <2>1. PICK u : u.app = a /\ CancelChallenge(u)
    BY <1>8 DEF Cancel
  <2> DEFINE c == [challenge[a] EXCEPT !.status = "none", !.left = 0]
  <2>2. challenge' = [challenge EXCEPT ![a] = c]
    BY <2>1, Zenon DEF CancelChallenge
  <2>3. c \in Challenges /\ c.status = "none"
    <3> DEFINE d == [challenge[a] EXCEPT !.status = "none"]
    <3>1. challenge[a] \in Challenges
      BY DEF IInv, Shape
    <3>2. d \in Challenges /\ d.status = "none"
      BY <3>1 DEF Challenges
    <3>3. c = [d EXCEPT !.left = 0]
      BY Zenon
    <3> HIDE DEF c, d
    <3> QED
      BY <3>2, <3>3 DEF Challenges
  <2>4. Open(challenge[a]) /\ UNCHANGED outcome
    BY <2>1 DEF CancelChallenge
  <2> HIDE DEF c
  <2> QED
    BY <1>8, <2>2, <2>3, <2>4, ClearsStep DEF Cancel
<1>9. ASSUME NEW a \in Apps, StoreOutcome(a) \/ StoreOtherOutcome(a) PROVE IInv' /\ Stands
  BY <1>9, StoreOutcomeInv
<1>13. ASSUME NEW p \in Parties, NEW a \in Apps, SubmitWithOtherAction(p, a)
       PROVE  IInv' /\ Stands
  <2>1. PICK u \in Updates(signed) : u.app = a /\ SetStateWithOtherAction(u)
    BY <1>13, UsableSigned DEF SubmitWithOtherAction, IInv
  <2>2. PICK c : Sets(u, c)
    BY <1>13, <2>1, SetStateWithOtherActionSets DEF SubmitWithOtherAction
  <2> QED
    BY <1>4, <1>13, <2>2 DEF SubmitWithOtherAction
<1>14. ASSUME NEW p \in Parties, NEW a \in Apps, RespondOtherwise(p, a) PROVE IInv' /\ Stands
  <2>1. NoChallenge \in Challenges /\ NoChallenge.status = "none"
    BY NoneIsState DEF NoChallenge, Challenges
  <2> QED
    BY <1>14, <2>1, ClearsStep DEF RespondOtherwise, RespondWithOtherAction, Remove
<1>10. ASSUME UNCHANGED <<registryVars, history, signed, held, named>> PROVE IInv' /\ Stands
  <2>1. AnyState' = AnyState
    BY <1>10 DEF AnyState, Updates, FinalStates
  <2>2. Shape'
    BY <1>10, <2>1 DEF registryVars, IInv, Shape, Challenges
  <2>3. Made' /\ Answered'
    BY <1>10 DEF registryVars, named, IInv, Made, Answered, UpdatesOf, Updates, FinalStates
  <2>4. Drawn' /\ Stands
    BY <1>10 DEF registryVars, named, IInv, Drawn, Stands
  <2> QED
    BY <2>2, <2>3, <2>4 DEF IInv
<1>11. ASSUME NEW a, Execute(a) PROVE IInv' /\ Stands
  BY <1>10, <1>11 DEF Execute
<1>12. CASE UNCHANGED vars
  BY <1>10, <1>12 DEF vars
<1> QED
  BY <1>1, <1>2, <1>3, <1>5, <1>6, <1>7, <1>8, <1>9, <1>11, <1>12, <1>13, <1>14
  DEF Next, executeEffectOfFreeBalance, executeEffectOfInterpretedAppOutcome

LEMMA Invariance == Spec => []IInv
  BY InitInv, StepInv, PTL DEF Spec

-----------------------------------------------------------------------------
\* What a challenge ends with has the version of an update no older than the
\* newest the watchful party holds, and is its state, or what an action makes of
\* it, unless another contract was named to set it.
THEOREM LatestStateIsFinal == Spec => []LatestIsFinal
<1>1. IInv => LatestIsFinal
  <2> SUFFICES ASSUME IInv, NEW a \in Apps, Ended(challenge[a]),
                      \A u \in UpdatesOf(a, signed) : u.timeout > 0
               PROVE  \E u \in UpdatesOf(a, signed) :
                        /\ IsNewest(u, held) /\ u.version = challenge[a].version
                        /\ a \in otherState \/ challenge[a].state \in FinalStates(u)
    BY DEF LatestIsFinal
  <2>1. challenge[a].status # "none"
    BY DEF Ended
  <2>2. PICK u \in UpdatesOf(a, signed) :
          /\ u.version = challenge[a].version
          /\ a \in otherState \/ challenge[a].state \in FinalStates(u)
          /\ challenge[a].status = "deadline" \/ u.timeout = 0
    BY <2>1 DEF IInv, Made
  <2>3. challenge[a].status = "deadline" /\ challenge[a].left < 0
    BY <2>2 DEF Ended
  <2>4. IsNewest(u, held)
    BY <2>2, <2>3 DEF IsNewest, IInv, Answered, UpdatesOf
  <2> QED
    BY <2>2, <2>4
<1> QED
  BY <1>1, Invariance, PTL

\* No transaction, whoever sends it and when, changes the challenge an outcome
\* was computed from, and none the outcome but one that names another contract
\* than the app's, or comes after such a one.
THEOREM OutcomesStand == Spec => OutcomeStands
<1>1. Stands => (\A a \in Apps : outcome[a] # None =>
                   /\ challenge'[a] = challenge[a]
                   /\ outcome'[a] = outcome[a] \/ a \in otherOutcome')
  BY DEF Stands
<1> QED
  BY <1>1, StepInv, Invariance, PTL DEF Spec, OutcomeStands

-----------------------------------------------------------------------------
(* What the states of an app pay out.                                       *)

Pays(state) == ComputeOutcome(state).pays

LEMMA WorthOf ==
  ASSUME NEW s, NEW m \in Money, Pays(s) = m
  PROVE  Worth(s) = m[P1] + m[P2]
BY DEF Worth, Pays

LEMMA FixedTotal ==
  ASSUME NEW w \in {P1, P2, Split}, NEW stake \in Nat
  PROVE  /\ FixedOutcome(w, stake) \in Money
         /\ FixedOutcome(w, stake)[P1] + FixedOutcome(w, stake)[P2] = stake
<1> DEFINE half == stake \div 2
           rest == stake - half
<1>1. half \in Nat /\ rest \in Nat /\ half + rest = stake OBVIOUS
<1> HIDE DEF half, rest
<1> DEFINE pay(p) == IF w = Split THEN IF p = P1 THEN half ELSE rest
                     ELSE IF p = w THEN stake ELSE 0
<1>2. FixedOutcome(w, stake) = [p \in Parties |-> pay(p)]
  BY DEF FixedOutcome, Parties, half, rest
<1>3. \A p \in Parties : pay(p) \in Nat BY <1>1
<1>4. pay(P1) + pay(P2) = stake
  <2>1. CASE w = Split BY <1>1, <2>1, TwoParticipants
  <2>2. CASE w # Split BY <2>2, TwoParticipants
  <2> QED BY <2>1, <2>2
<1>5. P1 \in Parties /\ P2 \in Parties BY DEF Parties
<1> HIDE DEF pay
<1> QED BY <1>2, <1>3, <1>4, <1>5 DEF Money

\* Whoever is named by a game's outcome, it pays out the stake.
LEMMA WinnerIs ==
  ASSUME NEW s \in GameStates
  PROVE  Winner(s) \in {P1, P2, Split}
<1>1. s.kind \in Games BY DEF GameStates, Games
<1>2. Mover(s) \in {P1, P2} BY DEF Mover
<1>3. CASE s.kind = "highRoller"
  <2>1. Winner(s) = RollWinner(s) BY <1>3 DEF Winner
  <2>2. Rolled(s.first, s.second) \in {P1, P2, Split} BY Zenon DEF Rolled
  <2>3. RollWinner(s) \in {P1, P2, Split} BY <2>2 DEF RollWinner
  <2> QED BY <2>1, <2>3
<1>4. CASE s.kind = "ticTacToe"
  <2>1. Winner(s) = PlayWinner(s) BY <1>4 DEF Winner
  <2>2. s.winner \in {P1, P2, Split, Nobody} BY <1>4 DEF GameStates
  <2> QED BY <1>2, <2>1, <2>2 DEF PlayWinner
<1>5. CASE s.kind = "nim" BY <1>2, <1>5 DEF Winner
<1> QED BY <1>1, <1>3, <1>4, <1>5 DEF Games

LEMMA GamePays ==
  ASSUME NEW s, s.kind \in Games, s.stake \in Nat, Winner(s) \in {P1, P2, Split}
  PROVE  Pays(s) \in Money /\ Worth(s) = s.stake
<1>1. Pays(s) = FixedOutcome(Winner(s), s.stake) BY DEF Pays, ComputeOutcome, Games
<1> QED BY <1>1, FixedTotal, WorthOf

\* A move changes neither the game nor the stake.
LEMMA MoveKeeps ==
  ASSUME NEW s \in GameStates, NEW x \in GameActions(s, Amounts), GameAccepts(s, x)
  PROVE  /\ ApplyGame(s, x).kind = s.kind /\ ApplyGame(s, x).stake = s.stake
         /\ Winner(ApplyGame(s, x)) \in {P1, P2, Split}
<1>1. s.kind \in Games BY DEF GameStates, Games
<1>2. CASE s.kind = "highRoller"
  <2> DEFINE next == [s EXCEPT !.turnNum = @ + 1]
             t == ApplyRoll(s, x)
  <2>1. ApplyGame(s, x) = t BY <1>2 DEF ApplyGame
  <2>2. next \in [kind : {"highRoller"}, stake : {s.stake}, turnNum : {s.turnNum + 1},
                  stage : {s.stage}, commitHash : {s.commitHash}, first : {s.first},
                  second : {s.second}]
    BY <1>2 DEF GameStates
  <2>3. \/ t = [next EXCEPT !.stage = "P1_COMMITTED_TO_HASH", !.commitHash = x.number]
        \/ t = [next EXCEPT !.stage = "P2_COMMITTED_TO_NUM", !.second = x.number]
        \/ t = [next EXCEPT !.stage = "P1_TRIED_TO_SUBMIT_ZERO"]
        \/ t = [next EXCEPT !.stage = "P1_REVEALED_NUM", !.first = x.number]
    <3>1. CASE x.type = "COMMIT_TO_HASH" BY <3>1 DEF ApplyRoll
    <3>2. CASE x.type = "COMMIT_TO_NUM" BY <3>2 DEF ApplyRoll
    <3>3. CASE x.type = "REVEAL_NUM" /\ x.number = 0 BY <3>3 DEF ApplyRoll
    <3>4. CASE /\ x.type \notin {"COMMIT_TO_HASH", "COMMIT_TO_NUM"}
               /\ ~(x.type = "REVEAL_NUM" /\ x.number = 0)
      BY <3>4 DEF ApplyRoll
    <3> QED BY <3>1, <3>2, <3>3, <3>4
  <2> HIDE DEF t, next
  <2>4. t.kind = "highRoller" /\ t.stake = s.stake BY <2>2, <2>3
  <2>5. Winner(t) = RollWinner(t) BY <2>4 DEF Winner
  <2>6. Rolled(t.first, t.second) \in {P1, P2, Split} BY Zenon DEF Rolled
  <2>7. RollWinner(t) \in {P1, P2, Split} BY <2>6 DEF RollWinner
  <2> QED BY <1>2, <2>1, <2>4, <2>5, <2>7
<1>3. CASE s.kind = "ticTacToe"
  <2> DEFINE played == IF x.type = "DRAW" THEN s ELSE playMove(s, x.square)
             next == [played EXCEPT !.turnNum = @ + 1]
             t == ApplyPlay(s, x)
  <2>1. ApplyGame(s, x) = t BY <1>3 DEF ApplyGame
  <2>2. s \in [kind : {"ticTacToe"}, stake : Nat, turnNum : Nat,
               board : [Squares -> {P1, P2, Nobody}], winner : {P1, P2, Split, Nobody}]
    BY <1>3 DEF GameStates
  <2>3. \/ played = s
        \/ played = [s EXCEPT !.board = [s.board EXCEPT ![x.square] = Mover(s)]]
    BY Zenon DEF playMove
  <2> HIDE DEF played
  <2>4. PICK b : played \in [kind : {"ticTacToe"}, stake : {s.stake}, turnNum : Nat,
                             board : {b}, winner : {s.winner}]
    BY <2>2, <2>3
  <2>5. next \in [kind : {"ticTacToe"}, stake : {s.stake}, turnNum : Nat,
                  board : {b}, winner : {s.winner}]
    BY <2>4
  <2>6. \/ t = next
        \/ t = [next EXCEPT !.winner = Mover(s)]
        \/ t = [next EXCEPT !.winner = Split]
    BY Zenon DEF ApplyPlay, played
  <2> HIDE DEF next, t
  <2>7. Mover(s) \in {P1, P2} /\ Mover(t) \in {P1, P2} BY DEF Mover
  <2>8. /\ t.kind = "ticTacToe" /\ t.stake = s.stake
        /\ t.winner \in {P1, P2, Split, Nobody}
    BY <2>2, <2>5, <2>6, <2>7
  <2>9. Winner(t) = PlayWinner(t) BY <2>8 DEF Winner
  <2>10. PlayWinner(t) \in {P1, P2, Split} BY <2>7, <2>8 DEF PlayWinner
  <2> QED BY <1>3, <2>1, <2>8, <2>9, <2>10
<1>4. CASE s.kind = "nim"
  <2> DEFINE hs == [s.pileHeights EXCEPT ![x.pileIdx] = @ - x.takeAmnt]
             t == ApplyTake(s, x)
  <2>1. ApplyGame(s, x) = t BY <1>4 DEF ApplyGame
  <2>2. s \in [kind : {"nim"}, stake : Nat, turnNum : Nat, pileHeights : [Piles -> Nat]]
    BY <1>4 DEF GameStates
  <2>3. t = [[s EXCEPT !.pileHeights = hs] EXCEPT !.turnNum = @ + 1]
    BY Zenon DEF ApplyTake
  <2> HIDE DEF hs, t
  <2>4. t.kind = "nim" /\ t.stake = s.stake BY <2>2, <2>3
  <2>5. Winner(t) = Mover(t) BY <2>4 DEF Winner
  <2>6. Mover(t) \in {P1, P2} BY DEF Mover
  <2> QED BY <1>4, <2>1, <2>4, <2>5, <2>6
<1> QED BY <1>1, <1>2, <1>3, <1>4 DEF Games

TransferStates ==
  [kind : {"transfer", "linked"}, from : Parties, stage : Stages, turnNum : Nat,
   transfers : Money]

LEMMA TransferPays ==
  ASSUME NEW s, NEW m \in Money, s.kind \in {"transfer", "linked", "identity"}, s.transfers = m
  PROVE  Pays(s) = m /\ Worth(s) = m[P1] + m[P2]
<1>1. Pays(s) = m BY DEF Pays, ComputeOutcome, Games
<1> QED BY <1>1, WorthOf

\* Money that moves from one party to the other.
LEMMA MovedIs ==
  ASSUME NEW m \in Money, NEW f \in Parties, NEW y \in Nat, y <= m[f]
  PROVE  /\ Moved(m, f, y) \in Money
         /\ Moved(m, f, y)[P1] + Moved(m, f, y)[P2] = m[P1] + m[P2]
<1> DEFINE n == Moved(m, f, y)
<1>1. Other(f) \in Parties /\ Other(f) # f /\ Parties = {f, Other(f)}
  BY TwoParticipants DEF Other, Parties
<1>2. n[f] = m[f] - y BY TwoParticipants DEF Moved, Money, Parties, Other
<1>3. n[Other(f)] = m[Other(f)] + y BY TwoParticipants DEF Moved, Money, Parties, Other
<1>4. n = [p \in Parties |-> n[p]] BY DEF Moved, Money
<1>5. m[f] \in Nat /\ m[Other(f)] \in Nat BY <1>1 DEF Money
<1> HIDE DEF n
<1>6. n[f] \in Nat /\ n[Other(f)] \in Nat BY <1>2, <1>3, <1>5
<1>7. n \in Money BY <1>1, <1>4, <1>6 DEF Money
<1>8. n[f] + n[Other(f)] = m[f] + m[Other(f)] BY <1>2, <1>3, <1>5
<1>9. CASE f = P1
  <2>1. Other(f) = P2 BY <1>9 DEF Other
  <2> QED BY <1>7, <1>8, <1>9, <2>1 DEF n
<1>10. CASE f = P2
  <2>1. Other(f) = P1 BY <1>10, TwoParticipants DEF Other
  <2>2. n[P1] \in Nat /\ n[P2] \in Nat /\ m[P1] \in Nat /\ m[P2] \in Nat
    BY <1>5, <1>6, <1>10, <2>1
  <2>3. n[P1] + n[P2] = m[P1] + m[P2] BY <1>8, <1>10, <2>1, <2>2
  <2> QED BY <1>7, <2>3 DEF n
<1> QED BY <1>9, <1>10 DEF Parties

LEMMA TransferActions ==
  ASSUME NEW s, s.kind = "transfer", NEW x \in Actions(s, Amounts)
  PROVE  x.type \in {"SEND_MONEY", "END_CHANNEL"} /\ x.amount \in Nat
<1>1. x \in [type : {"SEND_MONEY"}, amount : Amounts]
              \cup [type : {"END_CHANNEL"}, amount : {0}]
  BY DEF Actions, Games
<1>2. x.type \in {"SEND_MONEY", "END_CHANNEL"} /\ x.amount \in Amounts \cup {0} BY <1>1
<1>3. \A y \in Amounts \cup {0} : y \in Nat BY DisputesConstants
<1> QED BY <1>2, <1>3

LEMMA GameMoves ==
  ASSUME NEW s, s.kind \in Games, NEW x \in Actions(s, Amounts)
  PROVE  x \in GameActions(s, Amounts) /\ x.type \notin {"SEND_MONEY", "preImage"}
<1>1. x \in GameActions(s, Amounts) BY DEF Actions, Games
<1>2. CASE s.kind = "highRoller"
  <2>1. x \in RollActions BY <1>1, <1>2 DEF GameActions
  <2> QED BY <1>1, <2>1 DEF RollActions
<1>3. CASE s.kind = "ticTacToe"
  <2>1. x \in PlayActions BY <1>1, <1>3 DEF GameActions
  <2>2. x.type \in {"PLAY", "PLAY_AND_DRAW", "PLAY_AND_WIN", "DRAW"} BY <2>1 DEF PlayActions
  <2> QED BY <1>1, <2>2
<1>4. CASE s.kind = "nim"
  <2>1. x \in TakeActions(Amounts) BY <1>1, <1>4 DEF GameActions
  <2> QED BY <1>1, <2>1 DEF TakeActions
<1> QED BY <1>2, <1>3, <1>4 DEF Games

\* An action of a transfer app moves money between the two transfers.
LEMMA TransferKeeps ==
  ASSUME NEW s \in TransferStates, NEW x \in Actions(s, Amounts), Accepts(s, x)
  PROVE  /\ Pays(ApplyAction(s, x)) \in Money
         /\ Worth(ApplyAction(s, x)) = Worth(s)
<1>1. /\ s.kind \in {"transfer", "linked"} /\ s.kind \notin Games /\ s.from \in Parties
      /\ s.transfers \in Money
  BY DEF TransferStates, Games
<1>2. PICK m : m = s.transfers OBVIOUS
<1>3. Worth(s) = m[P1] + m[P2] /\ m[P1] \in Nat /\ m[P2] \in Nat
  BY <1>1, <1>2, TransferPays DEF Money, Parties
<1> DEFINE t == ApplyAction(s, x)
<1>4. /\ x.type \in {"END_CHANNEL", "SEND_MONEY", "preImage", "wrongPreImage"}
      /\ x.type = "SEND_MONEY" => x.amount \in Nat /\ x.amount <= m[s.from]
  <2>1. CASE s.kind = "transfer"
    <3>3. x.type \in {"END_CHANNEL", "SEND_MONEY"} /\ x.amount \in Nat
      BY <2>1, TransferActions
    <3>4. x.type = "SEND_MONEY" => x.amount <= m[s.from]
      BY <1>1, <1>2, <2>1 DEF Accepts
    <3> QED BY <3>3, <3>4
  <2>2. CASE s.kind = "linked"
    <3>1. x.type \in {"preImage", "wrongPreImage"} BY <1>1, <2>2 DEF Accepts
    <3> QED BY <3>1
  <2> QED BY <1>1, <2>1, <2>2
<1>5. ASSUME NEW n \in Money, t.kind = s.kind, t.transfers = n, n[P1] + n[P2] = m[P1] + m[P2]
      PROVE  Pays(t) \in Money /\ Worth(t) = Worth(s)
  <2>1. t.kind \in {"transfer", "linked", "identity"} BY <1>1, <1>5
  <2> HIDE DEF t
  <2>2. Pays(t) = n /\ Worth(t) = n[P1] + n[P2] BY <1>5, <2>1, TransferPays
  <2> QED BY <1>3, <1>5, <2>2
<1>6. CASE x.type = "SEND_MONEY"
  <2> DEFINE f == s.from
             y == x.amount
             n == Moved(m, f, y)
             u == [s EXCEPT !.stage = "MONEY_SENT"]
             v == [u EXCEPT !.turnNum = @ + 1]
             w == [v EXCEPT !.transfers = Moved(@, f, y)]
  <2>1. t = [s EXCEPT !.stage = "MONEY_SENT", !.turnNum = @ + 1,
                      !.transfers = Moved(@, s.from, x.amount)]
    BY <1>1, <1>6 DEF ApplyAction
  <2>2. t = w BY <2>1, Zenon
  <2>3. u \in TransferStates \/ (u.kind = s.kind /\ u.transfers = m)
    BY <1>2 DEF TransferStates
  <2>4. w.kind = s.kind /\ w.transfers = Moved(m, f, y) BY <1>2 DEF TransferStates
  <2>5. n \in Money /\ n[P1] + n[P2] = m[P1] + m[P2]
    <3>1. f \in Parties /\ y \in Nat /\ y <= m[f] /\ m \in Money
      BY <1>1, <1>2, <1>4, <1>6
    <3> HIDE DEF f, y
    <3> QED BY <3>1, MovedIs
  <2> HIDE DEF n, w, f, y, t
  <2>6. t.kind = s.kind /\ t.transfers = n BY <2>2, <2>4 DEF n
  <2> QED BY <1>5, <2>5, <2>6 DEF t
<1>7. CASE x.type = "preImage"
  <2> DEFINE n == [p \in Parties |-> m[Other(p)]]
             u == [s EXCEPT !.stage = "PAYMENT_CLAIMED"]
             v == [u EXCEPT !.turnNum = @ + 1]
             w == [v EXCEPT !.transfers = n]
  <2>1. t = [s EXCEPT !.stage = "PAYMENT_CLAIMED", !.turnNum = @ + 1, !.transfers = n]
    BY <1>1, <1>2, <1>7 DEF ApplyAction
  <2>2. t = w BY <2>1, Zenon
  <2> HIDE DEF n
  <2>4. w.kind = s.kind /\ w.transfers = n BY DEF TransferStates
  <2>5. n \in Money /\ n[P1] + n[P2] = m[P1] + m[P2]
    BY <1>3, TwoParticipants DEF n, Money, Parties, Other
  <2> HIDE DEF w, t
  <2>6. t.kind = s.kind /\ t.transfers = n BY <2>2, <2>4
  <2> QED BY <1>5, <2>5, <2>6 DEF t
<1>8. CASE x.type \in {"END_CHANNEL", "wrongPreImage"}
  <2> DEFINE u == [s EXCEPT !.stage = "CHANNEL_CLOSED"]
             w == [u EXCEPT !.turnNum = @ + 1]
  <2>1. t = [s EXCEPT !.stage = "CHANNEL_CLOSED", !.turnNum = @ + 1]
    BY <1>1, <1>8 DEF ApplyAction
  <2>2. t = w BY <2>1, Zenon
  <2>4. w.kind = s.kind /\ w.transfers = m BY <1>2 DEF TransferStates
  <2> HIDE DEF w, t
  <2>5. t.kind = s.kind /\ t.transfers = m BY <2>2, <2>4
  <2> QED BY <1>1, <1>2, <1>5, <2>5 DEF t
<1> QED BY <1>4, <1>6, <1>7, <1>8

LEMMA LinkPays ==
  ASSUME NEW s \in [kind : {"simpleLinked"}, from : Parties, claimed : BOOLEAN,
                    transfers : Money]
  PROVE  Pays(s) \in Money /\ Worth(s) \in Nat
<1>1. Pays(s) = LinkOutcome(s)
  <2>1. s.kind = "simpleLinked" OBVIOUS
  <2> QED BY <2>1 DEF Pays, ComputeOutcome, Games
<1>2. s.from \in Parties /\ s.transfers \in [Parties -> Nat] BY DEF Money
<1>3. PICK y : y = s.transfers[s.from] OBVIOUS
<1>4. y \in Nat BY <1>2, <1>3
<1>5. LinkOutcome(s) = [p \in Parties |-> LinkOutcome(s)[p]] BY DEF LinkOutcome
<1>6. \A p \in Parties : LinkOutcome(s)[p] \in {0, y} BY <1>3 DEF LinkOutcome
<1>7. LinkOutcome(s) \in Money BY <1>4, <1>5, <1>6 DEF Money
<1>8. P1 \in Parties /\ P2 \in Parties BY DEF Parties
<1>9. Worth(s) = LinkOutcome(s)[P1] + LinkOutcome(s)[P2] BY <1>1, <1>7, WorthOf
<1> QED BY <1>1, <1>4, <1>6, <1>7, <1>8, <1>9

\* What a state pays out does not change when an action on it is put on chain.
LEMMA FinalPays ==
  ASSUME NEW u, u.state \in AppStates, NEW s \in FinalStates(u)
  PROVE  Pays(s) \in Money /\ Worth(s) = Worth(u.state)
<1>1. PICK t : t = u.state OBVIOUS
<1>2. \/ t \in TransferStates
      \/ t \in [kind : {"simpleLinked"}, from : Parties, claimed : BOOLEAN, transfers : Money]
      \/ t \in GameStates
  BY <1>1 DEF AppStates, TransferStates
<1>3. \/ s = t
      \/ \E x \in Actions(t, Amounts) : HasTurns(t) /\ Accepts(t, x) /\ s = ApplyAction(t, x)
  BY <1>1 DEF FinalStates
<1>4. CASE t \in TransferStates
  <2>1. t.kind \in {"transfer", "linked", "identity"} /\ t.transfers \in Money
    BY <1>4 DEF TransferStates
  <2>2. Pays(t) \in Money BY <2>1, TransferPays
  <2> QED BY <1>1, <1>3, <1>4, <2>2, TransferKeeps
<1>5. CASE t \in [kind : {"simpleLinked"}, from : Parties, claimed : BOOLEAN, transfers : Money]
  <2>1. ~HasTurns(t) BY <1>5 DEF HasTurns, Games
  <2> QED BY <1>1, <1>3, <1>5, <2>1, LinkPays
<1>6. CASE t \in GameStates
  <2>1. t.kind \in Games /\ t.stake \in Nat BY <1>6 DEF GameStates, Games
  <2>2. Pays(t) \in Money /\ Worth(t) = t.stake BY <1>6, <2>1, GamePays, WinnerIs
  <2>3. ASSUME NEW x \in Actions(t, Amounts), Accepts(t, x), s = ApplyAction(t, x)
        PROVE  Pays(s) \in Money /\ Worth(s) = t.stake
    <3>1. x \in GameActions(t, Amounts) /\ x.type \notin {"SEND_MONEY", "preImage"}
      BY <2>1, GameMoves
    <3>2. GameAccepts(t, x) BY <2>1, <2>3 DEF Accepts, Games
    <3>3. s = ApplyGame(t, x) BY <2>1, <2>3, <3>1 DEF ApplyAction
    <3>4. s.kind = t.kind /\ s.stake = t.stake /\ Winner(s) \in {P1, P2, Split}
      BY <1>6, <3>1, <3>2, <3>3, MoveKeeps
    <3> QED BY <2>1, <3>4, GamePays
  <2> QED BY <1>1, <1>3, <2>2, <2>3
<1> QED BY <1>2, <1>4, <1>5, <1>6

-----------------------------------------------------------------------------
(* What is set aside for the apps.                                          *)

\* The pots that cover what the parties sign.
PotFor(h) == CHOOSE pot \in [Apps -> 0..Deposited] : Covers(pot, h)
Pot == PotFor(history)

LEMMA PotIs ==
  ASSUME history \in Histories
  PROVE  Pot \in [Apps -> Nat] /\ Covers(Pot, history)
<1>1. \E pot \in [Apps -> 0..Deposited] : Covers(pot, history) BY HistoriesCovered
<1>2. Pot \in [Apps -> 0..Deposited] /\ Covers(Pot, history) BY <1>1, Zenon DEF Pot, PotFor
<1>3. Deposited \in Nat BY DisputesConstants
<1> QED BY <1>2, <1>3

LEMMA UpdateCovered ==
  ASSUME Shape, NEW u \in Updates(signed)
  PROVE  /\ u.app = FB =>
              /\ u.state \in FreeBalances /\ IsFiniteSet(u.state.activeApps)
              /\ u.timeout > 0
              /\ Worth(u.state) + Total(Pot, u.state.activeApps) <= Deposited
         /\ u.app # FB => u.state \in AppStates /\ Worth(u.state) <= Pot[u.app]
<1>1. PICK i \in 1..signed : u = history[i] BY DEF Updates
<1>2. i \in DOMAIN history BY <1>1, DisputesConstants DEF Shape
<1>3. Covers(Pot, history) BY PotIs DEF Shape
<1>4. CASE u.app = FB
  <2>1. /\ u.state \in FreeBalances /\ IsFiniteSet(u.state.activeApps) /\ u.timeout > 0
        /\ Worth(u.state) + MapThenSumSet(LAMBDA a : Pot[a], u.state.activeApps) <= Deposited
    BY <1>1, <1>2, <1>3, <1>4, Zenon DEF Covers
  <2>2. Worth(u.state) + Total(Pot, u.state.activeApps) <= Deposited
    BY <2>1, Zenon DEF Total
  <2> QED BY <1>4, <2>1, <2>2
<1>5. CASE u.app # FB BY <1>1, <1>2, <1>3, <1>5, Zenon DEF Covers
<1> QED BY <1>4, <1>5

\* The free balance is final with no action of anyone.
LEMMA FreeBalanceFinal ==
  ASSUME NEW u, u.state \in FreeBalances, NEW s \in FinalStates(u)
  PROVE  s = u.state
<1>1. ~HasTurns(u.state) BY DEF FreeBalances, HasTurns, Games
<1> QED BY <1>1 DEF FinalStates

LEMMA FreeBalancePays ==
  ASSUME NEW s \in FreeBalances
  PROVE  Pays(s) \in Money /\ ComputeOutcome(s).activeApps = s.activeApps
         /\ s.activeApps \subseteq Apps \ {FB}
<1>1. s.kind = "identity" /\ s.transfers \in Money BY DEF FreeBalances
<1>2. Pays(s) \in Money BY <1>1, TransferPays
<1>3. ComputeOutcome(s).activeApps = s.activeApps BY <1>1, Zenon DEF ComputeOutcome
<1>4. s.activeApps \subseteq Apps \ {FB} BY DEF FreeBalances
<1> QED BY <1>2, <1>3, <1>4

\* From here on no other contract has set a state or an outcome.
Clean == IInv /\ OwnContracts

\* A challenge ends with the newest state the watchful party holds, or with one
\* without a challenge period.
LEMMA EndedWith ==
  ASSUME Clean, NEW a \in Apps, Ended(challenge[a])
  PROVE  \E u \in UpdatesOf(a, signed) : /\ challenge[a].state \in FinalStates(u)
                                         /\ u.timeout = 0 \/ IsNewest(u, held)
<1>1. challenge[a].status # "none" BY DEF Ended
<1>2. PICK u \in UpdatesOf(a, signed) :
        /\ u.version = challenge[a].version
        /\ challenge[a].state \in FinalStates(u)
        /\ challenge[a].status = "deadline" \/ u.timeout = 0
  BY <1>1 DEF Clean, OwnContracts, IInv, Made
<1>3. CASE u.timeout = 0 BY <1>2, <1>3
<1>4. CASE challenge[a].status = "deadline"
  <2>1. challenge[a].left < 0 BY <1>4 DEF Ended
  <2>2. u.app = a BY DEF UpdatesOf
  <2>3. IsNewest(u, held) BY <1>2, <1>4, <2>1, <2>2 DEF IsNewest, Clean, IInv, Answered
  <2> QED BY <1>2, <2>3
<1> QED BY <1>2, <1>3, <1>4

\* What an outcome says of the money.
Sound(a, o) ==
  /\ o.pays \in Money
  /\ a # FB => o.pays[P1] + o.pays[P2] <= Pot[a]
  /\ a = FB => /\ o.activeApps \in SUBSET (Apps \ {FB}) /\ IsFiniteSet(o.activeApps)
               /\ o.pays[P1] + o.pays[P2] + Total(Pot, o.activeApps) <= Deposited

LEMMA FinalSound ==
  ASSUME Shape, NEW a \in Apps, NEW u \in UpdatesOf(a, signed), NEW s \in FinalStates(u)
  PROVE  Sound(a, ComputeOutcome(s))
<1>1. u \in Updates(signed) /\ u.app = a BY DEF UpdatesOf
<1> DEFINE o == ComputeOutcome(s)
<1>2. Pays(s) = o.pays /\ Worth(s) = o.pays[P1] + o.pays[P2] BY DEF Pays, Worth
<1> HIDE DEF o
<1>3. CASE a = FB
  <2>1. /\ u.state \in FreeBalances /\ IsFiniteSet(u.state.activeApps)
        /\ Worth(u.state) + Total(Pot, u.state.activeApps) <= Deposited
    BY <1>1, <1>3, UpdateCovered
  <2>2. s = u.state BY <2>1, FreeBalanceFinal
  <2>3. Pays(s) \in Money /\ o.activeApps = s.activeApps /\ s.activeApps \subseteq Apps \ {FB}
    BY <2>1, <2>2, FreeBalancePays DEF o
  <2> QED BY <1>2, <1>3, <2>1, <2>2, <2>3 DEF Sound, o
<1>4. CASE a # FB
  <2>1. u.state \in AppStates /\ Worth(u.state) <= Pot[a] BY <1>1, <1>4, UpdateCovered
  <2>2. Pays(s) \in Money /\ Worth(s) = Worth(u.state) BY <2>1, FinalPays
  <2> QED BY <1>2, <1>4, <2>1, <2>2 DEF Sound, o
<1> QED BY <1>3, <1>4

LEMMA OutcomeSound ==
  ASSUME Clean, NEW a \in Apps, outcome[a] # None
  PROVE  Sound(a, outcome[a])
<1>1. Ended(challenge[a]) /\ outcome[a] = ComputeOutcome(challenge[a].state)
  BY DEF Clean, OwnContracts, IInv, Drawn
<1>2. PICK u \in UpdatesOf(a, signed) : challenge[a].state \in FinalStates(u)
  BY <1>1, EndedWith
<1>3. Shape BY DEF Clean, IInv
<1> QED BY <1>1, <1>2, <1>3, FinalSound

FundingSound == outcome[FB] # None => Sound(FB, outcome[FB])

LEMMA FundingSoundLater == Clean' => FundingSound'
<1>1. Clean => FundingSound BY OutcomeSound, DisputesConstants DEF FundingSound
<1> QED BY <1>1, PTL

-----------------------------------------------------------------------------
(* The wallet covers what is still to be paid out.                          *)

\* What is kept for an app, and for the parties' free balances.
Kept == [a \in Apps |-> IF a \in executed THEN 0 ELSE Pot[a]]
Free == IF FB \in executed THEN 0 ELSE outcome[FB].pays[P1] + outcome[FB].pays[P2]

\* Only what the free balance has funded is ever executed, each app once.
InOrder ==
  /\ executed \subseteq {FB} \cup Funded
  /\ \A a \in executed : a \in Apps /\ outcome[a] # None
  /\ outcome[FB] = None => executed = {} /\ wallet = Deposited

Backing ==
  /\ InOrder
  /\ wallet \in Nat
  /\ outcome[FB] # None => Free + Total(Kept, Funded) <= wallet

\* What each party has been paid is what the outcomes executed give it.
PayOf(p) == [a \in Apps |-> outcome[a].pays[p]]
PaidOut == \A p \in Parties : paid[p] = Total(PayOf(p), executed)

LEMMA FundedIs ==
  ASSUME Clean
  PROVE  Funded \in SUBSET (Apps \ {FB}) /\ IsFiniteSet(Funded)
<1>1. FB \in Apps BY DisputesConstants
<1>2. CASE outcome[FB] = None
  <2>1. Funded = {} BY <1>2 DEF Funded
  <2> QED BY <2>1, FS_EmptySet
<1>3. CASE outcome[FB] # None
  <2>1. Funded = outcome[FB].activeApps BY <1>3 DEF Funded
  <2>2. Sound(FB, outcome[FB]) BY <1>1, <1>3, OutcomeSound
  <2> QED BY <2>1, <2>2 DEF Sound
<1> QED BY <1>2, <1>3

LEMMA ExecutedFinite ==
  ASSUME Clean, InOrder
  PROVE  IsFiniteSet(executed)
<1>1. IsFiniteSet({FB} \cup Funded)
  <2>1. IsFiniteSet(Funded) BY FundedIs
  <2>2. IsFiniteSet(Funded \cup {FB}) BY <2>1, FS_AddElement
  <2>3. Funded \cup {FB} = {FB} \cup Funded OBVIOUS
  <2> QED BY <2>2, <2>3
<1> QED BY <1>1, FS_Subset DEF InOrder

LEMMA KeptIs ==
  ASSUME Clean
  PROVE  /\ \A a \in Apps : Kept[a] \in Nat /\ Pot[a] \in Nat /\ Kept[a] <= Pot[a]
         /\ \A a \in executed : a \in Apps => Kept[a] = 0
         /\ \A a \in Apps \ executed : Kept[a] = Pot[a]
<1>1. Pot \in [Apps -> Nat] BY PotIs DEF Clean, IInv, Shape
<1> QED BY <1>1 DEF Kept

LEMMA PayIs ==
  ASSUME Clean, NEW a \in Apps, outcome[a] # None
  PROVE  \A p \in Parties : outcome[a].pays[p] \in Nat /\ PayOf(p)[a] = outcome[a].pays[p]
<1>1. outcome[a].pays \in Money BY OutcomeSound DEF Sound
<1>2. \A p \in Parties : outcome[a].pays[p] \in Nat BY <1>1 DEF Money
<1> QED BY <1>2 DEF PayOf

LEMMA TwoParties == P1 \in Parties /\ P2 \in Parties BY DEF Parties

\* What an app that can be executed pays is in the wallet, beside the rest.
LEMMA CanPay ==
  ASSUME Clean, Backing, NEW a \in {FB} \cup Funded, a \notin executed, outcome[a] # None
  PROVE  /\ outcome[FB] # None
         /\ outcome[a].pays[P1] + outcome[a].pays[P2] <= wallet
<1>1. Funded \in SUBSET (Apps \ {FB}) /\ IsFiniteSet(Funded) /\ FB \in Apps
  BY FundedIs, DisputesConstants
<1>2. a \in Apps BY <1>1
<1>3. outcome[FB] # None BY DEF Funded
<1>4. Free + Total(Kept, Funded) <= wallet /\ wallet \in Nat BY <1>3 DEF Backing
<1>5. \A b \in Funded : Kept[b] \in Nat BY <1>1, KeptIs
<1>6. Total(Kept, Funded) \in Nat BY <1>1, <1>5, TotalType
<1>7. Free \in Nat BY <1>1, <1>3, PayIs, TwoParties DEF Free
<1>8. outcome[a].pays[P1] \in Nat /\ outcome[a].pays[P2] \in Nat BY <1>2, PayIs, TwoParties
<1>9. CASE a = FB
  <2>1. Free = outcome[a].pays[P1] + outcome[a].pays[P2] BY <1>9 DEF Free
  <2> QED BY <1>3, <1>4, <1>6, <1>8, <2>1
<1>10. CASE a # FB
  <2>1. a \in Funded BY <1>10
  <2>2. Total(Kept, Funded) = Kept[a] + Total(Kept, Funded \ {a})
    BY <1>1, <1>5, <2>1, TotalAt
  <2>3. IsFiniteSet(Funded \ {a}) BY <1>1, FS_RemoveElement
  <2>4. Total(Kept, Funded \ {a}) \in Nat BY <1>5, <2>3, TotalType
  <2>5. Kept[a] = Pot[a] /\ Pot[a] \in Nat BY <1>2, KeptIs
  <2>6. outcome[a].pays[P1] + outcome[a].pays[P2] <= Pot[a]
    BY <1>2, <1>10, OutcomeSound DEF Sound
  <2> QED BY <1>3, <1>4, <1>7, <1>8, <2>2, <2>4, <2>5, <2>6
<1> QED BY <1>9, <1>10

\* So the interpreters' sends do not fail.
LEMMA SentIs ==
  ASSUME Clean, Backing, NEW a \in {FB} \cup Funded, Execute(a)
  PROVE  /\ a \in Apps /\ a \notin executed /\ outcome[a] # None /\ outcome[FB] # None
         /\ wallet' = wallet - (outcome[a].pays[P1] + outcome[a].pays[P2])
         /\ paid' = [p \in Parties |-> paid[p] + outcome[a].pays[p]]
         /\ executed' = executed \cup {a}
         /\ UNCHANGED <<outcome, history>>
<1>1. /\ a \notin executed /\ outcome[a] # None /\ executed' = executed \cup {a}
      /\ UNCHANGED <<outcome, history>>
  BY DEF Execute, registryVars
<1>2. a \in Apps BY FundedIs, DisputesConstants
<1>3. outcome[FB] # None /\ outcome[a].pays[P1] + outcome[a].pays[P2] <= wallet
  BY <1>1, CanPay
<1>4. PICK m : m = outcome[a].pays OBVIOUS
<1>5. m[P1] \in Nat /\ m[P2] \in Nat BY <1>1, <1>2, <1>4, PayIs, TwoParties
<1>6. wallet \in Nat BY DEF Backing
<1>7. m[P1] <= wallet /\ m[P2] <= wallet - m[P1] BY <1>3, <1>4, <1>5, <1>6
<1>8. PICK sent : sent = Sent(m) OBVIOUS
<1>9. sent[P1] = m[P1] /\ sent[P2] = m[P2]
  BY <1>7, <1>8, TwoParticipants, TwoParties DEF Sent
<1>10. \A p \in Parties : sent[p] = m[p] BY <1>9 DEF Parties
<1>11. wallet' = wallet - (sent[P1] + sent[P2])
  BY <1>4, <1>8, Zenon DEF Execute
<1>12. paid' = [p \in Parties |-> paid[p] + sent[p]] BY <1>4, <1>8, Zenon DEF Execute
<1>13. paid' = [p \in Parties |-> paid[p] + m[p]] BY <1>10, <1>12
<1> QED BY <1>1, <1>2, <1>3, <1>4, <1>9, <1>11, <1>13

Books == Backing /\ PaidOut

\* A call that has named another contract has done so for good.
LEMMA NamedStays ==
  ASSUME [Next]_vars, OwnContracts'
  PROVE  OwnContracts
<1>1. otherState \subseteq otherState' /\ otherOutcome \subseteq otherOutcome'
  BY DEF Next, vars, named, CoSign, Deliver, Mine, Submit, SubmitWithAction, Respond, Cancel,
         SubmitWithOtherAction, RespondOtherwise, StoreOutcome, StoreOtherOutcome,
         executeEffectOfFreeBalance, executeEffectOfInterpretedAppOutcome, Execute
<1> QED BY <1>1 DEF OwnContracts

\* Nothing but the transactions that follow touches what the books are of.
LEMMA OtherSteps ==
  ASSUME [Next]_vars, OwnContracts'
  PROVE  \/ UNCHANGED <<outcome, chainVars, history>>
         \/ \E a \in Apps : StoreOutcome(a)
         \/ \E a \in {FB} \cup Funded : Execute(a)
<1>1. CASE CoSign BY <1>1 DEF CoSign, registryVars
<1>2. CASE Deliver BY <1>2 DEF Deliver, registryVars
<1>3. CASE Mine BY <1>3 DEF Mine, NextBlock
<1>4. ASSUME NEW p \in Parties, NEW a \in Apps,
             \/ Submit(p, a) \/ SubmitWithAction(p, a) \/ Respond(p, a) \/ Cancel(p, a)
             \/ SubmitWithOtherAction(p, a) \/ RespondOtherwise(p, a)
      PROVE  UNCHANGED <<outcome, chainVars, history>>
  <2>1. CASE Submit(p, a) BY <2>1 DEF Submit, SetState
  <2>2. CASE SubmitWithAction(p, a) BY <2>2 DEF SubmitWithAction, SetStateWithAction, Progress
  <2>3. CASE Respond(p, a) BY <2>3 DEF Respond, RespondToChallenge, Remove
  <2>4. CASE Cancel(p, a) BY <2>4 DEF Cancel, CancelChallenge
  <2>5. CASE SubmitWithOtherAction(p, a)
    BY <2>5 DEF SubmitWithOtherAction, SetStateWithOtherAction, Progress
  <2>6. CASE RespondOtherwise(p, a)
    BY <2>6 DEF RespondOtherwise, RespondWithOtherAction, Remove
  <2> QED BY <1>4, <2>1, <2>2, <2>3, <2>4, <2>5, <2>6
<1>8. ~ \E a \in Apps : StoreOtherOutcome(a) BY DEF StoreOtherOutcome, OwnContracts
<1>5. CASE executeEffectOfFreeBalance BY <1>5 DEF executeEffectOfFreeBalance
<1>6. ASSUME NEW a \in Apps \ {FB}, executeEffectOfInterpretedAppOutcome(a)
      PROVE  \E b \in {FB} \cup Funded : Execute(b)
  BY <1>6 DEF executeEffectOfInterpretedAppOutcome
<1>7. CASE UNCHANGED vars BY <1>7 DEF vars, registryVars
<1> QED BY <1>1, <1>2, <1>3, <1>4, <1>5, <1>6, <1>7, <1>8 DEF Next

LEMMA PotStays == ASSUME UNCHANGED history PROVE Pot' = Pot
BY DEF Pot

LEMMA QuietBooks ==
  ASSUME Books, UNCHANGED <<outcome, chainVars, history>>
  PROVE  Books'
<1>1. UNCHANGED <<wallet, executed, paid>> BY DEF chainVars
<1>2. Pot' = Pot BY PotStays
<1>3. Kept' = Kept /\ Free' = Free /\ Funded' = Funded BY <1>1, <1>2 DEF Kept, Free, Funded
<1>4. Backing' BY <1>1, <1>3 DEF Books, Backing, InOrder
<1>5. \A p : PayOf(p)' = PayOf(p) BY DEF PayOf
<1>6. PaidOut' BY <1>1, <1>5 DEF Books, PaidOut
<1> QED BY <1>4, <1>6 DEF Books

\* An outcome is set.
LEMMA OutcomeBooks ==
  ASSUME Clean, Clean', Stands, Books, NEW a \in Apps, StoreOutcome(a)
  PROVE  Books'
<1>1. /\ \A b \in Apps \ {a} : outcome'[b] = outcome[b]
      /\ UNCHANGED <<history, wallet, executed, paid>>
  BY DEF StoreOutcome, SetOutcome, chainVars, Clean, IInv, Shape
<1>2. Pot' = Pot /\ Kept' = Kept
  <2>1. Pot' = Pot BY <1>1, PotStays
  <2> QED BY <1>1, <2>1 DEF Kept
<1>3. \A b \in Apps : outcome[b] # None => outcome'[b] = outcome[b]
  BY DEF Stands, Clean, OwnContracts
<1>4. InOrder /\ FB \in Apps BY DisputesConstants DEF Books, Backing
<1>5. PaidOut'
  <2>1. \A b \in executed : b \in Apps /\ outcome'[b] = outcome[b] BY <1>3, <1>4 DEF InOrder
  <2>2. ASSUME NEW p \in Parties PROVE paid'[p] = Total(PayOf(p)', executed')
    <3> DEFINE f == PayOf(p)
               g == PayOf(p)'
    <3>1. \A b \in executed : f[b] = g[b] BY <2>1 DEF PayOf
    <3>2. IsFiniteSet(executed) BY <1>4, ExecutedFinite
    <3>3. paid[p] = Total(f, executed) BY DEF Books, PaidOut
    <3> HIDE DEF f, g
    <3>4. Total(f, executed) = Total(g, executed) BY <3>1, <3>2, TotalSame
    <3> QED BY <1>1, <3>3, <3>4 DEF g
  <2> QED BY <2>2 DEF PaidOut
<1>6. CASE outcome'[FB] = outcome[FB]
  <2>1. Funded' = Funded /\ Free' = Free BY <1>1, <1>6 DEF Funded, Free
  <2>2. \A b \in executed : outcome'[b] = outcome[b] BY <1>3, <1>4 DEF InOrder
  <2>3. InOrder' BY <1>1, <1>4, <1>6, <2>1, <2>2 DEF InOrder
  <2>4. Backing' BY <1>1, <1>2, <1>6, <2>1, <2>3 DEF Books, Backing
  <2> QED BY <1>5, <2>4 DEF Books
<1>7. CASE outcome'[FB] # outcome[FB]
  <2>1. outcome[FB] = None /\ executed = {} /\ wallet = Deposited
    BY <1>3, <1>4, <1>7 DEF InOrder
  <2>2. outcome'[FB] # None BY <1>7, <2>1
  <2>3. executed' = {} /\ wallet' = Deposited BY <1>1, <2>1
  <2>4. InOrder' BY <2>2, <2>3 DEF InOrder
  <2>5. Funded' = outcome'[FB].activeApps BY <2>2 DEF Funded
  <2>6. Free' = outcome'[FB].pays[P1] + outcome'[FB].pays[P2] BY <2>3 DEF Free
  <2>7. Sound(FB, outcome[FB])' BY <2>2, FundingSoundLater DEF FundingSound
  <2>8. /\ Funded' \in SUBSET (Apps \ {FB}) /\ IsFiniteSet(Funded')
        /\ Free' + Total(Pot', Funded') <= Deposited
    BY <2>5, <2>6, <2>7 DEF Sound
  <2>9. \A b \in Apps : Kept'[b] = Pot'[b] BY <2>3 DEF Kept
  <2> DEFINE F == Funded'
             K == Kept'
             Q == Pot'
  <2>10. Total(K, F) = Total(Q, F)
    <3>1. IsFiniteSet(F) /\ \A b \in F : K[b] = Q[b] BY <2>8, <2>9
    <3> HIDE DEF F, K, Q
    <3> QED BY <3>1, TotalSame
  <2>11. Deposited \in Nat BY DisputesConstants
  <2>12. Backing' BY <2>3, <2>4, <2>8, <2>10, <2>11 DEF Backing
  <2> QED BY <1>5, <2>12 DEF Books
<1> QED BY <1>6, <1>7

\* The free balance or an app is paid out.
LEMMA ExecuteBooks ==
  ASSUME Clean, Books, NEW a \in {FB} \cup Funded, Execute(a)
  PROVE  Books'
<1>1. /\ a \in Apps /\ a \notin executed /\ outcome[a] # None /\ outcome[FB] # None
      /\ wallet' = wallet - (outcome[a].pays[P1] + outcome[a].pays[P2])
      /\ paid' = [p \in Parties |-> paid[p] + outcome[a].pays[p]]
      /\ executed' = executed \cup {a}
      /\ UNCHANGED <<outcome, history>>
  BY SentIs DEF Books
<1>2. Funded \in SUBSET (Apps \ {FB}) /\ IsFiniteSet(Funded) /\ FB \in Apps
  BY FundedIs, DisputesConstants
<1>3. Pot' = Pot /\ Funded' = Funded
  <2>1. Pot' = Pot BY <1>1, PotStays
  <2> QED BY <1>1, <2>1 DEF Funded
<1>4. InOrder /\ wallet \in Nat /\ Free + Total(Kept, Funded) <= wallet
  BY <1>1 DEF Books, Backing
<1>5. InOrder' BY <1>1, <1>2, <1>3, <1>4 DEF InOrder
<1>6. outcome[a].pays[P1] \in Nat /\ outcome[a].pays[P2] \in Nat BY <1>1, PayIs, TwoParties
<1>7. outcome[a].pays[P1] + outcome[a].pays[P2] <= wallet BY <1>1, CanPay DEF Books
<1>8. wallet' \in Nat BY <1>1, <1>4, <1>6, <1>7
<1>9. \A b \in Apps : Kept[b] \in Nat BY KeptIs
<1>10. \A b \in Apps \ {a} : Kept'[b] = Kept[b] BY <1>1, <1>3 DEF Kept
<1>11. Kept'[a] = 0 BY <1>1 DEF Kept
<1> DEFINE F == Funded
           K == Kept
           L == Kept'
<1>12. Free' + Total(L, F) <= wallet'
  <2>1. CASE a = FB
    <3>1. \A b \in F : L[b] = K[b] BY <1>2, <1>10, <2>1
    <3>2. Total(L, F) = Total(K, F)
      <4>1. IsFiniteSet(F) BY <1>2
      <4> HIDE DEF F, K, L
      <4> QED BY <3>1, <4>1, TotalSame
    <3>3. Free = outcome[a].pays[P1] + outcome[a].pays[P2] /\ Free' = 0
      BY <1>1, <2>1 DEF Free
    <3>4. Total(K, F) \in Nat
      <4>1. IsFiniteSet(F) /\ \A b \in F : K[b] \in Nat BY <1>2, <1>9
      <4> HIDE DEF F, K
      <4> QED BY <4>1, TotalType
    <3> QED BY <1>1, <1>4, <1>6, <3>2, <3>3, <3>4
  <2>2. CASE a # FB
    <3> DEFINE R == F \ {a}
    <3>1. a \in F /\ IsFiniteSet(F) /\ IsFiniteSet(R) BY <1>2, <2>2, FS_RemoveElement
    <3>2. /\ \A b \in F : K[b] \in Nat /\ L[b] \in Nat
          /\ \A b \in R : L[b] = K[b]
          /\ L[a] = 0
      BY <1>2, <1>9, <1>10, <1>11
    <3>3. Total(K, F) = K[a] + Total(K, R) /\ Total(L, F) = 0 + Total(L, R)
          /\ Total(L, R) = Total(K, R) /\ Total(K, R) \in Nat
      <4>0. \A b \in R : b \in F OBVIOUS
      <4>1. R = F \ {a} OBVIOUS
      <4> HIDE DEF F, K, L, R
      <4>2. Total(K, F) = K[a] + Total(K, R)
        BY <3>1, <3>2, <4>1, TotalAt
      <4>3. Total(L, F) = L[a] + Total(L, R) BY <3>1, <3>2, <4>1, TotalAt
      <4>4. Total(L, R) = Total(K, R) BY <3>1, <3>2, TotalSame
      <4>5. Total(K, R) \in Nat BY <3>1, <3>2, <4>0, TotalType
      <4> QED BY <3>2, <4>2, <4>3, <4>4, <4>5
    <3>4. Free' = Free /\ Free \in Nat
      <4>1. Free' = Free BY <1>1, <2>2 DEF Free
      <4>2. outcome[FB].pays[P1] \in Nat /\ outcome[FB].pays[P2] \in Nat
        BY <1>1, <1>2, PayIs, TwoParties
      <4> QED BY <4>1, <4>2 DEF Free
    <3>5. K[a] = Pot[a] /\ Pot[a] \in Nat BY <1>1, KeptIs
    <3>6. outcome[a].pays[P1] + outcome[a].pays[P2] <= Pot[a]
      BY <1>1, <2>2, OutcomeSound DEF Sound
    <3> HIDE DEF F, K, L, R
    <3> QED BY <1>1, <1>4, <1>6, <3>3, <3>4, <3>5, <3>6 DEF F, K
  <2> QED BY <2>1, <2>2
<1>13. Backing' BY <1>3, <1>5, <1>8, <1>12 DEF Backing
<1>14. PaidOut'
  <2>1. IsFiniteSet(executed) BY <1>4, ExecutedFinite
  <2>2. \A b \in executed \cup {a} : b \in Apps /\ outcome[b] # None
    BY <1>1, <1>4 DEF InOrder
  <2>3. ASSUME NEW p \in Parties PROVE paid'[p] = Total(PayOf(p)', executed')
    <3> DEFINE f == PayOf(p)
    <3>1. PayOf(p)' = f BY <1>1 DEF PayOf
    <3>2. \A b \in executed \cup {a} : f[b] \in Nat BY <2>2, <2>3, PayIs
    <3>3. f[a] = outcome[a].pays[p] BY <1>1, <2>3, PayIs
    <3>4. paid[p] = Total(f, executed) BY <2>3 DEF Books, PaidOut
    <3>5. Total(f, executed \cup {a}) = f[a] + Total(f, executed)
      <4> HIDE DEF f
      <4> QED BY <1>1, <2>1, <3>2, TotalAdded
    <3>6. Total(f, executed) \in Nat
      <4>1. \A b \in executed : f[b] \in Nat BY <3>2
      <4> HIDE DEF f
      <4> QED BY <2>1, <4>1, TotalType
    <3>7. f[a] \in Nat BY <3>2
    <3>8. paid'[p] = paid[p] + outcome[a].pays[p] BY <1>1, <2>3
    <3> HIDE DEF f
    <3> QED BY <1>1, <3>1, <3>3, <3>4, <3>5, <3>6, <3>7, <3>8
  <2> QED BY <2>3 DEF PaidOut
<1> QED BY <1>13, <1>14 DEF Books

LEMMA InitBooks == Init => Books
<1> SUFFICES ASSUME Init PROVE Books OBVIOUS
<1>1. \A a \in Apps : outcome[a] = None BY DEF Init, RegistryInit
<1>2. executed = {} /\ wallet = Deposited /\ paid = [p \in Parties |-> 0] BY DEF Init
<1>3. FB \in Apps /\ Deposited \in Nat BY DisputesConstants
<1>4. Backing BY <1>1, <1>2, <1>3 DEF Backing, InOrder
<1>5. \A p \in Parties : paid[p] = Total(PayOf(p), {})
  <2> TAKE p \in Parties
  <2> DEFINE f == PayOf(p)
  <2>1. paid[p] = 0 BY <1>2
  <2> HIDE DEF f
  <2>2. Total(f, {}) = 0 BY TotalEmpty
  <2> QED BY <2>1, <2>2 DEF f
<1>6. PaidOut BY <1>2, <1>5 DEF PaidOut
<1> QED BY <1>4, <1>6 DEF Books

\* The books are right while no other contract has set anything.
OwnBooks == OwnContracts => Books

LEMMA NextBooks == IInv /\ OwnBooks /\ [Next]_vars => OwnBooks'
<1> SUFFICES ASSUME IInv, OwnBooks, [Next]_vars, OwnContracts' PROVE Books' BY DEF OwnBooks
<1>1. IInv' /\ Stands BY StepInv
<1>2. OwnContracts BY NamedStays
<1>3. Clean /\ Clean' /\ Books BY <1>1, <1>2 DEF Clean, OwnBooks
<1>4. CASE UNCHANGED <<outcome, chainVars, history>> BY <1>3, <1>4, QuietBooks
<1>5. ASSUME NEW a \in Apps, StoreOutcome(a) PROVE Books'
  BY <1>1, <1>3, <1>5, OutcomeBooks
<1>6. ASSUME NEW a \in {FB} \cup Funded, Execute(a) PROVE Books' BY <1>3, <1>6, ExecuteBooks
<1> QED BY <1>4, <1>5, <1>6, OtherSteps

LEMMA BooksInvariance == Spec => []OwnBooks
<1>1. Init => OwnBooks BY InitBooks DEF OwnBooks
<1> QED BY <1>1, NextBooks, Invariance, PTL DEF Spec

-----------------------------------------------------------------------------
(* What is promised is backed.                                              *)

PromisedOf == [a \in Apps |-> Promised(a)]

LEMMA PromisedAre ==
  ASSUME NEW S \in SUBSET Apps, IsFiniteSet(S)
  PROVE  MapThenSumSet(Promised, S) = Total(PromisedOf, S)
<1> DEFINE Is(g) == g = [s \in SUBSET S |-> IF s = {} THEN 0
                          ELSE Promised(CHOOSE x \in s : TRUE) + g[s \ {CHOOSE x \in s : TRUE}]]
           h == CHOOSE g : Is(g)
<1>1. MapThenSumSet(Promised, S) = h[S]
  BY Zenon DEF MapThenSumSet, MapThenFoldSet
<1>2. \A g : Is(g) <=> SumFn(g, PromisedOf, S)
  <2> TAKE g
  <2> DEFINE left == [s \in SUBSET S |-> IF s = {} THEN 0
                        ELSE Promised(CHOOSE x \in s : TRUE) + g[s \ {CHOOSE x \in s : TRUE}]]
             right == [s \in SUBSET S |-> IF s = {} THEN 0
                         ELSE PromisedOf[Some(s)] + g[s \ {Some(s)}]]
  <2>1. \A s \in SUBSET S : s # {} => Promised(CHOOSE x \in s : TRUE) = PromisedOf[Some(s)]
    <3> TAKE s \in SUBSET S
    <3> HAVE s # {}
    <3>1. Some(s) \in Apps BY SomeIs
    <3>2. PromisedOf[Some(s)] = Promised(Some(s)) BY <3>1, Zenon DEF PromisedOf
    <3> QED BY <3>2 DEF Some
  <2>2. left = right BY <2>1 DEF Some
  <2> HIDE DEF left, right
  <2>3. Is(g) <=> g = left BY DEF left
  <2>4. SumFn(g, PromisedOf, S) <=> g = right BY DEF SumFn, right
  <2> QED BY <2>2, <2>3, <2>4
<1> HIDE DEF Is
<1>3. \E g : Is(g)
  <2>1. PICK k : SumFn(k, PromisedOf, S) BY SumFnExists
  <2> QED BY <1>2, <2>1
<1>4. Is(h) BY <1>3
<1> HIDE DEF h
<1>5. SumFn(h, PromisedOf, S) BY <1>2, <1>4
<1>6. S \in SUBSET S OBVIOUS
<1>7. Total(PromisedOf, S) = h[S] BY <1>5, <1>6, TotalOn
<1> QED BY <1>1, <1>7

LEMMA PromisedIs ==
  ASSUME Clean, NEW a \in Apps
  PROVE  /\ Promised(a) \in Nat
         /\ a # FB => Promised(a) <= Kept[a]
         /\ a = FB /\ outcome[FB] # None => Promised(a) = Free
<1>1. Kept[a] \in Nat /\ Pot[a] \in Nat /\ (a \notin executed => Kept[a] = Pot[a])
  BY KeptIs
<1>2. CASE a \in executed \/ outcome[a] = None
  <2>1. Promised(a) = 0 BY <1>2 DEF Promised
  <2>2. a = FB /\ outcome[FB] # None => Free = 0 BY <1>2 DEF Free
  <2> QED BY <1>1, <2>1, <2>2
<1>3. CASE ~(a \in executed \/ outcome[a] = None)
  <2>1. Promised(a) = outcome[a].pays[P1] + outcome[a].pays[P2] BY <1>3 DEF Promised
  <2>2. outcome[a].pays[P1] \in Nat /\ outcome[a].pays[P2] \in Nat
    BY <1>3, PayIs, TwoParties
  <2>3. a # FB => outcome[a].pays[P1] + outcome[a].pays[P2] <= Pot[a]
    BY <1>3, OutcomeSound DEF Sound
  <2>4. a = FB => Free = outcome[a].pays[P1] + outcome[a].pays[P2] BY <1>3 DEF Free
  <2> QED BY <1>1, <1>3, <2>1, <2>2, <2>3, <2>4
<1> QED BY <1>2, <1>3

\* What outcomes that are set promise, and nobody has got yet, is in the wallet,
\* so that the interpreters' sends do not fail, as long as no other contract has
\* set a state or an outcome.
THEOREM EffectsStayCovered == Spec => []EffectsCovered
<1>1. IInv /\ OwnBooks => EffectsCovered
  <2> SUFFICES ASSUME Clean, Books, outcome[FB] # None
               PROVE  Promised(FB) + MapThenSumSet(Promised, Funded) <= wallet
    BY Zenon DEF EffectsCovered, Clean, OwnBooks
  <2>1. Funded \in SUBSET (Apps \ {FB}) /\ IsFiniteSet(Funded) /\ FB \in Apps
    BY FundedIs, DisputesConstants
  <2>2. Free + Total(Kept, Funded) <= wallet /\ wallet \in Nat BY DEF Books, Backing
  <2>3. MapThenSumSet(Promised, Funded) = Total(PromisedOf, Funded)
    BY <2>1, PromisedAre
  <2>4. \A a \in Funded : /\ PromisedOf[a] \in Nat /\ Kept[a] \in Nat
                          /\ PromisedOf[a] <= Kept[a]
    BY <2>1, PromisedIs, KeptIs DEF PromisedOf
  <2>5. Total(PromisedOf, Funded) <= Total(Kept, Funded) BY <2>1, <2>4, TotalLe
  <2>6. Total(PromisedOf, Funded) \in Nat /\ Total(Kept, Funded) \in Nat
    BY <2>1, <2>4, TotalType
  <2>7. Promised(FB) = Free /\ Promised(FB) \in Nat BY <2>1, PromisedIs
  <2> QED BY <2>2, <2>3, <2>5, <2>6, <2>7
<1> QED BY <1>1, Invariance, BooksInvariance, PTL

-----------------------------------------------------------------------------
(* What the watchful party gets.                                            *)

LEMMA WatchfulInvariance == Spec => [](watchful \in Parties)
<1>1. Init => watchful \in Parties BY DEF Init
<1>2. [Next]_vars => UNCHANGED watchful
  BY DEF Next, vars, CoSign, Deliver, Mine, Submit, SubmitWithAction, Respond, Cancel,
         SubmitWithOtherAction, RespondOtherwise, StoreOutcome, StoreOtherOutcome,
         executeEffectOfFreeBalance, executeEffectOfInterpretedAppOutcome, Execute
<1>3. (watchful \in Parties) /\ [Next]_vars => (watchful \in Parties)' BY <1>2
<1> QED BY <1>1, <1>3, PTL DEF Spec

\* An update is one of those held, or the newest of its app.
LEMMA OneMore ==
  ASSUME Shape, signed # held
  PROVE  /\ signed = held + 1 /\ signed \in DOMAIN history
         /\ Updates(signed) = Updates(held) \cup {history[signed]}
         /\ IsNewest(history[signed], signed)
         /\ \A u \in Updates(signed) : u.app # history[signed].app =>
              u \in Updates(held) /\ (IsNewest(u, held) <=> IsNewest(u, signed))
<1> Len(history) \in Nat BY DisputesConstants DEF Shape
<1>1. signed = held + 1 /\ signed \in DOMAIN history BY DisputesConstants DEF Shape
<1>2. 1..signed = (1..held) \cup {signed} BY <1>1 DEF Shape
<1>3. Updates(signed) = Updates(held) \cup {history[signed]} BY <1>2 DEF Updates
<1>4. IsNewest(history[signed], signed)
  <2> SUFFICES ASSUME NEW v \in UpdatesOf(history[signed].app, signed)
               PROVE  v.version <= history[signed].version
    BY DEF IsNewest
  <2>1. PICK i \in 1..signed : v = history[i] BY DEF UpdatesOf, Updates
  <2>2. i \in DOMAIN history /\ i \in Nat /\ i <= signed
    BY <1>1, <2>1, DisputesConstants DEF Shape
  <2>3. v.app = history[signed].app BY DEF UpdatesOf
  <2>4. CASE i = signed
    <3>1. v.version \in Nat BY <2>1, <2>2, DisputesConstants DEF Shape
    <3> QED BY <2>1, <2>4, <3>1
  <2>5. CASE i < signed
    <3>1. history[i].version < history[signed].version
      BY <1>1, <2>1, <2>2, <2>3, <2>5, DisputesConstants DEF Shape
    <3>2. history[i].version \in Nat /\ history[signed].version \in Nat
      BY <1>1, <2>2, DisputesConstants DEF Shape
    <3> QED BY <2>1, <3>1, <3>2
  <2> QED BY <2>2, <2>4, <2>5 DEF Shape
<1>5. \A u \in Updates(signed) : u.app # history[signed].app =>
        u \in Updates(held) /\ (IsNewest(u, held) <=> IsNewest(u, signed))
  <2> SUFFICES ASSUME NEW u \in Updates(signed), u.app # history[signed].app
               PROVE  u \in Updates(held) /\ (IsNewest(u, held) <=> IsNewest(u, signed))
    OBVIOUS
  <2>1. u \in Updates(held) BY <1>3
  <2>2. UpdatesOf(u.app, signed) = UpdatesOf(u.app, held) BY <1>3 DEF UpdatesOf
  <2> QED BY <2>1, <2>2 DEF IsNewest
<1> QED BY <1>1, <1>3, <1>4, <1>5

\* Every challenge that has ended is what the updates held, or all of those
\* signed, may end with: the same for all apps.
LEMMA EndsAlike ==
  ASSUME Clean
  PROVE  \E n \in {held, signed} : \A a \in Apps : Ended(challenge[a]) =>
           \E u \in MayEnd(a, n) : challenge[a].state \in FinalStates(u)
<1> DEFINE Ends(a, n) == \E u \in MayEnd(a, n) : challenge[a].state \in FinalStates(u)
<1>1. Shape BY DEF Clean, IInv
<1>2. CASE signed = held
  <2>1. \A a \in Apps : Ended(challenge[a]) => Ends(a, held)
    <3> SUFFICES ASSUME NEW a \in Apps, Ended(challenge[a]) PROVE Ends(a, held) OBVIOUS
    <3>1. PICK u \in UpdatesOf(a, signed) : /\ challenge[a].state \in FinalStates(u)
                                            /\ u.timeout = 0 \/ IsNewest(u, held)
      BY EndedWith
    <3>2. u \in MayEnd(a, held) BY <1>2, <3>1 DEF MayEnd
    <3> QED BY <3>1, <3>2
  <2> QED BY <2>1
<1>3. CASE signed # held
  <2> DEFINE last == history[signed]
  <2>1. /\ Updates(signed) = Updates(held) \cup {last}
        /\ IsNewest(last, signed)
        /\ \A u \in Updates(signed) : u.app # last.app =>
             u \in Updates(held) /\ (IsNewest(u, held) <=> IsNewest(u, signed))
    BY <1>1, <1>3, OneMore
  <2> HIDE DEF last
  <2>2. ASSUME NEW a \in Apps, a # last.app, Ended(challenge[a])
        PROVE  Ends(a, held) /\ Ends(a, signed)
    <3>1. PICK u \in UpdatesOf(a, signed) : /\ challenge[a].state \in FinalStates(u)
                                            /\ u.timeout = 0 \/ IsNewest(u, held)
      BY <2>2, EndedWith
    <3>2. u \in Updates(signed) /\ u.app = a BY DEF UpdatesOf
    <3>3. u \in UpdatesOf(a, held) BY <2>1, <2>2, <3>2 DEF UpdatesOf
    <3>4. u \in MayEnd(a, held) BY <3>1, <3>3 DEF MayEnd
    <3>5. u \in MayEnd(a, signed) BY <2>1, <2>2, <3>1, <3>2 DEF MayEnd
    <3> QED BY <3>1, <3>4, <3>5
  <2>3. CASE ~(last.app \in Apps /\ Ended(challenge[last.app]))
    BY <2>2, <2>3
  <2>4. CASE last.app \in Apps /\ Ended(challenge[last.app])
    <3>1. PICK u \in UpdatesOf(last.app, signed) :
            /\ challenge[last.app].state \in FinalStates(u)
            /\ u.timeout = 0 \/ IsNewest(u, held)
      BY <2>4, EndedWith
    <3>2. CASE u = last
      <4>1. u \in MayEnd(last.app, signed) BY <2>1, <3>1, <3>2 DEF MayEnd
      <4>2. Ends(last.app, signed) BY <3>1, <4>1
      <4> QED BY <2>2, <4>2
    <3>3. CASE u # last
      <4>1. u \in UpdatesOf(last.app, held) BY <2>1, <3>1, <3>3 DEF UpdatesOf
      <4>2. u \in MayEnd(last.app, held) BY <3>1, <4>1 DEF MayEnd
      <4>3. Ends(last.app, held) BY <3>1, <4>2
      <4> QED BY <2>2, <4>3
    <3> QED BY <3>2, <3>3
  <2> QED BY <2>3, <2>4
<1> QED BY <1>2, <1>3

LEMMA MayEndSigned ==
  ASSUME Shape, NEW n \in {held, signed}, NEW a
  PROVE  MayEnd(a, n) \subseteq UpdatesOf(a, signed)
<1>1. Updates(held) \subseteq Updates(signed) BY UsableSigned
<1> QED BY <1>1 DEF MayEnd, UpdatesOf

\* The free balance has a challenge period: only one of its states can be final.
LEMMA OneFreeBalance ==
  ASSUME Shape, NEW n \in {held, signed}, NEW u \in MayEnd(FB, n), NEW v \in MayEnd(FB, n)
  PROVE  u = v
<1>1. u \in UpdatesOf(FB, signed) /\ v \in UpdatesOf(FB, signed) BY MayEndSigned
<1>2. u \in Updates(signed) /\ v \in Updates(signed) /\ u.app = FB /\ v.app = FB
  BY <1>1 DEF UpdatesOf
<1>3. u.timeout > 0 /\ v.timeout > 0 BY <1>2, UpdateCovered
<1>4. u \in UpdatesOf(FB, n) /\ v \in UpdatesOf(FB, n) /\ IsNewest(u, n) /\ IsNewest(v, n)
  BY <1>3 DEF MayEnd
<1>5. u.version <= v.version /\ v.version <= u.version BY <1>2, <1>4 DEF IsNewest
<1>6. PICK i, j \in 1..signed : u = history[i] /\ v = history[j] BY <1>2 DEF Updates
<1>7. /\ i \in DOMAIN history /\ j \in DOMAIN history /\ i \in Nat /\ j \in Nat
      /\ history \in Histories
  BY <1>6, DisputesConstants DEF Shape
<1>8. u.version \in Nat /\ v.version \in Nat BY <1>6, <1>7, DisputesConstants
<1>9. ~(i < j)
  <2> SUFFICES ASSUME i < j PROVE FALSE OBVIOUS
  <2>1. history[i].version < history[j].version BY <1>2, <1>6, <1>7, DisputesConstants
  <2> QED BY <1>5, <1>6, <1>8, <2>1
<1>10. ~(j < i)
  <2> SUFFICES ASSUME j < i PROVE FALSE OBVIOUS
  <2>1. history[j].version < history[i].version BY <1>2, <1>6, <1>7, DisputesConstants
  <2> QED BY <1>5, <1>6, <1>8, <2>1
<1>11. i = j BY <1>7, <1>9, <1>10
<1> QED BY <1>6, <1>11

\* A share is no more than any of the outcomes it is the least of.
LEMMA ShareIs ==
  ASSUME Shape, NEW n \in {held, signed}, NEW a \in Apps, NEW p \in Parties,
         NEW u \in MayEnd(a, n), NEW s \in FinalStates(u)
  PROVE  /\ Share(a, n, p) \in Nat
         /\ Share(a, n, p) <= ComputeOutcome(s).pays[p]
<1> DEFINE pays == UNION {{ComputeOutcome(t).pays[p] : t \in FinalStates(v)} : v \in MayEnd(a, n)}
<1>1. pays \in SUBSET Nat
  <2> SUFFICES ASSUME NEW v \in MayEnd(a, n), NEW t \in FinalStates(v)
               PROVE  ComputeOutcome(t).pays[p] \in Nat
    OBVIOUS
  <2>1. v \in UpdatesOf(a, signed) BY MayEndSigned
  <2>2. Sound(a, ComputeOutcome(t)) BY <2>1, FinalSound
  <2>3. ComputeOutcome(t).pays \in Money BY <2>2 DEF Sound
  <2> QED BY <2>3 DEF Money
<1>2. ComputeOutcome(s).pays[p] \in pays OBVIOUS
<1>3. Share(a, n, p) = IF pays = {} THEN 0 ELSE Min(pays) BY Zenon DEF Share
<1> HIDE DEF pays
<1>4. Share(a, n, p) = Min(pays) /\ pays # {} BY <1>2, <1>3
<1>5. \E m \in pays : \A k \in pays : m <= k BY <1>1, <1>4, LeastNumber
<1>6. Min(pays) \in pays /\ \A k \in pays : Min(pays) <= k BY <1>5 DEF Min
<1> QED BY <1>1, <1>2, <1>4, <1>6

ShareOf(n, p) == [a \in Apps |-> Share(a, n, p)]

LEMMA SharesAre ==
  ASSUME NEW S \in SUBSET Apps, IsFiniteSet(S), NEW n, NEW p
  PROVE  MapThenSumSet(LAMBDA a : Share(a, n, p), S) = Total(ShareOf(n, p), S)
<1> DEFINE Of(a) == Share(a, n, p)
           f == ShareOf(n, p)
           Is(g) == g = [s \in SUBSET S |-> IF s = {} THEN 0
                          ELSE Of(CHOOSE x \in s : TRUE) + g[s \ {CHOOSE x \in s : TRUE}]]
           h == CHOOSE g : Is(g)
<1>0. \A a \in Apps : f[a] = Of(a) BY Zenon DEF ShareOf
<1>1. MapThenSumSet(LAMBDA a : Share(a, n, p), S) = h[S]
  BY Zenon DEF MapThenSumSet, MapThenFoldSet
<1> HIDE DEF Of, f
<1>2. \A g : Is(g) <=> SumFn(g, f, S)
  <2> TAKE g
  <2> DEFINE left == [s \in SUBSET S |-> IF s = {} THEN 0
                        ELSE Of(CHOOSE x \in s : TRUE) + g[s \ {CHOOSE x \in s : TRUE}]]
             right == [s \in SUBSET S |-> IF s = {} THEN 0
                         ELSE f[Some(s)] + g[s \ {Some(s)}]]
  <2>1. \A s \in SUBSET S : s # {} => Of(CHOOSE x \in s : TRUE) = f[Some(s)]
    <3> TAKE s \in SUBSET S
    <3> HAVE s # {}
    <3>1. Some(s) \in Apps BY SomeIs
    <3>2. f[Some(s)] = Of(Some(s)) BY <1>0, <3>1
    <3> QED BY <3>2 DEF Some
  <2>2. left = right BY <2>1 DEF Some
  <2> HIDE DEF left, right
  <2>3. Is(g) <=> g = left BY DEF left
  <2>4. SumFn(g, f, S) <=> g = right BY DEF SumFn, right
  <2> QED BY <2>2, <2>3, <2>4
<1> HIDE DEF Is
<1>3. \E g : Is(g)
  <2>1. PICK k : SumFn(k, f, S) BY SumFnExists
  <2> QED BY <1>2, <2>1
<1>4. Is(h) BY <1>3
<1> HIDE DEF h
<1>5. SumFn(h, f, S) BY <1>2, <1>4
<1>6. S \in SUBSET S OBVIOUS
<1>7. Total(f, S) = h[S] BY <1>5, <1>6, TotalOn
<1> QED BY <1>1, <1>7 DEF f

\* Whatever the other party does on chain, short of naming another contract to
\* set a state or an outcome, the watchful one gets no less than the updates it
\* holds, or those signed, give it.
THEOREM AlwaysWhatWasAgreed == Spec => []NoLessThanAgreed
<1>1. IInv /\ OwnBooks /\ watchful \in Parties => NoLessThanAgreed
  <2> SUFFICES ASSUME Clean, Books, watchful \in Parties, Settled
               PROVE  \/ paid[watchful] >= CountsOn(watchful, held)
                      \/ paid[watchful] >= CountsOn(watchful, signed)
    BY Zenon DEF NoLessThanAgreed, Clean, OwnBooks
  <2>1. Shape /\ FB \in Apps BY DisputesConstants DEF Clean, IInv
  <2>2. Funded \in SUBSET (Apps \ {FB}) /\ IsFiniteSet(Funded) BY FundedIs
  <2>3. executed = {FB} \cup Funded BY DEF Settled, Books, Backing, InOrder
  <2>4. \A a \in executed : a \in Apps /\ outcome[a] # None
    BY DEF Books, Backing, InOrder
  <2>5. \A a \in executed : /\ Ended(challenge[a])
                            /\ outcome[a] = ComputeOutcome(challenge[a].state)
    BY <2>4 DEF Clean, OwnContracts, IInv, Drawn
  <2>6. PICK n \in {held, signed} : \A a \in Apps : Ended(challenge[a]) =>
          \E u \in MayEnd(a, n) : challenge[a].state \in FinalStates(u)
    BY EndsAlike
  <2> DEFINE p == watchful
             f == PayOf(p)
             g == ShareOf(n, p)
  <2>7. \A a \in executed : /\ g[a] \in Nat /\ f[a] \in Nat /\ g[a] <= f[a]
                            /\ g[a] = Share(a, n, p)
    <3> SUFFICES ASSUME NEW a \in executed
                 PROVE  /\ g[a] \in Nat /\ f[a] \in Nat /\ g[a] <= f[a]
                        /\ g[a] = Share(a, n, p)
      OBVIOUS
    <3>1. a \in Apps /\ outcome[a] # None BY <2>4
    <3>2. PICK u \in MayEnd(a, n) : challenge[a].state \in FinalStates(u)
      BY <2>5, <2>6, <3>1
    <3>3. PICK s \in FinalStates(u) : outcome[a] = ComputeOutcome(s)
      BY <2>5, <3>2
    <3>4. Share(a, n, p) \in Nat /\ Share(a, n, p) <= ComputeOutcome(s).pays[p]
      BY <2>1, <3>1, ShareIs
    <3>5. f[a] = outcome[a].pays[p] /\ outcome[a].pays[p] \in Nat BY <3>1, PayIs
    <3>6. g[a] = Share(a, n, p) BY <3>1, Zenon DEF ShareOf
    <3> QED BY <3>3, <3>4, <3>5, <3>6
  <2>8. UNION {u.state.activeApps : u \in MayEnd(FB, n)} = Funded
    <3>1. FB \in executed /\ outcome[FB] # None BY <2>3, <2>4
    <3>2. PICK u \in MayEnd(FB, n) : challenge[FB].state \in FinalStates(u)
      BY <2>1, <2>5, <2>6, <3>1
    <3>3. u \in Updates(signed) /\ u.app = FB BY <2>1, MayEndSigned DEF UpdatesOf
    <3>4. u.state \in FreeBalances BY <2>1, <3>3, UpdateCovered
    <3>5. challenge[FB].state = u.state BY <3>2, <3>4, FreeBalanceFinal
    <3>6. ComputeOutcome(u.state).activeApps = u.state.activeApps BY <3>4, FreeBalancePays
    <3>7. Funded = u.state.activeApps BY <2>5, <3>1, <3>5, <3>6 DEF Funded
    <3>8. \A v \in MayEnd(FB, n) : v = u BY <2>1, OneFreeBalance
    <3> QED BY <3>7, <3>8
  <2>9. paid[p] = f[FB] + Total(f, Funded)
    <3>1. paid[p] = Total(f, executed) BY DEF Books, PaidOut
    <3>2. FB \notin Funded /\ executed = Funded \cup {FB} BY <2>2, <2>3
    <3>3. \A a \in Funded \cup {FB} : f[a] \in Nat BY <2>7, <3>2
    <3> HIDE DEF f
    <3>4. Total(f, Funded \cup {FB}) = f[FB] + Total(f, Funded)
      BY <2>2, <3>2, <3>3, TotalAdded
    <3> QED BY <3>1, <3>2, <3>4
  <2>10. CountsOn(p, n) = g[FB] + Total(g, Funded)
    <3> DEFINE active == UNION {u.state.activeApps : u \in MayEnd(FB, n)}
    <3>1. CountsOn(p, n) = Share(FB, n, p) + MapThenSumSet(LAMBDA a : Share(a, n, p), active)
      BY Zenon DEF CountsOn
    <3>2. active = Funded BY <2>8
    <3> HIDE DEF active
    <3>3. MapThenSumSet(LAMBDA a : Share(a, n, p), active) = Total(g, active)
      <4>1. active \in SUBSET Apps /\ IsFiniteSet(active) BY <2>2, <3>2
      <4> QED BY <4>1, SharesAre
    <3>4. g[FB] = Share(FB, n, p) BY <2>3, <2>7
    <3> HIDE DEF g
    <3> QED BY <3>1, <3>2, <3>3, <3>4
  <2>11. f[FB] \in Nat /\ g[FB] \in Nat /\ g[FB] <= f[FB] BY <2>3, <2>7
  <2>12. \A a \in Funded : g[a] \in Nat /\ f[a] \in Nat /\ g[a] <= f[a] BY <2>3, <2>7
  <2> HIDE DEF f, g
  <2>13. Total(g, Funded) <= Total(f, Funded) BY <2>2, <2>12, TotalLe
  <2>14. Total(g, Funded) \in Nat /\ Total(f, Funded) \in Nat
    BY <2>2, <2>12, TotalType
  <2>15. paid[p] >= CountsOn(p, n) BY <2>9, <2>10, <2>11, <2>13, <2>14
  <2> QED BY <2>6, <2>15
<1> QED BY <1>1, Invariance, BooksInvariance, WatchfulInvariance, PTL

=============================================================================
