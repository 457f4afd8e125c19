------------------------- MODULE DaicardProofs -------------------------
(***************************************************************************)
(* Proofs about Daicard, whatever the plans, the rates and the numbers of   *)
(* callers. First the types of all variables, with how a caller relates to  *)
(* what it waits for; then the three promises the wallet makes, each with   *)
(* the invariant it is part of: the swaps that hold stakes (SwapsHeld, with *)
(* the ids in Books), what the cards show (SendShown, Redeeming), and the   *)
(* cash-out (CashingOut). Most lemmas say what one step does, or that it    *)
(* keeps one of these.                                                      *)
(***************************************************************************)
EXTENDS Daicard, WellFoundedInduction, TLAPS

-----------------------------------------------------------------------------
(***************************************************************************)
(* The types. A job that waits for a swap, a deposit or a withdrawal has    *)
(* one, and one that does not wait has none (Waited). Ids are taken from    *)
(* one counter, and none is in two places (Ids).                            *)
(***************************************************************************)

Kinds == {"swap", "transfer"}
Offer == [kind : Kinds, from : Assets, to : Assets, pays : Nat, gets : Nat]
Ended == {"returned", "threw"}
CallStates == {"from", "to", "propose", "locking", "proposed", "installing", "installed",
               "check"} \cup Ended
Call == [at : CallStates,
         kind : Kinds, from : Assets, to : Assets, pays : Nat, gets : Nat,
         had : Nat, has : Nat, own : Nat, id : Nat]
Deposit == [at : {"reading", "sending", "check"} \cup Ended,
            asset : Assets, amount : Nat, had : Nat]
Withdrawal == [at : {"reading", "committing", "submitting"} \cup Ended,
               asset : Assets, amount : Nat]
Shown == [eth : Nat, dai : Nat, chainEth : Nat, chainDai : Nat]

\* What anybody owns, or is shown to own.
Amounts ==
  /\ bal \in [Assets -> [Parties -> Nat]] /\ chain \in [Assets -> Nat]
  /\ hubRate \in Nat /\ swapRate \in Nat \ {0} /\ shown \in Shown
  /\ plan \in Plan

CallsAre == call \in [Callers -> {Idle} \cup Call]

\* The calls.
Calls == 
  /\ CallsAre
  /\ deposit \in {Idle} \cup Deposit
  /\ withdrawal \in [Withdrawers -> {Idle} \cup Withdrawal]

\* Ids are taken from one counter, and none is twice in the stores.
Ids ==
  /\ numApps \in Nat
  /\ offers \in [DOMAIN offers -> Offer] /\ apps \in [DOMAIN apps -> Offer]
  /\ desk = [id \in DOMAIN desk |-> desk[id]] /\ DOMAIN desk \subseteq DOMAIN offers
  /\ DOMAIN offers \cup DOMAIN apps \cup notes \subseteq 1..numApps
  /\ DOMAIN offers \cap (DOMAIN apps \cup notes) = {}
  /\ appId \in [Kinds -> 0..numApps]

Refreshing(thens) ==
  [pc : {"ether", "tokens", "show"}, then : thens, eth : Nat, dai : Nat]
Swapping == [pc : {"collateral"}, wei : Nat, rate : Nat \ {0}, need : Nat]

Regions == [Operations -> {"idle", "pending", "success", "error"}]

JobStates(j) ==
  IF j = "poller" THEN
    [pc : {"off", "again", "dead", "autoDeposit", "ether too", "deposited",
           "depositingTokens", "depositingEther", "swapping", "swapped"}]
    \cup Refreshing({"autoDeposit", "ether too", "deposited", "swapped"}) \cup Swapping
  ELSE IF j = "detached" THEN
    [pc : {"off", "swapping", "swapped"}] \cup Refreshing({"swapped"}) \cup Swapping
  ELSE
    [pc : {"off", "swapping", "withdrawEther", "withdrawing"}]
    \cup Refreshing({"withdrawEther"})
    \cup [pc : {"collateral", "collateralized"}, rate : Nat \ {0}, need : Nat]

Jobbing ==
  /\ root \in {"start", "sai", "ready"} /\ region \in Regions
  /\ job = [j \in Jobs |-> job[j]] /\ \A j \in Jobs : job[j] \in JobStates(j)

Carding ==
  /\ tips \in [pc : {"off", "buyTips", "sellTips"}, tries : Nat]
  /\ send \in [state : {"idle", "processingP2p", "processingLink", "successP2p",
                        "successLink", "error"},
               pc : {"off", "p2p", "link"}, tries : Nat, own : Nat]

Depositing == {"depositingTokens", "depositingEther"}

\* A call of a job is one the job waits for.
Waited ==
  /\ root = "start" => \A j \in Jobs : job[j] = NoJob
  /\ \A j \in Jobs : call[j] # Idle => job[j].pc = "swapping"
  /\ withdrawal["cashout"] # Idle => job["cashout"].pc = "withdrawing"
  /\ deposit # Idle => job["poller"].pc \in Depositing

Typed == Amounts /\ Calls /\ Ids /\ Jobbing /\ Carding /\ Waited

-----------------------------------------------------------------------------
LEMMA BalSetUser ==
  ASSUME NEW b \in [Assets -> [Parties -> Nat]], NEW a \in Assets, NEW n \in Nat
  PROVE  [b EXCEPT ![a].user = n] \in [Assets -> [Parties -> Nat]]
BY DEF Assets, Parties

LEMMA BalSetHub ==
  ASSUME NEW b \in [Assets -> [Parties -> Nat]], NEW a \in Assets, NEW n \in Nat
  PROVE  [b EXCEPT ![a].hub = n] \in [Assets -> [Parties -> Nat]]
BY DEF Assets, Parties

LEMMA BalPaid ==
  ASSUME NEW b \in [Assets -> [Parties -> Nat]], NEW a \in Assets, NEW n \in Nat, NEW m \in Nat
  PROVE  [b EXCEPT ![a] = [user |-> n, hub |-> m]] \in [Assets -> [Parties -> Nat]]
BY DEF Assets, Parties

LEMMA BalSwap ==
  ASSUME NEW b \in [Assets -> [Parties -> Nat]], NEW a \in Assets, NEW c \in Assets,
         NEW n \in Nat, NEW m \in Nat, 
         m <= b[a].user, n <= b[c].hub
  PROVE  [b EXCEPT ![a].user = @ - m, ![c].hub = @ - n] \in [Assets -> [Parties -> Nat]]
BY DEF Assets, Parties

LEMMA BalSwapped ==
  ASSUME NEW b \in [Assets -> [Parties -> Nat]], NEW a \in Assets, NEW c \in Assets,
         NEW n \in Nat, NEW m \in Nat
  PROVE  [b EXCEPT ![a].hub = @ + m, ![c].user = @ + n] \in [Assets -> [Parties -> Nat]]
BY DEF Assets, Parties

LEMMA CallStep ==
  ASSUME NEW r \in Call, NEW at \in CallStates, NEW n \in Nat
  PROVE  /\ [r EXCEPT !.at = at] \in Call
         /\ [r EXCEPT !.had = n, !.at = at] \in Call
         /\ [r EXCEPT !.has = n, !.at = at] \in Call
         /\ [r EXCEPT !.at = at, !.own = n] \in Call
         /\ [r EXCEPT !.at = at, !.id = n] \in Call
BY DEF Call

\* A step of a call that has begun: its terms stay, and so do the other calls.
StepOf(c) ==
  /\ \A d \in Callers \ {c} : call'[d] = call[d]
  /\ \A d \in Callers : call'[d] # Idle => call[d] # Idle
  /\ call'[c].kind = call[c].kind /\ call'[c].from = call[c].from /\ call'[c].to = call[c].to
  /\ call'[c].pays = call[c].pays /\ call'[c].gets = call[c].gets

LEMMA CallReads ==
  ASSUME CallsAre, NEW c \in Callers, call[c].at # "idle",
         NEW at \in CallStates, NEW n \in Nat,
         \/ call' = [call EXCEPT ![c].at = at]
         \/ call' = [call EXCEPT ![c].had = n, ![c].at = at]
         \/ call' = [call EXCEPT ![c].has = n, ![c].at = at]
  PROVE  /\ CallsAre' /\ StepOf(c)
         /\ call[c] \in Call /\ call'[c] \in Call /\ call'[c].at = at
         /\ call'[c].own = call[c].own /\ call'[c].id = call[c].id
<1>1. call[c] \in Call BY DEF CallsAre, Idle
<1>2. CASE call' = [call EXCEPT ![c].at = at]
  <2> DEFINE r == [call[c] EXCEPT !.at = at]
  <2>1. call' = [call EXCEPT ![c] = r] BY <1>2 DEF CallsAre
  <2>2. r \in Call BY <1>1, CallStep
  <2>3. /\ r.at = at /\ r.kind = call[c].kind /\ r.from = call[c].from /\ r.to = call[c].to
        /\ r.pays = call[c].pays /\ r.gets = call[c].gets
        /\ r.own = call[c].own /\ r.id = call[c].id
    BY <1>1 DEF Call
  <2> HIDE DEF r
  <2>4. call'[c] = r /\ \A d \in Callers \ {c} : call'[d] = call[d]
    BY <2>1 DEF CallsAre
  <2>5. CallsAre' BY <2>1, <2>2 DEF CallsAre
  <2>6. r # Idle /\ call[c] # Idle BY <1>1, <2>2 DEF Idle, Call
  <2>7. \A d \in Callers : call'[d] # Idle => call[d] # Idle BY <2>4, <2>6
  <2>8. StepOf(c) BY <2>3, <2>4, <2>7 DEF StepOf
  <2> QED BY <1>1, <2>2, <2>3, <2>4, <2>5, <2>8
<1>3. CASE call' = [call EXCEPT ![c].had = n, ![c].at = at]
  <2> DEFINE r == [call[c] EXCEPT !.had = n, !.at = at]
  <2>1. call' = [call EXCEPT ![c] = r] BY <1>3 DEF CallsAre
  <2>2. r \in Call BY <1>1, CallStep
  <2>3. /\ r.at = at /\ r.kind = call[c].kind /\ r.from = call[c].from /\ r.to = call[c].to
        /\ r.pays = call[c].pays /\ r.gets = call[c].gets
        /\ r.own = call[c].own /\ r.id = call[c].id
    BY <1>1 DEF Call
  <2> HIDE DEF r
  <2>4. call'[c] = r /\ \A d \in Callers \ {c} : call'[d] = call[d]
    BY <2>1 DEF CallsAre
  <2>5. CallsAre' BY <2>1, <2>2 DEF CallsAre
  <2>6. r # Idle /\ call[c] # Idle BY <1>1, <2>2 DEF Idle, Call
  <2>7. \A d \in Callers : call'[d] # Idle => call[d] # Idle BY <2>4, <2>6
  <2>8. StepOf(c) BY <2>3, <2>4, <2>7 DEF StepOf
  <2> QED BY <1>1, <2>2, <2>3, <2>4, <2>5, <2>8
<1>4. CASE call' = [call EXCEPT ![c].has = n, ![c].at = at]
  <2> DEFINE r == [call[c] EXCEPT !.has = n, !.at = at]
  <2>1. call' = [call EXCEPT ![c] = r] BY <1>4 DEF CallsAre
  <2>2. r \in Call BY <1>1, CallStep
  <2>3. /\ r.at = at /\ r.kind = call[c].kind /\ r.from = call[c].from /\ r.to = call[c].to
        /\ r.pays = call[c].pays /\ r.gets = call[c].gets
        /\ r.own = call[c].own /\ r.id = call[c].id
    BY <1>1 DEF Call
  <2> HIDE DEF r
  <2>4. call'[c] = r /\ \A d \in Callers \ {c} : call'[d] = call[d]
    BY <2>1 DEF CallsAre
  <2>5. CallsAre' BY <2>1, <2>2 DEF CallsAre
  <2>6. r # Idle /\ call[c] # Idle BY <1>1, <2>2 DEF Idle, Call
  <2>7. \A d \in Callers : call'[d] # Idle => call[d] # Idle BY <2>4, <2>6
  <2>8. StepOf(c) BY <2>3, <2>4, <2>7 DEF StepOf
  <2> QED BY <1>1, <2>2, <2>3, <2>4, <2>5, <2>8
<1> QED BY <1>2, <1>3, <1>4

LEMMA CallProposes ==
  ASSUME CallsAre, NEW c \in Callers, call[c].at # "idle",
         NEW at \in CallStates, NEW n \in Nat,
         call' = [call EXCEPT ![c].at = at, ![c].own = n]
  PROVE  /\ CallsAre' /\ StepOf(c)
         /\ call[c] \in Call /\ call'[c] \in Call /\ call'[c].at = at
         /\ call'[c].own = n
<1>1. call[c] \in Call BY DEF CallsAre, Idle
<1>2. CASE call' = [call EXCEPT ![c].at = at, ![c].own = n]
  <2> DEFINE r == [call[c] EXCEPT !.at = at, !.own = n]
  <2>1. call' = [call EXCEPT ![c] = r] BY <1>2 DEF CallsAre
  <2>2. r \in Call BY <1>1, CallStep
  <2>3. /\ r.at = at /\ r.kind = call[c].kind /\ r.from = call[c].from /\ r.to = call[c].to
        /\ r.pays = call[c].pays /\ r.gets = call[c].gets
        /\ r.own = n
    BY <1>1 DEF Call
  <2> HIDE DEF r
  <2>4. call'[c] = r /\ \A d \in Callers \ {c} : call'[d] = call[d]
    BY <2>1 DEF CallsAre
  <2>5. CallsAre' BY <2>1, <2>2 DEF CallsAre
  <2>6. r # Idle /\ call[c] # Idle BY <1>1, <2>2 DEF Idle, Call
  <2>7. \A d \in Callers : call'[d] # Idle => call[d] # Idle BY <2>4, <2>6
  <2>8. StepOf(c) BY <2>3, <2>4, <2>7 DEF StepOf
  <2> QED BY <1>1, <2>2, <2>3, <2>4, <2>5, <2>8
<1> QED BY <1>2

LEMMA CallAwaits ==
  ASSUME CallsAre, NEW c \in Callers, call[c].at # "idle",
         NEW at \in CallStates, NEW n \in Nat,
         call' = [call EXCEPT ![c].at = at, ![c].id = n]
  PROVE  /\ CallsAre' /\ StepOf(c)
         /\ call[c] \in Call /\ call'[c] \in Call /\ call'[c].at = at
         /\ call'[c].own = call[c].own /\ call'[c].id = n
<1>1. call[c] \in Call BY DEF CallsAre, Idle
<1>2. CASE call' = [call EXCEPT ![c].at = at, ![c].id = n]
  <2> DEFINE r == [call[c] EXCEPT !.at = at, !.id = n]
  <2>1. call' = [call EXCEPT ![c] = r] BY <1>2 DEF CallsAre
  <2>2. r \in Call BY <1>1, CallStep
  <2>3. /\ r.at = at /\ r.kind = call[c].kind /\ r.from = call[c].from /\ r.to = call[c].to
        /\ r.pays = call[c].pays /\ r.gets = call[c].gets
        /\ r.own = call[c].own /\ r.id = n
    BY <1>1 DEF Call
  <2> HIDE DEF r
  <2>4. call'[c] = r /\ \A d \in Callers \ {c} : call'[d] = call[d]
    BY <2>1 DEF CallsAre
  <2>5. CallsAre' BY <2>1, <2>2 DEF CallsAre
  <2>6. r # Idle /\ call[c] # Idle BY <1>1, <2>2 DEF Idle, Call
  <2>7. \A d \in Callers : call'[d] # Idle => call[d] # Idle BY <2>4, <2>6
  <2>8. StepOf(c) BY <2>3, <2>4, <2>7 DEF StepOf
  <2> QED BY <1>1, <2>2, <2>3, <2>4, <2>5, <2>8
<1> QED BY <1>2

LEMMA OtherwiseIs ==
  ASSUME NEW at \in CallStates, NEW cond \in BOOLEAN
  PROVE  Otherwise(cond, at) \in CallStates
BY DEF Otherwise, CallStates, Ended

LEMMA Exchanged ==
  ASSUME NEW n \in Nat, NEW a \in Nat, NEW b \in Nat \ {0}
  PROVE  calculateExchange(n, <<a, b>>) \in Nat
BY DEF calculateExchange

LEMMA MaxIs ==
  ASSUME NEW n \in Nat, NEW S, S \subseteq 1..n, S # {}
  PROVE  Max(S) \in S /\ \A x \in S : x <= Max(S)
<1> DEFINE T == {n - x : x \in S}
<1>1. T \in SUBSET Nat /\ T # {}
  <2>1. ASSUME NEW x \in S PROVE n - x \in Nat
    <3>1. x \in 1..n OBVIOUS
    <3> QED BY <3>1
  <2> QED BY <2>1
<1>2. PICK m \in T : \A k \in T : ~(<<k, m>> \in OpToRel(<, Nat))
  BY <1>1, NatLessThanWellFounded, WFMin
<1>3. \A k \in T : ~(k < m)
  BY <1>1, <1>2 DEF OpToRel
<1>4. PICK x \in S : m = n - x BY <1>2
<1>5. \A y \in S : x >= y BY <1>3, <1>4
<1> QED BY <1>4, <1>5 DEF Max

LEMMA EmptyIs ==
  ASSUME NEW f, f = [x \in DOMAIN f |-> f[x]]
  PROVE  f = <<>> <=> DOMAIN f = {}
OBVIOUS

-----------------------------------------------------------------------------
(***************************************************************************)
(* What a step of a call does to the calls and to the ids.                  *)
(***************************************************************************)

Others == <<offers, apps, numApps, desk, notes, confused, stranded, appId>>

LEMMA ReadFromDoes ==
  ASSUME Typed, NEW c \in Callers, ReadFrom(c)
  PROVE  /\ CallsAre' /\ StepOf(c) /\ call[c] \in Call /\ call'[c] \in Call
         /\ call[c].at = "from" /\ call'[c].at \in {"to", "propose", "threw"}
         /\ call'[c].own = call[c].own /\ call'[c].id = call[c].id
         /\ bal' = bal /\ preImage' = preImage /\ UNCHANGED Others
<1>1. CallsAre /\ bal \in [Assets -> [Parties -> Nat]] BY DEF Typed, Calls, Amounts
<1>2. call[c].at = "from" BY DEF ReadFrom
<1>3. call[c] \in Call BY <1>1, <1>2 DEF Idle, CallsAre
<1> DEFINE n == bal[call[c].from].user
           at == IF Kind(c) = "swap" THEN "to" ELSE Otherwise(call[c].pays <= n, "propose")
<1>4. n \in Nat BY <1>1, <1>3 DEF Call, Parties
<1>5. at \in {"to", "propose", "threw"} /\ at \in CallStates BY DEF Otherwise, CallStates, Ended
<1>6. call' = [call EXCEPT ![c].had = n, ![c].at = at] /\ bal' = bal
      /\ preImage' = preImage /\ UNCHANGED Others
  BY DEF ReadFrom, channelVars, hubVars, historyVars, Others
<1> HIDE DEF n, at
<1> QED BY <1>1, <1>2, <1>3, <1>4, <1>5, <1>6, CallReads

LEMMA ReadToDoes ==
  ASSUME Typed, NEW c \in Callers, ReadTo(c)
  PROVE  /\ CallsAre' /\ StepOf(c) /\ call[c] \in Call /\ call'[c] \in Call
         /\ call[c].at = "to" /\ call'[c].at \in {"propose", "threw"}
         /\ call'[c].own = call[c].own /\ call'[c].id = call[c].id
         /\ bal' = bal /\ preImage' = preImage /\ UNCHANGED Others
<1>1. CallsAre /\ bal \in [Assets -> [Parties -> Nat]] BY DEF Typed, Calls, Amounts
<1>2. call[c].at = "to" BY DEF ReadTo
<1>3. call[c] \in Call BY <1>1, <1>2 DEF Idle, CallsAre
<1> DEFINE n == bal[call[c].to].user
           at == Otherwise(call[c].pays <= call[c].had /\ call[c].pays > 0
                               /\ call[c].gets <= bal[call[c].to].hub, "propose")
<1>4. n \in Nat BY <1>1, <1>3 DEF Call, Parties
<1>5. at \in {"propose", "threw"} /\ at \in CallStates BY DEF Otherwise, CallStates, Ended
<1>6. call' = [call EXCEPT ![c].has = n, ![c].at = at] /\ bal' = bal
      /\ preImage' = preImage /\ UNCHANGED Others
  BY DEF ReadTo, channelVars, hubVars, historyVars, Others
<1> HIDE DEF n, at
<1> QED BY <1>1, <1>2, <1>3, <1>4, <1>5, <1>6, CallReads

\* The steps that only change where a call is.
LEMMA PlainStepDoes ==
  ASSUME Typed, NEW c \in Callers,
         CheckFunds(c) \/ CheckSwap(c) \/ TooLong(c) \/ TransferEnds(c, send.pc = "p2p")
  PROVE  /\ CallsAre' /\ StepOf(c) /\ call[c] \in Call /\ call'[c] \in Call
         /\ \/ call[c].at = "propose" /\ call'[c].at \in {"locking", "threw"}
            \/ call[c].at = "check" /\ call'[c].at \in Ended
            \/ call[c].at = "installing" /\ Kind(c) = "transfer" /\ call'[c].at = "threw"
            \/ call[c].at = "installed" /\ Kind(c) = "transfer" /\ call'[c].at \in Ended
         /\ \/ preImage' = preImage
            \/ /\ call[c].at = "installed" /\ Kind(c) = "transfer"
               /\ preImage' = With(preImage, call[c].own, "told")
         /\ call'[c].own = call[c].own /\ call'[c].id = call[c].id
         /\ bal' = bal /\ UNCHANGED Others
<1>1. CallsAre BY DEF Typed, Calls
<1>2. bal' = bal /\ UNCHANGED Others
  BY DEF CheckFunds, CheckSwap, TooLong, TransferEnds, channelVars, hubVars, historyVars, Others
<1>3. PICK at \in CallStates :
         /\ \/ call[c].at = "propose" /\ at \in {"locking", "threw"} /\ preImage' = preImage
            \/ call[c].at = "check" /\ at \in Ended /\ preImage' = preImage
            \/ /\ call[c].at = "installing" /\ Kind(c) = "transfer" /\ at = "threw"
               /\ preImage' = preImage
            \/ /\ call[c].at = "installed" /\ Kind(c) = "transfer" /\ at \in Ended
               /\ preImage' \in {preImage, With(preImage, call[c].own, "told")}
         /\ call' = [call EXCEPT ![c].at = at]
  <2>1. CASE CheckFunds(c)
    BY <2>1 DEF CheckFunds, Becomes, Otherwise, CallStates, Ended, hubVars
  <2>2. CASE CheckSwap(c)
    BY <2>2 DEF CheckSwap, Becomes, Otherwise, CallStates, Ended, hubVars
  <2>3. CASE TooLong(c)
    BY <2>3 DEF TooLong, Becomes, CallStates, Ended, hubVars
  <2>4. CASE TransferEnds(c, send.pc = "p2p")
    BY <2>4 DEF TransferEnds, Becomes, CallStates, Ended
  <2> QED BY <2>1, <2>2, <2>3, <2>4
<1>4. call[c].at # "idle" BY <1>3
<1>5. \/ preImage' = preImage
      \/ /\ call[c].at = "installed" /\ Kind(c) = "transfer"
         /\ preImage' = With(preImage, call[c].own, "told")
  BY <1>3
<1>6. /\ CallsAre' /\ StepOf(c) /\ call[c] \in Call /\ call'[c] \in Call /\ call'[c].at = at
      /\ call'[c].own = call[c].own /\ call'[c].id = call[c].id
  BY <1>1, <1>3, <1>4, CallReads
<1> QED BY <1>2, <1>3, <1>5, <1>6

\* A protocol that a call has asked for fails.
LEMMA ProtocolFailsDoes ==
  ASSUME Typed, NEW c \in Callers, ProtocolFails(c)
  PROVE  /\ CallsAre' /\ StepOf(c) /\ call[c] \in Call /\ call'[c] \in Call
         /\ \/ call[c].at = "locking" /\ stranded' = stranded
            \/ /\ call[c].at = "installed" /\ Kind(c) = "swap"
               /\ stranded' = stranded \cup {call[c].own}
         /\ call'[c].at = "threw"
         /\ call'[c].own = call[c].own /\ call'[c].id = call[c].id
         /\ bal' = bal
         /\ UNCHANGED <<offers, apps, numApps, desk, notes, confused, preImage, hubRate, appId>>
<1>1. CallsAre /\ "threw" \in CallStates BY DEF Typed, Calls, CallStates, Ended
<1>2. /\ \/ call[c].at = "locking" /\ stranded' = stranded
         \/ /\ call[c].at = "installed" /\ Kind(c) = "swap"
            /\ stranded' = stranded \cup {call[c].own}
      /\ call' = [call EXCEPT ![c].at = "threw"] /\ bal' = bal
      /\ UNCHANGED <<offers, apps, numApps, desk, notes, confused, preImage, hubRate, appId>>
  BY DEF ProtocolFails, Becomes, channelVars
<1>3. call[c].at # "idle" BY <1>2
<1>4. /\ CallsAre' /\ StepOf(c) /\ call[c] \in Call /\ call'[c] \in Call
      /\ call'[c].at = "threw"
      /\ call'[c].own = call[c].own /\ call'[c].id = call[c].id
  BY <1>1, <1>2, <1>3, CallReads
<1> QED BY <1>2, <1>4

LEMMA ProposeDoes ==
  ASSUME Typed, NEW c \in Callers, Propose(c)
  PROVE  /\ CallsAre' /\ StepOf(c) /\ call[c] \in Call /\ call'[c] \in Call
         /\ call[c].at = "locking" /\ call'[c].at = "proposed" /\ ~Locked
         /\ call'[c].own = numApps + 1 /\ numApps' = numApps + 1
         /\ \E o \in Offer : o.kind = call[c].kind /\ offers' = With(offers, numApps + 1, o)
         /\ desk' = With(desk, numApps + 1, "asked")
         /\ bal' = bal /\ UNCHANGED <<apps, notes, confused, stranded, preImage, appId>>
<1>1. CallsAre /\ numApps + 1 \in Nat BY DEF Typed, Calls, Ids
<1>2. call[c].at = "locking" BY DEF Propose
<1>3. call[c] \in Call BY <1>1, <1>2 DEF Idle, CallsAre
<1> DEFINE s == call[c]
           o == [kind |-> s.kind, from |-> s.from, to |-> s.to, pays |-> s.pays, gets |-> s.gets]
<1>4. o \in Offer /\ o.kind = call[c].kind BY <1>3 DEF Call, Offer
<1>5. /\ offers' = With(offers, numApps + 1, o) /\ numApps' = numApps + 1 /\ ~Locked
      /\ desk' = With(desk, numApps + 1, "asked") /\ bal' = bal
      /\ UNCHANGED <<apps, notes, confused, stranded, preImage, appId>>
  BY DEF Propose, historyVars
<1>6. call' = [call EXCEPT ![c].at = "proposed", ![c].own = numApps + 1] BY DEF Propose
<1> HIDE DEF o
<1>7. "proposed" \in CallStates BY DEF CallStates
<1>8. CallsAre' /\ StepOf(c) /\ call'[c] \in Call /\ call'[c].at = "proposed" /\ call'[c].own = numApps + 1
  BY <1>1, <1>2, <1>6, <1>7, CallProposes
<1>9. \E x \in Offer : x.kind = call[c].kind /\ offers' = With(offers, numApps + 1, x) BY <1>4, <1>5
<1> QED BY <1>2, <1>3, <1>5, <1>8, <1>9

LEMMA AwaitInstallDoes ==
  ASSUME Typed, NEW c \in Callers, AwaitInstall(c)
  PROVE  /\ CallsAre' /\ StepOf(c) /\ call[c] \in Call /\ call'[c] \in Call
         /\ call[c].at = "proposed" /\ call'[c].own = call[c].own
         /\ bal' = bal /\ UNCHANGED <<offers, apps, numApps, desk, notes, preImage>>
         /\ \/ /\ DOMAIN offers = {} /\ call'[c].at = "threw"
               /\ UNCHANGED <<appId, confused, stranded>>
            \/ /\ call'[c].at = "installing" /\ call'[c].id \in DOMAIN offers
               /\ \A x \in DOMAIN offers : x <= call'[c].id
               /\ appId' = [appId EXCEPT ![Kind(c)] = call'[c].id]
               /\ confused \subseteq confused'
               /\ call'[c].id # call[c].own => {call'[c].id, call[c].own} \subseteq confused'
               /\ stranded \subseteq stranded'
               /\ Kind(c) = "swap" => OwnOf({"installing", "installed"}) \subseteq stranded'
<1>1. CallsAre /\ Ids BY DEF Typed, Calls
<1>2. call[c].at = "proposed" BY DEF AwaitInstall
<1>3. bal' = bal /\ UNCHANGED <<offers, apps, numApps, desk, notes, preImage>> BY DEF AwaitInstall, channelVars
<1>4. CASE offers = <<>>
  <2>1. call' = [call EXCEPT ![c].at = "threw"] /\ UNCHANGED <<appId, confused, stranded>>
    BY <1>4 DEF AwaitInstall, Becomes
  <2>2. DOMAIN offers = {} BY <1>4
  <2>3. "threw" \in CallStates BY DEF CallStates, Ended
  <2> QED BY <1>1, <1>2, <1>3, <2>1, <2>2, <2>3, CallReads
<1>5. CASE offers # <<>>
  <2> DEFINE m == Max(DOMAIN offers)
  <2>1. DOMAIN offers \subseteq 1..numApps /\ DOMAIN offers # {} BY <1>1, <1>5, EmptyIs DEF Ids
  <2>2. m \in DOMAIN offers /\ (\A x \in DOMAIN offers : x <= m) /\ m \in Nat
    BY <1>1, <2>1, MaxIs DEF Ids
  <2>3. /\ call' = [call EXCEPT ![c].at = "installing", ![c].id = m]
        /\ appId' = [appId EXCEPT ![Kind(c)] = m]
        /\ confused' = IF m = call[c].own THEN confused ELSE confused \cup {m, call[c].own}
        /\ stranded' = IF Kind(c) = "swap"
                       THEN stranded \cup OwnOf({"installing", "installed"}) ELSE stranded
    BY <1>5 DEF AwaitInstall
  <2> HIDE DEF m
  <2>4. "installing" \in CallStates BY DEF CallStates
  <2>5. /\ CallsAre' /\ StepOf(c) /\ call[c] \in Call /\ call'[c] \in Call
        /\ call'[c].at = "installing" /\ call'[c].own = call[c].own /\ call'[c].id = m
    BY <1>1, <1>2, <2>2, <2>3, <2>4, CallAwaits
  <2> QED BY <1>2, <1>3, <2>2, <2>3, <2>5
<1> QED BY <1>4, <1>5

LEMMA UninstallSwapDoes ==
  ASSUME Typed, NEW c \in Callers, UninstallSwap(c)
  PROVE  /\ CallsAre' /\ StepOf(c) /\ call[c] \in Call /\ call'[c] \in Call
         /\ call[c].at = "installed" /\ Kind(c) = "swap" /\ call'[c].at \in {"check", "threw"}
         /\ call'[c].own = call[c].own /\ call'[c].id = call[c].id
         /\ UNCHANGED <<offers, numApps, desk, notes, confused, stranded, preImage, appId>>
         /\ bal' \in [Assets -> [Parties -> Nat]]
         /\ apps' = Without(apps, appId["swap"])
<1>1. CallsAre /\ Ids /\ bal \in [Assets -> [Parties -> Nat]] BY DEF Typed, Calls, Amounts
<1>2. call[c].at = "installed" /\ Kind(c) = "swap" BY DEF UninstallSwap
<1>3. UNCHANGED <<offers, numApps, desk, notes, confused, stranded, preImage, appId>>
  BY DEF UninstallSwap, hubVars, historyVars
<1>4. PICK at \in {"check", "threw"} : call' = [call EXCEPT ![c].at = at]
  BY DEF UninstallSwap, Becomes
<1>5. at \in CallStates BY <1>4 DEF CallStates, Ended
<1>6. /\ CallsAre' /\ StepOf(c) /\ call[c] \in Call /\ call'[c] \in Call /\ call'[c].at = at
      /\ call'[c].own = call[c].own /\ call'[c].id = call[c].id
  BY <1>1, <1>2, <1>4, <1>5, CallReads
<1>7. bal' \in [Assets -> [Parties -> Nat]] /\ apps' = Without(apps, appId["swap"])
  <2>1. CASE appId["swap"] \notin DOMAIN apps
    <3>1. bal' = bal /\ apps' = apps BY <2>1 DEF UninstallSwap
    <3>2. apps = Without(apps, appId["swap"]) BY <1>1, <2>1 DEF Without, Ids
    <3> QED BY <1>1, <3>1, <3>2
  <2>2. CASE appId["swap"] \in DOMAIN apps
    <3> DEFINE a == apps[appId["swap"]]
    <3>1. a \in Offer BY <1>1, <2>2 DEF Ids
    <3>2. /\ apps' = Without(apps, appId["swap"])
          /\ bal' = IF a.kind = "swap" \/ appId["swap"] \in Secrets("shown")
                    THEN [bal EXCEPT ![a.from].hub = @ + a.pays, ![a.to].user = @ + a.gets]
                    ELSE [bal EXCEPT ![a.from].user = @ + a.pays]
      BY <2>2 DEF UninstallSwap
    <3> HIDE DEF a
    <3>5. a.from \in Assets /\ a.to \in Assets /\ a.pays \in Nat /\ a.gets \in Nat BY <3>1 DEF Offer
    <3>6. [bal EXCEPT ![a.from].user = @ + a.pays] \in [Assets -> [Parties -> Nat]]
      BY <1>1, <3>5 DEF Assets, Parties
    <3>7. [bal EXCEPT ![a.from].hub = @ + a.pays, ![a.to].user = @ + a.gets]
            \in [Assets -> [Parties -> Nat]]
      BY <1>1, <3>5, BalSwapped
    <3> QED BY <3>2, <3>6, <3>7
  <2> QED BY <2>1, <2>2
<1> QED BY <1>2, <1>3, <1>4, <1>6, <1>7

-----------------------------------------------------------------------------
(***************************************************************************)
(* What the hub does to them: it looks at an offer, installs or rejects     *)
(* it, and wakes those who listen.                                          *)
(***************************************************************************)

\* Those woken were listening; the calls keep all but where they are.
Woken(W, at) ==
  /\ W \subseteq Ears
  /\ \A c \in Callers :
       /\ c \notin W => call'[c] = call[c]
       /\ c \in W => /\ call[c].at = "installing" /\ call'[c].at = at
                     /\ call[c] \in Call /\ call'[c] \in Call
                     /\ call'[c].kind = call[c].kind
                     /\ call'[c].own = call[c].own /\ call'[c].id = call[c].id
       /\ call'[c] # Idle <=> call[c] # Idle

LEMMA WakeDoes ==
  ASSUME CallsAre, NEW W, W \subseteq Ears, NEW at \in CallStates, Wake(W, at)
  PROVE  CallsAre' /\ Woken(W, at)
<1>1. \A c \in W : c \in Callers /\ call[c].at = "installing" BY DEF Ears
<1>2. \A c \in W : call[c] \in Call BY <1>1 DEF CallsAre, Idle
<1>3. \A c \in W : [call[c] EXCEPT !.at = at] \in Call
  <2>1. 0 \in Nat OBVIOUS
  <2> QED BY <1>2, <2>1, CallStep
<1>4. call' = [c \in Callers |-> IF c \in W THEN [call[c] EXCEPT !.at = at] ELSE call[c]]
  BY DEF Wake
<1>5. CallsAre' BY <1>3, <1>4 DEF CallsAre
<1>6. ASSUME NEW c \in W
      PROVE  /\ call'[c].at = at /\ call'[c].kind = call[c].kind
             /\ call'[c].own = call[c].own /\ call'[c].id = call[c].id
  <2>1. call'[c] = [call[c] EXCEPT !.at = at] /\ call[c] \in Call BY <1>1, <1>2, <1>4
  <2> QED BY <2>1 DEF Call
<1>7. \A c \in Callers : c \notin W => call'[c] = call[c] BY <1>4
<1>8. \A c \in W : call'[c] \in Call BY <1>1, <1>3, <1>4
<1>9. \A c \in Callers : call'[c] # Idle <=> call[c] # Idle
  BY <1>2, <1>7, <1>8 DEF Call, Idle
<1> HIDE <1>4
<1> QED BY <1>1, <1>2, <1>5, <1>6, <1>7, <1>8, <1>9 DEF Woken

LEMMA VerifyDoes ==
  ASSUME Typed, NEW id, verifyAppProposal(id)
  PROVE  /\ DOMAIN desk' = DOMAIN desk /\ desk' = [x \in DOMAIN desk' |-> desk'[x]]
         /\ UNCHANGED <<bal, offers, apps, numApps, appId, call, notes, hubRate, confused, stranded, preImage>>
BY DEF verifyAppProposal, channelVars, swapVars, historyVars

LEMMA HubInstallsDoes ==
  ASSUME Typed, NEW id, HubInstalls(id)
  PROVE  /\ ~Locked /\ id \in DOMAIN desk /\ id \in DOMAIN offers
         /\ UNCHANGED <<numApps, appId, hubRate, confused, stranded, preImage>>
         /\ CallsAre' /\ bal' \in [Assets -> [Parties -> Nat]]
         /\ \/ /\ DOMAIN desk' = DOMAIN desk /\ desk' = [x \in DOMAIN desk' |-> desk'[x]]
               /\ UNCHANGED <<bal, offers, apps, notes, call>>
            \/ /\ apps' = With(apps, id, offers[id]) /\ offers' = Without(offers, id)
               /\ desk' = Without(desk, id) /\ notes' = notes \cup {id}
               /\ Woken({c \in Ears \cap Swappers : appId["swap"] = id}, "installed")
<1>1. CallsAre /\ Ids /\ bal \in [Assets -> [Parties -> Nat]] BY DEF Typed, Calls, Amounts
<1>2. ~Locked /\ id \in DOMAIN desk /\ UNCHANGED <<numApps, appId, hubRate, confused, stranded, preImage>>
  BY DEF HubInstalls, historyVars
<1>3. id \in DOMAIN offers /\ offers[id] \in Offer BY <1>1, <1>2 DEF Ids
<1> DEFINE o == offers[id]
           W == {c \in Ears \cap Swappers : appId["swap"] = id}
<1>4. CASE HasFunds(o)
  <2>1. /\ apps' = With(apps, id, o) /\ offers' = Without(offers, id)
        /\ desk' = Without(desk, id) /\ notes' = notes \cup {id}
        /\ Wake(W, "installed")
        /\ bal' = IF o.gets = 0 THEN [bal EXCEPT ![o.from].user = @ - o.pays]
                    ELSE [bal EXCEPT ![o.from].user = @ - o.pays, ![o.to].hub = @ - o.gets]
    BY <1>4 DEF HubInstalls, resolveInstallSwap
  <2>2. W \subseteq Ears /\ "installed" \in CallStates BY DEF CallStates
  <2>3. CallsAre' /\ Woken(W, "installed") BY <1>1, <2>1, <2>2, WakeDoes
  <2>4. bal' \in [Assets -> [Parties -> Nat]]
    <3>1. /\ o.from \in Assets /\ o.to \in Assets /\ o.pays \in Nat /\ o.gets \in Nat
          /\ o.pays <= bal[o.from].user /\ o.gets <= bal[o.to].hub
      BY <1>3, <1>4 DEF Offer, HasFunds, Covered
    <3>2. [bal EXCEPT ![o.from].user = @ - o.pays, ![o.to].hub = @ - o.gets] \in [Assets -> [Parties -> Nat]]
      <4> HIDE DEF o
      <4> QED BY <1>1, <3>1, BalSwap
    <3>3. [bal EXCEPT ![o.from].user = @ - o.pays] \in [Assets -> [Parties -> Nat]]
      <4>1. bal[o.from].user - o.pays \in Nat BY <1>1, <3>1 DEF Parties
      <4> HIDE DEF o
      <4> QED BY <1>1, <3>1, <4>1 DEF Assets, Parties
    <3> HIDE DEF o
    <3> QED BY <2>1, <3>2, <3>3
  <2> QED BY <1>2, <1>3, <2>1, <2>3, <2>4
<1>5. CASE ~HasFunds(o)
  <2>1. desk' = [desk EXCEPT ![id] = "refused"] /\ UNCHANGED <<bal, apps, offers, notes, call>>
    BY <1>5 DEF HubInstalls
  <2>2. DOMAIN desk' = DOMAIN desk /\ desk' = [x \in DOMAIN desk' |-> desk'[x]] BY <2>1
  <2>3. CallsAre' BY <1>1, <2>1 DEF CallsAre
  <2> QED BY <1>1, <1>2, <1>3, <2>1, <2>2, <2>3
<1> QED BY <1>4, <1>5

LEMMA HubRejectsDoes ==
  ASSUME Typed, NEW id, HubRejects(id)
  PROVE  /\ id \in DOMAIN desk /\ UNCHANGED <<bal, apps, numApps, notes, appId, hubRate, confused, stranded, preImage>>
         /\ offers' = Without(offers, id) /\ desk' = Without(desk, id)
         /\ CallsAre'
         /\ \E W \in SUBSET {c \in Ears \cap Swappers : appId["swap"] = id} : Woken(W, "threw")
<1>1. CallsAre BY DEF Typed, Calls
<1>2. /\ id \in DOMAIN desk /\ UNCHANGED <<bal, apps, numApps, notes, appId, hubRate, confused, stranded, preImage>>
      /\ offers' = Without(offers, id) /\ desk' = Without(desk, id)
  BY DEF HubRejects
<1>3. PICK W \in SUBSET {c \in Ears \cap Swappers : appId["swap"] = id} : Wake(W, "threw")
  BY DEF HubRejects, rejectInstall
<1>4. W \subseteq Ears /\ "threw" \in CallStates BY DEF CallStates, Ended
<1>5. CallsAre' /\ Woken(W, "threw") BY <1>1, <1>3, <1>4, WakeDoes
<1> QED BY <1>2, <1>5

LEMMA ResolveTransferDoes ==
  ASSUME Typed, NEW id, resolveInstallTransfer(id)
  PROVE  /\ id \in notes /\ notes' = notes \ {id}
         /\ UNCHANGED <<bal, offers, apps, numApps, desk, appId, hubRate, confused, stranded, preImage>>
         /\ CallsAre'
         /\ Woken({c \in Ears \cap Senders : call[c].id = id /\ appId["transfer"] = id},
                  "installed")
<1> DEFINE W == {c \in Ears \cap Senders : call[c].id = id /\ appId["transfer"] = id}
<1>1. CallsAre BY DEF Typed, Calls
<1>2. W \subseteq Ears /\ "installed" \in CallStates BY DEF CallStates
<1>3. Wake(W, "installed") BY DEF resolveInstallTransfer
<1>4. CallsAre' /\ Woken(W, "installed") BY <1>1, <1>2, <1>3, WakeDoes
<1> HIDE DEF W
<1>5. /\ id \in notes /\ notes' = notes \ {id}
      /\ UNCHANGED <<bal, offers, apps, numApps, desk, appId, hubRate, confused, stranded, preImage>>
  BY DEF resolveInstallTransfer, channelVars, historyVars
<1> QED BY <1>4, <1>5 DEF W

WalletSame == UNCHANGED <<plan, root, region, swapRate, shown, job, tips, late, upset, send, redeem, link>>
AsideSame == UNCHANGED <<chain, deposit, withdrawal>>

\* The hub takes its turn in an app, or the app apart: nobody's balance but its own
\* grows, and no other app goes.
LEMMA HubReclaimsDoes ==
  ASSUME Typed, HubReclaims
  PROVE  /\ WalletSame /\ AsideSame
         /\ UNCHANGED <<offers, numApps, desk, notes, appId, call, hubRate, confused, stranded>>
         /\ bal' \in [Assets -> [Parties -> Nat]]
         /\ \A a \in Assets : bal'[a].user = bal[a].user
         /\ \E id \in DOMAIN preImage :
              \/ /\ preImage[id] = "told" /\ apps' = apps
                 /\ preImage' = [preImage EXCEPT ![id] = "shown"]
              \/ /\ preImage[id] = "shown" /\ apps' = Without(apps, id)
                 /\ preImage' = [preImage EXCEPT ![id] = "taken"]
<1>1. Ids /\ bal \in [Assets -> [Parties -> Nat]] BY DEF Typed, Amounts
<1>2. WalletSame /\ AsideSame
  BY DEF HubReclaims, walletVars, cardVars, WalletSame, AsideSame
<1>3. PICK id \in DOMAIN preImage : HubTakesAction(id) \/ HubUninstalls(id)
  BY DEF HubReclaims
<1>4. UNCHANGED <<offers, numApps, desk, notes, appId, call, hubRate, confused, stranded>>
  BY <1>3 DEF HubTakesAction, HubUninstalls, channelVars, swapVars, historyVars
<1>5. \/ /\ preImage[id] = "told" /\ apps' = apps
         /\ preImage' = [preImage EXCEPT ![id] = "shown"]
      \/ /\ preImage[id] = "shown" /\ apps' = Without(apps, id)
         /\ preImage' = [preImage EXCEPT ![id] = "taken"]
  BY <1>3 DEF HubTakesAction, HubUninstalls, channelVars, Secrets
<1>6. /\ bal' \in [Assets -> [Parties -> Nat]]
      /\ \A a \in Assets : bal'[a].user = bal[a].user
  <2>1. CASE HubTakesAction(id) BY <1>1, <2>1 DEF HubTakesAction, channelVars
  <2>2. CASE HubUninstalls(id)
    <3> DEFINE a == apps[id]
               n == bal[a.from].hub + a.pays
    <3>1. a \in Offer BY <1>1, <2>2 DEF HubUninstalls, Ids
    <3>2. a.from \in Assets /\ a.pays \in Nat BY <3>1 DEF Offer
    <3>3. bal' = [bal EXCEPT ![a.from].hub = n] BY <2>2 DEF HubUninstalls
    <3>4. n \in Nat BY <1>1, <3>2 DEF Parties
    <3> HIDE DEF a, n
    <3>5. bal' \in [Assets -> [Parties -> Nat]] BY <1>1, <3>2, <3>3, <3>4, BalSetHub
    <3>6. \A b \in Assets : bal'[b].user = bal[b].user BY <1>1, <3>3 DEF Parties
    <3> QED BY <3>5, <3>6
  <2> QED BY <1>3, <2>1, <2>2
<1> QED BY <1>2, <1>4, <1>5, <1>6

-----------------------------------------------------------------------------
(***************************************************************************)
(* Every step keeps the types. The calls and the hub:                       *)
(***************************************************************************)

\* What is left to show of a step of a call or of the hub.
LEMMA TypedByCalls ==
  ASSUME Typed, WalletSame, AsideSame, hubRate' \in Nat, CallsAre',
         \A c \in Callers : call'[c] # Idle => call[c] # Idle,
         bal' \in [Assets -> [Parties -> Nat]], Ids'
  PROVE  Typed'
<1>1. Amounts' BY DEF Typed, Amounts, WalletSame, AsideSame
<1>2. Calls' BY DEF Typed, Calls, AsideSame
<1>3. Jobbing' BY DEF Typed, Jobbing, WalletSame
<1>4. Carding' BY DEF Typed, Carding, WalletSame
<1>5. Waited' BY PartsOfTheWallet DEF Typed, Waited, WalletSame, AsideSame, Callers
<1> QED BY <1>1, <1>2, <1>3, <1>4, <1>5 DEF Typed

LEMMA TypedCaller ==
  ASSUME Typed, NEW c \in Callers, CallerStep(c)
  PROVE  Typed'
<1>1. WalletSame /\ AsideSame
  BY DEF CallerStep, walletVars, cardVars, WalletSame, AsideSame
<1>2. hubRate' = hubRate
  BY DEF CallerStep, ReadFrom, ReadTo, CheckFunds, Propose, AwaitInstall, UninstallSwap,
         CheckSwap, TooLong, TransferEnds, hubVars
<1>3. /\ Ids /\ hubRate \in Nat /\ bal \in [Assets -> [Parties -> Nat]] BY DEF Typed, Amounts
<1>4. ASSUME CallsAre', StepOf(c), bal' \in [Assets -> [Parties -> Nat]], Ids' PROVE Typed'
  BY <1>1, <1>2, <1>3, <1>4, TypedByCalls DEF StepOf
<1>5. CASE ReadFrom(c)
  <2>1. Ids' BY <1>3, <1>5, ReadFromDoes DEF Ids, Others
  <2> QED BY <1>3, <1>4, <1>5, <2>1, ReadFromDoes
<1>6. CASE ReadTo(c)
  <2>1. Ids' BY <1>3, <1>6, ReadToDoes DEF Ids, Others
  <2> QED BY <1>3, <1>4, <1>6, <2>1, ReadToDoes
<1>7. CASE CheckFunds(c) \/ CheckSwap(c) \/ TooLong(c) \/ TransferEnds(c, send.pc = "p2p")
  <2>1. Ids' BY <1>3, <1>7, PlainStepDoes DEF Ids, Others
  <2> QED BY <1>3, <1>4, <1>7, <2>1, PlainStepDoes
<1>8. CASE Propose(c)
  <2>1. PICK o \in Offer : offers' = With(offers, numApps + 1, o) BY <1>8, ProposeDoes
  <2>2. /\ desk' = With(desk, numApps + 1, "asked") /\ numApps' = numApps + 1
        /\ UNCHANGED <<apps, notes, appId>> /\ bal' = bal /\ CallsAre' /\ StepOf(c)
    BY <1>8, ProposeDoes
  <2>3. /\ DOMAIN offers' = DOMAIN offers \cup {numApps + 1}
        /\ DOMAIN desk' = DOMAIN desk \cup {numApps + 1}
        /\ offers' \in [DOMAIN offers' -> Offer] /\ desk' = [id \in DOMAIN desk' |-> desk'[id]]
    BY <1>3, <2>1, <2>2 DEF With, Ids
  <2>4. /\ numApps + 1 \notin 1..numApps /\ 1..numApps \subseteq 1..(numApps + 1)
        /\ numApps + 1 \in 1..(numApps + 1) /\ 0..numApps \subseteq 0..(numApps + 1)
        /\ numApps + 1 \in Nat
    BY <1>3 DEF Ids
  <2>5. Ids' BY <1>3, <2>2, <2>3, <2>4 DEF Ids
  <2> QED BY <1>3, <1>4, <2>2, <2>5
<1>9. CASE AwaitInstall(c)
  <2>1. /\ UNCHANGED <<offers, apps, numApps, desk, notes>>
        /\ \/ appId' = appId
           \/ \E m \in DOMAIN offers : appId' = [appId EXCEPT ![Kind(c)] = m]
    BY <1>9, AwaitInstallDoes
  <2>2. DOMAIN offers \subseteq 0..numApps /\ appId \in [Kinds -> 0..numApps] BY <1>3 DEF Ids
  <2>3. appId' \in [Kinds -> 0..numApps] BY <2>1, <2>2
  <2>4. Ids' BY <1>3, <2>1, <2>3 DEF Ids
  <2> QED BY <1>3, <1>4, <1>9, <2>4, AwaitInstallDoes
<1>10. CASE UninstallSwap(c)
  <2>1. UNCHANGED <<offers, numApps, desk, notes, appId>> /\ apps' = Without(apps, appId["swap"])
    BY <1>10, UninstallSwapDoes
  <2>2. DOMAIN apps' \subseteq DOMAIN apps /\ apps' \in [DOMAIN apps' -> Offer]
    BY <1>3, <2>1 DEF Without, Ids
  <2>3. Ids' BY <1>3, <2>1, <2>2 DEF Ids
  <2> QED BY <1>4, <1>10, <2>3, UninstallSwapDoes
<1> QED BY <1>5, <1>6, <1>7, <1>8, <1>9, <1>10 DEF CallerStep

LEMMA TypedHub ==
  ASSUME Typed, HubStep
  PROVE  Typed'
<1>1. WalletSame /\ AsideSame
  BY DEF HubStep, walletVars, cardVars, WalletSame, AsideSame
<1>3. /\ Ids /\ hubRate \in Nat /\ bal \in [Assets -> [Parties -> Nat]] /\ CallsAre
  BY DEF Typed, Amounts, Calls
<1>2. PICK id \in 1..numApps : \/ verifyAppProposal(id) \/ HubInstalls(id)
                               \/ HubRejects(id) \/ resolveInstallTransfer(id)
  BY DEF HubStep
<1>4. CASE verifyAppProposal(id)
  <2>1. Ids' BY <1>3, <1>4, VerifyDoes DEF Ids
  <2>2. CallsAre' BY <1>3, <1>4, VerifyDoes DEF CallsAre
  <2> QED BY <1>1, <1>3, <1>4, <2>1, <2>2, VerifyDoes, TypedByCalls
<1>5. CASE HubInstalls(id)
  <2>1. Ids'
    <3>1. CASE UNCHANGED <<bal, offers, apps, notes, call>> /\ DOMAIN desk' = DOMAIN desk
                 /\ desk' = [x \in DOMAIN desk' |-> desk'[x]]
      BY <1>3, <1>5, <3>1, HubInstallsDoes DEF Ids
    <3>2. CASE /\ apps' = With(apps, id, offers[id]) /\ offers' = Without(offers, id)
               /\ desk' = Without(desk, id) /\ notes' = notes \cup {id}
      <4>1. id \in DOMAIN offers /\ offers[id] \in Offer /\ UNCHANGED <<numApps, appId>>
        BY <1>3, <1>5, HubInstallsDoes DEF Ids
      <4>2. /\ DOMAIN apps' = DOMAIN apps \cup {id} /\ apps' \in [DOMAIN apps' -> Offer]
            /\ DOMAIN offers' = DOMAIN offers \ {id} /\ offers' \in [DOMAIN offers' -> Offer]
            /\ DOMAIN desk' = DOMAIN desk \ {id} /\ desk' = [x \in DOMAIN desk' |-> desk'[x]]
        BY <1>3, <3>2, <4>1 DEF With, Without, Ids
      <4> QED BY <1>3, <3>2, <4>1, <4>2 DEF Ids
    <3> QED BY <1>5, <3>1, <3>2, HubInstallsDoes
  <2>2. \A c \in Callers : call'[c] # Idle => call[c] # Idle
    BY <1>5, HubInstallsDoes DEF Woken
  <2>3. CallsAre' /\ hubRate' = hubRate /\ bal' \in [Assets -> [Parties -> Nat]]
    BY <1>5, HubInstallsDoes
  <2> QED BY <1>1, <1>3, <2>1, <2>2, <2>3, TypedByCalls
<1>6. CASE HubRejects(id)
  <2>1. /\ UNCHANGED <<apps, numApps, notes, appId, bal, hubRate>> /\ CallsAre'
        /\ offers' = Without(offers, id) /\ desk' = Without(desk, id)
    BY <1>6, HubRejectsDoes
  <2>2. /\ DOMAIN offers' = DOMAIN offers \ {id} /\ offers' \in [DOMAIN offers' -> Offer]
        /\ DOMAIN desk' = DOMAIN desk \ {id} /\ desk' = [x \in DOMAIN desk' |-> desk'[x]]
    BY <1>3, <2>1 DEF Without, Ids
  <2>3. Ids' BY <1>3, <2>1, <2>2 DEF Ids
  <2>4. \A c \in Callers : call'[c] # Idle => call[c] # Idle
    BY <1>6, HubRejectsDoes DEF Woken
  <2> QED BY <1>1, <1>3, <2>1, <2>3, <2>4, TypedByCalls
<1>7. CASE resolveInstallTransfer(id)
  <2>1. Ids' BY <1>3, <1>7, ResolveTransferDoes DEF Ids
  <2>4. \A c \in Callers : call'[c] # Idle => call[c] # Idle
    BY <1>7, ResolveTransferDoes DEF Woken
  <2> QED BY <1>1, <1>3, <1>7, <2>1, <2>4, TypedByCalls, ResolveTransferDoes
<1> QED BY <1>2, <1>4, <1>5, <1>6, <1>7

LEMMA TypedReclaims ==
  ASSUME Typed, HubReclaims
  PROVE  Typed'
<1>1. /\ WalletSame /\ AsideSame /\ bal' \in [Assets -> [Parties -> Nat]]
      /\ UNCHANGED <<offers, numApps, desk, notes, appId, call, hubRate>>
  BY HubReclaimsDoes
<1>2. Ids /\ CallsAre /\ hubRate \in Nat BY DEF Typed, Calls, Amounts
<1>3. apps' = apps \/ \E id : apps' = Without(apps, id) BY HubReclaimsDoes
<1>4. DOMAIN apps' \subseteq DOMAIN apps /\ apps' \in [DOMAIN apps' -> Offer]
  BY <1>2, <1>3 DEF Without, Ids
<1>5. Ids' BY <1>1, <1>2, <1>4 DEF Ids
<1>6. CallsAre' BY <1>1, <1>2 DEF CallsAre
<1> QED BY <1>1, <1>2, <1>5, <1>6, TypedByCalls

-----------------------------------------------------------------------------
(***************************************************************************)
(* the deposits and the withdrawals:                                        *)
(***************************************************************************)

LEMMA DepositMoved ==
  ASSUME NEW d \in Deposit, NEW n \in Nat,
         NEW at \in {"reading", "sending", "check"} \cup Ended
  PROVE  [d EXCEPT !.at = at] \in Deposit /\ [d EXCEPT !.had = n, !.at = at] \in Deposit
BY DEF Deposit

LEMMA WithdrawalMoved ==
  ASSUME NEW w \in Withdrawal, NEW at \in {"reading", "committing", "submitting"} \cup Ended
  PROVE  /\ [w EXCEPT !.at = at] \in Withdrawal
         /\ [w EXCEPT !.at = at].asset = w.asset /\ [w EXCEPT !.at = at].amount = w.amount
         /\ [w EXCEPT !.at = at].at = at
BY DEF Withdrawal

\* The channel's offers, and what is about them, stay.
OffersSame ==
  UNCHANGED <<offers, apps, numApps, desk, notes, confused, stranded, preImage, hubRate, appId>>

LEMMA TypedDeposit ==
  ASSUME Typed, DepositStep
  PROVE  Typed'
<1>1. OffersSame /\ WalletSame /\ call' = call /\ withdrawal' = withdrawal
  BY DEF DepositStep, OffersSame, WalletSame, hubVars, historyVars, swapVars, walletVars, cardVars,
         ReadForDeposit, DepositLands, CheckDeposit
<1>2. /\ bal \in [Assets -> [Parties -> Nat]] /\ chain \in [Assets -> Nat]
      /\ deposit \in {Idle} \cup Deposit
  BY DEF Typed, Amounts, Calls
<1>3. deposit.at # "idle" BY DEF DepositStep, ReadForDeposit, DepositLands, CheckDeposit
<1>4. deposit \in Deposit /\ deposit # Idle BY <1>2, <1>3 DEF Idle
<1>5. deposit.asset \in Assets /\ deposit.amount \in Nat BY <1>4 DEF Deposit
<1>6. /\ bal' \in [Assets -> [Parties -> Nat]] /\ chain' \in [Assets -> Nat]
      /\ deposit' \in Deposit
  <2>1. CASE ReadForDeposit
    <3> DEFINE n == bal[deposit.asset].user
               at == Otherwise(deposit.amount > 0 /\ deposit.amount <= chain[deposit.asset], "sending")
    <3>1. deposit' = [deposit EXCEPT !.had = n, !.at = at] /\ bal' = bal /\ chain' = chain
      BY <2>1 DEF ReadForDeposit
    <3>2. n \in Nat /\ at \in {"reading", "sending", "check"} \cup Ended
      BY <1>2, <1>5 DEF Otherwise, Ended, Parties
    <3> HIDE DEF n, at
    <3> QED BY <1>2, <1>4, <3>1, <3>2, DepositMoved
  <2>2. CASE DepositLands
    <3>1. /\ chain' = [chain EXCEPT ![deposit.asset] = @ - deposit.amount]
          /\ bal' = [bal EXCEPT ![deposit.asset].user = @ + deposit.amount]
          /\ deposit.amount <= chain[deposit.asset]
          /\ deposit' = [deposit EXCEPT !.at = "check"]
      BY <2>2 DEF DepositLands
    <3>2. bal' \in [Assets -> [Parties -> Nat]] BY <1>2, <1>5, <3>1 DEF Assets, Parties
    <3>3. chain' \in [Assets -> Nat] BY <1>2, <1>5, <3>1
    <3>4. deposit' \in Deposit
      <4>1. 0 \in Nat OBVIOUS
      <4> QED BY <1>4, <3>1, <4>1, DepositMoved
    <3> QED BY <3>2, <3>3, <3>4
  <2>3. CASE CheckDeposit
    <3> DEFINE at == Otherwise(bal[deposit.asset].user - deposit.had = deposit.amount, "returned")
    <3>1. deposit' = [deposit EXCEPT !.at = at] /\ bal' = bal /\ chain' = chain
      BY <2>3 DEF CheckDeposit
    <3>2. at \in {"reading", "sending", "check"} \cup Ended /\ 0 \in Nat BY DEF Otherwise, Ended
    <3> HIDE DEF at
    <3> QED BY <1>2, <1>4, <3>1, <3>2, DepositMoved
  <2> QED BY <2>1, <2>2, <2>3 DEF DepositStep
<1>7. Amounts' BY <1>1, <1>6 DEF Typed, Amounts, OffersSame, WalletSame
<1>8. Calls' BY <1>1, <1>6 DEF Typed, Calls, CallsAre
<1>9. Ids' /\ Jobbing' /\ Carding'
  <2>1. Ids' BY <1>1 DEF Typed, Ids, OffersSame
  <2>2. Jobbing' BY <1>1 DEF Typed, Jobbing, WalletSame
  <2>3. Carding' BY <1>1 DEF Typed, Carding, WalletSame
  <2> QED BY <2>1, <2>2, <2>3
<1>10. Waited' BY <1>1, <1>4 DEF Typed, Waited, WalletSame
<1> QED BY <1>7, <1>8, <1>9, <1>10 DEF Typed

LEMMA WithdrawDoes ==
  ASSUME Typed, NEW w \in Withdrawers, WithdrawStep(w)
  PROVE  /\ OffersSame /\ WalletSame /\ UNCHANGED <<call, deposit, chain>>
         /\ withdrawal[w] \in Withdrawal /\ withdrawal[w] # Idle
         /\ \E at \in {"committing", "submitting"} \cup Ended, r \in Withdrawal :
              /\ r = [withdrawal[w] EXCEPT !.at = at]
              /\ withdrawal' = [withdrawal EXCEPT ![w] = r]
              /\ \/ at # "submitting" /\ bal' = bal
                 \/ /\ at = "submitting" 
                    /\ withdrawal[w].amount <= bal[withdrawal[w].asset].user
                    /\ bal' = [bal EXCEPT ![withdrawal[w].asset].user = @ - withdrawal[w].amount]
<1>1. OffersSame /\ WalletSame /\ UNCHANGED <<call, deposit, chain>>
  BY DEF WithdrawStep, OffersSame, WalletSame, hubVars, historyVars, swapVars, walletVars, cardVars,
         ReadForWithdrawal, CommitWithdrawal, WithdrawalEnds
<1>2. withdrawal \in [Withdrawers -> {Idle} \cup Withdrawal] BY DEF Typed, Calls
<1>3. withdrawal[w].at # "idle"
  BY DEF WithdrawStep, ReadForWithdrawal, CommitWithdrawal, WithdrawalEnds
<1>4. withdrawal[w] \in Withdrawal /\ withdrawal[w] # Idle BY <1>2, <1>3 DEF Idle
<1>5. PICK at \in {"committing", "submitting"} \cup Ended :
              /\ withdrawal' = [withdrawal EXCEPT ![w].at = at]
              /\ \/ at # "submitting" /\ bal' = bal
                 \/ /\ at = "submitting" 
                    /\ withdrawal[w].amount <= bal[withdrawal[w].asset].user
                    /\ bal' = [bal EXCEPT ![withdrawal[w].asset].user = @ - withdrawal[w].amount]
  <2>1. CASE ReadForWithdrawal(w)
    <3> DEFINE at == Otherwise(withdrawal[w].amount <= bal[withdrawal[w].asset].user, "committing")
    <3>1. withdrawal' = [withdrawal EXCEPT ![w].at = at] /\ bal' = bal
      BY <2>1 DEF ReadForWithdrawal
    <3>2. at \in {"committing", "submitting"} \cup Ended /\ at # "submitting"
      BY DEF Otherwise, Ended
    <3> HIDE DEF at
    <3> QED BY <3>1, <3>2
  <2>2. CASE CommitWithdrawal(w)
    <3>1. CASE withdrawal[w].amount <= bal[withdrawal[w].asset].user
      BY <2>2, <3>1 DEF CommitWithdrawal, Otherwise, Ended
    <3>2. CASE ~(withdrawal[w].amount <= bal[withdrawal[w].asset].user)
      BY <2>2, <3>2 DEF CommitWithdrawal, Otherwise, Ended
    <3> QED BY <3>1, <3>2
  <2>3. CASE WithdrawalEnds(w) BY <2>3 DEF WithdrawalEnds, Ended
  <2> QED BY <2>1, <2>2, <2>3 DEF WithdrawStep
<1> DEFINE r == [withdrawal[w] EXCEPT !.at = at]
<1>6. r \in Withdrawal BY <1>4, <1>5, WithdrawalMoved
<1>7. withdrawal' = [withdrawal EXCEPT ![w] = r] BY <1>2, <1>5
<1> QED BY <1>1, <1>4, <1>5, <1>6, <1>7

LEMMA TypedWithdraw ==
  ASSUME Typed, NEW w \in Withdrawers, WithdrawStep(w)
  PROVE  Typed'
<1>1. /\ OffersSame /\ WalletSame /\ UNCHANGED <<call, deposit, chain>>
      /\ withdrawal[w] \in Withdrawal /\ withdrawal[w] # Idle
  BY WithdrawDoes
<1>2. PICK r \in Withdrawal :
              /\ withdrawal' = [withdrawal EXCEPT ![w] = r]
              /\ \/ bal' = bal
                 \/ /\ withdrawal[w].amount <= bal[withdrawal[w].asset].user
                    /\ bal' = [bal EXCEPT ![withdrawal[w].asset].user = @ - withdrawal[w].amount]
  BY WithdrawDoes
<1>3. bal \in [Assets -> [Parties -> Nat]] /\ withdrawal \in [Withdrawers -> {Idle} \cup Withdrawal]
  BY DEF Typed, Amounts, Calls
<1>4. withdrawal[w].asset \in Assets /\ withdrawal[w].amount \in Nat BY <1>1 DEF Withdrawal
<1>5. bal' \in [Assets -> [Parties -> Nat]]
  BY <1>2, <1>3, <1>4 DEF Assets, Parties
<1>7. Amounts' BY <1>1, <1>5 DEF Typed, Amounts, OffersSame, WalletSame
<1>8. Calls' BY <1>1, <1>2, <1>3 DEF Typed, Calls, CallsAre
<1>9. Ids' /\ Jobbing' /\ Carding'
  <2>1. Ids' BY <1>1 DEF Typed, Ids, OffersSame
  <2>2. Jobbing' BY <1>1 DEF Typed, Jobbing, WalletSame
  <2>3. Carding' BY <1>1 DEF Typed, Carding, WalletSame
  <2> QED BY <2>1, <2>2, <2>3
<1>10. Waited'
  <2>1. withdrawal'["cashout"] # Idle => withdrawal["cashout"] # Idle
    BY <1>1, <1>2, <1>3, PartsOfTheWallet
  <2> QED BY <1>1, <2>1 DEF Typed, Waited, WalletSame
<1> QED BY <1>7, <1>8, <1>9, <1>10 DEF Typed

-----------------------------------------------------------------------------
(***************************************************************************)
(* the jobs of the wallet:                                                  *)
(***************************************************************************)

LEMMA RegionMoved ==
  ASSUME region \in Regions, NEW o \in Operations
  PROVE  START(o) \in Regions /\ SUCCESS(o) \in Regions /\ ERROR(o) \in Regions
BY DEF Regions, START, SUCCESS, ERROR

LEMMA JobMoved ==
  ASSUME Typed, NEW j \in Jobs, NEW r \in JobStates(j), Moves(j, r),
         root' = root, root # "start", region' \in Regions,
         \A d \in Jobs \ {j} : call'[d] = call[d], call'[j] # Idle => r.pc = "swapping",
         IF j = "cashout" THEN withdrawal'["cashout"] # Idle => r.pc = "withdrawing"
                          ELSE withdrawal'["cashout"] = withdrawal["cashout"],
         IF j = "poller" THEN deposit' # Idle => r.pc \in Depositing ELSE deposit' = deposit
  PROVE  Jobbing' /\ Waited' /\ job'[j] = r /\ \A k \in Jobs \ {j} : job'[k] = job[k]
<1>1. /\ job'[j] = r /\ \A k \in Jobs \ {j} : job'[k] = job[k]
      /\ job' = [k \in Jobs |-> job'[k]]
  BY DEF Typed, Jobbing, Moves
<1>2. Jobbing' BY <1>1 DEF Typed, Jobbing
<1>3. Waited'
  <2>1. \A k \in Jobs : call'[k] # Idle => job'[k].pc = "swapping"
    BY <1>1 DEF Typed, Waited
  <2>2. withdrawal'["cashout"] # Idle => job'["cashout"].pc = "withdrawing"
    BY <1>1 DEF Typed, Waited, Jobs
  <2>3. deposit' # Idle => job'["poller"].pc \in Depositing
    BY <1>1 DEF Typed, Waited, Jobs
  <2> QED BY <2>1, <2>2, <2>3 DEF Waited
<1> QED BY <1>1, <1>2, <1>3

Thens(j) == IF j = "poller" THEN {"autoDeposit", "ether too", "deposited", "swapped"}
            ELSE IF j = "detached" THEN {"swapped"} ELSE {"withdrawEther"}

LEMMA JobForms ==
  ASSUME Typed, NEW j \in Jobs
  PROVE  /\ job[j] \in JobStates(j)
         /\ job[j].pc \in {"ether", "tokens", "show"} => job[j] \in Refreshing(Thens(j))
         /\ job[j].pc = "collateral" /\ j # "cashout" => job[j] \in Swapping
         /\ job[j].pc \in {"collateral", "collateralized"} /\ j = "cashout" =>
              job[j] \in [pc : {"collateral", "collateralized"}, rate : Nat \ {0}, need : Nat]
         /\ job[j].pc # "off" => root # "start"
         /\ job[j] = NoJob <=> job[j].pc = "off"
<1>1. job[j] \in JobStates(j) BY DEF Typed, Jobbing
<1>2. job[j].pc \in {"ether", "tokens", "show"} => job[j] \in Refreshing(Thens(j))
  BY <1>1 DEF JobStates, Refreshing, Swapping, Thens
<1>3. job[j].pc = "collateral" /\ j # "cashout" => job[j] \in Swapping
  BY <1>1 DEF JobStates, Refreshing, Swapping, Jobs
<1>4. job[j].pc \in {"collateral", "collateralized"} /\ j = "cashout" =>
              job[j] \in [pc : {"collateral", "collateralized"}, rate : Nat \ {0}, need : Nat]
  BY <1>1 DEF JobStates, Refreshing, Swapping
<1>5. job[j] = NoJob <=> job[j].pc = "off"
  <2>1. job[j].pc = "off" => \E S : job[j] \in [pc : S]
    BY <1>1 DEF JobStates, Refreshing, Swapping
  <2>2. ASSUME NEW S, NEW r \in [pc : S], r.pc = "off" PROVE r = [pc |-> "off"]
    BY <2>2
  <2> QED BY <2>1, <2>2 DEF NoJob
<1>6. job[j].pc # "off" => root # "start"
  BY <1>5 DEF Typed, Waited
<1> QED BY <1>1, <1>2, <1>3, <1>4, <1>5, <1>6

\* A job that is not waiting for a call has none.
LEMMA NotWaiting ==
  ASSUME Typed, NEW j \in Jobs
  PROVE  /\ job[j].pc # "swapping" => call[j] = Idle
         /\ j = "cashout" /\ job[j].pc # "withdrawing" => withdrawal["cashout"] = Idle
         /\ j = "poller" /\ job[j].pc \notin Depositing => deposit = Idle
BY DEF Typed, Waited

LEMMA JobStateIs ==
  ASSUME NEW j \in Jobs
  PROVE  /\ Ends(j) \in JobStates(j) /\ (j # "cashout" => Dies(j) \in JobStates(j))
         /\ NoJob \in JobStates(j) /\ Dies(j) \in JobStates(j)
         /\ At("swapping") \in JobStates(j)
         /\ \A then \in Thens(j) : At(then) \in JobStates(j) /\ Refresh(then) \in JobStates(j)
         /\ Ends(j).pc \in {"off", "again"} /\ Dies(j).pc \in {"off", "dead"}
<1>1. j \in {"poller", "detached", "cashout"} BY DEF Jobs
<1>2. /\ Ends(j) \in JobStates(j) /\ Dies(j) \in JobStates(j) /\ NoJob \in JobStates(j)
      /\ Ends(j).pc \in {"off", "again"} /\ Dies(j).pc \in {"off", "dead"}
  BY <1>1 DEF Ends, Dies, NoJob, At, JobStates
<1>3. At("swapping") \in JobStates(j) BY <1>1 DEF At, JobStates
<1>4. \A then \in Thens(j) : At(then) \in JobStates(j) BY <1>1 DEF At, JobStates, Thens
<1>5. \A then \in Thens(j) : Refresh(then) \in JobStates(j)
  BY <1>1 DEF Refresh, JobStates, Thens, Refreshing
<1> QED BY <1>2, <1>3, <1>4, <1>5

LEMMA LeastIs ==
  ASSUME NEW a \in Int, NEW b \in Int
  PROVE  Least(a, b) \in {a, b} /\ Least(a, b) <= a /\ Least(a, b) <= b
BY DEF Least

LEMMA DivNat ==
  ASSUME NEW a \in Nat, NEW b \in Nat \ {0}
  PROVE  a \div b \in Nat
OBVIOUS

LEMMA TimesNat ==
  ASSUME NEW a \in Nat, NEW b \in Nat
  PROVE  a * b \in Nat
OBVIOUS

LEMMA AutoSwapIs ==
  ASSUME Typed, NEW j \in Jobs \ {"cashout"}, NEW r
  PROVE  /\ autoSwap(j, r) \in JobStates(j)
         /\ autoSwap(j, r) = Ends(j) \/ autoSwap(j, r).pc = "collateral"
         /\ root # "ready" \/ r["withdraw"] = "pending" => autoSwap(j, r) = Ends(j)
<1> DEFINE space == (MAX_CHANNEL_VALUE - shown.dai) \div swapRate
           wei == Least(shown.eth, space)
           go == [pc |-> "collateral", wei |-> wei, rate |-> swapRate,
                  need |-> shown.dai + wei * swapRate]
<1>1. shown.eth \in Nat /\ shown.dai \in Nat /\ swapRate \in Nat \ {0} /\ MAX_CHANNEL_VALUE \in Nat
  BY WalletNumbers DEF Typed, Amounts, Shown
<1>2. autoSwap(j, r) = IF root # "ready" \/ Busy(r) \/ shown.dai >= MAX_CHANNEL_VALUE \/ wei = 0
                       THEN Ends(j) ELSE go
  BY DEF autoSwap
<1>3. shown.dai < MAX_CHANNEL_VALUE => go \in Swapping
  <2> HAVE shown.dai < MAX_CHANNEL_VALUE
  <2>1. MAX_CHANNEL_VALUE - shown.dai \in Nat BY <1>1
  <2>2. space \in Nat BY <1>1, <2>1, DivNat
  <2> HIDE DEF space
  <2>3. wei \in Nat BY <1>1, <2>2, LeastIs
  <2> HIDE DEF wei
  <2>4. wei * swapRate \in Nat BY <1>1, <2>3, TimesNat
  <2>5. shown.dai + wei * swapRate \in Nat BY <1>1, <2>4
  <2> QED BY <1>1, <2>3, <2>5 DEF Swapping
<1>4. Swapping \subseteq JobStates(j) BY DEF JobStates, Jobs
<1>5. ~(shown.dai >= MAX_CHANNEL_VALUE) => shown.dai < MAX_CHANNEL_VALUE BY <1>1
<1>6. go.pc = "collateral" OBVIOUS
<1> HIDE DEF wei, go
<1>7. autoSwap(j, r) = Ends(j) \/ (autoSwap(j, r) = go /\ go \in Swapping) BY <1>2, <1>3, <1>5
<1>8. root # "ready" \/ r["withdraw"] = "pending" => autoSwap(j, r) = Ends(j) BY <1>2 DEF Busy
<1> QED BY <1>4, <1>6, <1>7, <1>8, JobStateIs

LEMMA CallVarsSame ==
  ASSUME UNCHANGED callVars
  PROVE  OffersSame /\ UNCHANGED <<bal, chain, call, deposit, withdrawal>>
BY DEF callVars, channelVars, hubVars, historyVars, swapVars, OffersSame

\* Only the balances of the hub have changed.
LEMMA CollateralizedIs ==
  ASSUME Typed, NEW a \in Assets, NEW n \in Nat, Collateralized(a, n)
  PROVE  /\ bal' \in [Assets -> [Parties -> Nat]]
         /\ \A b \in Assets : bal'[b].user = bal[b].user
<1>1. bal \in [Assets -> [Parties -> Nat]] BY DEF Typed, Amounts
<1>2. bal' = bal \/ bal' = [bal EXCEPT ![a].hub = n] BY DEF Collateralized
<1>3. CASE bal' = bal BY <1>1, <1>3
<1>4. CASE bal' = [bal EXCEPT ![a].hub = n]
  <2>1. bal' \in [Assets -> [Parties -> Nat]] BY <1>1, <1>4, BalSetHub
  <2>2. \A b \in Assets : bal'[b].user = bal[b].user BY <1>1, <1>4 DEF Parties
  <2> QED BY <2>1, <2>2
<1> QED BY <1>2, <1>3, <1>4

\* A call that starts, be it a swap or a transfer.
LEMMA BeginsDoes ==
  ASSUME CallsAre, NEW c \in Callers, NEW from \in Assets, NEW to \in Assets,
         NEW pays \in Nat, NEW gets \in Nat, Begins(c, from, to, pays, gets)
  PROVE  /\ CallsAre' /\ \A d \in Callers \ {c} : call'[d] = call[d]
         /\ call'[c] \in Call /\ call'[c].at = "from" /\ call'[c].kind = Kind(c)
         /\ call'[c].own = NoId /\ call'[c].id = NoId /\ call'[c].pays = pays
<1> DEFINE r == [at |-> "from", kind |-> Kind(c), from |-> from, to |-> to, pays |-> pays,
                 gets |-> gets, had |-> 0, has |-> 0, own |-> NoId, id |-> NoId]
<1>1. r \in Call BY DEF Call, CallStates, Kind, Kinds, NoId
<1>2. call' = [call EXCEPT ![c] = r] BY DEF Begins
<1>3. r.at = "from" /\ r.kind = Kind(c) /\ r.own = NoId /\ r.id = NoId /\ r.pays = pays OBVIOUS
<1> HIDE DEF r
<1> QED BY <1>1, <1>2, <1>3 DEF CallsAre

LEMMA CallForgotten ==
  ASSUME CallsAre, NEW c \in Callers, call' = [call EXCEPT ![c] = Idle]
  PROVE  /\ CallsAre' /\ call'[c] = Idle /\ \A d \in Callers \ {c} : call'[d] = call[d]
BY DEF CallsAre

JobsSame == UNCHANGED <<root, region, job>>

LEMMA TypedIs ==
  ASSUME Typed, OffersSame, bal' \in [Assets -> [Parties -> Nat]], chain' = chain, swapRate' = swapRate,
         shown' = shown, plan' = plan, Carding', Calls', Jobbing' /\ Waited'
  PROVE  Typed'
<1>1. Amounts' BY DEF Typed, Amounts, OffersSame
<1>2. Ids' BY DEF Typed, Ids, OffersSame
<1> QED BY <1>1, <1>2 DEF Typed

\* The steps of a job on its own.
LEMMA JobAloneTyped ==
  ASSUME Typed, NEW j \in Jobs, ReadEther(j) \/ ReadTokens(j) \/ ShowBalances(j) \/ Swapped(j), 
         UNCHANGED callVars, UNCHANGED cardVars
  PROVE  Typed'
<1>1. OffersSame /\ UNCHANGED <<bal, chain, call, deposit, withdrawal>> BY CallVarsSame
<1>2. /\ bal \in [Assets -> [Parties -> Nat]] /\ bal' \in [Assets -> [Parties -> Nat]] 
      /\ chain \in [Assets -> Nat] /\ region \in Regions
  BY <1>1 DEF Typed, Amounts, Jobbing
<1>3. Calls' BY <1>1 DEF Typed, Calls, CallsAre
<1>4. UNCHANGED <<root, swapRate, tips, plan, send>>
  BY DEF ReadEther, ReadTokens, ShowBalances, Swapped, cardVars
<1>5. Carding' BY <1>4 DEF Typed, Carding
<1>6. ASSUME NEW r \in JobStates(j), Moves(j, r), job[j].pc \notin {"off", "swapping", "withdrawing"} \cup Depositing, region' \in Regions
      PROVE  Jobbing' /\ Waited'
  <2>1. root # "start" /\ call'[j] = Idle /\ (j = "cashout" => withdrawal'["cashout"] = Idle)
        /\ (j = "poller" => deposit' = Idle) 
    BY <1>1, <1>6, JobForms, NotWaiting
  <2> QED BY <1>1, <1>4, <1>6, <2>1, JobMoved
<1>7. Refreshing(Thens(j)) \subseteq JobStates(j) BY DEF JobStates, Thens, Jobs
<1>8. CASE ReadEther(j)
  <2> DEFINE r == [job[j] EXCEPT !.pc = "tokens", !.eth = bal["eth"].user]
  <2>1. job[j].pc = "ether" /\ Moves(j, r) /\ shown' = shown /\ region' = region BY <1>8 DEF ReadEther
  <2>2. job[j] \in Refreshing(Thens(j)) /\ bal["eth"].user \in Nat
    BY <1>2, <2>1, JobForms DEF Assets, Parties
  <2>3. r \in Refreshing(Thens(j)) BY <2>2 DEF Refreshing
  <2> HIDE DEF r
  <2>4. Jobbing' /\ Waited' BY <1>2, <1>6, <1>7, <2>1, <2>3 DEF Depositing
  <2> QED BY <1>1, <1>2, <1>3, <1>4, <1>5, <2>1, <2>4, TypedIs
<1>9. CASE ReadTokens(j)
  <2> DEFINE r == [job[j] EXCEPT !.pc = "show", !.dai = bal["dai"].user]
  <2>1. job[j].pc = "tokens" /\ Moves(j, r) /\ shown' = shown /\ region' = region BY <1>9 DEF ReadTokens
  <2>2. job[j] \in Refreshing(Thens(j)) /\ bal["dai"].user \in Nat
    BY <1>2, <2>1, JobForms DEF Assets, Parties
  <2>3. r \in Refreshing(Thens(j)) BY <2>2 DEF Refreshing
  <2> HIDE DEF r
  <2>4. Jobbing' /\ Waited' BY <1>2, <1>6, <1>7, <2>1, <2>3 DEF Depositing
  <2> QED BY <1>1, <1>2, <1>3, <1>4, <1>5, <2>1, <2>4, TypedIs
<1>10. CASE ShowBalances(j)
  <2>1. /\ job[j].pc = "show" /\ Moves(j, At(job[j].then)) /\ region' = region
        /\ shown' = [eth |-> job[j].eth, dai |-> job[j].dai,
                     chainEth |-> chain["eth"], chainDai |-> chain["dai"]]
    BY <1>10 DEF ShowBalances
  <2>2. job[j] \in Refreshing(Thens(j)) BY <2>1, JobForms
  <2>3. job[j].then \in Thens(j) /\ job[j].eth \in Nat /\ job[j].dai \in Nat BY <2>2 DEF Refreshing
  <2>4. At(job[j].then) \in JobStates(j) BY <2>3, JobStateIs
  <2>5. Jobbing' /\ Waited' BY <1>2, <1>6, <2>1, <2>4 DEF Depositing
  <2>6. shown' \in Shown BY <1>2, <2>1, <2>3 DEF Shown, Assets
  <2>7. Amounts' BY <1>1, <1>2, <1>4, <2>6 DEF Typed, Amounts, OffersSame
  <2>8. Ids' BY <1>1 DEF Typed, Ids, OffersSame
  <2> QED BY <1>3, <1>5, <2>5, <2>7, <2>8 DEF Typed
<1>11. CASE Swapped(j)
  <2>1. job[j].pc = "swapped" /\ Moves(j, Ends(j)) /\ shown' = shown /\ region' = SUCCESS("swap")
    BY <1>11 DEF Swapped
  <2>2. region' \in Regions BY <1>2, <2>1, RegionMoved DEF Operations
  <2>3. Jobbing' /\ Waited' BY <1>6, <2>1, <2>2, JobStateIs DEF Depositing
  <2> QED BY <1>1, <1>2, <1>3, <1>4, <1>5, <2>1, <2>3, TypedIs
<1> QED BY <1>8, <1>9, <1>10, <1>11

LEMMA CollateralTyped ==
  ASSUME Typed, NEW j \in Jobs, RequestCollateral(j), UNCHANGED cardVars,
         UNCHANGED <<offers, apps, numApps, hubVars, swapVars, chain, deposit, withdrawal>>
  PROVE  Typed'
<1>1. OffersSame /\ UNCHANGED <<chain, call, deposit, withdrawal>>
  BY DEF hubVars, historyVars, swapVars, OffersSame
<1>2. /\ j # "cashout" /\ job[j].pc = "collateral" /\ Moves(j, Ends(j))
      /\ Collateralized("dai", job[j].need)
      /\ UNCHANGED <<plan, root, region, swapRate, shown, tips, send>>
  BY DEF RequestCollateral, cardVars
<1>3. job[j].need \in Nat BY <1>2, JobForms DEF Swapping
<1>4. bal' \in [Assets -> [Parties -> Nat]] BY <1>2, <1>3, CollateralizedIs DEF Assets
<1>5. region' \in Regions /\ root # "start" BY <1>2, JobForms DEF Typed, Jobbing
<1>6. call'[j] = Idle /\ (j = "poller" => deposit' = Idle)
  BY <1>1, <1>2, NotWaiting DEF Depositing
<1>7. Jobbing' /\ Waited' BY <1>1, <1>2, <1>5, <1>6, JobStateIs, JobMoved
<1>8. Carding' /\ Calls' BY <1>1, <1>2 DEF Typed, Carding, Calls, CallsAre
<1> QED BY <1>1, <1>2, <1>4, <1>7, <1>8, TypedIs

LEMMA JobSwapTyped ==
  ASSUME Typed, NEW j \in Jobs, AutoSwap(j) \/ AfterSwap(j), UNCHANGED cardVars,
         UNCHANGED <<channelVars, hubVars, appId, chain, deposit, withdrawal>>
  PROVE  Typed'
<1>1. OffersSame /\ UNCHANGED <<bal, chain, deposit, withdrawal>>
  BY DEF channelVars, hubVars, historyVars, OffersSame
<1>2. UNCHANGED <<plan, root, swapRate, shown, tips, send>>
  BY DEF AutoSwap, AfterSwap, cardVars
<1>3. /\ bal' \in [Assets -> [Parties -> Nat]] /\ region \in Regions /\ CallsAre
  BY <1>1 DEF Typed, Amounts, Jobbing, Calls
<1>4. j \in Callers BY PartsOfTheWallet DEF Callers
<1>5. Carding' BY <1>2 DEF Typed, Carding
<1>6. CASE AutoSwap(j)
  <2>1. /\ j # "cashout" /\ job[j].pc = "collateral" /\ Moves(j, At("swapping"))
        /\ region' = START("swap")
        /\ Begins(j, "eth", "dai", job[j].wei, calculateExchange(job[j].wei, <<job[j].rate, 1>>))
    BY <1>6 DEF AutoSwap, SwapCall
  <2>2. job[j].wei \in Nat /\ job[j].rate \in Nat BY <2>1, JobForms DEF Swapping
  <2>3. calculateExchange(job[j].wei, <<job[j].rate, 1>>) \in Nat BY <2>2, Exchanged
  <2>4. CallsAre' /\ \A d \in Callers \ {j} : call'[d] = call[d]
    BY <1>3, <1>4, <2>1, <2>2, <2>3, BeginsDoes DEF Assets
  <2>5. region' \in Regions /\ root # "start" BY <1>3, <2>1, RegionMoved, JobForms DEF Operations
  <2>6. j = "poller" => deposit' = Idle BY <1>1, <2>1, NotWaiting DEF Depositing
  <2>7. \A d \in Jobs \ {j} : call'[d] = call[d] BY <2>4, PartsOfTheWallet DEF Callers
  <2>8. At("swapping").pc = "swapping" /\ At("swapping") \in JobStates(j) BY JobStateIs DEF At
  <2>9. Jobbing' /\ Waited' BY <1>1, <1>2, <2>1, <2>5, <2>6, <2>7, <2>8, JobMoved
  <2>10. Calls' BY <1>1, <2>4 DEF Typed, Calls
  <2> QED BY <1>1, <1>2, <1>3, <1>5, <2>9, <2>10, TypedIs
<1>7. CASE AfterSwap(j)
  <2> DEFINE r == IF call[j].at = "threw" THEN Dies(j)
                  ELSE Refresh(IF j = "cashout" THEN "withdrawEther" ELSE "swapped")
  <2>1. /\ job[j].pc = "swapping" /\ call' = [call EXCEPT ![j] = Idle] /\ region' = region
        /\ Moves(j, r)
    BY <1>7 DEF AfterSwap
  <2>2. r \in JobStates(j)
    <3>1. (IF j = "cashout" THEN "withdrawEther" ELSE "swapped") \in Thens(j) BY DEF Thens, Jobs
    <3> QED BY <3>1, JobStateIs
  <2> HIDE DEF r
  <2>3. CallsAre' /\ call'[j] = Idle /\ \A d \in Callers \ {j} : call'[d] = call[d]
    BY <1>3, <1>4, <2>1, CallForgotten
  <2>4. j = "poller" => deposit' = Idle BY <1>1, <2>1, NotWaiting DEF Depositing
  <2>5. j = "cashout" => withdrawal'["cashout"] = Idle BY <1>1, <2>1, NotWaiting
  <2>6. root # "start" BY <2>1, JobForms
  <2>7. \A d \in Jobs \ {j} : call'[d] = call[d] BY <2>3, PartsOfTheWallet DEF Callers
  <2>8. Jobbing' /\ Waited' BY <1>1, <1>2, <1>3, <2>1, <2>2, <2>3, <2>4, <2>5, <2>6, <2>7, JobMoved
  <2>9. Calls' BY <1>1, <2>3 DEF Typed, Calls
  <2> QED BY <1>1, <1>2, <1>3, <1>5, <2>8, <2>9, TypedIs
<1> QED BY <1>6, <1>7

LEMMA TypedJob ==
  ASSUME Typed, NEW j \in Jobs, JobStep(j)
  PROVE  Typed'
BY JobAloneTyped, CollateralTyped, JobSwapTyped DEF JobStep

-----------------------------------------------------------------------------
(***************************************************************************)
(* the poller:                                                              *)
(***************************************************************************)

\* A call of deposit().
LEMMA DepositCallIs ==
  ASSUME NEW a \in Assets, NEW n \in Nat, DepositCall(a, n)
  PROVE  deposit' \in {Idle} \cup Deposit
BY DEF DepositCall, Deposit

LEMMA WithdrawCallIs ==
  ASSUME Typed, NEW c \in Withdrawers, NEW a \in Assets, NEW n \in Nat, WithdrawCall(c, a, n)
  PROVE  /\ withdrawal' \in [Withdrawers -> {Idle} \cup Withdrawal]
         /\ withdrawal'[c] \in Withdrawal /\ withdrawal'[c].at = "reading"
         /\ withdrawal'[c].asset = a /\ withdrawal'[c].amount = n
         /\ \A d \in Withdrawers \ {c} : withdrawal'[d] = withdrawal[d]
<1> DEFINE r == [at |-> "reading", asset |-> a, amount |-> n]
<1>1. r \in Withdrawal /\ r.at = "reading" /\ r.asset = a /\ r.amount = n BY DEF Withdrawal
<1>2. withdrawal' = [withdrawal EXCEPT ![c] = r] BY DEF WithdrawCall
<1> HIDE DEF r
<1> QED BY <1>1, <1>2 DEF Typed, Calls

LEMMA RoomIs ==
  ASSUME Typed
  PROVE  /\ Room \in Int /\ Total \in Nat
         /\ shown.chainEth \in Nat /\ shown.chainDai \in Nat /\ MinDeposit \in Nat
         /\ Room > 0 => Room * swapRate \in Nat
<1>1. shown.eth \in Nat /\ shown.dai \in Nat /\ swapRate \in Nat \ {0} /\ MAX_CHANNEL_VALUE \in Nat
      /\ shown.chainEth \in Nat /\ shown.chainDai \in Nat /\ MinDeposit \in Nat
  BY WalletNumbers DEF Typed, Amounts, Shown
<1>2. shown.dai \div swapRate \in Nat /\ MAX_CHANNEL_VALUE \div swapRate \in Nat BY <1>1, DivNat
<1>3. Total \in Nat BY <1>1, <1>2 DEF Total
<1>4. Room \in Int BY <1>2, <1>3 DEF Room
<1>5. Room > 0 => Room \in Nat BY <1>4
<1>6. Room > 0 => Room * swapRate \in Nat BY <1>1, <1>5, TimesNat
<1> QED BY <1>1, <1>3, <1>4, <1>6

\* How much ether is deposited, if any.
LEMMA EtherIs ==
  ASSUME Typed, Room > 0, shown.chainEth >= MinDeposit
  PROVE  Least(shown.chainEth - MinDeposit, Room) \in Nat
<1>1. shown.chainEth - MinDeposit \in Nat /\ Room \in Nat BY RoomIs
<1> QED BY <1>1, LeastIs

LEMMA PollerMovedTyped ==
  ASSUME Typed, UNCHANGED callVars, UNCHANGED cardVars,
         Mount \/ PollAgain \/ SkipDeposit \/ Deposited \/ RateArrives
  PROVE  Typed'
<1>1. OffersSame /\ UNCHANGED <<bal, chain, call, deposit, withdrawal>> BY CallVarsSame
<1>2. /\ bal' \in [Assets -> [Parties -> Nat]] /\ region \in Regions
  BY <1>1 DEF Typed, Amounts, Jobbing
<1>3. Calls' BY <1>1 DEF Typed, Calls, CallsAre
<1>4. UNCHANGED <<shown, tips, plan, send>>
  BY DEF Mount, PollAgain, SkipDeposit, Deposited, RateArrives, cardVars
<1>5. Carding' BY <1>4 DEF Typed, Carding
<1>0. "poller" \in Jobs /\ "detached" \in Jobs BY DEF Jobs
<1>6. CASE Mount
  <2>1. /\ root = "start" /\ root' \in {"sai", "ready"} /\ swapRate' = swapRate /\ region' = region
        /\ job' = [job EXCEPT !["poller"] = Refresh("autoDeposit")]
    BY <1>6 DEF Mount, Moves
  <2>2. Refresh("autoDeposit") \in JobStates("poller") BY <1>0, JobStateIs DEF Thens
  <2>3. Jobbing' BY <2>1, <2>2 DEF Typed, Jobbing
  <2>4. \A j \in Jobs : call[j] = Idle
    <3>1. \A j \in Jobs : job[j].pc = "off" BY <2>1 DEF Typed, Waited, NoJob
    <3> QED BY <3>1, NotWaiting
  <2>5. withdrawal["cashout"] = Idle /\ deposit = Idle
    BY <2>1 DEF Typed, Waited, NoJob, Jobs, Depositing
  <2>6. Waited' BY <1>1, <2>1, <2>4, <2>5 DEF Waited
  <2> QED BY <1>1, <1>2, <1>3, <1>4, <1>5, <2>1, <2>3, <2>6, TypedIs
<1>7. CASE PollAgain
  <2>1. /\ job["poller"].pc = "again" /\ Moves("poller", Refresh("autoDeposit"))
        /\ UNCHANGED <<root, region, swapRate>>
    BY <1>7 DEF PollAgain
  <2>2. Refresh("autoDeposit") \in JobStates("poller") BY <1>0, JobStateIs DEF Thens
  <2>3. root # "start" /\ call'["poller"] = Idle /\ deposit' = Idle
    BY <1>0, <1>1, <2>1, JobForms, NotWaiting DEF Depositing
  <2>4. Jobbing' /\ Waited' BY <1>0, <1>1, <1>2, <2>1, <2>2, <2>3, JobMoved
  <2> QED BY <1>1, <1>2, <1>3, <1>4, <1>5, <2>1, <2>4, TypedIs
<1>8. CASE SkipDeposit
  <2>1. /\ job["poller"].pc = "autoDeposit" /\ Moves("poller", autoSwap("poller", region))
        /\ UNCHANGED <<root, region, swapRate>>
    BY <1>8 DEF SkipDeposit
  <2>2. autoSwap("poller", region) \in JobStates("poller") BY AutoSwapIs DEF Jobs
  <2>3. root # "start" /\ call'["poller"] = Idle /\ deposit' = Idle
    BY <1>0, <1>1, <2>1, JobForms, NotWaiting DEF Depositing
  <2>4. Jobbing' /\ Waited' BY <1>0, <1>1, <1>2, <2>1, <2>2, <2>3, JobMoved
  <2> QED BY <1>1, <1>2, <1>3, <1>4, <1>5, <2>1, <2>4, TypedIs
<1>9. CASE Deposited
  <2> DEFINE p == autoSwap("poller", region')
             d == IF job["detached"] = NoJob THEN autoSwap("detached", region') ELSE job["detached"]
  <2>1. /\ job["poller"].pc = "deposited" /\ region' = SUCCESS("deposit")
        /\ job' = [job EXCEPT !["poller"] = p, !["detached"] = d]
        /\ UNCHANGED <<root, swapRate>>
    <3>1. "poller" # "detached" OBVIOUS
    <3> QED BY <1>9, <3>1 DEF Deposited, Typed, Jobbing
  <2>2. p \in JobStates("poller") BY AutoSwapIs DEF Jobs
  <2>3. d \in JobStates("detached")
    <3>1. autoSwap("detached", region') \in JobStates("detached") BY AutoSwapIs DEF Jobs
    <3> QED BY <1>0, <3>1, JobForms
  <2>4. root # "start" /\ call["poller"] = Idle /\ deposit = Idle
    BY <1>0, <2>1, JobForms, NotWaiting DEF Depositing
  <2>5. call["detached"] # Idle => d.pc = "swapping"
    <3>1. call["detached"] # Idle => job["detached"].pc = "swapping" BY <1>0, NotWaiting
    <3>2. job["detached"].pc = "swapping" => job["detached"] # NoJob BY DEF NoJob
    <3> QED BY <3>1, <3>2
  <2>6. region' \in Regions BY <1>2, <2>1, RegionMoved DEF Operations
  <2> HIDE DEF p, d
  <2>7. /\ job' = [k \in Jobs |-> job'[k]] /\ job'["poller"] = p /\ job'["detached"] = d
        /\ job'["cashout"] = job["cashout"]
    BY <1>0, <2>1 DEF Typed, Jobbing, Jobs
  <2>8. Jobbing' BY <2>1, <2>2, <2>3, <2>6, <2>7 DEF Typed, Jobbing, Jobs
  <2>9. Waited' BY <1>1, <2>1, <2>4, <2>5, <2>7 DEF Typed, Waited, Jobs
  <2> QED BY <1>1, <1>2, <1>3, <1>4, <1>5, <2>1, <2>8, <2>9, TypedIs
<1>10. CASE RateArrives
  <2>1. hubRate # 0 /\ swapRate' = hubRate /\ UNCHANGED <<root, region, job>> BY <1>10 DEF RateArrives
  <2>2. Amounts' BY <1>1, <1>4, <2>1 DEF Typed, Amounts, OffersSame
  <2>3. Ids' BY <1>1 DEF Typed, Ids, OffersSame
  <2>4. Jobbing' BY <2>1 DEF Typed, Jobbing
  <2>5. Waited' BY <1>1, <2>1 DEF Typed, Waited
  <2> QED BY <1>3, <1>5, <2>2, <2>3, <2>4, <2>5 DEF Typed
<1> QED BY <1>6, <1>7, <1>8, <1>9, <1>10

LEMMA PollerDepositTyped ==
  ASSUME Typed, StartDeposit \/ AfterDeposit \/ DepositEtherToo, UNCHANGED cardVars,
         UNCHANGED <<channelVars, hubVars, swapVars, chain, withdrawal>>
  PROVE  Typed'
<1>1. OffersSame /\ UNCHANGED <<bal, chain, call, withdrawal>>
  BY DEF channelVars, hubVars, historyVars, swapVars, OffersSame
<1>2. bal' \in [Assets -> [Parties -> Nat]] /\ region \in Regions
  BY <1>1 DEF Typed, Amounts, Jobbing
<1>4. UNCHANGED <<root, shown, swapRate, tips, plan, send>>
  BY DEF StartDeposit, AfterDeposit, DepositEtherToo, cardVars
<1>5. Carding' BY <1>4 DEF Typed, Carding
<1>0. "poller" \in Jobs BY DEF Jobs
<1>6. SUFFICES /\ deposit' \in {Idle} \cup Deposit /\ job["poller"].pc \notin {"off", "swapping"}
               /\ region' \in Regions
               /\ \E r \in JobStates("poller") : /\ Moves("poller", r)
                                                 /\ deposit' # Idle => r.pc \in Depositing
  <2>1. root # "start" /\ call'["poller"] = Idle BY <1>0, <1>1, <1>6, JobForms, NotWaiting
  <2>2. PICK r \in JobStates("poller") : Moves("poller", r) /\ (deposit' # Idle => r.pc \in Depositing)
    BY <1>6
  <2>3. Jobbing' /\ Waited' BY <1>0, <1>1, <1>4, <1>6, <2>1, <2>2, JobMoved
  <2>4. Calls' BY <1>1, <1>6 DEF Typed, Calls, CallsAre
  <2> QED BY <1>1, <1>2, <1>4, <1>5, <2>3, <2>4, TypedIs
<1>7. At("depositingTokens") \in JobStates("poller") /\ At("depositingEther") \in JobStates("poller")
      /\ At("depositingTokens").pc \in Depositing /\ At("depositingEther").pc \in Depositing
  BY DEF At, JobStates, Depositing
<1>8. CASE StartDeposit
  <2>1. /\ job["poller"].pc = "autoDeposit" /\ ~NothingToDeposit /\ region' = START("deposit")
        /\ \/ /\ DepositCall("dai", Least(Room * swapRate, shown.chainDai))
              /\ Moves("poller", At("depositingTokens"))
           \/ /\ ~(shown.chainDai > 0)
              /\ DepositCall("eth", Least(shown.chainEth - MinDeposit, Room))
              /\ Moves("poller", At("depositingEther"))
    BY <1>8 DEF StartDeposit
  <2>2. region' \in Regions BY <1>2, <2>1, RegionMoved DEF Operations
  <2>3. Room > 0 BY <2>1, RoomIs DEF NothingToDeposit
  <2>4. Least(Room * swapRate, shown.chainDai) \in Nat BY <2>3, RoomIs, LeastIs
  <2>5. ~(shown.chainDai > 0) => Least(shown.chainEth - MinDeposit, Room) \in Nat
    <3> HAVE ~(shown.chainDai > 0)
    <3>1. shown.chainDai = 0 BY RoomIs
    <3>2. ~(shown.chainEth <= MinDeposit) BY <2>1, <3>1 DEF NothingToDeposit
    <3>3. shown.chainEth >= MinDeposit BY <3>2, RoomIs
    <3> QED BY <2>3, <3>3, EtherIs
  <2>6. deposit' \in {Idle} \cup Deposit BY <2>1, <2>4, <2>5, DepositCallIs DEF Assets
  <2> QED BY <1>7, <2>1, <2>2, <2>6
<1>9. CASE AfterDeposit
  <2> DEFINE then == IF job["poller"].pc = "depositingTokens" THEN "ether too" ELSE "deposited"
             r == IF deposit.at = "threw" THEN Dies("poller") ELSE Refresh(then)
  <2>1. job["poller"].pc \in Depositing /\ deposit' = Idle /\ Moves("poller", r) /\ region' = region
    BY <1>9 DEF AfterDeposit, Depositing
  <2>2. then \in Thens("poller") BY DEF Thens
  <2> HIDE DEF then
  <2>3. r \in JobStates("poller") BY <1>0, <2>2, JobStateIs
  <2> HIDE DEF r
  <2> QED BY <1>2, <2>1, <2>3 DEF Depositing
<1>10. CASE DepositEtherToo
  <2>0. job["poller"].pc = "ether too" BY <1>10 DEF DepositEtherToo
  <2>1. CASE Room <= 0 \/ shown.chainEth < MinDeposit
    <3>1. region' = SUCCESS("deposit") /\ Moves("poller", autoSwap("poller", region')) /\ deposit' = deposit
      BY <1>10, <2>1 DEF DepositEtherToo
    <3>2. region' \in Regions BY <1>2, <3>1, RegionMoved DEF Operations
    <3>3. autoSwap("poller", region') \in JobStates("poller") BY AutoSwapIs DEF Jobs
    <3>4. deposit' = Idle BY <1>0, <2>0, <3>1, NotWaiting DEF Depositing
    <3> QED BY <2>0, <3>1, <3>2, <3>3, <3>4
  <2>2. CASE ~(Room <= 0 \/ shown.chainEth < MinDeposit)
    <3>1. /\ DepositCall("eth", Least(shown.chainEth - MinDeposit, Room))
          /\ Moves("poller", At("depositingEther")) /\ region' = region
      BY <1>10, <2>2 DEF DepositEtherToo
    <3>2. Room > 0 /\ shown.chainEth >= MinDeposit BY <2>2, RoomIs
    <3>3. deposit' \in {Idle} \cup Deposit BY <3>1, <3>2, EtherIs, DepositCallIs DEF Assets
    <3> QED BY <1>2, <1>7, <2>0, <3>1, <3>3
  <2> QED BY <2>1, <2>2
<1> QED BY <1>8, <1>9, <1>10

LEMMA TypedPoller ==
  ASSUME Typed, PollerStep
  PROVE  Typed'
BY PollerMovedTyped, PollerDepositTyped DEF PollerStep

-----------------------------------------------------------------------------
(***************************************************************************)
(* the cash-out:                                                            *)
(***************************************************************************)

LEMMA CashoutCollateralTyped ==
  ASSUME Typed, CashoutCollateral, UNCHANGED cardVars,
         UNCHANGED <<offers, apps, numApps, hubVars, swapVars, chain, deposit, withdrawal>>
  PROVE  Typed'
<1>1. OffersSame /\ UNCHANGED <<chain, call, deposit, withdrawal>>
  BY DEF hubVars, historyVars, swapVars, OffersSame
<1> DEFINE r == [job["cashout"] EXCEPT !.pc = "collateralized"]
<1>2. /\ job["cashout"].pc = "collateral" /\ Moves("cashout", r)
      /\ Collateralized("eth", job["cashout"].need)
      /\ UNCHANGED <<plan, root, region, swapRate, shown, tips, send>>
  BY DEF CashoutCollateral, cardVars
<1>0. "cashout" \in Jobs BY DEF Jobs
<1>3. job["cashout"] \in [pc : {"collateral", "collateralized"}, rate : Nat \ {0}, need : Nat]
  BY <1>0, <1>2, JobForms
<1>4. bal' \in [Assets -> [Parties -> Nat]]
  <2>1. job["cashout"].need \in Nat BY <1>3
  <2> QED BY <1>2, <2>1, CollateralizedIs DEF Assets
<1>5. region' \in Regions /\ root # "start" BY <1>0, <1>2, JobForms DEF Typed, Jobbing
<1>6. call'["cashout"] = Idle /\ withdrawal'["cashout"] = Idle
  BY <1>0, <1>1, <1>2, NotWaiting
<1>7. r \in JobStates("cashout") BY <1>3 DEF JobStates
<1> HIDE DEF r
<1>8. Jobbing' /\ Waited' BY <1>0, <1>1, <1>2, <1>5, <1>6, <1>7, JobMoved
<1>9. Carding' /\ Calls' BY <1>1, <1>2 DEF Typed, Carding, Calls, CallsAre
<1> QED BY <1>1, <1>2, <1>4, <1>8, <1>9, TypedIs

LEMMA CashoutSwapDoes ==
  ASSUME Typed, CashoutSwap
  PROVE  /\ CallsAre' /\ \A d \in Callers \ {"cashout"} : call'[d] = call[d]
         /\ call'["cashout"] \in Call /\ call'["cashout"].at = "from"
         /\ call'["cashout"].kind = "swap" /\ call'["cashout"].own = NoId
         /\ call'["cashout"].id = NoId /\ call'["cashout"].pays = shown.dai
         /\ call["cashout"] = Idle
<1>1. /\ job["cashout"].pc = "collateralized"
      /\ Begins("cashout", "dai", "eth", shown.dai,
                calculateExchange(shown.dai, <<1, job["cashout"].rate>>))
  BY DEF CashoutSwap, SwapCall
<1>2. "cashout" \in Jobs /\ "cashout" \in Callers /\ "cashout" \in Swappers
  BY PartsOfTheWallet DEF Jobs, Callers
<1>3. job["cashout"].rate \in Nat \ {0} BY <1>1, <1>2, JobForms
<1>4. shown.dai \in Nat /\ CallsAre BY DEF Typed, Amounts, Shown, Calls
<1>5. calculateExchange(shown.dai, <<1, job["cashout"].rate>>) \in Nat BY <1>3, <1>4, Exchanged
<1>6. Kind("cashout") = "swap" BY <1>2 DEF Kind
<1>7. call["cashout"] = Idle BY <1>1, <1>2, NotWaiting
<1> QED BY <1>1, <1>2, <1>4, <1>5, <1>6, <1>7, BeginsDoes DEF Assets

LEMMA CashoutSwapTyped ==
  ASSUME Typed, CashoutSwap, UNCHANGED cardVars,
         UNCHANGED <<channelVars, hubVars, appId, chain, deposit, withdrawal>>
  PROVE  Typed'
<1>1. OffersSame /\ UNCHANGED <<bal, chain, deposit, withdrawal>>
  BY DEF channelVars, hubVars, historyVars, OffersSame
<1>2. /\ job["cashout"].pc = "collateralized" /\ Moves("cashout", At("swapping"))
      /\ UNCHANGED <<plan, root, region, swapRate, shown, tips, send>>
  BY DEF CashoutSwap, cardVars
<1>0. "cashout" \in Jobs BY DEF Jobs
<1>3. CallsAre' /\ \A d \in Callers \ {"cashout"} : call'[d] = call[d] BY CashoutSwapDoes
<1>4. \A d \in Jobs \ {"cashout"} : call'[d] = call[d] BY <1>3, PartsOfTheWallet DEF Callers
<1>5. region' \in Regions /\ root # "start" BY <1>0, <1>2, JobForms DEF Typed, Jobbing
<1>6. withdrawal'["cashout"] = Idle BY <1>0, <1>1, <1>2, NotWaiting
<1>7. At("swapping") \in JobStates("cashout") /\ At("swapping").pc = "swapping"
  BY <1>0, JobStateIs DEF At
<1>8. Jobbing' /\ Waited' BY <1>0, <1>1, <1>2, <1>4, <1>5, <1>6, <1>7, JobMoved
<1>9. Carding' BY <1>2 DEF Typed, Carding
<1>10. Calls' BY <1>1, <1>3 DEF Typed, Calls
<1>11. bal' \in [Assets -> [Parties -> Nat]] BY <1>1 DEF Typed, Amounts
<1> QED BY <1>1, <1>2, <1>8, <1>9, <1>10, <1>11, TypedIs

\* Steps that begin or end a withdrawal, and change no balance.
LEMMA WithdrawingTyped ==
  ASSUME Typed, UNCHANGED <<channelVars, hubVars, swapVars, chain, deposit>>, UNCHANGED <<tips, send, swapRate, shown>>,
         plan' \in Plan, region' \in Regions, root' \in {"start", "sai", "ready"},
         root' # "start", root # "start",
         withdrawal' \in [Withdrawers -> {Idle} \cup Withdrawal],
         \/ job' = job /\ withdrawal'["cashout"] = withdrawal["cashout"]
         \/ /\ job["cashout"].pc # "swapping"
            /\ \E r \in JobStates("cashout") :
                 Moves("cashout", r) /\ (withdrawal'["cashout"] # Idle => r.pc = "withdrawing")
  PROVE  Typed'
<1>1. OffersSame /\ UNCHANGED <<bal, chain, call, deposit>>
  BY DEF channelVars, hubVars, historyVars, swapVars, OffersSame
<1>2. Amounts' BY <1>1 DEF Typed, Amounts, OffersSame
<1>3. Ids' BY <1>1 DEF Typed, Ids, OffersSame
<1>4. Calls' BY <1>1 DEF Typed, Calls, CallsAre
<1>5. Carding' BY DEF Typed, Carding
<1>6. CASE job' = job /\ withdrawal'["cashout"] = withdrawal["cashout"]
  <2>1. Jobbing' BY <1>6 DEF Typed, Jobbing
  <2>2. Waited' BY <1>1, <1>6 DEF Typed, Waited
  <2> QED BY <1>2, <1>3, <1>4, <1>5, <2>1, <2>2 DEF Typed
<1>7. CASE job["cashout"].pc # "swapping" /\ \E r \in JobStates("cashout") : 
             Moves("cashout", r) /\ (withdrawal'["cashout"] # Idle => r.pc = "withdrawing")
  <2>0. "cashout" \in Jobs BY DEF Jobs
  <2>1. PICK r \in JobStates("cashout") :
             Moves("cashout", r) /\ (withdrawal'["cashout"] # Idle => r.pc = "withdrawing")
    BY <1>7
  <2>2. job'["cashout"] = r /\ (\A k \in Jobs \ {"cashout"} : job'[k] = job[k])
        /\ job' = [k \in Jobs |-> job'[k]]
    BY <2>0, <2>1 DEF Typed, Jobbing, Moves
  <2>3. Jobbing' BY <2>1, <2>2 DEF Typed, Jobbing
  <2>4. call["cashout"] = Idle BY <1>7, <2>0, NotWaiting
  <2>5. Waited' BY <1>1, <2>0, <2>1, <2>2, <2>4 DEF Typed, Waited, Jobs
  <2> QED BY <1>2, <1>3, <1>4, <1>5, <2>3, <2>5 DEF Typed
<1> QED BY <1>6, <1>7

LEMMA CashoutWithdrawTyped ==
  ASSUME Typed, CashoutWithdraw \/ AfterCashout \/ AfterWithdrawSai, UNCHANGED cardVars,
         UNCHANGED <<channelVars, hubVars, swapVars, chain, deposit>>
  PROVE  Typed'
<1>0. "cashout" \in Jobs /\ {"cashout", "sai"} \subseteq Withdrawers BY PartsOfTheWallet DEF Jobs
<1>1. /\ UNCHANGED <<tips, send, swapRate, shown, plan, root>> 
      /\ plan' \in Plan /\ root' \in {"start", "sai", "ready"} /\ region \in Regions
      /\ withdrawal \in [Withdrawers -> {Idle} \cup Withdrawal] /\ shown.eth \in Nat
  <2>1. UNCHANGED <<tips, send, swapRate, shown, plan, root>>
    BY DEF CashoutWithdraw, AfterCashout, AfterWithdrawSai, cardVars
  <2> QED BY <2>1 DEF Typed, Amounts, Jobbing, Calls, Shown
<1>2. At("withdrawing") \in JobStates("cashout") /\ At("withdrawing").pc = "withdrawing"
      /\ NoJob \in JobStates("cashout")
  BY DEF At, JobStates, NoJob
<1>3. CASE CashoutWithdraw
  <2>1. /\ job["cashout"].pc = "withdrawEther" /\ WithdrawCall("cashout", "eth", shown.eth)
        /\ Moves("cashout", At("withdrawing")) /\ region' = region
    BY <1>3 DEF CashoutWithdraw
  <2>2. withdrawal' \in [Withdrawers -> {Idle} \cup Withdrawal]
    BY <1>0, <1>1, <2>1, WithdrawCallIs DEF Assets
  <2>3. root # "start" BY <1>0, <2>1, JobForms
  <2> QED BY <1>1, <1>2, <2>1, <2>2, <2>3, WithdrawingTyped
<1>4. CASE AfterCashout
  <2>1. /\ job["cashout"].pc = "withdrawing" /\ Moves("cashout", NoJob)
        /\ withdrawal' = [withdrawal EXCEPT !["cashout"] = Idle]
        /\ region' \in {region, SUCCESS("withdraw")}
    BY <1>4 DEF AfterCashout
  <2>2. region' \in Regions BY <1>1, <2>1, RegionMoved DEF Operations
  <2>3. withdrawal' \in [Withdrawers -> {Idle} \cup Withdrawal] /\ withdrawal'["cashout"] = Idle
    BY <1>0, <1>1, <2>1
  <2>4. root # "start" BY <1>0, <2>1, JobForms
  <2> QED BY <1>1, <1>2, <2>1, <2>2, <2>3, <2>4, WithdrawingTyped
<1>5. CASE AfterWithdrawSai
  <2>1. /\ withdrawal' = [withdrawal EXCEPT !["sai"] = Idle] /\ job' = job
        /\ region' \in {region, SUCCESS("withdraw")}
    BY <1>5 DEF AfterWithdrawSai
  <2>2. region' \in Regions BY <1>1, <2>1, RegionMoved DEF Operations
  <2>3. withdrawal' \in [Withdrawers -> {Idle} \cup Withdrawal]
        /\ withdrawal'["cashout"] = withdrawal["cashout"]
    BY <1>0, <1>1, <2>1
  <2>4. Amounts' /\ Ids' /\ Calls' /\ Carding'
    <3>1. OffersSame /\ UNCHANGED <<bal, chain, call, deposit>>
      BY DEF channelVars, hubVars, historyVars, swapVars, OffersSame
    <3>2. Amounts' BY <1>1, <3>1 DEF Typed, Amounts, OffersSame
    <3>3. Ids' BY <3>1 DEF Typed, Ids, OffersSame
    <3>4. Calls' BY <2>3, <3>1 DEF Typed, Calls, CallsAre
    <3>5. Carding' BY <1>1 DEF Typed, Carding
    <3> QED BY <3>2, <3>3, <3>4, <3>5
  <2>5. Jobbing' BY <1>1, <2>1, <2>2 DEF Typed, Jobbing
  <2>6. Waited' BY <1>1, <2>1, <2>3 DEF Typed, Waited, swapVars
  <2> QED BY <2>4, <2>5, <2>6 DEF Typed
<1> QED BY <1>3, <1>4, <1>5

LEMMA TypedCashout ==
  ASSUME Typed, CashoutStep
  PROVE  Typed'
BY CashoutCollateralTyped, CashoutSwapTyped, CashoutWithdrawTyped DEF CashoutStep

-----------------------------------------------------------------------------
(***************************************************************************)
(* the user and the cards, and what may go wrong:                           *)
(***************************************************************************)

LEMMA ClicksIs ==
  ASSUME Typed, NEW what, Clicks(what)
  PROVE  /\ plan' \in Plan /\ plan'.clicks = plan.clicks \ {what} /\ what \in plan.clicks
         /\ plan'.sai = plan.sai
BY DEF Clicks, Typed, Amounts, Plan

\* A step that changes neither a call nor a job.
LEMMA QuietTyped ==
  ASSUME Typed, OffersSame, bal' \in [Assets -> [Parties -> Nat]], chain' \in [Assets -> Nat],
         plan' \in Plan, region' \in Regions, CallsAre',
         \A d \in Jobs : call'[d] = call[d], 
         UNCHANGED <<deposit, withdrawal, root, job, swapRate, shown>>, Carding'
  PROVE  Typed'
<1>1. Amounts' BY DEF Typed, Amounts, OffersSame
<1>2. Ids' BY DEF Typed, Ids, OffersSame
<1>3. Calls' BY DEF Typed, Calls
<1>4. Jobbing' BY DEF Typed, Jobbing
<1>5. Waited' BY DEF Typed, Waited
<1> QED BY <1>1, <1>2, <1>3, <1>4, <1>5 DEF Typed

LEMMA StartCashoutIs ==
  ASSUME Typed, NEW what, NEW sending, StartCashout(what, sending)
  PROVE  /\ plan' \in Plan /\ region' \in Regions /\ job["cashout"] = NoJob /\ root # "start"
         /\ region' = START("withdraw") /\ late' = NotHeldBack(sending)
         /\ plan'.clicks \subseteq plan.clicks
<1>1. region \in Regions BY DEF Typed, Jobbing
<1>2. Clicks(what) /\ job["cashout"] = NoJob /\ root # "start" /\ region' = START("withdraw")
      /\ late' = NotHeldBack(sending)
  BY DEF StartCashout
<1> QED BY <1>1, <1>2, ClicksIs, RegionMoved DEF Operations

LEMMA UserCashoutTyped ==
  ASSUME Typed, UNCHANGED <<channelVars, hubVars, swapVars, chain, deposit>>, UNCHANGED cardVars,
         NEW sending, cashoutTokens(sending) \/ cashoutEther(sending) \/ withdrawSai
  PROVE  Typed'
<1>0. "cashout" \in Jobs /\ {"cashout", "sai"} \subseteq Withdrawers BY PartsOfTheWallet DEF Jobs
<1>1. /\ root \in {"start", "sai", "ready"} /\ region \in Regions /\ plan.sai \in Nat
      /\ withdrawal \in [Withdrawers -> {Idle} \cup Withdrawal] /\ shown.eth \in Nat /\ shown.dai \in Nat
      /\ Total \in Nat /\ swapRate \in Nat \ {0}
  BY RoomIs DEF Typed, Amounts, Jobbing, Calls, Shown, Plan
<1>2. UNCHANGED <<tips, send, swapRate, shown>>
  BY DEF cashoutTokens, cashoutEther, withdrawSai, cardVars
<1>3. At("withdrawing") \in JobStates("cashout") /\ At("withdrawing").pc = "withdrawing"
      /\ NoJob.pc = "off"
  BY DEF At, JobStates, NoJob
<1>4. CASE cashoutTokens(sending)
  <2>1. /\ StartCashout("cashoutTokens", sending) /\ WithdrawCall("cashout", "dai", shown.dai)
        /\ Moves("cashout", At("withdrawing")) /\ root' = root
    BY <1>4 DEF cashoutTokens
  <2>2. /\ plan' \in Plan /\ region' \in Regions /\ root # "start" /\ job["cashout"] = NoJob
    BY <2>1, StartCashoutIs
  <2>3. withdrawal' \in [Withdrawers -> {Idle} \cup Withdrawal]
    BY <1>0, <1>1, <2>1, WithdrawCallIs DEF Assets
  <2>4. job["cashout"].pc # "swapping" BY <1>3, <2>2
  <2> QED BY <1>1, <1>2, <1>3, <2>1, <2>2, <2>3, <2>4, WithdrawingTyped
<1>5. CASE cashoutEther(sending)
  <2>1. /\ StartCashout("cashoutEther", sending) /\ root' = root
        /\ \/ /\ Moves("cashout", [pc |-> "collateral", rate |-> swapRate, need |-> Total])
              /\ withdrawal' = withdrawal
           \/ /\ WithdrawCall("cashout", "eth", shown.eth) /\ Moves("cashout", At("withdrawing"))
    BY <1>5 DEF cashoutEther
  <2>2. /\ plan' \in Plan /\ region' \in Regions /\ root # "start" /\ job["cashout"] = NoJob
    BY <2>1, StartCashoutIs
  <2>4. job["cashout"].pc = "off" BY <1>3, <2>2
  <2>5. withdrawal["cashout"] = Idle BY <1>0, <2>4, NotWaiting
  <2>6. [pc |-> "collateral", rate |-> swapRate, need |-> Total] \in JobStates("cashout")
    BY <1>1 DEF JobStates
  <2>7. CASE /\ Moves("cashout", [pc |-> "collateral", rate |-> swapRate, need |-> Total])
             /\ withdrawal' = withdrawal
    BY <1>1, <1>2, <2>1, <2>2, <2>4, <2>5, <2>6, <2>7, WithdrawingTyped
  <2>8. CASE WithdrawCall("cashout", "eth", shown.eth) /\ Moves("cashout", At("withdrawing"))
    <3>3. withdrawal' \in [Withdrawers -> {Idle} \cup Withdrawal]
      BY <1>0, <1>1, <2>8, WithdrawCallIs DEF Assets
    <3> QED BY <1>1, <1>2, <1>3, <2>1, <2>2, <2>4, <2>8, <3>3, WithdrawingTyped
  <2> QED BY <2>1, <2>7, <2>8
<1>6. CASE withdrawSai
  <2>1. /\ Clicks("withdrawSai") /\ root = "sai" /\ root' = "ready"
        /\ region' = [region EXCEPT !["withdraw"] = "pending"] /\ job' = job
        /\ WithdrawCall("sai", "dai", plan.sai)
    BY <1>6 DEF withdrawSai
  <2>2. plan' \in Plan BY <2>1, ClicksIs
  <2>3. region' \in Regions BY <1>1, <2>1 DEF Regions, Operations
  <2>4. withdrawal' \in [Withdrawers -> {Idle} \cup Withdrawal]
        /\ withdrawal'["cashout"] = withdrawal["cashout"]
    BY <1>0, <1>1, <2>1, WithdrawCallIs DEF Assets
  <2> QED BY <1>1, <1>2, <2>1, <2>2, <2>3, <2>4, WithdrawingTyped
<1> QED BY <1>4, <1>5, <1>6

LEMMA TypedUser ==
  ASSUME Typed, UserStep
  PROVE  Typed'
<1>1. send' = send BY DEF UserStep, cardVars
<1>2. region \in Regions /\ bal \in [Assets -> [Parties -> Nat]] /\ chain \in [Assets -> Nat]
      /\ plan \in Plan /\ CallsAre
  BY DEF Typed, Jobbing, Amounts, Calls
<1>3. CASE (\E o \in Operations : Dismiss(o)) /\ UNCHANGED callVars
  <2>1. OffersSame /\ UNCHANGED <<bal, chain, call, deposit, withdrawal>> BY <1>3, CallVarsSame
  <2>2. /\ region' \in Regions /\ UNCHANGED <<plan, root, swapRate, shown, job, tips>>
    BY <1>2, <1>3 DEF Dismiss, Regions
  <2>3. Carding' BY <1>1, <2>2 DEF Typed, Carding
  <2>4. CallsAre' BY <1>2, <2>1 DEF CallsAre
  <2> QED BY <1>2, <2>1, <2>2, <2>3, <2>4, QuietTyped
<1>4. CASE (\E what \in {"buyTips", "sellTips"} : buyTipsHandler(what)) /\ UNCHANGED callVars
  <2>1. OffersSame /\ UNCHANGED <<bal, chain, call, deposit, withdrawal>> BY <1>4, CallVarsSame
  <2>2. PICK what \in {"buyTips", "sellTips"} : buyTipsHandler(what) BY <1>4
  <2>3. /\ Clicks(what) /\ tips' = [pc |-> what, tries |-> 0]
        /\ UNCHANGED <<root, region, swapRate, shown, job>>
    BY <2>2 DEF buyTipsHandler
  <2>4. plan' \in Plan BY <2>3, ClicksIs
  <2>5. Carding' BY <1>1, <2>3 DEF Typed, Carding
  <2>6. CallsAre' BY <1>2, <2>1 DEF CallsAre
  <2> QED BY <1>2, <2>1, <2>3, <2>4, <2>5, <2>6, QuietTyped
<1>5. CASE /\ \/ cashoutTokens(send.pc # "off") \/ cashoutEther(send.pc # "off") \/ withdrawSai
           /\ UNCHANGED <<channelVars, hubVars, swapVars, chain, deposit>>
  <2>1. UNCHANGED cardVars BY DEF UserStep
  <2> QED BY <1>5, <2>1, UserCashoutTyped
<1>6. CASE EtherArrives /\ UNCHANGED <<channelVars, hubVars, swapVars, deposit, withdrawal>>
  <2>1. OffersSame /\ UNCHANGED <<bal, call, deposit, withdrawal>>
    BY <1>6 DEF channelVars, hubVars, historyVars, swapVars, OffersSame
  <2>2. /\ Clicks("fund") /\ chain' = [chain EXCEPT !["eth"] = @ + 2]
        /\ UNCHANGED <<root, region, swapRate, shown, job, tips>>
    BY <1>6 DEF EtherArrives
  <2>3. chain' \in [Assets -> Nat] BY <1>2, <2>2 DEF Assets
  <2>4. plan' \in Plan BY <2>2, ClicksIs
  <2>5. Carding' BY <1>1, <2>2 DEF Typed, Carding
  <2>6. CallsAre' BY <1>2, <2>1 DEF CallsAre
  <2> QED BY <1>2, <2>1, <2>2, <2>3, <2>4, <2>5, <2>6, QuietTyped
<1> QED BY <1>3, <1>4, <1>5, <1>6 DEF UserStep

\* The calls of the cards: they begin when there is none, and are forgotten
\* when they have ended.
LEMMA TryTipsDoes ==
  ASSUME Typed, TryTips
  PROVE  /\ bal' \in [Assets -> [Parties -> Nat]] /\ \A b \in Assets : bal'[b].user = bal[b].user
         /\ CallsAre' /\ \A d \in Callers \ {"tips"} : call'[d] = call[d]
         /\ call["tips"].at = "idle" /\ call'["tips"] \in Call /\ call'["tips"].at = "from"
         /\ call'["tips"].kind = "swap"
         /\ call'["tips"].own = NoId /\ call'["tips"].id = NoId
         /\ tips.pc \in {"buyTips", "sellTips"} /\ tips' = [tips EXCEPT !.tries = @ + 1]
         /\ UNCHANGED <<plan, root, region, swapRate, shown, job, late, upset>>
<1>1. TipsRate \in Nat \ {0} /\ bal \in [Assets -> [Parties -> Nat]] /\ CallsAre
  BY WalletNumbers DEF Typed, Amounts, Calls
<1>2. "tips" \in Callers /\ Kind("tips") = "swap" BY PartsOfTheWallet DEF Callers, Kind
<1>3. /\ tips.pc \in {"buyTips", "sellTips"} /\ tips' = [tips EXCEPT !.tries = @ + 1]
      /\ call["tips"].at = "idle" /\ UNCHANGED <<plan, root, region, swapRate, shown, job, late, upset>>
  BY DEF TryTips
<1>4. CASE Collateralized("tip", TipsRate) /\ SwapCall("tips", "dai", "tip", 1, <<TipsRate, 1>>)
  <2>1. Begins("tips", "dai", "tip", 1, calculateExchange(1, <<TipsRate, 1>>))
    BY <1>4 DEF SwapCall
  <2>2. calculateExchange(1, <<TipsRate, 1>>) \in Nat BY <1>1, Exchanged
  <2>3. 1 \in Nat /\ "dai" \in Assets /\ "tip" \in Assets BY DEF Assets
  <2>4. bal' \in [Assets -> [Parties -> Nat]] /\ \A b \in Assets : bal'[b].user = bal[b].user
    BY <1>1, <1>4, <2>3, CollateralizedIs
  <2> QED BY <1>1, <1>2, <1>3, <2>1, <2>2, <2>3, <2>4, BeginsDoes
<1>5. CASE bal' = bal /\ SwapCall("tips", "tip", "dai", TipsRate, <<1, TipsRate>>)
  <2>1. Begins("tips", "tip", "dai", TipsRate, calculateExchange(TipsRate, <<1, TipsRate>>))
    BY <1>5 DEF SwapCall
  <2>2. calculateExchange(TipsRate, <<1, TipsRate>>) \in Nat BY <1>1, Exchanged
  <2>3. "dai" \in Assets /\ "tip" \in Assets BY DEF Assets
  <2> QED BY <1>1, <1>2, <1>3, <1>5, <2>1, <2>2, <2>3, BeginsDoes
<1> QED BY <1>4, <1>5 DEF TryTips

LEMMA TypedTips ==
  ASSUME Typed, TipsStep
  PROVE  Typed'
<1>1. send' = send BY DEF TipsStep, cardVars
<1>2. region \in Regions /\ bal \in [Assets -> [Parties -> Nat]] /\ chain \in [Assets -> Nat]
      /\ plan \in Plan /\ CallsAre /\ tips \in [pc : {"off", "buyTips", "sellTips"}, tries : Nat]
  BY DEF Typed, Jobbing, Amounts, Calls, Carding
<1>0. "tips" \in Callers /\ "tips" \notin Jobs /\ Jobs \subseteq Callers
  BY PartsOfTheWallet DEF Callers, Jobs
<1>3. CASE TipsFail /\ UNCHANGED callVars
  <2>1. OffersSame /\ UNCHANGED <<bal, chain, call, deposit, withdrawal>> BY <1>3, CallVarsSame
  <2>2. /\ tips' = [pc |-> "off", tries |-> 0] /\ UNCHANGED <<plan, root, region, swapRate, shown, job>>
    BY <1>3 DEF TipsFail
  <2>3. Carding' BY <1>1, <2>2 DEF Typed, Carding
  <2>4. CallsAre' BY <1>2, <2>1 DEF CallsAre
  <2> QED BY <1>2, <2>1, <2>2, <2>3, <2>4, QuietTyped
<1>4. CASE AfterTips /\ UNCHANGED <<channelVars, hubVars, appId, chain, deposit, withdrawal>>
  <2>1. OffersSame /\ UNCHANGED <<bal, chain, deposit, withdrawal>>
    BY <1>4 DEF channelVars, hubVars, historyVars, OffersSame
  <2>2. /\ call' = [call EXCEPT !["tips"] = Idle]
        /\ tips' \in {[pc |-> "off", tries |-> 0], tips}
        /\ UNCHANGED <<plan, root, region, swapRate, shown, job>>
    BY <1>4 DEF AfterTips
  <2>3. Carding' BY <1>1, <1>2, <2>2 DEF Typed, Carding
  <2>4. CallsAre' /\ \A d \in Callers \ {"tips"} : call'[d] = call[d]
    BY <1>0, <1>2, <2>2, CallForgotten
  <2>5. \A d \in Jobs : call'[d] = call[d] BY <1>0, <2>4
  <2> QED BY <1>2, <2>1, <2>2, <2>3, <2>4, <2>5, QuietTyped
<1>5. CASE TryTips /\ UNCHANGED <<offers, apps, numApps, hubVars, appId, chain, deposit, withdrawal>>
  <2>1. OffersSame /\ UNCHANGED <<chain, deposit, withdrawal>>
    BY <1>5 DEF hubVars, historyVars, OffersSame
  <2>2. /\ bal' \in [Assets -> [Parties -> Nat]] /\ CallsAre'
        /\ \A d \in Callers \ {"tips"} : call'[d] = call[d]
        /\ tips' = [tips EXCEPT !.tries = @ + 1]
        /\ UNCHANGED <<plan, root, region, swapRate, shown, job>>
    BY <1>5, TryTipsDoes
  <2>3. Carding' BY <1>1, <1>2, <2>2 DEF Typed, Carding
  <2>5. \A d \in Jobs : call'[d] = call[d] BY <1>0, <2>2
  <2> QED BY <1>2, <2>1, <2>2, <2>3, <2>5, QuietTyped
<1> QED BY <1>3, <1>4, <1>5 DEF TipsStep

LEMMA TypedPayment ==
  ASSUME Typed, PaymentStep
  PROVE  Typed'
<1>1. send' = send BY DEF PaymentStep, cardVars
<1>2. region \in Regions /\ bal \in [Assets -> [Parties -> Nat]] /\ chain \in [Assets -> Nat]
      /\ plan \in Plan /\ CallsAre
  BY DEF Typed, Jobbing, Amounts, Calls
<1>3. CASE PaymentStarts /\ UNCHANGED callVars
  <2>1. OffersSame /\ UNCHANGED <<bal, chain, call, deposit, withdrawal>> BY <1>3, CallVarsSame
  <2>2. /\ region' = START("receive") /\ UNCHANGED <<tips, root, swapRate, shown, job>>
        /\ plan.payments > 0 /\ plan' = [plan EXCEPT !.payments = @ - 1, !.incoming = @ + 1]
    BY <1>3 DEF PaymentStarts
  <2>3. Carding' BY <1>1, <2>2 DEF Typed, Carding
  <2>4. CallsAre' BY <1>2, <2>1 DEF CallsAre
  <2>5. plan' \in Plan
    <3>1. plan.payments \in Nat /\ plan.incoming \in Nat BY <1>2 DEF Plan
    <3>2. plan.payments - 1 \in Nat /\ plan.incoming + 1 \in Nat BY <2>2, <3>1
    <3> QED BY <1>2, <2>2, <3>2 DEF Plan
  <2>6. region' \in Regions BY <1>2, <2>2, RegionMoved DEF Operations
  <2> QED BY <1>2, <2>1, <2>2, <2>3, <2>4, <2>5, <2>6, QuietTyped
<1>4. CASE PaymentEnds /\ UNCHANGED <<offers, apps, numApps, hubVars, swapVars, chain, deposit, withdrawal>>
  <2>1. OffersSame /\ UNCHANGED <<chain, call, deposit, withdrawal>>
    BY <1>4 DEF hubVars, historyVars, swapVars, OffersSame
  <2>2. /\ region' \in {SUCCESS("receive"), ERROR("receive")}
        /\ UNCHANGED <<tips, root, swapRate, shown, job>>
        /\ plan.incoming > 0 /\ plan' = [plan EXCEPT !.incoming = @ - 1]
    BY <1>4 DEF PaymentEnds
  <2>3. Carding' BY <1>1, <2>2 DEF Typed, Carding
  <2>4. CallsAre' BY <1>2, <2>1 DEF CallsAre
  <2>5. plan' \in Plan
    <3>1. plan.incoming \in Nat BY <1>2 DEF Plan
    <3>2. plan.incoming - 1 \in Nat BY <2>2, <3>1
    <3> QED BY <1>2, <2>2, <3>2 DEF Plan
  <2>6. region' \in Regions BY <1>2, <2>2, RegionMoved DEF Operations
  <2>7. bal' \in [Assets -> [Parties -> Nat]]
    <3>1. CASE bal' = bal BY <1>2, <3>1
    <3>2. CASE /\ bal["dai"].hub > 0
               /\ bal' = [bal EXCEPT !["dai"] = [user |-> @.user + 1, hub |-> @.hub - 1]]
      <4>1. "dai" \in Assets /\ bal["dai"].user + 1 \in Nat /\ bal["dai"].hub - 1 \in Nat
        BY <1>2, <3>2 DEF Assets, Parties
      <4> QED BY <1>2, <3>2, <4>1, BalPaid
    <3> QED BY <1>4, <3>1, <3>2 DEF PaymentEnds
  <2> QED BY <1>2, <2>1, <2>2, <2>3, <2>4, <2>5, <2>6, <2>7, QuietTyped
<1> QED BY <1>3, <1>4 DEF PaymentStep

\* The attempts of the send card.
LEMMA TryTransferDoes ==
  ASSUME Typed, TryTransfer
  PROVE  /\ CallsAre' /\ \A d \in Callers \ {"send"} : call'[d] = call[d]
         /\ call["send"].at = "idle" /\ call'["send"] \in Call /\ call'["send"].at = "from"
         /\ call'["send"].kind = "transfer"
         /\ call'["send"].own = NoId /\ call'["send"].id = NoId
         /\ send.pc \in {"p2p", "link"} /\ send' = [send EXCEPT !.tries = @ + 1]
<1>1. CallsAre BY DEF Typed, Calls
<1>2. "send" \in Callers /\ Kind("send") = "transfer" BY SendCard, KindsDiffer DEF Callers, Kind
<1>3. /\ send.pc \in {"p2p", "link"} /\ call["send"].at = "idle"
      /\ Begins("send", "dai", "dai", 1, 0) /\ send' = [send EXCEPT !.tries = @ + 1]
  BY DEF TryTransfer, TransferCall
<1>4. 1 \in Nat /\ 0 \in Nat /\ "dai" \in Assets BY DEF Assets
<1> QED BY <1>1, <1>2, <1>3, <1>4, BeginsDoes

LEMMA TransferEndedDoes ==
  ASSUME Typed, TransferDone \/ TransferThrew
  PROVE  /\ call["send"].at \in Ended /\ call' = [call EXCEPT !["send"] = Idle]
         /\ CallsAre' /\ \A d \in Callers \ {"send"} : call'[d] = call[d]
<1>1. CallsAre /\ "send" \in Callers BY SendCard DEF Typed, Calls, Callers
<1>2. call["send"].at \in Ended /\ call' = [call EXCEPT !["send"] = Idle]
  BY DEF TransferDone, TransferThrew, Ended
<1> QED BY <1>1, <1>2, CallForgotten

SendOK == send \in [state : {"idle", "processingP2p", "processingLink", "successP2p",
                        "successLink", "error"},
               pc : {"off", "p2p", "link"}, tries : Nat, own : Nat]

LEMMA TypedCard ==
  ASSUME Typed, CardStep
  PROVE  Typed'
<1>2. region \in Regions /\ bal \in [Assets -> [Parties -> Nat]] /\ chain \in [Assets -> Nat]
      /\ plan \in Plan /\ CallsAre /\ SendOK
  BY DEF Typed, Jobbing, Amounts, Calls, Carding, SendOK
<1>0. "send" \in Callers /\ "send" \notin Jobs /\ Jobs \subseteq Callers
  BY PartsOfTheWallet, SendCard, KindsDiffer DEF Callers
<1>3. CASE (paymentHandler \/ linkHandler \/ RedeemedElsewhere) /\ UNCHANGED callVars
  <2>1. OffersSame /\ UNCHANGED <<bal, chain, call, deposit, withdrawal>> BY <1>3, CallVarsSame
  <2>2. /\ UNCHANGED <<root, region, swapRate, shown, job, tips>>
        /\ \E what : Clicks(what)
        /\ \/ send' = send
           \/ send' = [state |-> "processingP2p", pc |-> "p2p", tries |-> 0, own |-> NoId]
           \/ send' = [state |-> "processingLink", pc |-> "link", tries |-> 0, own |-> NoId]
    BY <1>3 DEF paymentHandler, linkHandler, Pay, RedeemedElsewhere
  <2>3. plan' \in Plan BY <2>2, ClicksIs
  <2>4. SendOK' BY <1>2, <2>2 DEF SendOK, NoId
  <2>5. Carding' BY <2>2, <2>4 DEF Typed, Carding, SendOK
  <2>6. CallsAre' BY <1>2, <2>1 DEF CallsAre
  <2> QED BY <1>2, <2>1, <2>2, <2>3, <2>5, <2>6, QuietTyped
<1>4. CASE /\ \/ GiveUp \/ closeModal \/ CheckLink \/ LinkChecked \/ Confirm \/ GoBack
              \/ redeemPayment \/ RedeemAfterCollateral \/ Redeemed \/ BackdropClick
           /\ UNCHANGED <<callVars, walletVars>>
  <2>1. OffersSame /\ UNCHANGED <<bal, chain, call, deposit, withdrawal>> BY <1>4, CallVarsSame
  <2>2. UNCHANGED <<plan, root, region, swapRate, shown, job, tips>> BY <1>4 DEF walletVars
  <2>3. send' \in {send, NotSending, [send EXCEPT !.pc = "off", !.state = "error"]}
    BY <1>4 DEF GiveUp, closeModal, CheckLink, LinkChecked, Confirm, GoBack, redeemPayment,
                RedeemAfterCollateral, Redeemed, BackdropClick
  <2>4. SendOK'
    <3>1. CASE send' = send BY <1>2, <3>1 DEF SendOK
    <3>2. CASE send' = NotSending BY <3>2 DEF SendOK, NotSending, NoId
    <3>3. CASE send' = [send EXCEPT !.pc = "off", !.state = "error"]
      BY <1>2, <3>3 DEF SendOK
    <3> QED BY <2>3, <3>1, <3>2, <3>3
  <2>5. Carding' BY <2>2, <2>4 DEF Typed, Carding, SendOK
  <2>6. CallsAre' BY <1>2, <2>1 DEF CallsAre
  <2> QED BY <1>2, <2>1, <2>2, <2>5, <2>6, QuietTyped
<1>5. CASE /\ TryTransfer \/ TransferDone \/ TransferThrew
           /\ UNCHANGED <<channelVars, hubVars, appId, chain, deposit, withdrawal, walletVars>>
  <2>1. OffersSame /\ UNCHANGED <<bal, chain, deposit, withdrawal>>
    BY <1>5 DEF channelVars, hubVars, historyVars, OffersSame
  <2>2. UNCHANGED <<plan, root, region, swapRate, shown, job, tips>> BY <1>5 DEF walletVars
  <2>3. CallsAre' /\ \A d \in Callers \ {"send"} : call'[d] = call[d]
    BY <1>5, TryTransferDoes, TransferEndedDoes
  <2>4. SendOK'
    <3>1. CASE TryTransfer
      <4>1. send' = [send EXCEPT !.tries = @ + 1] BY <3>1, TryTransferDoes
      <4> QED BY <1>2, <4>1 DEF SendOK
    <3>2. CASE TransferDone
      <4>1. call["send"].at \in Ended BY <3>2, TransferEndedDoes
      <4>2. call["send"] \in Call BY <1>0, <1>2, <4>1 DEF CallsAre, Idle, Ended
      <4>3. call["send"].own \in Nat BY <4>2 DEF Call
      <4>4. send' = [send EXCEPT !.pc = "off", !.own = call["send"].own,
                !.state = IF send.pc = "p2p" THEN "successP2p" ELSE "successLink"]
        BY <3>2 DEF TransferDone
      <4> QED BY <1>2, <4>3, <4>4 DEF SendOK
    <3>3. CASE TransferThrew BY <1>2, <3>3 DEF TransferThrew, SendOK
    <3> QED BY <1>5, <3>1, <3>2, <3>3
  <2>5. Carding' BY <2>2, <2>4 DEF Typed, Carding, SendOK
  <2>6. \A d \in Jobs : call'[d] = call[d] BY <1>0, <2>3
  <2> QED BY <1>2, <2>1, <2>2, <2>3, <2>5, <2>6, QuietTyped
<1>6. CASE /\ LinkCollateral \/ HubResolves
           /\ UNCHANGED <<offers, apps, numApps, hubVars, swapVars, chain, deposit,
                          withdrawal, walletVars>>
  <2>1. OffersSame /\ UNCHANGED <<chain, call, deposit, withdrawal>>
    BY <1>6 DEF hubVars, historyVars, swapVars, OffersSame
  <2>2. UNCHANGED <<plan, root, region, swapRate, shown, job, tips, send>>
    BY <1>6 DEF walletVars, LinkCollateral, HubResolves
  <2>3. bal' \in [Assets -> [Parties -> Nat]]
    <3>1. CASE bal' = bal BY <1>2, <3>1
    <3>2. CASE /\ bal["dai"].hub > 0
               /\ bal' = [bal EXCEPT !["dai"] = [user |-> @.user + 1, hub |-> @.hub - 1]]
      <4>1. "dai" \in Assets /\ bal["dai"].user + 1 \in Nat /\ bal["dai"].hub - 1 \in Nat
        BY <1>2, <3>2 DEF Assets, Parties
      <4> QED BY <1>2, <3>2, <4>1, BalPaid
    <3>3. CASE Collateralized("dai", 1) BY <3>3, CollateralizedIs DEF Assets
    <3> QED BY <1>6, <3>1, <3>2, <3>3 DEF LinkCollateral, HubResolves
  <2>4. CallsAre' /\ Carding' BY <1>2, <2>1, <2>2 DEF CallsAre, Typed, Carding
  <2> QED BY <1>2, <2>1, <2>2, <2>3, <2>4, QuietTyped
<1> QED BY <1>3, <1>4, <1>5, <1>6 DEF CardStep

LEMMA CommitFailsDoes ==
  ASSUME Typed, NEW w \in Withdrawers, CommitFails(w)
  PROVE  /\ withdrawal[w] \in Withdrawal /\ UNCHANGED <<bal, chain, deposit>>
         /\ \E q \in Withdrawal : /\ q.at = "threw"
                                 /\ withdrawal' = [withdrawal EXCEPT ![w] = q]
<1>1. withdrawal \in [Withdrawers -> {Idle} \cup Withdrawal] BY DEF Typed, Calls
<1>2. /\ withdrawal[w].at = "committing" /\ UNCHANGED <<bal, chain, deposit>>
      /\ withdrawal' = [withdrawal EXCEPT ![w].at = "threw"]
  BY DEF CommitFails
<1>3. withdrawal[w] \in Withdrawal BY <1>1, <1>2 DEF Idle
<1> DEFINE q == [withdrawal[w] EXCEPT !.at = "threw"]
<1>4. q \in Withdrawal /\ q.at = "threw" BY <1>3, WithdrawalMoved DEF Ended
<1>5. withdrawal' = [withdrawal EXCEPT ![w] = q] BY <1>1, <1>2
<1> QED BY <1>2, <1>3, <1>4, <1>5

LEMMA TypedTrouble ==
  ASSUME Typed, Trouble
  PROVE  Typed'
<1>1. region \in Regions /\ bal \in [Assets -> [Parties -> Nat]] /\ chain \in [Assets -> Nat]
      /\ plan \in Plan /\ CallsAre /\ root \in {"start", "sai", "ready"}
      /\ deposit \in {Idle} \cup Deposit /\ Ids
  BY DEF Typed, Jobbing, Amounts, Calls
<1>2. plan.failures \in Nat /\ plan.rates \subseteq Nat BY <1>1 DEF Plan
<1>3. CASE (\E j \in Jobs : RefreshFails(j)) /\ UNCHANGED <<callVars, cardVars>>
  <2>1. PICK j \in Jobs : RefreshFails(j) BY <1>3
  <2>2. UNCHANGED callVars /\ UNCHANGED cardVars BY <1>3
  <2>3. OffersSame /\ UNCHANGED <<bal, chain, call, deposit, withdrawal>> BY <2>2, CallVarsSame
  <2>4. /\ job[j].pc = "show" /\ plan.failures > 0 /\ plan' = [plan EXCEPT !.failures = @ - 1]
        /\ Moves(j, Dies(j)) /\ UNCHANGED <<root, region, swapRate, shown, tips>>
    BY <2>1 DEF RefreshFails
  <2>5. Dies(j) \in JobStates(j) BY JobStateIs
  <2>6. root # "start" BY <2>4, JobForms
  <2>7. call[j] = Idle /\ (j = "cashout" => withdrawal["cashout"] = Idle)
        /\ (j = "poller" => deposit = Idle)
    BY <2>4, NotWaiting DEF Depositing
  <2>8. Jobbing' /\ Waited'
    <3>1. IF j = "cashout" THEN withdrawal'["cashout"] # Idle => Dies(j).pc = "withdrawing"
                           ELSE withdrawal'["cashout"] = withdrawal["cashout"]
      BY <2>3, <2>7
    <3>2. IF j = "poller" THEN deposit' # Idle => Dies(j).pc \in Depositing ELSE deposit' = deposit
      BY <2>3, <2>7
    <3>3. (\A d \in Jobs \ {j} : call'[d] = call[d]) /\ (call'[j] # Idle => Dies(j).pc = "swapping")
      BY <2>3, <2>7
    <3> QED BY <1>1, <2>4, <2>5, <2>6, <3>1, <3>2, <3>3, JobMoved
  <2>9. plan' \in Plan
    <3>1. plan.failures - 1 \in Nat BY <1>2, <2>4
    <3> QED BY <1>1, <2>4, <3>1 DEF Plan
  <2>10. Amounts' BY <2>3, <2>4, <2>9 DEF Typed, Amounts, OffersSame
  <2>11. Ids' BY <2>3 DEF Typed, Ids, OffersSame
  <2>12. Calls' BY <2>3 DEF Typed, Calls, CallsAre
  <2>13. Carding' BY <2>2, <2>4 DEF Typed, Carding, cardVars
  <2> QED BY <2>8, <2>10, <2>11, <2>12, <2>13 DEF Typed
<1>4. CASE /\ plan.failures > 0 /\ plan' = [plan EXCEPT !.failures = @ - 1]
           /\ UNCHANGED <<root, region, swapRate, shown, job, tips, late, upset, cardVars>>
           /\ \/ /\ DepositFails \/ \E w \in Withdrawers : CommitFails(w)
                 /\ UNCHANGED <<offers, apps, numApps, hubVars, swapVars>>
              \/ /\ \E c \in Callers : ProtocolFails(c)
                 /\ UNCHANGED <<chain, deposit, withdrawal>>
  <2>1. plan' \in Plan
    <3>1. plan.failures - 1 \in Nat BY <1>2, <1>4
    <3> QED BY <1>1, <1>4, <3>1 DEF Plan
  <2>2. /\ bal' = bal /\ chain' = chain
        /\ UNCHANGED <<offers, apps, numApps, desk, notes, hubRate, appId>>
    BY <1>4, ProtocolFailsDoes
    DEF hubVars, swapVars, DepositFails, CommitFails
  <2>3. \/ deposit' = deposit
        \/ deposit.at = "sending" /\ deposit' = [deposit EXCEPT !.at = "threw"]
    BY <1>4 DEF DepositFails, CommitFails
  <2>4. deposit' \in {Idle} \cup Deposit /\ (deposit' # Idle => deposit # Idle)
    <3>1. CASE deposit' = deposit BY <1>1, <3>1
    <3>2. CASE deposit.at = "sending" /\ deposit' = [deposit EXCEPT !.at = "threw"]
      <4>1. deposit \in Deposit /\ deposit # Idle BY <1>1, <3>2 DEF Idle
      <4> QED BY <3>2, <4>1, DepositMoved DEF Ended
    <3> QED BY <2>3, <3>1, <3>2
  <2>5. /\ withdrawal' \in [Withdrawers -> {Idle} \cup Withdrawal]
        /\ withdrawal'["cashout"] # Idle => withdrawal["cashout"] # Idle
    <3>1. withdrawal \in [Withdrawers -> {Idle} \cup Withdrawal] /\ "cashout" \in Withdrawers
      BY PartsOfTheWallet DEF Typed, Calls
    <3>2. CASE withdrawal' = withdrawal BY <3>1, <3>2
    <3>3. CASE \E w \in Withdrawers : CommitFails(w)
      <4>1. PICK w \in Withdrawers : CommitFails(w) BY <3>3
      <4>2. PICK q \in Withdrawal :
              withdrawal[w] \in Withdrawal /\ withdrawal' = [withdrawal EXCEPT ![w] = q]
        BY <4>1, CommitFailsDoes
      <4>3. withdrawal[w] # Idle BY <4>2 DEF Idle, Withdrawal
      <4> QED BY <3>1, <4>2, <4>3
    <3> QED BY <1>4, <3>2, <3>3 DEF DepositFails
  <2>6. CallsAre' /\ \A c \in Callers : call'[c] # Idle => call[c] # Idle
    <3>1. CASE call' = call BY <1>1, <3>1 DEF CallsAre
    <3>2. CASE \E c \in Callers : ProtocolFails(c) BY <3>2, ProtocolFailsDoes DEF StepOf
    <3> QED BY <1>4, <3>1, <3>2 DEF swapVars
  <2>7. Amounts' BY <1>4, <2>1, <2>2 DEF Typed, Amounts
  <2>8. Ids' BY <1>1, <2>2 DEF Ids
  <2>9. Calls' BY <2>4, <2>5, <2>6 DEF Calls
  <2>10. Carding' BY <1>4 DEF Typed, Carding, cardVars
  <2>11. Jobbing' BY <1>4 DEF Typed, Jobbing
  <2>12. Waited' BY <1>4, <2>4, <2>5, <2>6, PartsOfTheWallet DEF Typed, Waited, Callers
  <2> QED BY <2>7, <2>8, <2>9, <2>10, <2>11, <2>12 DEF Typed
<1>5. CASE /\ \/ Clicks("restart") /\ HubRestarts
              \/ \E rate \in plan.rates : /\ getSwapRate(rate)
                                          /\ plan' = [plan EXCEPT !.rates = @ \ {rate}]
           /\ UNCHANGED <<chain, deposit, withdrawal, root, region, swapRate, shown, job,
                          tips, late, upset, cardVars>>
  <2>1. /\ UNCHANGED <<bal, offers, apps, numApps, notes, appId, call>>
        /\ desk' \in {<<>>, desk} /\ hubRate' \in {hubRate} \cup plan.rates
    BY <1>5 DEF HubRestarts, getSwapRate, channelVars, swapVars
  <2>2. plan' \in Plan
    <3>1. CASE Clicks("restart") BY <3>1, ClicksIs
    <3>2. CASE \E rate \in plan.rates : plan' = [plan EXCEPT !.rates = @ \ {rate}]
      BY <1>1, <3>2 DEF Plan
    <3> QED BY <1>5, <3>1, <3>2
  <2>3. hubRate' \in Nat BY <1>2, <2>1 DEF Typed, Amounts
  <2>4. Ids'
    <3>1. CASE desk' = desk BY <1>1, <2>1, <3>1 DEF Ids
    <3>2. CASE desk' = <<>>
      <4>1. DOMAIN desk' = {} /\ desk' = [id \in DOMAIN desk' |-> desk'[id]] BY <3>2
      <4> QED BY <1>1, <2>1, <4>1 DEF Ids
    <3> QED BY <2>1, <3>1, <3>2
  <2>6. Amounts' BY <1>5, <2>1, <2>2, <2>3 DEF Typed, Amounts
  <2>8. Calls' BY <1>5, <2>1 DEF Typed, Calls, CallsAre
  <2>9. Carding' BY <1>5 DEF Typed, Carding, cardVars
  <2>10. Jobbing' BY <1>5 DEF Typed, Jobbing
  <2>11. Waited' BY <1>5, <2>1 DEF Typed, Waited
  <2> QED BY <2>4, <2>6, <2>8, <2>9, <2>10, <2>11 DEF Typed
<1> QED BY <1>3, <1>4, <1>5 DEF Trouble

LEMMA TypedReload ==
  ASSUME Typed, PageReload
  PROVE  Typed'
<1>1. /\ root' = "start" /\ region' = [o \in Operations |-> "idle"] /\ Clicks("reload")
      /\ job' = [j \in Jobs |-> NoJob] /\ shown' = Nothing
      /\ tips' = [pc |-> "off", tries |-> 0]
      /\ swapRate' = (IF hubRate = 0 THEN swapRate ELSE hubRate)
  BY DEF PageReload, Reload
<1>2. /\ appId' = [k \in {"swap", "transfer"} |-> NoId]
      /\ call' = [c \in Callers |-> Idle]
      /\ deposit' = Idle /\ withdrawal' = [c \in Withdrawers |-> Idle]
      /\ send' = NotSending
      /\ UNCHANGED <<bal, offers, apps, numApps, desk, notes, hubRate, chain>>
  BY DEF PageReload, channelVars, hubVars
<1>3. plan' \in Plan BY <1>1, ClicksIs
<1>4. Amounts'
  <2>1. swapRate' \in Nat \ {0} BY <1>1 DEF Typed, Amounts
  <2>2. shown' \in Shown BY <1>1 DEF Nothing, Shown
  <2> QED BY <1>2, <1>3, <2>1, <2>2 DEF Typed, Amounts
<1>5. Ids'
  <2>1. numApps \in Nat BY DEF Typed, Ids
  <2>2. appId' \in [Kinds -> 0..numApps'] BY <1>2, <2>1 DEF Kinds, NoId
  <2> QED BY <1>2, <2>2 DEF Typed, Ids
<1>6. Calls' BY <1>2 DEF Calls, CallsAre
<1>7. Jobbing'
  <2>1. \A j \in Jobs : NoJob \in JobStates(j) BY JobStateIs
  <2>2. region' \in Regions BY <1>1 DEF Regions
  <2>3. job' = [j \in Jobs |-> job'[j]] /\ \A j \in Jobs : job'[j] = NoJob BY <1>1
  <2> QED BY <1>1, <2>1, <2>2, <2>3 DEF Jobbing
<1>8. Carding'
  <2>1. send' \in [state : {"idle", "processingP2p", "processingLink", "successP2p",
                        "successLink", "error"}, pc : {"off", "p2p", "link"}, tries : Nat, own : Nat]
    BY <1>2 DEF NotSending, NoId
  <2> QED BY <1>1, <2>1 DEF Carding
<1>9. Waited'
  <2>1. Jobs \subseteq Callers /\ "cashout" \in Withdrawers BY PartsOfTheWallet DEF Callers
  <2> QED BY <1>1, <1>2, <2>1 DEF Waited
<1> QED BY <1>4, <1>5, <1>6, <1>7, <1>8, <1>9 DEF Typed

LEMMA TypedInit ==
  ASSUME Init
  PROVE  Typed
<1>1. plan \in Plan BY PlansTyped DEF Init
<1>2. /\ plan.bal \in [Assets -> [Parties -> Nat]] /\ plan.chain \in [Assets -> Nat]
      /\ plan.rate \in Nat \ {0}
  BY <1>1 DEF Plan
<1>3. /\ bal = plan.bal /\ chain = plan.chain /\ hubRate = plan.rate
      /\ offers = <<>> /\ apps = <<>> /\ numApps = 0 /\ desk = <<>> /\ notes = {}
      /\ appId = [k \in {"swap", "transfer"} |-> NoId]
      /\ call = [c \in Callers |-> Idle]
      /\ deposit = Idle /\ withdrawal = [c \in Withdrawers |-> Idle]
  BY DEF Init, ClientCallsInit
<1>4. /\ root = "start" /\ region = [o \in Operations |-> "idle"]
      /\ swapRate = hubRate /\ shown = Nothing /\ job = [j \in Jobs |-> NoJob]
      /\ tips = [pc |-> "off", tries |-> 0] /\ send = NotSending
  BY DEF Init, WalletInit, CardsInit
<1>5. Amounts
  <2>2. shown \in Shown BY <1>4 DEF Nothing, Shown
  <2> QED BY <1>1, <1>2, <1>3, <1>4, <2>2 DEF Amounts
<1>6. Ids
  <2>1. appId \in [Kinds -> 0..numApps] BY <1>3 DEF Kinds, NoId
  <2>2. DOMAIN offers = {} /\ DOMAIN apps = {} /\ DOMAIN desk = {} BY <1>3
  <2>3. /\ offers = [x \in DOMAIN offers |-> offers[x]] /\ apps = [x \in DOMAIN apps |-> apps[x]]
        /\ desk = [x \in DOMAIN desk |-> desk[x]]
    BY <1>3
  <2>4. offers \in [DOMAIN offers -> Offer] /\ apps \in [DOMAIN apps -> Offer] BY <2>2, <2>3
  <2> QED BY <1>3, <2>1, <2>2, <2>3, <2>4 DEF Ids
<1>7. Calls BY <1>3 DEF Calls, CallsAre
<1>8. Jobbing
  <2>1. \A j \in Jobs : NoJob \in JobStates(j) BY JobStateIs
  <2>2. region \in Regions BY <1>4 DEF Regions
  <2>3. job = [j \in Jobs |-> job[j]] /\ \A j \in Jobs : job[j] = NoJob BY <1>4
  <2> QED BY <1>4, <2>1, <2>2, <2>3 DEF Jobbing
<1>9. Carding
  <2>1. send \in [state : {"idle", "processingP2p", "processingLink", "successP2p",
                        "successLink", "error"}, pc : {"off", "p2p", "link"}, tries : Nat, own : Nat]
    BY <1>4 DEF NotSending, NoId
  <2> QED BY <1>4, <2>1 DEF Carding
<1>10. Waited
  <2>1. Jobs \subseteq Callers /\ "cashout" \in Withdrawers BY PartsOfTheWallet DEF Callers
  <2> QED BY <1>3, <1>4, <2>1 DEF Waited
<1> QED BY <1>5, <1>6, <1>7, <1>8, <1>9, <1>10 DEF Typed

LEMMA TypedStutter ==
  ASSUME Typed, UNCHANGED vars
  PROVE  Typed'
<1>1. UNCHANGED callVars /\ UNCHANGED walletVars /\ UNCHANGED cardVars BY DEF vars
<1>2. OffersSame /\ UNCHANGED <<bal, chain, call, deposit, withdrawal>> BY <1>1, CallVarsSame
<1>3. UNCHANGED <<plan, root, region, swapRate, shown, job, tips, send>>
  BY <1>1 DEF walletVars, cardVars
<1>4. Carding' BY <1>3 DEF Typed, Carding
<1>5. CallsAre' BY <1>2 DEF Typed, Calls, CallsAre
<1>6. plan \in Plan /\ region \in Regions /\ bal \in [Assets -> [Parties -> Nat]]
      /\ chain \in [Assets -> Nat]
  BY DEF Typed, Jobbing, Amounts
<1> QED BY <1>2, <1>3, <1>4, <1>5, <1>6, QuietTyped

LEMMA TypedNext ==
  ASSUME Typed, [Next]_vars
  PROVE  Typed'
BY TypedCaller, TypedHub, TypedReclaims, TypedDeposit, TypedWithdraw, TypedTrouble, TypedJob, TypedPoller,
   TypedCashout, TypedUser, TypedTips, TypedPayment, TypedCard, TypedReload, TypedStutter DEF Next

\* Whatever the user clicks, whenever a call fails, the hub restarts or the page
\* is loaded again: no balance is taken below nothing, no id is used twice, and
\* a part of the wallet waits for a call exactly while the call is there.
THEOREM AlwaysTyped == Spec => []Typed
<1>1. Init => Typed BY TypedInit
<1>2. Typed /\ [Next]_vars => Typed' BY TypedNext
<1> QED BY <1>1, <1>2, PTL DEF Spec

-----------------------------------------------------------------------------
(***************************************************************************)
(* The ids. A call waits for an id of its kind (Asked), the id that the     *)
(* swaps share is of a swap (SharedId), a transfer whose app has been       *)
(* announced keeps it (Sent), and nobody is told a secret before its        *)
(* transfer has ended (Told). An id that a call has taken another's         *)
(* proposal for is in confused, and nothing is said of it.                  *)
(***************************************************************************)

\* An id whose app nobody but the hub takes apart, for its secret.
Kept(id) ==
  id \in confused \cup Secrets("taken") \/ (id \in DOMAIN apps /\ apps[id].kind = "transfer")

\* What a call has asked for is of its kind.
Asked(c) ==
  call[c] # Idle =>
    LET own == call[c].own IN
    /\ call[c].kind = Kind(c) /\ own <= numApps
    /\ call[c].at = "proposed" => own = numApps
    /\ own \in DOMAIN offers => offers[own].kind = Kind(c)
    /\ own \in DOMAIN apps => apps[own].kind = Kind(c)

Proposals ==
  /\ \A c, d \in Callers : call[c].at = "proposed" /\ call[d].at = "proposed" => c = d
  /\ \A c \in Callers : Asked(c)

\* The id that the swaps share: of a swap, unless confused.
SharedId ==
  LET id == appId["swap"] IN
  /\ id \in DOMAIN offers \ confused => offers[id].kind = "swap"
  /\ id \in DOMAIN apps \ confused => apps[id].kind = "swap"

\* A transfer that has been announced is kept.
Sent(c) ==
  call[c] # Idle =>
    LET own == call[c].own IN
    /\ call[c].at # "check"
    /\ own \in notes => Kept(own)
    /\ call[c].at = "installing" => call[c].id = own \/ own \in confused
    /\ call[c].at \in {"installed", "returned"} => Kept(own)

Transfers == \A c \in Senders : Sent(c)

\* While a transfer is on its way its secret has been told to nobody.
Open == {"proposed", "installing", "installed"}
Told ==
  /\ DOMAIN preImage \subseteq 1..numApps
  /\ \A c, d \in Senders : call[c] # Idle /\ call[d] # Idle /\ call[c].own = call[d].own =>
                           c = d \/ call[c].own = NoId
  /\ \A c \in Senders : call[c] # Idle /\ call[c].at \in Open =>
                        call[c].own # NoId /\ call[c].own \notin DOMAIN preImage

Books == Proposals /\ SharedId /\ Transfers /\ Told

\* A call that begins, ends, or goes on, and neither proposes nor waits then.
Harmless(d) ==
  \/ call'[d] = call[d]
  \/ call'[d] = Idle
  \/ /\ call'[d] \in Call /\ call'[d].at = "from" /\ call'[d].kind = Kind(d)
     /\ call'[d].own = NoId
  \/ /\ call[d] # Idle
     /\ call'[d].kind = call[d].kind /\ call'[d].own = call[d].own /\ call'[d].id = call[d].id
     /\ call'[d].at \notin {"proposed", "installing", "installed"}
     /\ call'[d].at = "check" => call[d].at = "check"
     /\ call'[d].at = "returned" => call[d].at \in {"check", "installed"}

\* A secret is told at the end of its transfer.
TellsAtMost ==
  \/ preImage' = preImage
  \/ \E c \in Senders : /\ call[c].at = "installed" /\ call'[c].at \in Ended
                        /\ preImage' = With(preImage, call[c].own, "told")

LEMMA TakenStays ==
  ASSUME Told, TellsAtMost
  PROVE  Secrets("taken") \subseteq Secrets("taken")'
<1>1. CASE preImage' = preImage BY <1>1 DEF Secrets
<1>2. CASE \E c \in Senders : /\ call[c].at = "installed" /\ call'[c].at \in Ended
                             /\ preImage' = With(preImage, call[c].own, "told")
  <2>1. PICK c \in Senders : /\ call[c].at = "installed"
                            /\ preImage' = With(preImage, call[c].own, "told")
    BY <1>2
  <2>2. call[c] # Idle BY <2>1 DEF Idle
  <2>3. call[c].own \notin DOMAIN preImage BY <2>1, <2>2 DEF Told, Open
  <2> QED BY <2>1, <2>3 DEF Secrets, With
<1> QED BY <1>1, <1>2 DEF TellsAtMost

LEMMA ToldKept ==
  ASSUME Told, preImage' = preImage, numApps' = numApps,
         \A d \in Senders : call'[d] # Idle =>
           /\ call[d] # Idle /\ call'[d].own = call[d].own
           /\ call'[d].at \in Open => call[d].at \in Open
  PROVE  Told'
<1>1. DOMAIN preImage' \subseteq 1..numApps' BY DEF Told
<1>2. \A c, d \in Senders :
        call'[c] # Idle /\ call'[d] # Idle /\ call'[c].own = call'[d].own =>
          c = d \/ call'[c].own = NoId
  BY DEF Told
<1>3. \A c \in Senders : call'[c] # Idle /\ call'[c].at \in Open =>
                         call'[c].own # NoId /\ call'[c].own \notin DOMAIN preImage'
  BY DEF Told
<1> QED BY <1>1, <1>2, <1>3 DEF Told, Open

LEMMA ToldByCalls ==
  ASSUME Typed, Proposals, Told, TellsAtMost, numApps' = numApps, \A d \in Callers : Harmless(d)
  PROVE  Told'
<1>0. /\ numApps \in Nat /\ NoId = 0 /\ Senders \subseteq Callers
      /\ \A d \in Callers : call[d] \in {Idle} \cup Call
  BY DEF Typed, Ids, Calls, CallsAre, Callers, NoId
<1>1. \A d \in Senders : call'[d] # Idle =>
        /\ call'[d].own = NoId \/ (call[d] # Idle /\ call'[d].own = call[d].own)
        /\ call'[d].at \in Open => call'[d] = call[d]
  BY <1>0 DEF Harmless, Open
<1>2. \A c, d \in Senders :
        call'[c] # Idle /\ call'[d] # Idle /\ call'[c].own = call'[d].own =>
          c = d \/ call'[c].own = NoId
  BY <1>1 DEF Told
<1>3. CASE preImage' = preImage
  <2>1. \A c \in Senders : call'[c] # Idle /\ call'[c].at \in Open =>
                         call'[c].own # NoId /\ call'[c].own \notin DOMAIN preImage'
    BY <1>1, <1>3 DEF Told
  <2> QED BY <1>2, <1>3, <2>1 DEF Told, Open
<1>4. CASE \E c \in Senders : /\ call[c].at = "installed" /\ call'[c].at \in Ended
                             /\ preImage' = With(preImage, call[c].own, "told")
  <2>1. PICK c \in Senders : /\ call[c].at = "installed" /\ call'[c].at \in Ended
                            /\ preImage' = With(preImage, call[c].own, "told")
    BY <1>4
  <2>2. call[c] # Idle /\ call[c] \in Call BY <1>0, <2>1 DEF Idle
  <2>3. call[c].own # NoId BY <2>1, <2>2 DEF Told, Open
  <2>4. call[c].own \in 1..numApps
    <3>1. call[c].own \in Nat /\ call[c].own <= numApps BY <1>0, <2>2 DEF Call, Proposals, Asked
    <3> QED BY <1>0, <2>3, <3>1
  <2>5. DOMAIN preImage' = DOMAIN preImage \cup {call[c].own} BY <2>1 DEF With
  <2>6. ASSUME NEW d \in Senders, call'[d] # Idle, call'[d].at \in Open
        PROVE  call'[d].own # NoId /\ call'[d].own \notin DOMAIN preImage'
    <3>1. call'[d] = call[d] /\ call[d] # Idle BY <1>1, <2>6
    <3>2. d # c BY <2>1, <2>6 DEF Open, Ended
    <3>3. call[d].own # NoId /\ call[d].own \notin DOMAIN preImage BY <2>6, <3>1 DEF Told
    <3>4. call[d].own # call[c].own BY <2>2, <3>1, <3>2, <3>3 DEF Told
    <3> QED BY <2>5, <3>1, <3>3, <3>4
  <2>7. DOMAIN preImage' \subseteq 1..numApps' BY <2>4, <2>5 DEF Told
  <2> QED BY <1>2, <2>6, <2>7 DEF Told, Open
<1> QED BY <1>3, <1>4 DEF TellsAtMost

LEMMA BooksByCalls ==
  ASSUME Typed, Books, UNCHANGED <<offers, apps, numApps, notes, confused, appId>>, TellsAtMost,
         \A d \in Callers : Harmless(d)
  PROVE  Books'
<1>0. /\ numApps \in Nat /\ DOMAIN offers \cup DOMAIN apps \cup notes \subseteq 1..numApps
      /\ \A d \in Callers : call[d] \in {Idle} \cup Call
      /\ Swappers \subseteq Callers /\ Senders \subseteq Callers
  BY DEF Typed, Ids, Calls, CallsAre, Callers
<1>1. NoId = 0 /\ 0 \notin 1..numApps /\ 0 <= numApps BY <1>0 DEF NoId
<1>2. \A id : Kept(id) => Kept(id)' BY TakenStays DEF Kept, Books
<1>3. \A d \in Callers : call'[d].at = "proposed" => call[d].at = "proposed"
  BY DEF Harmless, Idle
<1>4. ASSUME NEW d \in Callers PROVE Asked(d)'
  <2>1. Asked(d) /\ Harmless(d) BY <1>4 DEF Books, Proposals
  <2>2. CASE call'[d] = call[d] BY <2>1, <2>2 DEF Asked
  <2>3. CASE call'[d] = Idle BY <2>3 DEF Asked
  <2>4. CASE /\ call'[d] \in Call /\ call'[d].at = "from" /\ call'[d].kind = Kind(d)
             /\ call'[d].own = NoId
    BY <1>0, <1>1, <2>4 DEF Asked
  <2>5. CASE /\ call[d] # Idle /\ call'[d].kind = call[d].kind /\ call'[d].own = call[d].own
             /\ call'[d].at \notin {"proposed", "installing", "installed"}
    BY <2>1, <2>5 DEF Asked
  <2> QED BY <2>1, <2>2, <2>3, <2>4, <2>5 DEF Harmless
<1>5. Proposals'
  <2>1. \A c, d \in Callers : call'[c].at = "proposed" /\ call'[d].at = "proposed" => c = d
    BY <1>3 DEF Books, Proposals
  <2> QED BY <1>4, <2>1 DEF Proposals
<1>6. SharedId' BY DEF Books, SharedId
<1>7. ASSUME NEW d \in Senders PROVE Sent(d)'
  <2>1. Sent(d) /\ Harmless(d) BY <1>0, <1>7 DEF Books, Transfers
  <2>2. CASE call'[d] = call[d] BY <1>2, <2>1, <2>2 DEF Sent
  <2>3. CASE call'[d] = Idle BY <2>3 DEF Sent
  <2>4. CASE /\ call'[d] \in Call /\ call'[d].at = "from" /\ call'[d].kind = Kind(d)
             /\ call'[d].own = NoId
    BY <1>0, <1>1, <2>4 DEF Sent
  <2>5. CASE /\ call[d] # Idle /\ call'[d].own = call[d].own
             /\ call'[d].at \notin {"proposed", "installing", "installed"}
             /\ call'[d].at = "check" => call[d].at = "check"
             /\ call'[d].at = "returned" => call[d].at \in {"check", "installed"}
    BY <1>2, <2>1, <2>5 DEF Sent
  <2> QED BY <2>1, <2>2, <2>3, <2>4, <2>5 DEF Harmless
<1>8. Told' BY ToldByCalls DEF Books
<1> QED BY <1>5, <1>6, <1>7, <1>8 DEF Books, Transfers

LEMMA BooksTells ==
  ASSUME Typed, NEW c \in Callers,
         CheckFunds(c) \/ CheckSwap(c) \/ TooLong(c) \/ TransferEnds(c, send.pc = "p2p")
  PROVE  TellsAtMost
<1>1. CASE preImage' = preImage BY <1>1 DEF TellsAtMost
<1>2. CASE /\ call[c].at = "installed" /\ Kind(c) = "transfer"
           /\ preImage' = With(preImage, call[c].own, "told")
  <2>1. c \in Senders BY <1>2 DEF Kind, Callers
  <2>2. call'[c].at \in Ended BY <1>2, PlainStepDoes
  <2> QED BY <1>2, <2>1, <2>2 DEF TellsAtMost
<1> QED BY <1>1, <1>2, PlainStepDoes

\* The steps of a call but for its proposal and installation.
LEMMA BooksPlain ==
  ASSUME Typed, Books, NEW c \in Callers,
         \/ ReadFrom(c) \/ ReadTo(c) \/ CheckFunds(c) \/ CheckSwap(c) \/ TooLong(c)
         \/ TransferEnds(c, send.pc = "p2p")
  PROVE  Books'
<1>1. \A d \in Callers \ {c} : Harmless(d)
  BY ReadFromDoes, ReadToDoes, PlainStepDoes DEF StepOf, Harmless
<1>2. UNCHANGED Others BY ReadFromDoes, ReadToDoes, PlainStepDoes
<1>3. call[c] # Idle /\ call'[c].kind = call[c].kind /\ call'[c].own = call[c].own
      /\ call'[c].id = call[c].id
  BY ReadFromDoes, ReadToDoes, PlainStepDoes DEF StepOf, Idle, Call
<1>4. TellsAtMost BY ReadFromDoes, ReadToDoes, BooksTells DEF TellsAtMost
<1>5. Harmless(c)
  <2>1. CASE ReadFrom(c) BY <1>3, <2>1, ReadFromDoes DEF Harmless
  <2>2. CASE ReadTo(c) BY <1>3, <2>2, ReadToDoes DEF Harmless
  <2>3. CASE CheckFunds(c) \/ CheckSwap(c) \/ TooLong(c) \/ TransferEnds(c, send.pc = "p2p")
    BY <1>3, <2>3, PlainStepDoes DEF Harmless, Ended
  <2> QED BY <2>1, <2>2, <2>3
<1> QED BY <1>1, <1>2, <1>4, <1>5, BooksByCalls DEF Others

LEMMA BooksPropose ==
  ASSUME Typed, Books, NEW c \in Callers, Propose(c)
  PROVE  Books'
<1> DEFINE n == numApps + 1
<1>0. /\ numApps \in Nat /\ DOMAIN offers \cup DOMAIN apps \cup notes \subseteq 1..numApps
      /\ \A d \in Callers : call[d] \in {Idle} \cup Call
      /\ Swappers \subseteq Callers /\ Senders \subseteq Callers
      /\ appId["swap"] \in 0..numApps
  BY DEF Typed, Ids, Calls, CallsAre, Callers, Kinds
<1>1. /\ StepOf(c) /\ call[c] \in Call /\ call'[c] \in Call
      /\ call[c].at = "locking" /\ call'[c].at = "proposed" /\ ~Locked
      /\ call'[c].own = n /\ numApps' = n
      /\ desk' = With(desk, n, "asked")
      /\ UNCHANGED <<apps, notes, confused, preImage, appId>>
  BY ProposeDoes
<1>2. PICK o \in Offer : o.kind = call[c].kind /\ offers' = With(offers, n, o) BY ProposeDoes
<1>3. n \notin DOMAIN offers \cup DOMAIN apps \cup notes /\ appId["swap"] # n /\ n \in Nat
      /\ n > numApps
  BY <1>0
<1>4. /\ DOMAIN offers' = DOMAIN offers \cup {n} /\ offers'[n] = o
      /\ \A x \in DOMAIN offers : offers'[x] = offers[x]
      /\ DOMAIN desk' = DOMAIN desk \cup {n}
  BY <1>1, <1>2, <1>3 DEF With
<1>5. \A id : Kept(id)' <=> Kept(id) BY <1>1 DEF Kept, Secrets
<1>6. \A d \in Callers : d # c => call'[d] = call[d] /\ call'[d].at # "proposed"
  BY <1>1 DEF Locked, StepOf
<1>7. call[c] # Idle /\ call'[c].kind = call[c].kind /\ call[c].kind = Kind(c)
  BY <1>1 DEF Call, Idle, StepOf, Books, Proposals, Asked
<1> HIDE DEF n
<1>8. ASSUME NEW d \in Callers PROVE Asked(d)'
  <2>1. Asked(d) BY <1>8 DEF Books, Proposals
  <2>2. CASE d = c
    BY <1>1, <1>2, <1>3, <1>4, <1>7, <2>2 DEF Asked
  <2>3. CASE d # c /\ call[d] # Idle
    <3>1. call[d].own \in Nat BY <1>0, <2>3 DEF Call
    <3>2. call[d].own # n /\ call[d].own <= n BY <1>0, <1>3, <2>1, <2>3, <3>1 DEF Asked
    <3> QED BY <1>1, <1>4, <1>6, <2>1, <2>3, <3>2 DEF Asked
  <2>4. CASE d # c /\ call[d] = Idle BY <1>6, <2>4 DEF Asked
  <2> QED BY <2>2, <2>3, <2>4
<1>9. Proposals' BY <1>6, <1>8 DEF Proposals
<1>10. SharedId'
  BY <1>1, <1>3, <1>4 DEF Books, SharedId
<1>11. ASSUME NEW d \in Senders PROVE Sent(d)'
  <2>1. Sent(d) BY <1>11 DEF Books, Transfers
  <2>2. CASE d = c BY <1>1, <1>3, <2>2 DEF Sent
  <2>3. CASE d # c BY <1>0, <1>1, <1>5, <1>6, <2>1, <2>3 DEF Sent
  <2> QED BY <2>2, <2>3
<1>12. Told'
  <2>1. DOMAIN preImage' \subseteq 1..numApps' /\ n \notin DOMAIN preImage
    <3>1. n \notin 1..numApps /\ 1..numApps \subseteq 1..n BY <1>0, <1>3
    <3> QED BY <1>1, <3>1 DEF Books, Told
  <2>2. \A d \in Senders : d # c /\ call[d] # Idle => call[d].own # n
    <3> SUFFICES ASSUME NEW d \in Senders, call[d] # Idle PROVE call[d].own # n OBVIOUS
    <3>1. call[d].own \in Nat /\ call[d].own <= numApps
      BY <1>0 DEF Call, Books, Proposals, Asked
    <3> QED BY <1>0, <1>3, <3>1
  <2>3. n # NoId BY <1>0, <1>3 DEF NoId
  <2>4. \A d, e \in Senders :
          call'[d] # Idle /\ call'[e] # Idle /\ call'[d].own = call'[e].own =>
            d = e \/ call'[d].own = NoId
    BY <1>0, <1>1, <1>6, <2>2 DEF Books, Told
  <2>5. \A d \in Senders : call'[d] # Idle /\ call'[d].at \in Open =>
                         call'[d].own # NoId /\ call'[d].own \notin DOMAIN preImage'
    BY <1>0, <1>1, <1>6, <2>1, <2>3 DEF Books, Told
  <2> QED BY <2>1, <2>4, <2>5 DEF Told, Open
<1> QED BY <1>9, <1>10, <1>11, <1>12 DEF Books, Transfers

LEMMA BooksAwait ==
  ASSUME Typed, Books, NEW c \in Callers, AwaitInstall(c)
  PROVE  Books'
<1>0. /\ numApps \in Nat /\ DOMAIN offers \cup DOMAIN apps \cup notes \subseteq 1..numApps
      /\ \A d \in Callers : call[d] \in {Idle} \cup Call
      /\ Swappers \subseteq Callers /\ Senders \subseteq Callers
      /\ appId \in [Kinds -> 0..numApps]
      /\ DOMAIN offers \cap DOMAIN apps = {}
  BY DEF Typed, Ids, Calls, CallsAre, Callers
<1>1. /\ StepOf(c) /\ call[c] \in Call /\ call'[c] \in Call
      /\ call[c].at = "proposed" /\ call'[c].own = call[c].own
      /\ UNCHANGED <<offers, apps, numApps, desk, notes, preImage>>
  BY AwaitInstallDoes
<1>2. call[c] # Idle BY <1>1 DEF Call, Idle
<1>3. CASE call'[c].at = "threw" /\ UNCHANGED <<appId, confused>>
  <2>1. TellsAtMost BY <1>1 DEF TellsAtMost
  <2>2. \A d \in Callers \ {c} : Harmless(d) BY <1>1 DEF StepOf, Harmless
  <2>3. call' = [call EXCEPT ![c].at = "threw"] \/ call'[c].at = "installing"
    BY DEF AwaitInstall, Becomes
  <2>4. call'[c].id = call[c].id
    <3>1. call' = [call EXCEPT ![c].at = "threw"] BY <1>3, <2>3
    <3>2. "threw" \in CallStates /\ CallsAre /\ call[c].at # "idle" /\ 0 \in Nat
      BY <1>1 DEF CallStates, Ended, Typed, Calls
    <3> QED BY <3>1, <3>2, CallReads
  <2>5. Harmless(c) BY <1>1, <1>2, <1>3, <2>4 DEF StepOf, Harmless
  <2> QED BY <1>1, <1>3, <2>1, <2>2, <2>5, BooksByCalls
<1>4. CASE /\ call'[c].at = "installing" /\ call'[c].id \in DOMAIN offers
           /\ appId' = [appId EXCEPT ![Kind(c)] = call'[c].id]
           /\ confused \subseteq confused'
           /\ call'[c].id # call[c].own => {call'[c].id, call[c].own} \subseteq confused'
  <2>1. \A id : Kept(id) => Kept(id)' BY <1>1, <1>4 DEF Kept, Secrets
  <2>2. \A d \in Callers \ {c} : call'[d] = call[d] BY <1>1 DEF StepOf
  <2>3. call'[c].kind = call[c].kind BY <1>1 DEF StepOf
  <2>4. ASSUME NEW d \in Callers PROVE Asked(d)'
    BY <1>1, <1>2, <1>4, <2>2, <2>3 DEF Books, Proposals, Asked
  <2>5. \A d, e \in Callers : call'[d].at = "proposed" /\ call'[e].at = "proposed" => d = e
    BY <1>4, <2>2 DEF Books, Proposals
  <2>6. SharedId'
    <3>1. CASE Kind(c) = "transfer"
      <4>1. appId'["swap"] = appId["swap"] /\ c \notin Swappers BY <1>0, <1>4, <3>1 DEF Kinds, Kind
      <4> QED BY <1>1, <1>4, <4>1 DEF Books, SharedId
    <3>2. CASE Kind(c) = "swap"
      <4>1. appId'["swap"] = call'[c].id BY <1>0, <1>4, <3>2 DEF Kinds
      <4>3. call'[c].id \notin DOMAIN apps' BY <1>0, <1>1, <1>4
      <4>4. call'[c].id = call[c].own => offers[call[c].own].kind = "swap"
        BY <1>2, <1>4, <3>2 DEF Books, Proposals, Asked
      <4> QED BY <1>1, <1>4, <4>1, <4>3, <4>4 DEF SharedId
    <3> QED BY <3>1, <3>2 DEF Kind
  <2>7. ASSUME NEW d \in Senders PROVE Sent(d)'
    <3>1. Sent(d) BY <2>7 DEF Books, Transfers
    <3>2. CASE d = c BY <1>1, <1>2, <1>4, <2>1, <3>1, <3>2 DEF Sent
    <3>3. CASE d # c BY <1>0, <1>1, <1>4, <2>1, <2>2, <3>1, <3>3 DEF Sent
    <3> QED BY <3>2, <3>3
  <2>8. Told'
    <3>1. \A d \in Senders : call'[d] # Idle =>
           /\ call[d] # Idle /\ call'[d].own = call[d].own
           /\ call'[d].at \in Open => call[d].at \in Open
      BY <1>0, <1>1, <1>2, <2>2 DEF Open
    <3> QED BY <1>1, <3>1, ToldKept DEF Books
  <2> QED BY <2>4, <2>5, <2>6, <2>7, <2>8 DEF Books, Proposals, Transfers
<1> QED BY <1>3, <1>4, AwaitInstallDoes

\* What is used of the types, again and again.
LEMMA BooksUse ==
  ASSUME Typed
  PROVE  /\ numApps \in Nat /\ DOMAIN offers \cup DOMAIN apps \cup notes \subseteq 1..numApps
         /\ \A d \in Callers : call[d] \in {Idle} \cup Call
         /\ Swappers \subseteq Callers /\ Senders \subseteq Callers
         /\ Swappers \cap Senders = {}
         /\ DOMAIN offers \cap (DOMAIN apps \cup notes) = {} /\ DOMAIN desk \subseteq DOMAIN offers
BY KindsDiffer DEF Typed, Ids, Calls, CallsAre, Callers

LEMMA BooksUninstall ==
  ASSUME Typed, Books, NEW c \in Callers, UninstallSwap(c)
  PROVE  Books'
<1>1. /\ StepOf(c) /\ call[c] \in Call /\ call'[c] \in Call
      /\ call[c].at = "installed" /\ Kind(c) = "swap" /\ call'[c].at \in {"check", "threw"}
      /\ call'[c].own = call[c].own /\ call'[c].id = call[c].id
      /\ UNCHANGED <<offers, numApps, desk, notes, confused, preImage, appId>>
      /\ apps' = Without(apps, appId["swap"])
  BY UninstallSwapDoes
<1>2. /\ DOMAIN apps' = DOMAIN apps \ {appId["swap"]}
      /\ \A x \in DOMAIN apps' : apps'[x] = apps[x]
  BY <1>1 DEF Without
<1>3. c \in Swappers /\ c \notin Senders /\ call[c] # Idle
  BY <1>1, BooksUse DEF Kind, Call, Idle
<1>4. \A d \in Callers \ {c} : call'[d] = call[d] BY <1>1 DEF StepOf
<1>5. \A id : Kept(id) => Kept(id)'
  <2> SUFFICES ASSUME NEW id, Kept(id) PROVE Kept(id)'
    OBVIOUS
  <2>1. CASE id \in confused \cup Secrets("taken") BY <1>1, <2>1 DEF Kept, Secrets
  <2>2. CASE id \notin confused \cup Secrets("taken")
    <3>1. id \in DOMAIN apps /\ apps[id].kind = "transfer" BY <2>2 DEF Kept
    <3>2. id # appId["swap"] BY <2>2, <3>1 DEF Books, SharedId
    <3> QED BY <1>2, <3>1, <3>2 DEF Kept
  <2> QED BY <2>1, <2>2
<1>6. ASSUME NEW d \in Callers PROVE Asked(d)'
  <2>1. Asked(d) BY <1>6 DEF Books, Proposals
  <2>2. CASE d = c BY <1>1, <1>2, <1>3, <2>1, <2>2 DEF Asked, StepOf
  <2>3. CASE d # c BY <1>1, <1>2, <1>4, <2>1, <2>3 DEF Asked
  <2> QED BY <2>2, <2>3
<1>7. \A d, e \in Callers : call'[d].at = "proposed" /\ call'[e].at = "proposed" => d = e
  BY <1>1, <1>4 DEF Books, Proposals
<1>8. SharedId'
  BY <1>1, <1>2 DEF Books, SharedId
<1>9. ASSUME NEW d \in Senders PROVE Sent(d)'
  <2>1. Sent(d) /\ call'[d] = call[d] BY <1>3, <1>4, <1>9, BooksUse DEF Books, Transfers
  <2> QED BY <1>1, <1>5, <2>1 DEF Sent
<1>10. Told'
  <2>1. \A d \in Senders : call'[d] = call[d] BY <1>3, <1>4, BooksUse
  <2> QED BY <1>1, <2>1, ToldKept DEF Books
<1> QED BY <1>6, <1>7, <1>8, <1>9, <1>10 DEF Books, Proposals, Transfers

LEMMA BooksCaller ==
  ASSUME Typed, Books, NEW c \in Callers, CallerStep(c)
  PROVE  Books'
BY BooksPlain, BooksPropose, BooksAwait, BooksUninstall DEF CallerStep

LEMMA BooksInstalled ==
  ASSUME Typed, Books, NEW id, HubInstalls(id),
         apps' = With(apps, id, offers[id]), offers' = Without(offers, id),
         desk' = Without(desk, id), notes' = notes \cup {id},
         Woken({c \in Ears \cap Swappers : appId["swap"] = id}, "installed")
  PROVE  Books'
<1> DEFINE W == {c \in Ears \cap Swappers : appId["swap"] = id}
<1>1. /\ id \in DOMAIN desk /\ id \in DOMAIN offers /\ UNCHANGED <<numApps, appId, confused, preImage>>
  BY HubInstallsDoes
<1>2. /\ DOMAIN apps' = DOMAIN apps \cup {id} /\ apps'[id] = offers[id]
      /\ \A x \in DOMAIN apps : apps'[x] = apps[x]
      /\ DOMAIN offers' = DOMAIN offers \ {id}
      /\ \A x \in DOMAIN offers' : offers'[x] = offers[x]
      /\ DOMAIN desk' = DOMAIN desk \ {id}
  BY <1>1, BooksUse DEF With, Without
<1>3. \A c \in Callers : 
        /\ c \notin W => call'[c] = call[c]
        /\ c \in W => /\ call[c].at = "installing" /\ call'[c].at = "installed"
                      /\ call[c] \in Call /\ call'[c] \in Call
                      /\ call'[c].kind = call[c].kind
                      /\ call'[c].own = call[c].own /\ call'[c].id = call[c].id
        /\ call'[c] # Idle <=> call[c] # Idle
  BY DEF Woken
<1>4. W \subseteq Swappers /\ (W # {} => appId["swap"] = id) OBVIOUS
<1> HIDE DEF W
<1>6. \A x : Kept(x) => Kept(x)' BY <1>1, <1>2, BooksUse DEF Kept, Secrets
<1>7. ASSUME NEW d \in Callers PROVE Asked(d)'
  <2>1. Asked(d) BY <1>7 DEF Books, Proposals
  <2>2. call'[d] # Idle =>
          call[d] # Idle /\ call'[d].kind = call[d].kind /\ call'[d].own = call[d].own
    BY <1>3, <1>7
  <2>3. call'[d].at = "proposed" => call[d].at = "proposed" BY <1>3, <1>7
  <2>4. call[d].own = id => (call'[d] # Idle => offers[id].kind = Kind(d))
    BY <1>1, <2>1, <2>2 DEF Asked
  <2> QED BY <1>1, <1>2, <2>1, <2>2, <2>3, <2>4 DEF Asked
<1>8. \A d, e \in Callers : call'[d].at = "proposed" /\ call'[e].at = "proposed" => d = e
  <2>1. \A d \in Callers : call'[d].at = "proposed" => call[d].at = "proposed" BY <1>3
  <2> QED BY <2>1 DEF Books, Proposals
<1>9. SharedId'
  <2>1. CASE appId["swap"] = id
    <3>1. id \notin DOMAIN offers' BY <1>2
    <3>2. id \notin confused => offers[id].kind = "swap" BY <1>1, <2>1 DEF Books, SharedId
    <3> QED BY <1>1, <1>2, <2>1, <3>1, <3>2 DEF SharedId
  <2>2. CASE appId["swap"] # id
    BY <1>1, <1>2, <2>2 DEF Books, SharedId
  <2> QED BY <2>1, <2>2
<1>10. ASSUME NEW d \in Senders PROVE Sent(d)'
  <2>1. Sent(d) /\ Asked(d) BY <1>10, BooksUse DEF Books, Transfers, Proposals
  <2>2. call'[d] = call[d] /\ Kind(d) = "transfer" BY <1>3, <1>4, <1>10, BooksUse DEF Kind
  <2>3. call[d] # Idle /\ call[d].own = id => Kept(id)'
    BY <1>1, <1>2, <2>1, <2>2 DEF Asked, Kept
  <2> QED BY <1>1, <1>6, <2>1, <2>2, <2>3 DEF Sent
<1>11. Told'
  <2>1. \A d \in Senders : call'[d] = call[d] BY <1>3, <1>4, BooksUse
  <2> QED BY <1>1, <2>1, ToldKept DEF Books
<1> QED BY <1>7, <1>8, <1>9, <1>10, <1>11 DEF Books, Proposals, Transfers

LEMMA BooksRejects ==
  ASSUME Typed, Books, NEW id, HubRejects(id)
  PROVE  Books'
<1>1. /\ id \in DOMAIN desk /\ UNCHANGED <<apps, numApps, notes, appId, confused, preImage>>
      /\ offers' = Without(offers, id) /\ desk' = Without(desk, id)
  BY HubRejectsDoes
<1>2. PICK W \in SUBSET {c \in Ears \cap Swappers : appId["swap"] = id} : Woken(W, "threw")
  BY HubRejectsDoes
<1>3. \A c \in Callers : 
        /\ c \notin W => call'[c] = call[c]
        /\ c \in W => /\ call'[c].at = "threw"
                      /\ call'[c].kind = call[c].kind
                      /\ call'[c].own = call[c].own /\ call'[c].id = call[c].id
        /\ call'[c] # Idle <=> call[c] # Idle
  BY <1>2 DEF Woken
<1>4. W \subseteq Swappers /\ (W # {} => appId["swap"] = id) BY <1>2
<1>5. /\ DOMAIN offers' = DOMAIN offers \ {id}
      /\ \A x \in DOMAIN offers' : offers'[x] = offers[x]
      /\ DOMAIN desk' = DOMAIN desk \ {id}
  BY <1>1 DEF Without
<1>6. id \notin DOMAIN apps BY <1>1, BooksUse
<1>7. \A x : Kept(x)' <=> Kept(x) BY <1>1 DEF Kept, Secrets
<1>8. ASSUME NEW d \in Callers PROVE Asked(d)'
  <2>1. Asked(d) BY <1>8 DEF Books, Proposals
  <2>2. call'[d] # Idle =>
          call[d] # Idle /\ call'[d].kind = call[d].kind /\ call'[d].own = call[d].own
    BY <1>3, <1>8
  <2>3. call'[d].at = "proposed" => call[d].at = "proposed" BY <1>3, <1>8
  <2> QED BY <1>1, <1>5, <2>1, <2>2, <2>3 DEF Asked
<1>9. \A d, e \in Callers : call'[d].at = "proposed" /\ call'[e].at = "proposed" => d = e
  <2>1. \A d \in Callers : call'[d].at = "proposed" => call[d].at = "proposed" BY <1>3
  <2> QED BY <2>1 DEF Books, Proposals
<1>10. SharedId'
  <2>1. CASE appId["swap"] = id
    BY <1>1, <1>5, <1>6, <2>1 DEF SharedId
  <2>2. CASE appId["swap"] # id
    BY <1>1, <1>5, <2>2 DEF Books, SharedId
  <2> QED BY <2>1, <2>2
<1>11. ASSUME NEW d \in Senders PROVE Sent(d)'
  <2>1. Sent(d) /\ call'[d] = call[d] BY <1>3, <1>4, <1>11, BooksUse DEF Books, Transfers
  <2> QED BY <1>1, <1>7, <2>1 DEF Sent
<1>12. Told'
  <2>1. \A d \in Senders : call'[d] = call[d] BY <1>3, <1>4, BooksUse
  <2> QED BY <1>1, <2>1, ToldKept DEF Books
<1> QED BY <1>8, <1>9, <1>10, <1>11, <1>12 DEF Books, Proposals, Transfers

LEMMA BooksResolved ==
  ASSUME Typed, Books, NEW id, resolveInstallTransfer(id)
  PROVE  Books'
<1> DEFINE W == {c \in Ears \cap Senders : call[c].id = id /\ appId["transfer"] = id}
<1>1. /\ id \in notes /\ notes' = notes \ {id}
      /\ UNCHANGED <<offers, apps, numApps, desk, appId, confused, preImage>> /\ Woken(W, "installed")
  BY ResolveTransferDoes
<1>2. \A c \in Callers : 
        /\ c \notin W => call'[c] = call[c]
        /\ c \in W => /\ call[c].at = "installing" /\ call'[c].at = "installed"
                      /\ call'[c].kind = call[c].kind
                      /\ call'[c].own = call[c].own /\ call'[c].id = call[c].id
        /\ call'[c] # Idle <=> call[c] # Idle
  BY <1>1 DEF Woken
<1>3. W \subseteq Senders /\ \A c \in W : call[c].id = id OBVIOUS
<1> HIDE DEF W
<1>7. \A x : Kept(x)' <=> Kept(x) BY <1>1 DEF Kept, Secrets
<1>8. ASSUME NEW d \in Callers PROVE Asked(d)'
  <2>1. Asked(d) BY <1>8 DEF Books, Proposals
  <2>2. call'[d] # Idle =>
          call[d] # Idle /\ call'[d].kind = call[d].kind /\ call'[d].own = call[d].own
    BY <1>2, <1>8
  <2>3. call'[d].at = "proposed" => call[d].at = "proposed" BY <1>2, <1>8
  <2> QED BY <1>1, <2>1, <2>2, <2>3 DEF Asked
<1>9. \A d, e \in Callers : call'[d].at = "proposed" /\ call'[e].at = "proposed" => d = e
  <2>1. \A d \in Callers : call'[d].at = "proposed" => call[d].at = "proposed" BY <1>2
  <2> QED BY <2>1 DEF Books, Proposals
<1>10. SharedId'
  BY <1>1 DEF Books, SharedId
<1>11. ASSUME NEW d \in Senders PROVE Sent(d)'
  <2>1. Sent(d) BY <1>11 DEF Books, Transfers
  <2>2. CASE d \notin W BY <1>1, <1>2, <1>7, <1>11, <2>1, <2>2, BooksUse DEF Sent
  <2>3. CASE d \in W
    <3>1. /\ call[d].id = id /\ call[d].at = "installing" /\ call'[d].at = "installed"
          /\ call'[d].own = call[d].own /\ (call'[d] # Idle => call[d] # Idle)
      BY <1>2, <1>3, <1>11, <2>3, BooksUse
    <3>2. call[d] # Idle => Kept(call[d].own)
      BY <1>1, <2>1, <3>1 DEF Sent, Kept
    <3> QED BY <1>7, <3>1, <3>2 DEF Sent
  <2> QED BY <2>2, <2>3
<1>12. Told'
  <2>1. \A d \in Senders : call'[d] # Idle =>
           /\ call[d] # Idle /\ call'[d].own = call[d].own
           /\ call'[d].at \in Open => call[d].at \in Open
    BY <1>2, BooksUse DEF Open
  <2> QED BY <1>1, <2>1, ToldKept DEF Books
<1> QED BY <1>8, <1>9, <1>10, <1>11, <1>12 DEF Books, Proposals, Transfers

LEMMA BooksHub ==
  ASSUME Typed, Books, HubStep
  PROVE  Books'
<1>1. PICK id \in 1..numApps : \/ verifyAppProposal(id) \/ HubInstalls(id)
                               \/ HubRejects(id) \/ resolveInstallTransfer(id)
  BY DEF HubStep
<1>2. ASSUME UNCHANGED <<offers, apps, numApps, notes, confused, preImage, appId, call>>
      PROVE  Books'
  BY <1>2, BooksByCalls DEF Harmless, TellsAtMost
<1>3. CASE verifyAppProposal(id) BY <1>2, <1>3, VerifyDoes
<1>4. CASE HubInstalls(id) BY <1>2, <1>4, BooksInstalled, HubInstallsDoes
<1> QED BY <1>1, <1>3, <1>4, BooksRejects, BooksResolved

LEMMA BooksReclaims ==
  ASSUME Typed, Books, HubReclaims
  PROVE  Books'
<1>1. UNCHANGED <<offers, numApps, notes, appId, call, confused>> BY HubReclaimsDoes
<1>2. PICK id \in DOMAIN preImage :
        \/ /\ preImage[id] = "told" /\ apps' = apps
           /\ preImage' = [preImage EXCEPT ![id] = "shown"]
        \/ /\ preImage[id] = "shown" /\ apps' = Without(apps, id)
           /\ preImage' = [preImage EXCEPT ![id] = "taken"]
  BY HubReclaimsDoes
<1>3. /\ DOMAIN preImage' = DOMAIN preImage
      /\ \A x \in DOMAIN preImage \ {id} : preImage'[x] = preImage[x]
      /\ Secrets("taken") \subseteq Secrets("taken")'
  BY <1>2 DEF Secrets
<1>4. /\ DOMAIN apps' \subseteq DOMAIN apps /\ \A x \in DOMAIN apps' : apps'[x] = apps[x]
      /\ \A x \in DOMAIN apps : x \in DOMAIN apps' \/ x \in Secrets("taken")'
  BY <1>2 DEF Without, Secrets
<1>5. \A x : Kept(x) => Kept(x)' BY <1>1, <1>3, <1>4 DEF Kept
<1>6. Proposals' BY <1>1, <1>4 DEF Books, Proposals, Asked
<1>7. SharedId' BY <1>1, <1>4 DEF Books, SharedId
<1>8. Transfers' BY <1>1, <1>5 DEF Books, Transfers, Sent
<1>9. Told' BY <1>1, <1>3 DEF Books, Told
<1> QED BY <1>6, <1>7, <1>8, <1>9 DEF Books

\* A step that at most begins a call where there was none, or forgets one that
\* has ended.
Replaced ==
  \/ call' = call
  \/ \E c \in Callers :
       /\ \A d \in Callers \ {c} : call'[d] = call[d]
       /\ call[c].at \in {"idle"} \cup Ended
       /\ \/ call'[c] = Idle
          \/ /\ call'[c] \in Call /\ call'[c].at = "from" /\ call'[c].kind = Kind(c)
             /\ call'[c].own = NoId

LEMMA BooksReplaced ==
  ASSUME Typed, Books, OffersSame, Replaced
  PROVE  Books'
<1>1. \A d \in Callers : Harmless(d) BY DEF Replaced, Harmless, Ended
<1>2. TellsAtMost BY DEF OffersSame, TellsAtMost
<1> QED BY <1>1, <1>2, BooksByCalls DEF OffersSame

\* What every other step does to the offers and calls.
LEMMA JobReplaced ==
  ASSUME Typed, NEW j \in Jobs, JobStep(j)
  PROVE  OffersSame /\ Replaced
<1>0. j \in Callers /\ Kind(j) = "swap" BY PartsOfTheWallet DEF Callers, Kind
<1>1. CASE UNCHANGED callVars BY <1>1, CallVarsSame DEF Replaced
<1>2. CASE UNCHANGED <<offers, apps, numApps, hubVars, swapVars, chain, deposit, withdrawal>>
  BY <1>2 DEF OffersSame, Replaced, hubVars, swapVars, historyVars
<1>3. CASE /\ AutoSwap(j) \/ AfterSwap(j)
           /\ UNCHANGED <<channelVars, hubVars, appId, chain, deposit, withdrawal>>
  <2>1. OffersSame BY <1>3 DEF OffersSame, channelVars, hubVars, historyVars
  <2>2. CASE AutoSwap(j)
    <3>1. job[j].pc = "collateral" /\ j # "cashout"
          /\ SwapCall(j, "eth", "dai", job[j].wei, <<job[j].rate, 1>>)
      BY <2>2 DEF AutoSwap
    <3>2. job[j] \in Swapping BY <3>1, JobForms
    <3>3. job[j].wei \in Nat /\ job[j].rate \in Nat \ {0} /\ 1 \in Nat \ {0}
      BY <3>2 DEF Swapping
    <3>4. calculateExchange(job[j].wei, <<job[j].rate, 1>>) \in Nat BY <3>3, Exchanged
    <3>5. Begins(j, "eth", "dai", job[j].wei, calculateExchange(job[j].wei, <<job[j].rate, 1>>))
      BY <3>1 DEF SwapCall
    <3>6. "eth" \in Assets /\ "dai" \in Assets /\ CallsAre BY DEF Assets, Typed, Calls
    <3>7. /\ \A d \in Callers \ {j} : call'[d] = call[d]
          /\ call'[j] \in Call /\ call'[j].at = "from" /\ call'[j].kind = Kind(j)
          /\ call'[j].own = NoId
      BY <1>0, <3>3, <3>4, <3>5, <3>6, BeginsDoes
    <3>8. call[j].at = "idle" BY <3>1, NotWaiting DEF Idle
    <3> QED BY <1>0, <2>1, <3>7, <3>8 DEF Replaced
  <2>3. CASE AfterSwap(j)
    <3>1. call[j].at \in Ended /\ call' = [call EXCEPT ![j] = Idle]
      BY <2>3 DEF AfterSwap, Ended
    <3>2. call'[j] = Idle /\ \A d \in Callers \ {j} : call'[d] = call[d]
      BY <1>0, <3>1, CallForgotten DEF Typed, Calls
    <3> QED BY <1>0, <2>1, <3>1, <3>2 DEF Replaced
  <2> QED BY <1>3, <2>2, <2>3
<1> QED BY <1>1, <1>2, <1>3 DEF JobStep

LEMMA PollerReplaced ==
  ASSUME PollerStep
  PROVE  OffersSame /\ Replaced
<1>1. CASE UNCHANGED callVars BY <1>1, CallVarsSame DEF Replaced
<1>2. CASE UNCHANGED <<channelVars, hubVars, swapVars, chain, withdrawal>>
  BY <1>2 DEF OffersSame, Replaced, channelVars, hubVars, swapVars, historyVars
<1> QED BY <1>1, <1>2 DEF PollerStep

LEMMA CashoutReplaced ==
  ASSUME Typed, CashoutStep
  PROVE  OffersSame /\ Replaced
<1>1. CASE UNCHANGED <<offers, apps, numApps, hubVars, swapVars, chain, deposit, withdrawal>>
  BY <1>1 DEF OffersSame, Replaced, hubVars, swapVars, historyVars
<1>2. CASE CashoutSwap /\ UNCHANGED <<channelVars, hubVars, appId, chain, deposit, withdrawal>>
  <2>1. OffersSame BY <1>2 DEF OffersSame, channelVars, hubVars, historyVars
  <2>2. "cashout" \in Callers /\ Kind("cashout") = "swap"
    BY PartsOfTheWallet DEF Callers, Kind, Jobs
  <2>3. call["cashout"].at = "idle" BY <1>2, CashoutSwapDoes DEF Idle
  <2> QED BY <1>2, <2>1, <2>2, <2>3, CashoutSwapDoes DEF Replaced
<1>3. CASE UNCHANGED <<channelVars, hubVars, swapVars, chain, deposit>>
  BY <1>3 DEF OffersSame, Replaced, channelVars, hubVars, swapVars, historyVars
<1> QED BY <1>1, <1>2, <1>3 DEF CashoutStep

LEMMA UserReplaced ==
  ASSUME UserStep
  PROVE  OffersSame /\ Replaced
<1>1. CASE UNCHANGED callVars BY <1>1, CallVarsSame DEF Replaced
<1>2. CASE UNCHANGED <<channelVars, hubVars, swapVars>>
  BY <1>2 DEF OffersSame, Replaced, channelVars, hubVars, swapVars, historyVars
<1> QED BY <1>1, <1>2 DEF UserStep

LEMMA TipsReplaced ==
  ASSUME Typed, TipsStep
  PROVE  OffersSame /\ Replaced
<1>0. "tips" \in Callers /\ Kind("tips") = "swap" /\ CallsAre
  BY PartsOfTheWallet DEF Callers, Kind, Typed, Calls
<1>1. CASE UNCHANGED callVars BY <1>1, CallVarsSame DEF Replaced
<1>2. CASE AfterTips /\ UNCHANGED <<channelVars, hubVars, appId, chain, deposit, withdrawal>>
  <2>1. OffersSame BY <1>2 DEF OffersSame, channelVars, hubVars, historyVars
  <2>2. call["tips"].at \in Ended /\ call' = [call EXCEPT !["tips"] = Idle]
    BY <1>2 DEF AfterTips, Ended
  <2>3. call'["tips"] = Idle /\ \A d \in Callers \ {"tips"} : call'[d] = call[d]
    BY <1>0, <2>2, CallForgotten
  <2> QED BY <1>0, <2>1, <2>2, <2>3 DEF Replaced
<1>3. CASE TryTips /\ UNCHANGED <<offers, apps, numApps, hubVars, appId, chain, deposit, withdrawal>>
  <2>1. OffersSame BY <1>3 DEF OffersSame, hubVars, historyVars
  <2> QED BY <1>0, <1>3, <2>1, TryTipsDoes DEF Replaced
<1> QED BY <1>1, <1>2, <1>3 DEF TipsStep

LEMMA PaymentReplaced ==
  ASSUME PaymentStep
  PROVE  OffersSame /\ Replaced
<1>1. CASE UNCHANGED callVars BY <1>1, CallVarsSame DEF Replaced
<1>2. CASE UNCHANGED <<offers, apps, numApps, hubVars, swapVars, chain, deposit, withdrawal>>
  BY <1>2 DEF OffersSame, Replaced, hubVars, swapVars, historyVars
<1> QED BY <1>1, <1>2 DEF PaymentStep

LEMMA CardReplaced ==
  ASSUME Typed, CardStep
  PROVE  OffersSame /\ Replaced
<1>0. "send" \in Callers /\ Kind("send") = "transfer" BY SendCard, KindsDiffer DEF Callers, Kind
<1>1. CASE UNCHANGED callVars BY <1>1, CallVarsSame DEF Replaced
<1>2. CASE /\ TryTransfer \/ TransferDone \/ TransferThrew
           /\ UNCHANGED <<channelVars, hubVars, appId, chain, deposit, withdrawal, walletVars>>
  <2>1. OffersSame BY <1>2 DEF OffersSame, channelVars, hubVars, historyVars
  <2>2. CASE TryTransfer BY <1>0, <2>1, <2>2, TryTransferDoes DEF Replaced
  <2>3. CASE TransferDone \/ TransferThrew
    <3>1. /\ call["send"].at \in Ended /\ call' = [call EXCEPT !["send"] = Idle] /\ CallsAre
      BY <2>3, TransferEndedDoes DEF Typed, Calls
    <3>2. call'["send"] = Idle /\ \A d \in Callers \ {"send"} : call'[d] = call[d]
      BY <1>0, <3>1, CallForgotten
    <3> QED BY <1>0, <2>1, <3>1, <3>2 DEF Replaced
  <2> QED BY <1>2, <2>2, <2>3
<1>3. CASE UNCHANGED <<offers, apps, numApps, hubVars, swapVars, chain, deposit,
                       withdrawal, walletVars>>
  BY <1>3 DEF OffersSame, Replaced, hubVars, swapVars, historyVars
<1> QED BY <1>1, <1>2, <1>3 DEF CardStep

LEMMA BooksTrouble ==
  ASSUME Typed, Books, Trouble
  PROVE  Books'
<1>1. UNCHANGED <<offers, apps, numApps, notes, confused, preImage, appId>>
  BY ProtocolFailsDoes
  DEF Trouble, callVars, channelVars, hubVars, swapVars, historyVars, HubRestarts, getSwapRate
<1>2. ASSUME NEW d \in Callers PROVE Harmless(d)
  <2>1. CASE call' = call BY <2>1 DEF Harmless
  <2>2. CASE \E c \in Callers : ProtocolFails(c)
    <3>1. PICK c \in Callers : ProtocolFails(c) BY <2>2
    <3>2. CASE d = c BY <3>1, <3>2, ProtocolFailsDoes DEF Harmless, StepOf, Call, Idle
    <3>3. CASE d # c BY <3>1, <3>3, ProtocolFailsDoes DEF Harmless, StepOf
    <3> QED BY <3>2, <3>3
  <2> QED BY <2>1, <2>2 DEF Trouble, callVars, swapVars, HubRestarts, getSwapRate
<1> QED BY <1>1, <1>2, BooksByCalls DEF TellsAtMost

LEMMA BooksReload ==
  ASSUME Typed, Books, PageReload
  PROVE  Books'
<1>1. /\ appId' = [k \in {"swap", "transfer"} |-> NoId]
      /\ call' = [c \in Callers |-> Idle]
      /\ UNCHANGED <<offers, apps, numApps, desk, notes, confused, preImage>>
  BY DEF PageReload, channelVars, hubVars, historyVars
<1>2. \A c \in Callers : call'[c] = Idle BY <1>1
<1>3. appId'["swap"] = 0 /\ 0 \notin DOMAIN offers \cup DOMAIN apps /\ DOMAIN desk \subseteq DOMAIN offers
  BY <1>1, BooksUse DEF NoId
<1>4. Proposals' BY <1>2 DEF Proposals, Asked, Idle
<1>5. SharedId' BY <1>1, <1>3 DEF SharedId
<1>6. Transfers' BY <1>2, BooksUse DEF Transfers, Sent
<1>7. Told' BY <1>1, <1>2, BooksUse DEF Books, Told
<1> QED BY <1>4, <1>5, <1>6, <1>7 DEF Books

LEMMA BooksInit ==
  ASSUME Init
  PROVE  Books
<1>1. /\ offers = <<>> /\ apps = <<>> /\ numApps = 0 /\ desk = <<>> /\ preImage = <<>>
      /\ appId = [k \in {"swap", "transfer"} |-> NoId]
      /\ call = [c \in Callers |-> Idle]
  BY DEF Init, ClientCallsInit
<1>2. \A c \in Callers : call[c] = Idle BY <1>1
<1>3. DOMAIN offers = {} /\ DOMAIN apps = {} /\ DOMAIN preImage = {} BY <1>1
<1>4. Proposals BY <1>2 DEF Proposals, Asked, Idle
<1>5. SharedId BY <1>3 DEF SharedId
<1>6. Transfers BY <1>2 DEF Transfers, Sent, Callers
<1>7. Told BY <1>2, <1>3 DEF Told, Callers
<1> QED BY <1>4, <1>5, <1>6, <1>7 DEF Books

LEMMA BooksNext ==
  ASSUME Typed, Books, [Next]_vars
  PROVE  Books'
<1>1. ASSUME OffersSame, Replaced PROVE Books' BY <1>1, BooksReplaced
<1>2. CASE UNCHANGED vars
  <2>1. UNCHANGED callVars BY <1>2 DEF vars
  <2> QED BY <1>1, <2>1, CallVarsSame DEF Replaced
<1>3. CASE DepositStep \/ \E w \in Withdrawers : WithdrawStep(w)
  BY <1>1, <1>3 DEF DepositStep, WithdrawStep, hubVars, swapVars, historyVars, OffersSame, Replaced
<1>4. CASE (\E j \in Jobs : JobStep(j)) \/ PollerStep \/ CashoutStep \/ UserStep \/ TipsStep
           \/ PaymentStep \/ CardStep
  BY <1>1, <1>4, JobReplaced, PollerReplaced, CashoutReplaced, UserReplaced, TipsReplaced,
     PaymentReplaced, CardReplaced
<1> QED BY <1>2, <1>3, <1>4, BooksCaller, BooksHub, BooksReclaims, BooksTrouble, BooksReload DEF Next

-----------------------------------------------------------------------------
(***************************************************************************)
(* The stakes. A swap that is installed, or may be, has the call that is to *)
(* uninstall it, and that call the id: it keeps listening for it, and no    *)
(* other has been written over it.                                          *)
(***************************************************************************)

HeldBy(id, c) ==
  /\ call[c].own = id
  /\ \/ call[c].at = "proposed" /\ id \notin DOMAIN apps
     \/ call[c].at = "installing" /\ appId["swap"] = id
     \/ call[c].at = "installed" /\ appId["swap"] = id /\ id \notin DOMAIN desk

LetGo == stranded \cup confused
SwapsHeld == \A id \in SwapApps \ LetGo : \E c \in Swappers : HeldBy(id, c)

\* What a step has to keep.
LEMMA SwapsStay ==
  ASSUME SwapsHeld, SwapApps' \subseteq SwapApps, LetGo \subseteq LetGo',
         \A c \in Swappers : \A id \in SwapApps' \ LetGo' : HeldBy(id, c) => HeldBy(id, c)'
  PROVE  SwapsHeld'
BY DEF SwapsHeld

LEMMA HeldBySame ==
  ASSUME NEW id, NEW c, HeldBy(id, c),
         call'[c].own = call[c].own, call'[c].at = call[c].at, appId'["swap"] = appId["swap"],
         id \in DOMAIN apps' => id \in DOMAIN apps, id \in DOMAIN desk' => id \in DOMAIN desk
  PROVE  HeldBy(id, c)'
BY DEF HeldBy

\* The apps and the offers stay, and so does a call that holds a swap.
LEMMA SwapsSame ==
  ASSUME SwapsHeld, UNCHANGED <<offers, apps>>, appId'["swap"] = appId["swap"],
         DOMAIN desk' \subseteq DOMAIN desk, LetGo \subseteq LetGo',
         \A c \in Swappers : \/ call'[c].own = call[c].own /\ call'[c].at = call[c].at
                            \/ call[c].at \notin Open
                            \/ call[c].own \in LetGo'
  PROVE  SwapsHeld'
<1>1. SwapApps' \subseteq SwapApps BY DEF SwapApps
<1>2. ASSUME NEW c \in Swappers, NEW id \in SwapApps' \ LetGo', HeldBy(id, c)
      PROVE  HeldBy(id, c)'
  <2>1. call[c].own = id /\ call[c].at \in Open BY <1>2 DEF HeldBy, Open
  <2>2. call'[c].own = call[c].own /\ call'[c].at = call[c].at BY <1>2, <2>1
  <2> QED BY <1>2, <2>2, HeldBySame
<1> QED BY <1>1, <1>2, SwapsStay

LEMMA SwapsPropose ==
  ASSUME Typed, Books, SwapsHeld, NEW c \in Callers, Propose(c)
  PROVE  SwapsHeld'
<1> DEFINE n == numApps + 1
<1>1. /\ StepOf(c) /\ call[c].at = "locking" /\ call'[c].at = "proposed" /\ call'[c].own = n
      /\ call[c] \in Call
      /\ desk' = With(desk, n, "asked") /\ UNCHANGED <<apps, confused, stranded, appId>>
  BY ProposeDoes
<1>2. PICK o \in Offer : o.kind = call[c].kind /\ offers' = With(offers, n, o) BY ProposeDoes
<1>3. n \notin DOMAIN offers \cup DOMAIN apps \cup DOMAIN desk BY BooksUse
<1> HIDE DEF n
<1>4. /\ DOMAIN desk' = DOMAIN desk \cup {n} /\ offers'[n] = o
      /\ \A x \in DOMAIN desk : offers'[x] = offers[x]
  BY <1>1, <1>2, <1>3, BooksUse DEF With
<1>5. SwapApps' \subseteq SwapApps \cup {n} BY <1>1, <1>4 DEF SwapApps
<1>6. ASSUME NEW id \in SwapApps' \ LetGo' PROVE \E d \in Swappers : HeldBy(id, d)'
  <2>1. CASE id = n
    <3>1. o.kind = "swap" BY <1>1, <1>3, <1>4, <1>6, <2>1 DEF SwapApps
    <3>2. call[c].kind = Kind(c) BY <1>1 DEF Books, Proposals, Asked, Call, Idle
    <3>3. c \in Swappers BY <1>2, <3>1, <3>2 DEF Kind
    <3>4. HeldBy(id, c)' BY <1>1, <1>3, <2>1 DEF HeldBy
    <3> QED BY <3>3, <3>4
  <2>2. CASE id # n
    <3>1. id \in SwapApps \ LetGo BY <1>1, <1>5, <1>6, <2>2 DEF LetGo
    <3>2. PICK d \in Swappers : HeldBy(id, d) BY <3>1 DEF SwapsHeld
    <3>3. d # c BY <1>1, <3>2 DEF HeldBy
    <3>4. call'[d] = call[d] BY <1>1, <3>3, BooksUse DEF StepOf
    <3>5. HeldBy(id, d)' BY <1>1, <1>4, <2>2, <3>2, <3>4, HeldBySame
    <3> QED BY <3>5
  <2> QED BY <2>1, <2>2
<1> QED BY <1>6 DEF SwapsHeld

LEMMA SwapsAwait ==
  ASSUME Typed, Books, SwapsHeld, NEW c \in Callers, AwaitInstall(c)
  PROVE  SwapsHeld'
<1>1. /\ StepOf(c) /\ call[c].at = "proposed" /\ call'[c].own = call[c].own
      /\ UNCHANGED <<offers, apps, desk>>
  BY AwaitInstallDoes
<1>2. SwapApps' = SwapApps BY <1>1 DEF SwapApps
<1>3. CASE DOMAIN offers = {} /\ UNCHANGED <<appId, confused, stranded>>
  <2>1. LetGo' = LetGo BY <1>3 DEF LetGo
  <2>2. ASSUME NEW d \in Swappers, NEW id \in SwapApps' \ LetGo', HeldBy(id, d)
        PROVE  HeldBy(id, d)'
    <3>1. CASE d = c
      <4>1. id \notin DOMAIN apps BY <1>1, <2>2, <3>1 DEF HeldBy
      <4>2. id \notin DOMAIN desk BY <1>3, BooksUse
      <4> QED BY <1>2, <2>2, <4>1, <4>2 DEF SwapApps
    <3>2. CASE d # c
      <4>1. call'[d] = call[d] BY <1>1, <3>2, BooksUse DEF StepOf
      <4> QED BY <1>1, <1>3, <2>2, <4>1, HeldBySame
    <3> QED BY <3>1, <3>2
  <2> QED BY <1>2, <2>1, <2>2, SwapsStay
<1>4. CASE /\ call'[c].at = "installing"
           /\ appId' = [appId EXCEPT ![Kind(c)] = call'[c].id]
           /\ confused \subseteq confused'
           /\ call'[c].id # call[c].own => {call'[c].id, call[c].own} \subseteq confused'
           /\ stranded \subseteq stranded'
           /\ Kind(c) = "swap" => OwnOf({"installing", "installed"}) \subseteq stranded'
  <2>1. LetGo \subseteq LetGo' BY <1>4 DEF LetGo
  <2>2. appId \in [Kinds -> 0..numApps] BY DEF Typed, Ids
  <2>3. ASSUME NEW d \in Swappers, NEW id \in SwapApps' \ LetGo', HeldBy(id, d)
        PROVE  HeldBy(id, d)'
    <3>1. CASE d = c
      <4>1. call[c].own = id /\ Kind(c) = "swap" BY <2>3, <3>1 DEF HeldBy, Kind
      <4>2. call'[c].id = id BY <1>4, <2>3, <4>1 DEF LetGo
      <4>3. appId'["swap"] = id BY <1>4, <2>2, <4>1, <4>2 DEF Kinds
      <4> QED BY <1>1, <1>4, <3>1, <4>1, <4>3 DEF HeldBy
    <3>2. CASE d # c
      <4>1. call'[d] = call[d] BY <1>1, <3>2, BooksUse DEF StepOf
      <4>2. call[d].at # "proposed" BY <1>1, <3>2, BooksUse DEF Books, Proposals
      <4>3. call[d].own \in OwnOf({"installing", "installed"}) BY <2>3, <4>2 DEF HeldBy, OwnOf
      <4>4. Kind(c) # "swap" BY <1>4, <2>3, <4>3 DEF HeldBy, LetGo
      <4>5. appId'["swap"] = appId["swap"] BY <1>4, <2>2, <4>4 DEF Kinds
      <4> QED BY <1>1, <2>3, <4>1, <4>5, HeldBySame
    <3> QED BY <3>1, <3>2
  <2> QED BY <1>2, <2>1, <2>3, SwapsStay
<1> QED BY <1>3, <1>4, AwaitInstallDoes

LEMMA SwapsUninstall ==
  ASSUME Typed, SwapsHeld, NEW c \in Callers, UninstallSwap(c)
  PROVE  SwapsHeld'
<1>1. /\ StepOf(c) /\ call[c].at = "installed" /\ apps' = Without(apps, appId["swap"])
      /\ UNCHANGED <<offers, desk, confused, stranded, appId>>
  BY UninstallSwapDoes
<1>2. /\ DOMAIN apps' = DOMAIN apps \ {appId["swap"]}
      /\ \A x \in DOMAIN apps' : apps'[x] = apps[x]
  BY <1>1 DEF Without
<1>3. SwapApps' \subseteq SwapApps /\ LetGo' = LetGo BY <1>1, <1>2 DEF SwapApps, LetGo
<1>4. ASSUME NEW d \in Swappers, NEW id \in SwapApps' \ LetGo', HeldBy(id, d)
      PROVE  HeldBy(id, d)'
  <2>1. CASE d = c
    <3>1. appId["swap"] = id /\ id \notin DOMAIN desk BY <1>1, <1>4, <2>1 DEF HeldBy
    <3> QED BY <1>1, <1>2, <1>4, <3>1 DEF SwapApps
  <2>2. CASE d # c
    <3>1. call'[d] = call[d] BY <1>1, <2>2, BooksUse DEF StepOf
    <3> QED BY <1>1, <1>2, <1>4, <3>1, HeldBySame
  <2> QED BY <2>1, <2>2
<1> QED BY <1>3, <1>4, SwapsStay

LEMMA SwapsCaller ==
  ASSUME Typed, Books, SwapsHeld, NEW c \in Callers, CallerStep(c)
  PROVE  SwapsHeld'
<1>1. CASE \/ ReadFrom(c) \/ ReadTo(c) \/ CheckFunds(c) \/ CheckSwap(c) \/ TooLong(c)
           \/ TransferEnds(c, send.pc = "p2p")
  <2>1. StepOf(c) /\ UNCHANGED Others
        /\ (call[c].at \in {"from", "to", "propose", "check"} \/ Kind(c) = "transfer")
    BY <1>1, ReadFromDoes, ReadToDoes, PlainStepDoes
  <2>2. ASSUME NEW d \in Swappers PROVE call'[d] = call[d] \/ call[d].at \notin Open
    <3>1. CASE d = c BY <2>1, <3>1 DEF Open, Kind
    <3>2. CASE d # c BY <2>1, <3>2, BooksUse DEF StepOf
    <3> QED BY <3>1, <3>2
  <2>3. LetGo \subseteq LetGo' BY <2>1 DEF LetGo, Others
  <2> QED BY <2>1, <2>2, <2>3, SwapsSame DEF Others
<1> QED BY <1>1, SwapsPropose, SwapsAwait, SwapsUninstall DEF CallerStep

LEMMA SwapsInstalled ==
  ASSUME Typed, SwapsHeld, NEW x, HubInstalls(x),
         apps' = With(apps, x, offers[x]), offers' = Without(offers, x),
         desk' = Without(desk, x),
         Woken({c \in Ears \cap Swappers : appId["swap"] = x}, "installed")
  PROVE  SwapsHeld'
<1> DEFINE W == {c \in Ears \cap Swappers : appId["swap"] = x}
<1>1. /\ ~Locked /\ x \in DOMAIN desk /\ x \in DOMAIN offers
      /\ UNCHANGED <<appId, confused, stranded>>
  BY HubInstallsDoes
<1>2. /\ DOMAIN apps' = DOMAIN apps \cup {x} /\ apps'[x] = offers[x]
      /\ \A y \in DOMAIN apps : y # x => apps'[y] = apps[y]
      /\ DOMAIN desk' = DOMAIN desk \ {x}
      /\ \A y \in DOMAIN desk' : offers'[y] = offers[y]
  BY <1>1, BooksUse DEF With, Without
<1>3. SwapApps' \subseteq SwapApps /\ LetGo' = LetGo
  BY <1>1, <1>2, BooksUse DEF SwapApps, LetGo
<1>4. ASSUME NEW d \in Swappers, NEW id \in SwapApps' \ LetGo', HeldBy(id, d)
      PROVE  HeldBy(id, d)'
  <2>1. d \in Callers /\ call[d].at # "proposed" BY <1>1, BooksUse DEF Locked
  <2>2. CASE d \in W
    <3>1. call'[d].at = "installed" /\ call'[d].own = call[d].own /\ appId["swap"] = x
          /\ call[d].at = "installing"
      BY <2>1, <2>2 DEF Woken
    <3>2. id = x BY <1>4, <3>1 DEF HeldBy
    <3> QED BY <1>1, <1>2, <1>4, <3>1, <3>2 DEF HeldBy
  <2>3. CASE d \notin W
    <3>1. call'[d] = call[d] BY <2>1, <2>3 DEF Woken
    <3>2. call[d].at = "installing" => appId["swap"] # x BY <2>1, <2>3 DEF Ears
    <3> QED BY <1>1, <1>2, <1>4, <2>1, <3>1, <3>2 DEF HeldBy
  <2> QED BY <2>2, <2>3
<1> QED BY <1>3, <1>4, SwapsStay

LEMMA SwapsRejects ==
  ASSUME Typed, SwapsHeld, NEW x, HubRejects(x)
  PROVE  SwapsHeld'
<1>1. /\ x \in DOMAIN desk /\ UNCHANGED <<apps, appId, confused, stranded>>
      /\ offers' = Without(offers, x) /\ desk' = Without(desk, x)
  BY HubRejectsDoes
<1>2. PICK W \in SUBSET {c \in Ears \cap Swappers : appId["swap"] = x} : Woken(W, "threw")
  BY HubRejectsDoes
<1>3. /\ DOMAIN desk' = DOMAIN desk \ {x} /\ x \notin DOMAIN apps
      /\ \A y \in DOMAIN desk' : offers'[y] = offers[y]
  BY <1>1, BooksUse DEF Without
<1>4. SwapApps' \subseteq SwapApps /\ LetGo' = LetGo BY <1>1, <1>3 DEF SwapApps, LetGo
<1>5. ASSUME NEW d \in Swappers, NEW id \in SwapApps' \ LetGo', HeldBy(id, d)
      PROVE  HeldBy(id, d)'
  <2>1. id # x BY <1>1, <1>3, <1>5 DEF SwapApps
  <2>2. CASE d \in W
    <3>1. appId["swap"] = x /\ call[d].at = "installing" BY <1>2, <2>2 DEF Ears
    <3> QED BY <1>5, <2>1, <3>1 DEF HeldBy
  <2>3. CASE d \notin W
    <3>1. call'[d] = call[d] BY <1>2, <2>3, BooksUse DEF Woken
    <3> QED BY <1>1, <1>3, <1>5, <3>1, HeldBySame
  <2> QED BY <2>2, <2>3
<1> QED BY <1>4, <1>5, SwapsStay

LEMMA SwapsHub ==
  ASSUME Typed, SwapsHeld, HubStep
  PROVE  SwapsHeld'
<1>1. PICK id \in 1..numApps : \/ verifyAppProposal(id) \/ HubInstalls(id)
                               \/ HubRejects(id) \/ resolveInstallTransfer(id)
  BY DEF HubStep
<1>2. ASSUME DOMAIN desk' = DOMAIN desk, UNCHANGED <<offers, apps, confused, stranded, appId>>,
             \A c \in Swappers : call'[c] = call[c]
      PROVE  SwapsHeld'
  BY <1>2, SwapsSame DEF LetGo
<1>3. CASE verifyAppProposal(id) BY <1>2, <1>3, VerifyDoes
<1>4. CASE HubInstalls(id) BY <1>2, <1>4, SwapsInstalled, HubInstallsDoes
<1>5. CASE resolveInstallTransfer(id)
  <2>1. \A c \in Swappers : call'[c] = call[c] BY <1>5, ResolveTransferDoes, BooksUse DEF Woken
  <2> QED BY <1>2, <1>5, <2>1, ResolveTransferDoes
<1> QED BY <1>1, <1>3, <1>4, <1>5, SwapsRejects

LEMMA SwapsReclaims ==
  ASSUME Typed, SwapsHeld, HubReclaims
  PROVE  SwapsHeld'
<1>1. UNCHANGED <<offers, desk, appId, call, confused, stranded>> BY HubReclaimsDoes
<1>2. apps' = apps \/ \E id : apps' = Without(apps, id) BY HubReclaimsDoes
<1>3. DOMAIN apps' \subseteq DOMAIN apps /\ \A x \in DOMAIN apps' : apps'[x] = apps[x]
  BY <1>2 DEF Without
<1>4. SwapApps' \subseteq SwapApps /\ LetGo' = LetGo BY <1>1, <1>3 DEF SwapApps, LetGo
<1>5. \A c \in Swappers : \A id \in SwapApps' \ LetGo' : HeldBy(id, c) => HeldBy(id, c)'
  BY <1>1, <1>3, HeldBySame
<1> QED BY <1>4, <1>5, SwapsStay

LEMMA SwapsTrouble ==
  ASSUME Typed, SwapsHeld, Trouble
  PROVE  SwapsHeld'
<1>1. CASE \E c \in Callers : ProtocolFails(c)
  <2>1. PICK c \in Callers : ProtocolFails(c) BY <1>1
  <2>2. /\ StepOf(c) /\ UNCHANGED <<offers, apps, desk, confused, appId>>
        /\ \/ call[c].at = "locking" /\ stranded' = stranded
           \/ call[c].at = "installed" /\ stranded' = stranded \cup {call[c].own}
    BY <2>1, ProtocolFailsDoes
  <2>3. LetGo \subseteq LetGo' BY <2>2 DEF LetGo
  <2>4. ASSUME NEW d \in Swappers
        PROVE  call'[d] = call[d] \/ call[d].at \notin Open \/ call[d].own \in LetGo'
    <3>1. CASE d = c BY <2>2, <3>1 DEF Open, LetGo
    <3>2. CASE d # c BY <2>2, <3>2, BooksUse DEF StepOf
    <3> QED BY <3>1, <3>2
  <2> QED BY <2>2, <2>3, <2>4, SwapsSame
<1>2. CASE ~\E c \in Callers : ProtocolFails(c)
  <2>1. UNCHANGED <<offers, apps, confused, stranded, appId, call>> /\ desk' \in {desk, <<>>}
    BY <1>2
    DEF Trouble, callVars, channelVars, hubVars, swapVars, historyVars, HubRestarts, getSwapRate
  <2>2. DOMAIN desk' \subseteq DOMAIN desk
    <3>1. CASE desk' = desk BY <3>1
    <3>2. CASE desk' = <<>>
      <4>1. DOMAIN desk' = {} BY <3>2
      <4> QED BY <4>1
    <3> QED BY <2>1, <3>1, <3>2
  <2> QED BY <2>1, <2>2, SwapsSame DEF LetGo
<1> QED BY <1>1, <1>2

LEMMA SwapsReload ==
  ASSUME SwapsHeld, PageReload
  PROVE  SwapsHeld'
<1>1. /\ UNCHANGED <<offers, apps, desk, confused>>
      /\ stranded' = stranded \cup OwnOf({"proposed", "installing", "installed"})
  BY DEF PageReload, channelVars
<1>2. SwapApps' = SwapApps /\ LetGo \subseteq LetGo' BY <1>1 DEF SwapApps, LetGo
<1>3. \A c \in Swappers : \A id : HeldBy(id, c) => id \in LetGo'
  BY <1>1 DEF HeldBy, OwnOf, LetGo
<1> QED BY <1>2, <1>3, SwapsStay

LEMMA SwapsReplaced ==
  ASSUME Typed, SwapsHeld, OffersSame, Replaced
  PROVE  SwapsHeld'
<1>1. \A c \in Swappers : call'[c] = call[c] \/ call[c].at \notin Open
  BY BooksUse DEF Replaced, Open, Ended
<1> QED BY <1>1, SwapsSame DEF OffersSame, LetGo

LEMMA SwapsNext ==
  ASSUME Typed, Books, SwapsHeld, [Next]_vars
  PROVE  SwapsHeld'
<1>1. CASE UNCHANGED vars
  <2>1. UNCHANGED callVars BY <1>1 DEF vars
  <2> QED BY <2>1, CallVarsSame, SwapsReplaced DEF Replaced
<1>2. CASE DepositStep \/ \E w \in Withdrawers : WithdrawStep(w)
  BY <1>2, SwapsReplaced
  DEF DepositStep, WithdrawStep, hubVars, swapVars, historyVars, OffersSame, Replaced
<1>3. CASE (\E j \in Jobs : JobStep(j)) \/ PollerStep \/ CashoutStep \/ UserStep \/ TipsStep
           \/ PaymentStep \/ CardStep
  BY <1>3, SwapsReplaced, JobReplaced, PollerReplaced, CashoutReplaced, UserReplaced, TipsReplaced,
     PaymentReplaced, CardReplaced
<1> QED BY <1>1, <1>2, <1>3, SwapsCaller, SwapsHub, SwapsReclaims, SwapsTrouble, SwapsReload DEF Next

\* The stakes of a swap come back: a swap that is installed, or that the hub may
\* still install, has a call that will uninstall it, or is one of those let go: by
\* a failed uninstallation, a page loaded again, or an appId written over
\* (SwapController.swap). The invariant says more than the property: the call
\* listens, and for that very id.
THEOREM StakesComeBackAlways == Spec => []StakesComeBack
<1> DEFINE Inv == Typed /\ Books /\ SwapsHeld
<1>1. Init => Inv
  <2> SUFFICES ASSUME Init PROVE Inv OBVIOUS
  <2>1. DOMAIN apps = {} /\ DOMAIN desk = {} BY DEF Init, ClientCallsInit
  <2>2. SwapsHeld BY <2>1 DEF SwapsHeld, SwapApps
  <2> QED BY <2>2, TypedInit, BooksInit
<1>2. Inv /\ [Next]_vars => Inv' BY TypedNext, BooksNext, SwapsNext
<1>3. Inv => StakesComeBack
  BY DEF SwapsHeld, LetGo, HeldBy, StakesComeBack, OwnOf
<1> QED BY <1>1, <1>2, <1>3, PTL DEF Spec

-----------------------------------------------------------------------------
(***************************************************************************)
(* The cards. What the send card shows is an app of the channel; the        *)
(* redeem card has its success from a payment to this channel only.         *)
(***************************************************************************)

LEMMA KeptStays ==
  ASSUME Typed, Books, [Next]_vars, NEW id, Kept(id)
  PROVE  Kept(id)'
<1>1. ASSUME UNCHANGED <<apps, confused, preImage>> PROVE Kept(id)'
  BY <1>1 DEF Kept, Secrets
<1>2. CASE \E c \in Callers : CallerStep(c)
  <2>1. PICK c \in Callers : CallerStep(c) BY <1>2
  <2>2. confused \subseteq confused'
    BY <2>1, ReadFromDoes, ReadToDoes, PlainStepDoes, ProposeDoes, AwaitInstallDoes, UninstallSwapDoes
    DEF CallerStep, Others
  <2>3. apps' = apps \/ apps' = Without(apps, appId["swap"])
    BY <2>1, ReadFromDoes, ReadToDoes, PlainStepDoes, ProposeDoes, AwaitInstallDoes, UninstallSwapDoes
    DEF CallerStep, Others
  <2>4. Secrets("taken") \subseteq Secrets("taken")'
    <3>1. CASE preImage' = preImage BY <3>1 DEF Secrets
    <3>2. CASE CheckFunds(c) \/ CheckSwap(c) \/ TooLong(c) \/ TransferEnds(c, send.pc = "p2p")
      BY <3>2, BooksTells, TakenStays DEF Books
    <3> QED BY <2>1, <3>1, <3>2, ReadFromDoes, ReadToDoes, ProposeDoes, AwaitInstallDoes,
               UninstallSwapDoes
        DEF CallerStep
  <2>5. CASE apps' = apps BY <2>2, <2>4, <2>5 DEF Kept
  <2>6. CASE id \in confused \cup Secrets("taken") BY <2>2, <2>4, <2>6 DEF Kept
  <2>7. CASE id \notin confused \cup Secrets("taken") /\ apps' = Without(apps, appId["swap"])
    <3>1. id \in DOMAIN apps /\ apps[id].kind = "transfer" BY <2>7 DEF Kept
    <3>2. id # appId["swap"] BY <2>7, <3>1 DEF Books, SharedId
    <3> QED BY <2>7, <3>1, <3>2 DEF Kept, Without
  <2> QED BY <2>3, <2>5, <2>6, <2>7
<1>3. CASE HubStep
  <2>1. PICK x \in 1..numApps : \/ verifyAppProposal(x) \/ HubInstalls(x)
                                \/ HubRejects(x) \/ resolveInstallTransfer(x)
    BY <1>3 DEF HubStep
  <2>2. UNCHANGED <<confused, preImage>>
    BY <2>1, VerifyDoes, HubInstallsDoes, HubRejectsDoes, ResolveTransferDoes
  <2>3. apps' = apps \/ (x \notin DOMAIN apps /\ apps' = With(apps, x, offers[x]))
    BY <2>1, VerifyDoes, HubInstallsDoes, HubRejectsDoes, ResolveTransferDoes, BooksUse
  <2> QED BY <1>1, <2>2, <2>3 DEF Kept, With, Secrets
<1>4. CASE Trouble
  BY <1>1, <1>4, ProtocolFailsDoes
  DEF Trouble, callVars, channelVars, hubVars, historyVars, HubRestarts, getSwapRate
<1>5. CASE PageReload BY <1>1, <1>5 DEF PageReload, channelVars
<1>6. CASE DepositStep \/ \E w \in Withdrawers : WithdrawStep(w)
  BY <1>1, <1>6 DEF DepositStep, WithdrawStep, hubVars, historyVars
<1>7. CASE (\E j \in Jobs : JobStep(j)) \/ PollerStep \/ CashoutStep \/ UserStep \/ TipsStep
           \/ PaymentStep \/ CardStep
  <2>1. OffersSame
    BY <1>7, JobReplaced, PollerReplaced, CashoutReplaced, UserReplaced, TipsReplaced,
       PaymentReplaced, CardReplaced
  <2> QED BY <1>1, <2>1 DEF OffersSame
<1>8. CASE HubReclaims
  <2>1. confused' = confused BY <1>8, HubReclaimsDoes
  <2>2. PICK x \in DOMAIN preImage :
          \/ /\ preImage[x] = "told" /\ apps' = apps
             /\ preImage' = [preImage EXCEPT ![x] = "shown"]
          \/ /\ preImage[x] = "shown" /\ apps' = Without(apps, x)
             /\ preImage' = [preImage EXCEPT ![x] = "taken"]
    BY <1>8, HubReclaimsDoes
  <2>3. /\ Secrets("taken") \subseteq Secrets("taken")'
        /\ id \in DOMAIN apps =>
             (id \in DOMAIN apps' /\ apps'[id] = apps[id]) \/ id \in Secrets("taken")'
    BY <2>2 DEF Without, Secrets
  <2> QED BY <2>1, <2>3 DEF Kept
<1>9. CASE UNCHANGED vars BY <1>1, <1>9 DEF vars, callVars, channelVars, hubVars, historyVars
<1> QED BY <1>2, <1>3, <1>4, <1>5, <1>6, <1>7, <1>8, <1>9 DEF Next

\* What the send card says, and what the redeem card does.
SendShown == send.state \in {"successP2p", "successLink"} => Kept(send.own)
RedeemStates == {"idle", "checking", "ready", "invalid"} \cup Modal
RedeemPcs == {"off", "collateral", "redeem", "resolve", "paid", "failed", "already"}
RedeemOK == redeem \in [state : RedeemStates, pc : RedeemPcs]
Redeeming ==
  /\ RedeemOK
  /\ redeem.pc = "paid" => link = "mine"
  /\ redeem.state = "success" => link = "mine"

\* Most steps are not of the cards.
LEMMA CardsSame ==
  ASSUME [Next]_vars
  PROVE  CardStep \/ PageReload \/ UNCHANGED cardVars
BY DEF Next, CallerStep, HubStep, HubReclaims, DepositStep, WithdrawStep, Trouble, JobStep, PollerStep,
       CashoutStep, UserStep, TipsStep, PaymentStep, vars

LEMMA SendShownNext ==
  ASSUME Typed, Books, SendShown, [Next]_vars
  PROVE  SendShown'
<1>0. SendOK BY DEF Typed, Carding, SendOK
<1>1. \A id : Kept(id) => Kept(id)' BY KeptStays
<1>2. ASSUME send' = send PROVE SendShown' BY <1>1, <1>2 DEF SendShown
<1>3. ASSUME send'.state \notin {"successP2p", "successLink"} PROVE SendShown'
  BY <1>3 DEF SendShown
<1>4. CASE UNCHANGED cardVars BY <1>2, <1>4 DEF cardVars
<1>5. CASE PageReload BY <1>3, <1>5 DEF PageReload, NotSending
<1>6. CASE CardStep
  <2>1. CASE paymentHandler \/ linkHandler
    BY <1>3, <2>1 DEF paymentHandler, linkHandler, Pay
  <2>2. CASE GiveUp
    <3>1. send' = [send EXCEPT !.pc = "off", !.state = "error"] BY <2>2 DEF GiveUp
    <3>2. send'.state = "error" BY <1>0, <3>1 DEF SendOK
    <3> QED BY <1>3, <3>2
  <2>3. CASE closeModal BY <1>3, <2>3 DEF closeModal, NotSending
  <2>4. CASE TryTransfer
    <3>1. send' = [send EXCEPT !.tries = @ + 1] BY <2>4, TryTransferDoes
    <3>2. send'.state = send.state /\ send'.own = send.own BY <1>0, <3>1 DEF SendOK
    <3> QED BY <1>1, <3>2 DEF SendShown
  <2>5. CASE TransferDone
    <3>1. /\ call["send"].at = "returned"
          /\ send' = [send EXCEPT !.pc = "off", !.own = call["send"].own,
                       !.state = IF send.pc = "p2p" THEN "successP2p" ELSE "successLink"]
      BY <2>5 DEF TransferDone
    <3>2. send'.own = call["send"].own BY <1>0, <3>1 DEF SendOK
    <3>3. call["send"] # Idle BY <3>1 DEF Idle
    <3>4. Kept(call["send"].own) BY <3>1, <3>3, SendCard DEF Books, Transfers, Sent
    <3> QED BY <1>1, <3>2, <3>4 DEF SendShown
  <2>6. CASE \/ RedeemedElsewhere \/ CheckLink \/ LinkChecked \/ Confirm \/ GoBack \/ redeemPayment
             \/ RedeemAfterCollateral \/ Redeemed \/ BackdropClick \/ TransferThrew
             \/ LinkCollateral \/ HubResolves
    BY <1>2, <2>6 DEF RedeemedElsewhere, CheckLink, LinkChecked, Confirm, GoBack, redeemPayment,
       RedeemAfterCollateral, Redeemed, BackdropClick, TransferThrew, LinkCollateral, HubResolves
  <2> QED BY <1>6, <2>1, <2>2, <2>3, <2>4, <2>5, <2>6 DEF CardStep
<1> QED BY <1>4, <1>5, <1>6, CardsSame

\* The machine of the redeem card gets to its success by that event only.
LEMMA HearsIs ==
  ASSUME RedeemOK, NEW event, NEW pc \in RedeemPcs
  PROVE  /\ [Hears(event) EXCEPT !.pc = pc] \in [state : RedeemStates, pc : RedeemPcs]
         /\ [Hears(event) EXCEPT !.pc = pc].pc = pc
         /\ Hears(event) \in [state : RedeemStates, pc : RedeemPcs]
         /\ Hears(event).pc = redeem.pc
         /\ Hears(event).state = "success" => redeem.state = "success" \/ event = "SUCCESS"
         /\ [Hears(event) EXCEPT !.pc = pc].state = "success" =>
              redeem.state = "success" \/ event = "SUCCESS"
<1> DEFINE to ==
        CASE redeem.state = "checking" /\ event = "VALIDATE" -> "ready"
          [] redeem.state = "checking" /\ event = "INVALIDATE" -> "invalid"
          [] redeem.state = "confirm" /\ event = "COLLATERALIZE" -> "collateralizing"
          [] redeem.state \in {"confirm", "collateralizing"} /\ event = "REDEEM"
               -> "redeeming"
          [] redeem.state \in {"collateralizing", "redeeming"} /\ event = "ERROR"
               -> "modal error"
          [] redeem.state = "redeeming" /\ event = "SUCCESS" -> "success"
          [] OTHER -> redeem.state
<1>1. to \in RedeemStates /\ (to = "success" => redeem.state = "success" \/ event = "SUCCESS")
  BY DEF RedeemOK, RedeemStates, Modal
<1>2. Hears(event) = [redeem EXCEPT !.state = to] BY DEF Hears
<1> HIDE DEF to
<1>3. /\ Hears(event) \in [state : RedeemStates, pc : RedeemPcs]
      /\ Hears(event).state = to /\ Hears(event).pc = redeem.pc
  BY <1>1, <1>2 DEF RedeemOK
<1> DEFINE r == Hears(event)
<1> HIDE DEF r
<1>4. [r EXCEPT !.pc = pc] \in [state : RedeemStates, pc : RedeemPcs]
      /\ [r EXCEPT !.pc = pc].state = r.state /\ [r EXCEPT !.pc = pc].pc = pc
  BY <1>3 DEF r
<1> QED BY <1>1, <1>3, <1>4 DEF r

\* A step of the redeem card that leaves the link alone.
LEMMA RedeemMoves ==
  ASSUME Redeeming, link' = link, NEW event, NEW pc \in RedeemPcs, event # "SUCCESS", pc # "paid",
         \/ redeem' = Hears(event) /\ redeem.pc # "paid"
         \/ redeem' = [Hears(event) EXCEPT !.pc = pc]
  PROVE  Redeeming'
<1>1. RedeemOK BY DEF Redeeming
<1> DEFINE r == Hears(event)
           q == [Hears(event) EXCEPT !.pc = pc]
<1>2. /\ r \in [state : RedeemStates, pc : RedeemPcs] /\ r.pc = redeem.pc
      /\ r.state = "success" => redeem.state = "success"
  BY <1>1, HearsIs
<1>3. /\ q \in [state : RedeemStates, pc : RedeemPcs] /\ q.pc = pc
      /\ q.state = "success" => redeem.state = "success"
  BY <1>1, HearsIs
<1>4. (redeem' = r /\ redeem.pc # "paid") \/ redeem' = q OBVIOUS
<1> HIDE DEF r, q
<1>5. /\ redeem' \in [state : RedeemStates, pc : RedeemPcs] /\ redeem'.pc # "paid"
      /\ redeem'.state = "success" => redeem.state = "success"
  BY <1>2, <1>3, <1>4
<1> QED BY <1>5 DEF Redeeming, RedeemOK

LEMMA RedeemingNext ==
  ASSUME Typed, Redeeming, [Next]_vars
  PROVE  Redeeming'
<1>0. RedeemOK /\ redeem.state \in RedeemStates /\ redeem.pc \in RedeemPcs
  BY DEF Redeeming, RedeemOK
<1>1. ASSUME UNCHANGED <<redeem, link>> PROVE Redeeming' BY <1>1 DEF Redeeming, RedeemOK
<1>2. ASSUME link' = link, NEW s \in RedeemStates, s # "success",
             redeem' = [redeem EXCEPT !.state = s]
      PROVE  Redeeming'
  <2>1. /\ redeem' \in [state : RedeemStates, pc : RedeemPcs]
        /\ redeem'.state = s /\ redeem'.pc = redeem.pc
    BY <1>0, <1>2 DEF RedeemOK
  <2> QED BY <1>2, <2>1 DEF Redeeming, RedeemOK
<1>3. CASE UNCHANGED cardVars BY <1>1, <1>3 DEF cardVars
<1>4. CASE PageReload
  <2>1. redeem' = NotRedeeming BY <1>4 DEF PageReload
  <2> QED BY <2>1 DEF Redeeming, RedeemOK, NotRedeeming, RedeemStates, RedeemPcs
<1>5. CASE CardStep
  <2>1. CASE paymentHandler \/ linkHandler BY <1>1, <2>1 DEF paymentHandler, linkHandler, Pay
  <2>2. CASE GiveUp \/ closeModal \/ TryTransfer \/ TransferDone \/ TransferThrew
    BY <1>1, <2>2 DEF GiveUp, closeModal, TryTransfer, TransferDone, TransferThrew
  <2>3. CASE CheckLink
    BY <1>2, <2>3 DEF CheckLink, RedeemStates
  <2>4. CASE Confirm
    BY <1>2, <2>4 DEF Confirm, RedeemStates, Modal
  <2>5. CASE GoBack
    BY <1>2, <2>5 DEF GoBack, RedeemStates
  <2>6. CASE BackdropClick
    BY <1>2, <2>6 DEF BackdropClick, RedeemStates
  <2>7. CASE LinkChecked
    <3>1. redeem.state = "checking" /\ link' = link
          /\ redeem' = Hears(IF link = "PENDING" THEN "VALIDATE" ELSE "INVALIDATE")
      BY <2>7 DEF LinkChecked
    <3>2. redeem' = [redeem EXCEPT !.state = IF link = "PENDING" THEN "ready" ELSE "invalid"]
      BY <3>1 DEF Hears
    <3>3. (IF link = "PENDING" THEN "ready" ELSE "invalid") \in RedeemStates \ {"success"}
      BY DEF RedeemStates
    <3> QED BY <1>2, <3>1, <3>2, <3>3
  <2>8. CASE redeemPayment
    <3>1. link' = link /\ \/ redeem' = [Hears("COLLATERALIZE") EXCEPT !.pc = "collateral"]
                          \/ redeem' = [Hears("REDEEM") EXCEPT !.pc = "resolve"]
      BY <2>8 DEF redeemPayment
    <3>2. "collateral" \in RedeemPcs /\ "resolve" \in RedeemPcs BY DEF RedeemPcs
    <3> QED BY <3>1, <3>2, RedeemMoves
  <2>9. CASE RedeemAfterCollateral
    <3>1. link' = link /\ redeem' = [Hears("REDEEM") EXCEPT !.pc = "resolve"]
      BY <2>9 DEF RedeemAfterCollateral
    <3>2. "resolve" \in RedeemPcs BY DEF RedeemPcs
    <3> QED BY <3>1, <3>2, RedeemMoves
  <2>10. CASE LinkCollateral
    <3>1. link' = link /\ \/ redeem' = [redeem EXCEPT !.pc = "redeem"]
                          \/ redeem' = [Hears("ERROR") EXCEPT !.pc = "redeem"]
      BY <2>10 DEF LinkCollateral
    <3>2. "redeem" \in RedeemPcs BY DEF RedeemPcs
    <3>3. CASE redeem' = [redeem EXCEPT !.pc = "redeem"]
      <4>1. /\ redeem' \in [state : RedeemStates, pc : RedeemPcs]
            /\ redeem'.state = redeem.state /\ redeem'.pc = "redeem"
        BY <1>0, <3>2, <3>3 DEF RedeemOK
      <4> QED BY <3>1, <4>1 DEF Redeeming, RedeemOK
    <3> QED BY <3>1, <3>2, <3>3, RedeemMoves
  <2>11. CASE HubResolves
    <3>1. PICK pc \in RedeemPcs : redeem' = [redeem EXCEPT !.pc = pc]
                                  /\ \/ link' = "mine"
                                     \/ link' = link /\ pc # "paid"
      BY <2>11 DEF HubResolves, RedeemPcs
    <3>2. /\ redeem' \in [state : RedeemStates, pc : RedeemPcs]
          /\ redeem'.state = redeem.state /\ redeem'.pc = pc
      BY <1>0, <3>1 DEF RedeemOK
    <3> QED BY <3>1, <3>2 DEF Redeeming, RedeemOK
  <2>12. CASE Redeemed
    <3>1. link' = link /\ "off" \in RedeemPcs BY <2>12 DEF Redeemed, RedeemPcs
    <3>2. CASE redeem.pc = "paid"
      <4>1. redeem' = [Hears("SUCCESS") EXCEPT !.pc = "off"] BY <2>12, <3>2 DEF Redeemed
      <4>2. redeem' \in [state : RedeemStates, pc : RedeemPcs] /\ link = "mine"
        BY <1>0, <3>1, <3>2, <4>1, HearsIs DEF Redeeming
      <4> QED BY <3>1, <4>2 DEF Redeeming, RedeemOK
    <3>3. CASE redeem.pc = "failed"
      <4>1. redeem' = [Hears("ERROR") EXCEPT !.pc = "off"] BY <2>12, <3>3 DEF Redeemed
      <4> QED BY <3>1, <4>1, RedeemMoves
    <3>4. CASE redeem.pc = "already"
      <4>1. redeem' = [Hears("INVALIDATE") EXCEPT !.pc = "off"] BY <2>12, <3>4 DEF Redeemed
      <4> QED BY <3>1, <4>1, RedeemMoves
    <3> QED BY <2>12, <3>2, <3>3, <3>4 DEF Redeemed
  <2>13. CASE RedeemedElsewhere
    <3>1. redeem' = redeem /\ link = "PENDING" BY <2>13 DEF RedeemedElsewhere
    <3> QED BY <3>1 DEF Redeeming, RedeemOK
  <2> QED BY <1>5, <2>1, <2>2, <2>3, <2>4, <2>5, <2>6, <2>7, <2>8, <2>9, <2>10, <2>11, <2>12, <2>13
         DEF CardStep
<1> QED BY <1>3, <1>4, <1>5, CardsSame

\* What the send and redeem cards show of a payment is so, however many attempts
\* timed out before, and whichever handler the redeem card's machine hears of it
\* from (sendCard.js, redeemCard.js).
THEOREM PaidAsShownAlways == Spec => []PaidAsShown
<1> DEFINE Inv == Typed /\ Books /\ SendShown /\ Redeeming
<1>1. Init => Inv
  <2> SUFFICES ASSUME Init PROVE Inv OBVIOUS
  <2>1. send = NotSending /\ redeem = NotRedeeming BY DEF Init, CardsInit
  <2>2. SendShown BY <2>1 DEF SendShown, NotSending
  <2>3. Redeeming BY <2>1 DEF Redeeming, RedeemOK, NotRedeeming, RedeemStates, RedeemPcs
  <2> QED BY <2>2, <2>3, TypedInit, BooksInit
<1>2. Inv /\ [Next]_vars => Inv'
  BY TypedNext, BooksNext, SendShownNext, RedeemingNext
<1>3. Inv => PaidAsShown
  BY DEF SendShown, Redeeming, PaidAsShown, Kept
<1> QED BY <1>1, <1>2, <1>3, PTL DEF Spec

-----------------------------------------------------------------------------
(***************************************************************************)
(* The cash-out. While one is under way that had nothing to note when it    *)
(* began, the others are held back (WalletHeld, CallsHeld) and what it is   *)
(* about to ask for is there (Enough): every step but one of its own keeps  *)
(* these, and it begins when they hold.                                     *)
(***************************************************************************)

\* A job that has a swap or deposit under way, or will begin one without looking.
Holding(j) ==
  \/ job[j].pc \in {"collateral", "swapping", "depositingTokens", "depositingEther", "ether too"}
  \/ job[j].pc \in {"ether", "tokens", "show"} /\ job[j].then = "ether too"

\* Nothing but the cash-out moves what it is about to ask for: the state machine
\* holds the jobs back, and the cards and the SAI are out of use.
WalletHeld ==
  /\ root = "ready" /\ region["withdraw"] = "pending"
  /\ tips.pc = "off" /\ send.pc = "off"
  /\ plan.clicks \cap {"buyTips", "sellTips", "p2p", "link"} = {}
  /\ \A w \in Withdrawers \ {"cashout"} : withdrawal[w] = Idle
  /\ \A j \in Jobs \ {"cashout"} : ~Holding(j)

\* The hub considers no offer but that of the cash-out's swap.
CallsHeld ==
  /\ \A c \in Callers \ Jobs : call[c] = Idle
  /\ \A id \in DOMAIN desk :
       /\ id = call["cashout"].own
       /\ \/ call["cashout"].at = "proposed"
          \/ call["cashout"].at = "installing" /\ appId["swap"] = id

\* What the cash-out is about to ask for is there.
Enough ==
  LET c == job["cashout"]
      w == withdrawal["cashout"]
      s == call["cashout"]
  IN /\ c.pc \in {"collateral", "collateralized"} => shown.dai <= bal["dai"].user
     /\ c.pc \in {"tokens", "show"} => c.eth = bal["eth"].user
     /\ c.pc = "withdrawEther" => shown.eth = bal["eth"].user
     /\ w.at \in {"reading", "committing"} =>
          IF w.asset = "eth" THEN w.amount = bal["eth"].user ELSE w.amount <= bal["dai"].user
     /\ s.at = "from" => s.pays <= bal["dai"].user

CashingOut == late = {} /\ job["cashout"] # NoJob => WalletHeld /\ CallsHeld /\ Enough

\* Only the cash-out and the SAI are withdrawn.
OthersIdle == \A w \in Withdrawers \ {"cashout", "sai"} : withdrawal[w] = Idle

LEMMA HeldKept ==
  ASSUME WalletHeld, root' = root, region'["withdraw"] = region["withdraw"],
         tips'.pc = tips.pc, send'.pc = send.pc, plan'.clicks \subseteq plan.clicks,
         \A w \in Withdrawers \ {"cashout"} : withdrawal'[w] = withdrawal[w],
         \A j \in Jobs \ {"cashout"} : ~Holding(j)'
  PROVE  WalletHeld'
BY DEF WalletHeld

LEMMA CallsKept ==
  ASSUME CallsHeld, UNCHANGED <<call, appId>>, DOMAIN desk' \subseteq DOMAIN desk
  PROVE  CallsHeld'
BY DEF CallsHeld

LEMMA EnoughKept ==
  ASSUME Typed, Enough, job'["cashout"] = job["cashout"], shown' = shown,
         bal' \in [Assets -> [Parties -> Nat]],
         bal'["eth"].user = bal["eth"].user, bal'["dai"].user >= bal["dai"].user,
         withdrawal'["cashout"] = withdrawal["cashout"], call'["cashout"] = call["cashout"]
  PROVE  Enough'
<1>1. /\ bal["dai"].user \in Nat /\ bal'["dai"].user \in Nat /\ shown.dai \in Nat
  BY DEF Typed, Amounts, Shown, Assets, Parties
<1>2. withdrawal["cashout"].at \in {"reading", "committing"} => withdrawal["cashout"].amount \in Nat
  BY PartsOfTheWallet DEF Typed, Calls, Withdrawal, Idle
<1>3. call["cashout"].at = "from" => call["cashout"].pays \in Nat
  BY PartsOfTheWallet DEF Typed, Calls, CallsAre, Call, Idle, Callers, Jobs
<1>4. \A n \in Nat : n <= bal["dai"].user => n <= bal'["dai"].user BY <1>1
<1> QED BY <1>1, <1>2, <1>3, <1>4 DEF Enough

\* While the cash-out swaps, or only waits for its withdrawal, nothing is to be had.
LEMMA EnoughSwapping ==
  ASSUME Typed', job'["cashout"].pc = "swapping", call'["cashout"].at # "from"
  PROVE  Enough'
<1>1. withdrawal'["cashout"] = Idle BY DEF Typed, Waited
<1> QED BY <1>1 DEF Enough, Idle

\* What holds while the cash-out holds the others back.
LEMMA OthersWait ==
  ASSUME Typed, WalletHeld, CallsHeld
  PROVE  /\ \A c \in Callers \ {"cashout"} : call[c] = Idle
         /\ deposit = Idle
         /\ call["cashout"] # Idle =>
              job["cashout"].pc = "swapping" /\ withdrawal["cashout"] = Idle
         /\ DOMAIN desk # {} => call["cashout"] # Idle
<1>1. \A j \in Jobs \ {"cashout"} : call[j] = Idle BY DEF WalletHeld, Holding, Typed, Waited
<1>2. deposit = Idle BY DEF WalletHeld, Holding, Typed, Waited, Depositing, Jobs
<1>3. call["cashout"] # Idle => job["cashout"].pc = "swapping" BY DEF Typed, Waited, Jobs
<1>4. call["cashout"] # Idle => withdrawal["cashout"] = Idle BY <1>3 DEF Typed, Waited
<1>5. DOMAIN desk # {} => call["cashout"] # Idle BY DEF CallsHeld, Idle
<1> QED BY <1>1, <1>2, <1>3, <1>4, <1>5 DEF CallsHeld

\* Whether a job holds does not depend on the others.
LEMMA HoldingSame ==
  ASSUME \A j \in Jobs \ {"cashout"} : job'[j] = job[j], WalletHeld
  PROVE  \A j \in Jobs \ {"cashout"} : ~Holding(j)'
BY DEF WalletHeld, Holding

LEMMA HeldWalletSame ==
  ASSUME WalletSame, AsideSame, WalletHeld
  PROVE  WalletHeld' /\ job' = job /\ late' = late
<1>1. \A j \in Jobs \ {"cashout"} : ~Holding(j)' BY HoldingSame DEF WalletSame
<1> QED BY <1>1, HeldKept DEF WalletSame, AsideSame

LEMMA HeldCaller ==
  ASSUME Typed, Typed', Books, WalletHeld, CallsHeld, Enough, NEW c \in Callers, CallerStep(c)
  PROVE  WalletHeld' /\ CallsHeld' /\ Enough'
<1>1. WalletSame /\ AsideSame
  BY DEF CallerStep, walletVars, cardVars, WalletSame, AsideSame
<1>2. WalletHeld' /\ job' = job BY <1>1, HeldWalletSame
<1>3. StepOf(c) /\ call[c] \in Call /\ call'[c] \in Call
      /\ (call[c].at = "installed" \/ call'[c].at # "from")
      /\ call'[c].at # "from"
  <2>1. CASE ReadFrom(c) BY <2>1, ReadFromDoes
  <2>2. CASE ReadTo(c) BY <2>2, ReadToDoes
  <2>3. CASE CheckFunds(c) \/ CheckSwap(c) \/ TooLong(c) \/ TransferEnds(c, send.pc = "p2p")
    BY <2>3, PlainStepDoes DEF Ended
  <2>4. CASE Propose(c) BY <2>4, ProposeDoes
  <2>5. CASE AwaitInstall(c) BY <2>5, AwaitInstallDoes
  <2>6. CASE UninstallSwap(c) BY <2>6, UninstallSwapDoes
  <2> QED BY <2>1, <2>2, <2>3, <2>4, <2>5, <2>6 DEF CallerStep
<1>4. c = "cashout" /\ call["cashout"] # Idle BY <1>3, OthersWait DEF Call, Idle
<1>5. job'["cashout"].pc = "swapping" BY <1>2, <1>4, OthersWait
<1>6. Enough' BY <1>3, <1>4, <1>5, EnoughSwapping
<1>7. Callers \ Jobs \subseteq Callers \ {c} /\ Kind(c) = "swap" BY <1>4, PartsOfTheWallet DEF Jobs, Kind
<1>8. \A d \in Callers \ Jobs : call'[d] = Idle BY <1>3, <1>7 DEF StepOf, CallsHeld
<1>9. \A id \in DOMAIN desk' :
        /\ id = call'[c].own
        /\ \/ call'[c].at = "proposed"
           \/ call'[c].at = "installing" /\ appId'["swap"] = id
  <2>0. ASSUME DOMAIN desk # {} PROVE call[c].at \in {"proposed", "installing"}
    BY <1>4, <2>0 DEF CallsHeld
  <2>1. CASE ReadFrom(c)
    <3>1. DOMAIN desk = {} /\ desk' = desk BY <2>0, <2>1, ReadFromDoes DEF Others
    <3> QED BY <3>1
  <2>2. CASE ReadTo(c)
    <3>1. DOMAIN desk = {} /\ desk' = desk BY <2>0, <2>2, ReadToDoes DEF Others
    <3> QED BY <3>1
  <2>3. CASE CheckFunds(c) \/ CheckSwap(c) \/ TooLong(c) \/ TransferEnds(c, send.pc = "p2p")
    <3>1. DOMAIN desk = {} /\ desk' = desk BY <1>7, <2>0, <2>3, PlainStepDoes DEF Others
    <3> QED BY <3>1
  <2>4. CASE Propose(c)
    <3>1. DOMAIN desk = {} BY <2>0, <2>4, ProposeDoes
    <3>2. desk' = With(desk, numApps + 1, "asked") /\ call'[c].own = numApps + 1
          /\ call'[c].at = "proposed"
      BY <2>4, ProposeDoes
    <3>3. DOMAIN desk' = {numApps + 1} BY <3>1, <3>2 DEF With
    <3> QED BY <3>2, <3>3
  <2>5. CASE AwaitInstall(c)
    <3>1. /\ call[c].at = "proposed" /\ call'[c].own = call[c].own
          /\ UNCHANGED <<offers, numApps, desk>>
      BY <2>5, AwaitInstallDoes
    <3>2. call[c].own = numApps BY <1>4, <3>1 DEF Books, Proposals, Asked
    <3>3. \A id \in DOMAIN desk : id = numApps BY <1>4, <3>2 DEF CallsHeld
    <3>4. DOMAIN desk \subseteq DOMAIN offers /\ DOMAIN offers \subseteq 1..numApps /\ numApps \in Nat
          /\ appId \in [Kinds -> 0..numApps]
      BY DEF Typed, Ids
    <3>5. CASE DOMAIN offers = {} BY <3>1, <3>4, <3>5
    <3>6. CASE /\ call'[c].at = "installing" /\ call'[c].id \in DOMAIN offers
               /\ \A x \in DOMAIN offers : x <= call'[c].id
               /\ appId' = [appId EXCEPT ![Kind(c)] = call'[c].id]
      <4>1. appId'["swap"] = call'[c].id BY <1>7, <3>4, <3>6 DEF Kinds
      <4>2. ASSUME NEW id \in DOMAIN desk PROVE id = call'[c].id
        <5>1. id = numApps /\ id <= call'[c].id /\ call'[c].id \in 1..numApps
          BY <3>3, <3>4, <3>6, <4>2
        <5> QED BY <3>4, <5>1
      <4> QED BY <3>1, <3>2, <3>3, <3>6, <4>1, <4>2
    <3> QED BY <2>5, <3>5, <3>6, AwaitInstallDoes
  <2>6. CASE UninstallSwap(c)
    <3>1. DOMAIN desk = {} /\ desk' = desk BY <2>0, <2>6, UninstallSwapDoes
    <3> QED BY <3>1
  <2> QED BY <2>1, <2>2, <2>3, <2>4, <2>5, <2>6 DEF CallerStep
<1> QED BY <1>2, <1>4, <1>6, <1>8, <1>9 DEF CallsHeld

LEMMA HeldHub ==
  ASSUME Typed, Typed', Books, WalletHeld, CallsHeld, Enough, HubStep
  PROVE  WalletHeld' /\ CallsHeld' /\ Enough'
<1>1. WalletSame /\ AsideSame
  BY DEF HubStep, walletVars, cardVars, WalletSame, AsideSame
<1>2. WalletHeld' /\ job' = job BY <1>1, HeldWalletSame
<1>0. bal' \in [Assets -> [Parties -> Nat]] /\ bal \in [Assets -> [Parties -> Nat]]
  BY DEF Typed, Amounts
<1>3. PICK id \in 1..numApps : \/ verifyAppProposal(id) \/ HubInstalls(id)
                               \/ HubRejects(id) \/ resolveInstallTransfer(id)
  BY DEF HubStep
<1>4. ASSUME DOMAIN desk' = DOMAIN desk, UNCHANGED <<bal, appId, call>>
      PROVE  CallsHeld' /\ Enough'
  <2>1. CallsHeld' BY <1>4, CallsKept
  <2>2. shown' = shown /\ withdrawal' = withdrawal BY <1>1 DEF WalletSame, AsideSame
  <2>3. bal["dai"].user \in Nat /\ bal'["dai"].user >= bal["dai"].user
    BY <1>0, <1>4 DEF Assets, Parties
  <2> QED BY <1>0, <1>2, <1>4, <2>1, <2>2, <2>3, EnoughKept
<1>5. ASSUME id \in DOMAIN desk, DOMAIN desk' = DOMAIN desk \ {id}, call'["cashout"].at # "from",
             \A c \in Callers \ Jobs : call[c] = Idle => call'[c] = Idle
      PROVE  CallsHeld' /\ Enough'
  <2>1. job["cashout"].pc = "swapping" BY <1>5, OthersWait
  <2>2. Enough' BY <1>2, <1>5, <2>1, EnoughSwapping
  <2>3. DOMAIN desk' = {} BY <1>5 DEF CallsHeld
  <2> QED BY <1>5, <2>2, <2>3 DEF CallsHeld
<1>6. "cashout" \in Callers BY PartsOfTheWallet DEF Callers, Jobs
<1>7. id \in DOMAIN desk => call["cashout"].at # "from" BY DEF CallsHeld
<1>8. CASE verifyAppProposal(id) BY <1>2, <1>4, <1>8, VerifyDoes
<1>9. CASE HubInstalls(id)
  <2>1. CASE UNCHANGED <<bal, call>> /\ DOMAIN desk' = DOMAIN desk
    BY <1>2, <1>4, <1>9, <2>1, HubInstallsDoes
  <2>2. CASE desk' = Without(desk, id)
             /\ Woken({c \in Ears \cap Swappers : appId["swap"] = id}, "installed")
    <3>1. id \in DOMAIN desk BY <1>9, HubInstallsDoes
    <3>2. DOMAIN desk' = DOMAIN desk \ {id} BY <2>2 DEF Without
    <3>3. call'["cashout"].at # "from" BY <1>6, <1>7, <2>2, <3>1 DEF Woken
    <3>4. \A c \in Callers \ Jobs : call[c] = Idle => call'[c] = Idle BY <2>2 DEF Woken
    <3> QED BY <1>2, <1>5, <3>1, <3>2, <3>3, <3>4
  <2> QED BY <1>9, <2>1, <2>2, HubInstallsDoes
<1>10. CASE HubRejects(id)
  <2>1. id \in DOMAIN desk /\ DOMAIN desk' = DOMAIN desk \ {id}
    BY <1>10, HubRejectsDoes DEF Without
  <2>2. PICK W : Woken(W, "threw") BY <1>10, HubRejectsDoes
  <2>3. call'["cashout"].at # "from" BY <1>6, <1>7, <2>1, <2>2 DEF Woken
  <2>4. \A c \in Callers \ Jobs : call[c] = Idle => call'[c] = Idle BY <2>2 DEF Woken
  <2> QED BY <1>2, <1>5, <2>1, <2>3, <2>4
<1>11. CASE resolveInstallTransfer(id)
  <2>1. UNCHANGED <<bal, desk, appId>> BY <1>11, ResolveTransferDoes
  <2>2. \A c \in Callers : call'[c] # call[c] => c \in Ears /\ c \in Senders
    BY <1>11, ResolveTransferDoes DEF Woken
  <2>3. \A c \in Senders : c \in Callers \ {"cashout"} BY PartsOfTheWallet, KindsDiffer DEF Callers, Jobs
  <2>4. \A c \in Callers : call'[c] = call[c] BY <2>2, <2>3, OthersWait DEF Ears, Idle
  <2>5. call' = call BY <2>4 DEF Typed, Calls, CallsAre
  <2> QED BY <1>2, <1>4, <2>1, <2>5
<1> QED BY <1>3, <1>8, <1>9, <1>10, <1>11

LEMMA HeldReclaims ==
  ASSUME Typed, Typed', WalletHeld, CallsHeld, Enough, HubReclaims
  PROVE  WalletHeld' /\ CallsHeld' /\ Enough'
<1>1. /\ WalletSame /\ AsideSame /\ UNCHANGED <<desk, appId, call>>
      /\ bal' \in [Assets -> [Parties -> Nat]]
      /\ \A a \in Assets : bal'[a].user = bal[a].user
  BY HubReclaimsDoes
<1>2. WalletHeld' /\ job' = job BY <1>1, HeldWalletSame
<1>3. CallsHeld' BY <1>1, CallsKept
<1>4. /\ bal'["eth"].user = bal["eth"].user /\ bal'["dai"].user >= bal["dai"].user
  BY <1>1 DEF Typed, Amounts, Assets, Parties
<1>5. shown' = shown /\ withdrawal' = withdrawal BY <1>1 DEF WalletSame, AsideSame
<1> QED BY <1>1, <1>2, <1>3, <1>4, <1>5, EnoughKept

LEMMA HeldWithdraw ==
  ASSUME Typed, Typed', WalletHeld, CallsHeld, Enough, NEW w \in Withdrawers, WithdrawStep(w)
  PROVE  WalletHeld' /\ CallsHeld' /\ Enough'
<1>1. /\ OffersSame /\ WalletSame /\ UNCHANGED <<call, deposit, chain>>
      /\ withdrawal[w] \in Withdrawal /\ withdrawal[w] # Idle
  BY WithdrawDoes
<1>2. w = "cashout" BY <1>1 DEF WalletHeld
<1>3. PICK at \in {"committing", "submitting"} \cup Ended, r \in Withdrawal :
        /\ r = [withdrawal[w] EXCEPT !.at = at]
        /\ withdrawal' = [withdrawal EXCEPT ![w] = r]
        /\ (at # "submitting" /\ bal' = bal) \/ at = "submitting"
  BY WithdrawDoes
<1>4. /\ \A v \in Withdrawers \ {"cashout"} : withdrawal'[v] = withdrawal[v]
      /\ withdrawal'[w] = r
  BY <1>2, <1>3 DEF Typed, Calls
<1>5. r.asset = withdrawal[w].asset /\ r.amount = withdrawal[w].amount /\ r.at = at
  BY <1>1, <1>3, WithdrawalMoved DEF Ended
<1>6. WalletHeld'
  <2>1. \A j \in Jobs \ {"cashout"} : ~Holding(j)' BY <1>1, HoldingSame DEF WalletSame
  <2> QED BY <1>1, <1>4, <2>1, HeldKept DEF WalletSame
<1>7. CallsHeld' BY <1>1, CallsKept DEF OffersSame
<1>8. job["cashout"].pc = "withdrawing" /\ job' = job
  BY <1>1, <1>2 DEF Typed, Waited, WalletSame
<1>9. call["cashout"] = Idle BY <1>8, NotWaiting DEF Jobs
<1>10. call'["cashout"].at # "from" BY <1>1, <1>9 DEF Idle
<1>11. r.at \in {"reading", "committing"} =>
         withdrawal[w].at \in {"reading", "committing"} /\ bal' = bal
  <2>1. r.at = "committing" => withdrawal[w].at = "reading"
    <3> SUFFICES ASSUME r.at = "committing" PROVE withdrawal[w].at = "reading" OBVIOUS
    <3>1. CASE ReadForWithdrawal(w) BY <3>1 DEF ReadForWithdrawal
    <3>2. CASE CommitWithdrawal(w)
      <4>1. \E x \in {"submitting", "threw"} : withdrawal' = [withdrawal EXCEPT ![w].at = x]
        BY <3>2 DEF CommitWithdrawal, Otherwise
      <4>2. withdrawal'[w].at \in {"submitting", "threw"} BY <1>1, <4>1 DEF Typed, Calls, Withdrawal
      <4> QED BY <1>4, <4>2
    <3>3. CASE WithdrawalEnds(w)
      <4>1. \E x \in {"returned", "threw"} : withdrawal' = [withdrawal EXCEPT ![w].at = x]
        BY <3>3 DEF WithdrawalEnds
      <4>2. withdrawal'[w].at \in {"returned", "threw"} BY <1>1, <4>1 DEF Typed, Calls, Withdrawal
      <4> QED BY <1>4, <4>2
    <3> QED BY <3>1, <3>2, <3>3 DEF WithdrawStep
  <2> QED BY <1>3, <1>5, <2>1 DEF Ended
<1>12. Enough' BY <1>2, <1>4, <1>5, <1>8, <1>10, <1>11 DEF Enough
<1> QED BY <1>6, <1>7, <1>12

LEMMA HeldTrouble ==
  ASSUME Typed, Typed', WalletHeld, CallsHeld, Enough, Trouble, job'["cashout"] # NoJob
  PROVE  WalletHeld' /\ CallsHeld' /\ Enough'
<1>0. bal' \in [Assets -> [Parties -> Nat]] /\ bal \in [Assets -> [Parties -> Nat]] /\ plan \in Plan
  BY DEF Typed, Amounts
<1>1. CASE (\E j \in Jobs : RefreshFails(j)) /\ UNCHANGED <<callVars, cardVars>>
  <2>1. PICK j \in Jobs : RefreshFails(j) BY <1>1
  <2>2. UNCHANGED callVars /\ UNCHANGED cardVars BY <1>1
  <2>3. OffersSame /\ UNCHANGED <<bal, chain, call, deposit, withdrawal>> BY <2>2, CallVarsSame
  <2>4. /\ plan' = [plan EXCEPT !.failures = @ - 1]
        /\ Moves(j, Dies(j)) /\ UNCHANGED <<root, region, swapRate, shown, tips>>
    BY <2>1 DEF RefreshFails
  <2>5. job'[j] = Dies(j) /\ \A k \in Jobs \ {j} : job'[k] = job[k]
    BY <2>4 DEF Moves, Typed, Jobbing
  <2>6. j # "cashout" /\ job'["cashout"] = job["cashout"] BY <2>5 DEF Dies, Jobs
  <2>7. Dies(j).pc \in {"off", "dead"} BY JobStateIs
  <2>8. \A k \in Jobs \ {"cashout"} : ~Holding(k)'
    BY <2>5, <2>7 DEF WalletHeld, Holding
  <2>9. plan'.clicks = plan.clicks BY <1>0, <2>4 DEF Plan
  <2>10. WalletHeld' BY <2>2, <2>3, <2>4, <2>8, <2>9, HeldKept DEF cardVars
  <2>11. CallsHeld' BY <2>3, CallsKept DEF OffersSame
  <2>12. bal'["dai"].user >= bal["dai"].user BY <1>0, <2>3 DEF Assets, Parties
  <2>13. Enough' BY <1>0, <2>3, <2>4, <2>6, <2>12, EnoughKept
  <2> QED BY <2>10, <2>11, <2>13
<1>2. CASE DepositFails
  <2>1. deposit = Idle BY OthersWait
  <2> QED BY <1>2, <2>1 DEF DepositFails, Idle
<1>4. CASE /\ plan' = [plan EXCEPT !.failures = @ - 1]
           /\ UNCHANGED <<root, region, swapRate, shown, job, tips, late, upset, cardVars>>
           /\ (\E w \in Withdrawers : CommitFails(w))
           /\ UNCHANGED <<offers, apps, numApps, hubVars, swapVars>>
  <2>1. PICK w \in Withdrawers : CommitFails(w) BY <1>4
  <2>2. PICK q \in Withdrawal :
          /\ withdrawal[w] \in Withdrawal /\ bal' = bal
          /\ q.at = "threw" /\ withdrawal' = [withdrawal EXCEPT ![w] = q]
    BY <2>1, CommitFailsDoes
  <2>3. w = "cashout" BY <2>2 DEF WalletHeld, Idle, Withdrawal
  <2>4. /\ \A v \in Withdrawers \ {"cashout"} : withdrawal'[v] = withdrawal[v]
        /\ withdrawal'["cashout"].at = "threw"
    BY <2>2, <2>3 DEF Typed, Calls
  <2>5. plan'.clicks = plan.clicks BY <1>0, <1>4 DEF Plan
  <2>6. \A j \in Jobs \ {"cashout"} : ~Holding(j)' BY <1>4, HoldingSame
  <2>7. WalletHeld' BY <1>4, <2>4, <2>5, <2>6, HeldKept DEF cardVars
  <2>8. UNCHANGED <<call, appId, desk>> BY <1>4 DEF hubVars, swapVars
  <2>9. CallsHeld' BY <2>8, CallsKept
  <2>10. Enough' BY <1>4, <2>2, <2>4, <2>8 DEF Enough
  <2> QED BY <2>7, <2>9, <2>10
<1>5. CASE /\ plan' = [plan EXCEPT !.failures = @ - 1]
           /\ UNCHANGED <<root, region, swapRate, shown, job, tips, late, upset, cardVars>>
           /\ (\E c \in Callers : ProtocolFails(c))
           /\ UNCHANGED <<chain, deposit, withdrawal>>
  <2>1. PICK c \in Callers : ProtocolFails(c) BY <1>5
  <2>2. /\ StepOf(c) /\ call[c] \in Call /\ call'[c].at = "threw" /\ UNCHANGED <<desk, appId>>
        /\ call[c].at \in {"locking", "installed"}
    BY <2>1, ProtocolFailsDoes
  <2>3. c = "cashout" /\ call["cashout"] # Idle BY <2>2, OthersWait DEF Call, Idle
  <2>4. job'["cashout"].pc = "swapping" BY <1>5, <2>3, OthersWait
  <2>5. Enough' BY <2>2, <2>3, <2>4, EnoughSwapping
  <2>6. plan'.clicks = plan.clicks BY <1>0, <1>5 DEF Plan
  <2>7. \A j \in Jobs \ {"cashout"} : ~Holding(j)' BY <1>5, HoldingSame
  <2>8. WalletHeld' BY <1>5, <2>6, <2>7, HeldKept DEF cardVars
  <2>9. DOMAIN desk = {} BY <2>2, <2>3 DEF CallsHeld
  <2>10. \A d \in Callers \ Jobs : call'[d] = Idle
    BY <2>2, <2>3, PartsOfTheWallet DEF StepOf, CallsHeld, Jobs
  <2>11. CallsHeld' BY <2>2, <2>9, <2>10 DEF CallsHeld
  <2> QED BY <2>5, <2>8, <2>11
<1>3. CASE /\ \/ Clicks("restart") /\ HubRestarts
              \/ \E rate \in plan.rates : /\ getSwapRate(rate)
                                          /\ plan' = [plan EXCEPT !.rates = @ \ {rate}]
           /\ UNCHANGED <<chain, deposit, withdrawal, root, region, swapRate, shown, job,
                          tips, late, upset, cardVars>>
  <2>1. UNCHANGED <<bal, appId, call>> /\ desk' \in {<<>>, desk}
    BY <1>3 DEF HubRestarts, getSwapRate, channelVars, swapVars
  <2>2. plan'.clicks \subseteq plan.clicks
    <3>1. CASE Clicks("restart") BY <3>1, ClicksIs
    <3>2. CASE \E rate \in plan.rates : plan' = [plan EXCEPT !.rates = @ \ {rate}]
      BY <1>0, <3>2 DEF Plan
    <3> QED BY <1>3, <3>1, <3>2
  <2>3. DOMAIN desk' \subseteq DOMAIN desk
    <3>1. CASE desk' = desk BY <3>1
    <3>2. CASE desk' = <<>>
      <4>1. DOMAIN desk' = {} BY <3>2
      <4> QED BY <4>1
    <3> QED BY <2>1, <3>1, <3>2
  <2>4. \A j \in Jobs \ {"cashout"} : ~Holding(j)' BY <1>3, HoldingSame
  <2>5. WalletHeld' BY <1>3, <2>2, <2>4, HeldKept DEF cardVars
  <2>6. CallsHeld' BY <2>1, <2>3, CallsKept
  <2>7. bal'["dai"].user >= bal["dai"].user BY <1>0, <2>1 DEF Assets, Parties
  <2>8. Enough' BY <1>0, <1>3, <2>1, <2>7, EnoughKept
  <2> QED BY <2>5, <2>6, <2>8
<1> QED BY <1>1, <1>2, <1>3, <1>4, <1>5 DEF Trouble

\* The other operations leave the region of the cash-out alone.
LEMMA RegionKept ==
  ASSUME region \in Regions, NEW o \in Operations \ {"withdraw"}
  PROVE  /\ START(o)["withdraw"] = region["withdraw"] /\ SUCCESS(o)["withdraw"] = region["withdraw"]
         /\ ERROR(o)["withdraw"] = region["withdraw"]
BY DEF Regions, START, SUCCESS, ERROR, Operations

\* Between its calls the cash-out has neither a swap nor a withdrawal.
LEMMA CashoutQuiet ==
  ASSUME Typed, job["cashout"].pc \notin {"swapping", "withdrawing"}
  PROVE  call["cashout"] = Idle /\ withdrawal["cashout"] = Idle
BY NotWaiting DEF Jobs

\* The cash-out reads the balances.
LEMMA HeldRefreshing ==
  ASSUME Typed, Typed', WalletHeld, CallsHeld, Enough,
         ReadEther("cashout") \/ ReadTokens("cashout") \/ ShowBalances("cashout"),
         UNCHANGED callVars, UNCHANGED cardVars
  PROVE  WalletHeld' /\ CallsHeld' /\ Enough'
<1> DEFINE c == job["cashout"]
<1>0. "cashout" \in Jobs BY DEF Jobs
<1>1. OffersSame /\ UNCHANGED <<bal, chain, call, deposit, withdrawal>> BY CallVarsSame
<1>2. UNCHANGED <<plan, root, region, tips, send>> BY DEF ReadEther, ReadTokens, ShowBalances, cardVars
<1>3. c.pc \in {"ether", "tokens", "show"} BY DEF ReadEther, ReadTokens, ShowBalances
<1>4. c \in Refreshing({"withdrawEther"}) BY <1>0, <1>3, JobForms DEF Thens
<1>5. call'["cashout"] = Idle /\ withdrawal'["cashout"] = Idle BY <1>1, <1>3, CashoutQuiet
<1>6. CallsHeld' BY <1>1, CallsKept DEF OffersSame
<1>7. ASSUME NEW r, Moves("cashout", r)
      PROVE  job'["cashout"] = r /\ WalletHeld'
  <2>1. job'["cashout"] = r /\ \A k \in Jobs \ {"cashout"} : job'[k] = job[k]
    BY <1>0, <1>7 DEF Moves, Typed, Jobbing
  <2>2. \A j \in Jobs \ {"cashout"} : ~Holding(j)' BY <2>1, HoldingSame
  <2> QED BY <1>1, <1>2, <2>1, <2>2, HeldKept
<1>8. CASE ReadEther("cashout")
  <2>1. Moves("cashout", [c EXCEPT !.pc = "tokens", !.eth = bal["eth"].user])
    BY <1>8 DEF ReadEther
  <2>0. job'["cashout"] = [c EXCEPT !.pc = "tokens", !.eth = bal["eth"].user] BY <1>7, <2>1
  <2>2. job'["cashout"].pc = "tokens" /\ job'["cashout"].eth = bal["eth"].user
    BY <1>4, <2>0 DEF Refreshing
  <2>3. Enough' BY <1>1, <1>5, <2>2 DEF Enough, Idle
  <2> QED BY <1>6, <1>7, <2>1, <2>3
<1>9. CASE ReadTokens("cashout")
  <2>1. c.pc = "tokens" /\ Moves("cashout", [c EXCEPT !.pc = "show", !.dai = bal["dai"].user])
    BY <1>9 DEF ReadTokens
  <2>0. job'["cashout"] = [c EXCEPT !.pc = "show", !.dai = bal["dai"].user] BY <1>7, <2>1
  <2>2. job'["cashout"].pc = "show" /\ job'["cashout"].eth = c.eth
    BY <1>4, <2>0 DEF Refreshing
  <2>3. Enough' BY <1>1, <1>5, <2>1, <2>2 DEF Enough, Idle
  <2> QED BY <1>6, <1>7, <2>1, <2>3
<1>10. CASE ShowBalances("cashout")
  <2>1. c.pc = "show" /\ Moves("cashout", At(c.then)) /\ shown'.eth = c.eth
    BY <1>10 DEF ShowBalances
  <2>2. job'["cashout"].pc = "withdrawEther" BY <1>4, <1>7, <2>1 DEF Refreshing, At
  <2>3. Enough' BY <1>1, <1>5, <2>1, <2>2 DEF Enough, Idle
  <2> QED BY <1>6, <1>7, <2>1, <2>3
<1> QED BY <1>8, <1>9, <1>10

LEMMA HeldSwapEnds ==
  ASSUME Typed, Typed', WalletHeld, CallsHeld, Enough, AfterSwap("cashout"), job'["cashout"] # NoJob,
         UNCHANGED <<channelVars, hubVars, appId, chain, deposit, withdrawal>>, UNCHANGED cardVars
  PROVE  WalletHeld' /\ CallsHeld' /\ Enough'
<1>0. "cashout" \in Jobs /\ "cashout" \in Callers BY PartsOfTheWallet DEF Jobs, Callers
<1>1. UNCHANGED <<bal, desk, withdrawal, plan, root, region, tips, send>>
  BY DEF AfterSwap, channelVars, hubVars, cardVars
<1>2. /\ call["cashout"].at \in Ended /\ call' = [call EXCEPT !["cashout"] = Idle]
      /\ job["cashout"].pc = "swapping"
      /\ Moves("cashout", IF call["cashout"].at = "threw" THEN Dies("cashout")
                          ELSE Refresh("withdrawEther"))
  BY DEF AfterSwap, Ended
<1>3. call'["cashout"] = Idle /\ \A d \in Callers \ {"cashout"} : call'[d] = call[d]
  BY <1>0, <1>2, CallForgotten DEF Typed, Calls
<1>4. job'["cashout"] = Refresh("withdrawEther") /\ \A k \in Jobs \ {"cashout"} : job'[k] = job[k]
  BY <1>0, <1>2 DEF Moves, Typed, Jobbing, Dies
<1>5. WalletHeld'
  <2>1. \A j \in Jobs \ {"cashout"} : ~Holding(j)' BY <1>4, HoldingSame
  <2> QED BY <1>1, <2>1, HeldKept
<1>6. CallsHeld'
  <2>1. DOMAIN desk = {} BY <1>2 DEF CallsHeld, Ended
  <2>2. DOMAIN desk' = {} BY <1>1, <2>1
  <2> QED BY <1>0, <1>3, <2>2 DEF CallsHeld
<1>7. withdrawal'["cashout"] = Idle BY <1>1, <1>2, NotWaiting, <1>0
<1>8. Enough' BY <1>3, <1>4, <1>7 DEF Enough, Refresh, Idle
<1> QED BY <1>5, <1>6, <1>8

\* Another job, that only reads the balances and shows them.
LEMMA HeldOtherJob ==
  ASSUME Typed, Typed', WalletHeld, CallsHeld, Enough, late' = {}, job["cashout"] # NoJob,
         NEW j \in Jobs \ {"cashout"},
         ReadEther(j) \/ ReadTokens(j) \/ ShowBalances(j) \/ Swapped(j),
         UNCHANGED callVars, UNCHANGED cardVars
  PROVE  WalletHeld' /\ CallsHeld' /\ Enough'
<1>0. bal' \in [Assets -> [Parties -> Nat]] /\ bal \in [Assets -> [Parties -> Nat]]
  BY DEF Typed, Amounts
<1>1. OffersSame /\ UNCHANGED <<bal, chain, call, deposit, withdrawal>> BY CallVarsSame
<1>2. UNCHANGED <<plan, root, tips, send>> BY DEF ReadEther, ReadTokens, ShowBalances, Swapped, cardVars
<1>3. region'["withdraw"] = region["withdraw"]
  <2>1. region' = region \/ region' = SUCCESS("swap")
    BY DEF ReadEther, ReadTokens, ShowBalances, Swapped
  <2> QED BY <2>1, RegionKept DEF Operations, Typed, Jobbing
<1>4. CallsHeld' BY <1>1, CallsKept DEF OffersSame
<1>5. job[j].pc \in {"ether", "tokens", "show"} =>
        job[j] \in Refreshing(Thens(j)) /\ job[j].then # "ether too"
  BY JobForms DEF WalletHeld, Holding
<1>6. PICK r : Moves(j, r) /\ r.pc \notin {"collateral", "swapping", "depositingTokens",
                                            "depositingEther", "ether too"}
                  /\ (r.pc \in {"ether", "tokens", "show"} => r.then # "ether too")
  <2>1. CASE ReadEther(j)
    <3>1. Moves(j, [job[j] EXCEPT !.pc = "tokens", !.eth = bal["eth"].user]) /\ job[j].pc = "ether"
      BY <2>1 DEF ReadEther
    <3>2. [job[j] EXCEPT !.pc = "tokens", !.eth = bal["eth"].user].pc = "tokens"
          /\ [job[j] EXCEPT !.pc = "tokens", !.eth = bal["eth"].user].then = job[j].then
      BY <1>5, <3>1 DEF Refreshing
    <3> QED BY <1>5, <3>1, <3>2
  <2>2. CASE ReadTokens(j)
    <3>1. Moves(j, [job[j] EXCEPT !.pc = "show", !.dai = bal["dai"].user]) /\ job[j].pc = "tokens"
      BY <2>2 DEF ReadTokens
    <3>2. [job[j] EXCEPT !.pc = "show", !.dai = bal["dai"].user].pc = "show"
          /\ [job[j] EXCEPT !.pc = "show", !.dai = bal["dai"].user].then = job[j].then
      BY <1>5, <3>1 DEF Refreshing
    <3> QED BY <1>5, <3>1, <3>2
  <2>3. CASE ShowBalances(j)
    <3>1. Moves(j, At(job[j].then)) /\ job[j].pc = "show" BY <2>3 DEF ShowBalances
    <3>2. At(job[j].then).pc \in {"autoDeposit", "deposited", "swapped", "withdrawEther"}
      BY <1>5, <3>1 DEF Refreshing, At, Thens
    <3> QED BY <3>1, <3>2
  <2>4. CASE Swapped(j)
    <3>1. Moves(j, Ends(j)) BY <2>4 DEF Swapped
    <3>2. Ends(j).pc \in {"off", "again"} BY JobStateIs
    <3> QED BY <3>1, <3>2
  <2> QED BY <2>1, <2>2, <2>3, <2>4
<1>7. job'[j] = r /\ \A k \in Jobs \ {j} : job'[k] = job[k]
  BY <1>6 DEF Moves, Typed, Jobbing
<1>8. WalletHeld'
  <2>1. \A k \in Jobs \ {"cashout"} : ~Holding(k)' BY <1>6, <1>7 DEF WalletHeld, Holding
  <2> QED BY <1>1, <1>2, <1>3, <2>1, HeldKept
<1>9. job'["cashout"] = job["cashout"] BY <1>7 DEF Jobs
<1>10. Enough'
  <2>1. CASE shown' = shown
    <3>1. bal'["dai"].user >= bal["dai"].user BY <1>0, <1>1 DEF Assets, Parties
    <3> QED BY <1>0, <1>1, <1>9, <2>1, <3>1, EnoughKept
  <2>2. CASE ShowBalances(j)
    <3>1. job[j].eth = bal["eth"].user /\ job[j].dai = bal["dai"].user
      BY <2>2 DEF ShowBalances
    <3>2. shown'.eth = bal["eth"].user /\ shown'.dai = bal["dai"].user
      BY <2>2, <3>1 DEF ShowBalances
    <3>3. bal["dai"].user <= bal["dai"].user BY <1>0 DEF Assets, Parties
    <3> QED BY <1>1, <1>9, <3>2, <3>3 DEF Enough
  <2> QED BY <2>1, <2>2 DEF ReadEther, ReadTokens, Swapped
<1> QED BY <1>4, <1>8, <1>10

LEMMA HeldJob ==
  ASSUME Typed, Typed', WalletHeld, CallsHeld, Enough, late' = {},
         job["cashout"] # NoJob, job'["cashout"] # NoJob, NEW j \in Jobs, JobStep(j)
  PROVE  WalletHeld' /\ CallsHeld' /\ Enough'
<1>1. UNCHANGED cardVars BY DEF JobStep
<1>2. CASE /\ ReadEther(j) \/ ReadTokens(j) \/ ShowBalances(j) \/ Swapped(j)
           /\ UNCHANGED callVars
  <2>1. CASE j # "cashout" BY <1>1, <1>2, <2>1, HeldOtherJob
  <2>2. CASE j = "cashout"
    <3>1. job["cashout"].pc # "swapped" BY JobForms DEF Jobs, JobStates, Refreshing
    <3> QED BY <1>1, <1>2, <2>2, <3>1, HeldRefreshing DEF Swapped
  <2> QED BY <2>1, <2>2
<1>3. CASE RequestCollateral(j) \/ AutoSwap(j)
  <2>1. job[j].pc = "collateral" /\ j # "cashout" BY <1>3 DEF RequestCollateral, AutoSwap
  <2> QED BY <2>1 DEF WalletHeld, Holding
<1>4. CASE AfterSwap(j) /\ UNCHANGED <<channelVars, hubVars, appId, chain, deposit, withdrawal>>
  <2>1. job[j].pc = "swapping" BY <1>4 DEF AfterSwap
  <2>2. j = "cashout" BY <2>1 DEF WalletHeld, Holding
  <2> QED BY <1>1, <1>4, <2>2, HeldSwapEnds
<1> QED BY <1>2, <1>3, <1>4 DEF JobStep

LEMMA HeldPoller ==
  ASSUME Typed, Typed', WalletHeld, CallsHeld, Enough, PollerStep
  PROVE  WalletHeld' /\ CallsHeld' /\ Enough'
<1>0. bal' \in [Assets -> [Parties -> Nat]] /\ bal \in [Assets -> [Parties -> Nat]]
      /\ Busy(region) /\ root = "ready"
  BY DEF Typed, Amounts, WalletHeld, Busy
<1>1. "poller" \in Jobs \ {"cashout"} /\ "detached" \in Jobs \ {"cashout"} /\ "poller" # "detached"
  BY DEF Jobs
<1>2. CASE (StartDeposit \/ AfterDeposit \/ DepositEtherToo)
  <2>1. ~StartDeposit BY <1>0 DEF StartDeposit, NothingToDeposit
  <2>2. job["poller"].pc \in {"depositingTokens", "depositingEther", "ether too"}
    BY <1>2, <2>1 DEF AfterDeposit, DepositEtherToo
  <2> QED BY <1>1, <2>2 DEF WalletHeld, Holding
<1>3. CASE Mount BY <1>0, <1>3 DEF Mount
<1>4. CASE /\ PollAgain \/ SkipDeposit \/ Deposited \/ RateArrives
           /\ UNCHANGED callVars /\ UNCHANGED cardVars
  <2>1. OffersSame /\ UNCHANGED <<bal, chain, call, deposit, withdrawal>> BY <1>4, CallVarsSame
  <2>2. UNCHANGED <<plan, root, shown, tips, send>> 
    BY <1>4 DEF PollAgain, SkipDeposit, Deposited, RateArrives, cardVars
  <2>3. region'["withdraw"] = region["withdraw"] /\ region'["withdraw"] = "pending"
    <3>1. region' = region \/ region' = SUCCESS("deposit")
      BY <1>4 DEF PollAgain, SkipDeposit, Deposited, RateArrives
    <3> QED BY <3>1, RegionKept DEF Operations, Typed, Jobbing, WalletHeld
  <2>4. /\ job'["cashout"] = job["cashout"]
        /\ \A j \in Jobs \ {"cashout"} : 
             job'[j] \in {job[j], Refresh("autoDeposit"), Ends("poller"), Ends("detached")}
    <3>0. job = [j \in Jobs |-> job[j]] BY DEF Typed, Jobbing
    <3>1. CASE RateArrives
      <4>1. job' = job BY <3>1 DEF RateArrives
      <4> QED BY <4>1
    <3>2. CASE PollAgain
      <4>1. job' = [job EXCEPT !["poller"] = Refresh("autoDeposit")] BY <3>2 DEF PollAgain, Moves
      <4> QED BY <3>0, <4>1 DEF Jobs
    <3>3. CASE SkipDeposit
      <4>1. job' = [job EXCEPT !["poller"] = autoSwap("poller", region)]
        BY <3>3 DEF SkipDeposit, Moves
      <4>2. autoSwap("poller", region) = Ends("poller") BY <1>1, AutoSwapIs DEF WalletHeld
      <4> QED BY <3>0, <4>1, <4>2 DEF Jobs
    <3>4. CASE Deposited
      <4>1. job' = [job EXCEPT !["poller"] = autoSwap("poller", region'),
                      !["detached"] = IF @ = NoJob THEN autoSwap("detached", region') ELSE @]
        BY <3>4 DEF Deposited
      <4>2. autoSwap("poller", region') = Ends("poller")
            /\ autoSwap("detached", region') = Ends("detached")
        BY <1>1, <2>3, AutoSwapIs
      <4> QED BY <3>0, <4>1, <4>2 DEF Jobs
    <3> QED BY <1>4, <3>1, <3>2, <3>3, <3>4
  <2>5. \A j \in Jobs \ {"cashout"} : ~Holding(j)'
    <3>1. \A j \in Jobs \ {"cashout"} : ~Holding(j) BY DEF WalletHeld
    <3>2. Ends("poller").pc \in {"off", "again"} /\ Ends("detached").pc \in {"off", "again"}
      BY <1>1, JobStateIs
    <3>3. Refresh("autoDeposit").pc = "ether" /\ Refresh("autoDeposit").then = "autoDeposit"
      BY DEF Refresh
    <3> QED BY <2>4, <3>1, <3>2, <3>3 DEF Holding
  <2>6. WalletHeld' BY <2>1, <2>2, <2>3, <2>5, HeldKept
  <2>7. CallsHeld' BY <2>1, CallsKept DEF OffersSame
  <2>8. bal'["dai"].user >= bal["dai"].user BY <1>0, <2>1 DEF Assets, Parties
  <2>9. Enough' BY <1>0, <2>1, <2>2, <2>4, <2>8, EnoughKept
  <2> QED BY <2>6, <2>7, <2>9
<1> QED BY <1>2, <1>3, <1>4 DEF PollerStep

LEMMA HeldCashout ==
  ASSUME Typed, Typed', WalletHeld, CallsHeld, Enough, CashoutStep, job'["cashout"] # NoJob
  PROVE  WalletHeld' /\ CallsHeld' /\ Enough'
<1>0. /\ "cashout" \in Jobs /\ "cashout" \in Callers
      /\ {"cashout", "sai"} \subseteq Withdrawers /\ "sai" # "cashout"
      /\ bal' \in [Assets -> [Parties -> Nat]] /\ bal \in [Assets -> [Parties -> Nat]]
      /\ job = [j \in Jobs |-> job[j]]
  BY PartsOfTheWallet DEF Jobs, Callers, Typed, Amounts, Jobbing
<1>1. send' = send BY DEF CashoutStep, cardVars
<1>2. ASSUME NEW r, Moves("cashout", r), UNCHANGED <<plan, root, region, tips>>,
             \A w \in Withdrawers \ {"cashout"} : withdrawal'[w] = withdrawal[w]
      PROVE  job'["cashout"] = r /\ WalletHeld'
  <2>1. job'["cashout"] = r /\ \A k \in Jobs \ {"cashout"} : job'[k] = job[k]
    BY <1>0, <1>2 DEF Moves
  <2>2. \A j \in Jobs \ {"cashout"} : ~Holding(j)' BY <2>1, HoldingSame
  <2> QED BY <1>1, <1>2, <2>1, <2>2, HeldKept
<1>3. CASE CashoutCollateral
           /\ UNCHANGED <<offers, apps, numApps, hubVars, swapVars, chain, deposit, withdrawal>>
  <2>1. /\ job["cashout"].pc = "collateral" /\ Collateralized("eth", job["cashout"].need)
        /\ Moves("cashout", [job["cashout"] EXCEPT !.pc = "collateralized"])
        /\ UNCHANGED <<plan, root, region, tips, shown>>
        /\ UNCHANGED <<desk, call, appId, withdrawal>>
    BY <1>3 DEF CashoutCollateral, hubVars, swapVars
  <2>2. job["cashout"] \in [pc : {"collateral", "collateralized"}, rate : Nat \ {0}, need : Nat]
    BY <1>0, <2>1, JobForms
  <2>3. \A a \in Assets : bal'[a].user = bal[a].user
    BY <2>1, <2>2, CollateralizedIs DEF Assets
  <2>4. WalletHeld' /\ job'["cashout"] = [job["cashout"] EXCEPT !.pc = "collateralized"]
    BY <1>2, <2>1
  <2>5. job'["cashout"].pc = "collateralized" BY <2>2, <2>4
  <2>6. CallsHeld' BY <2>1, CallsKept
  <2>7. call["cashout"] = Idle /\ withdrawal["cashout"] = Idle BY <2>1, CashoutQuiet
  <2>8. Enough' BY <2>1, <2>3, <2>5, <2>7 DEF Enough, Idle, Assets
  <2> QED BY <2>4, <2>6, <2>8
<1>4. CASE CashoutSwap /\ UNCHANGED <<channelVars, hubVars, appId, chain, deposit, withdrawal>>
  <2>1. /\ job["cashout"].pc = "collateralized" /\ Moves("cashout", At("swapping"))
        /\ UNCHANGED <<plan, root, region, tips, shown, bal, desk, withdrawal>>
    BY <1>4 DEF CashoutSwap, channelVars, hubVars
  <2>2. WalletHeld' /\ job'["cashout"] = At("swapping") BY <1>2, <2>1
  <2>3. /\ \A d \in Callers \ {"cashout"} : call'[d] = call[d]
        /\ call'["cashout"].at = "from" /\ call'["cashout"].pays = shown.dai
        /\ call["cashout"] = Idle
    BY <1>4, CashoutSwapDoes
  <2>4. DOMAIN desk' = {} BY <2>1, <2>3, OthersWait
  <2>5. CallsHeld' BY <1>0, <2>3, <2>4 DEF CallsHeld
  <2>6. withdrawal'["cashout"] = Idle BY <2>1, CashoutQuiet
  <2>7. Enough' BY <2>1, <2>2, <2>3, <2>6 DEF Enough, Idle, At
  <2> QED BY <2>2, <2>5, <2>7
<1>5. CASE CashoutWithdraw /\ UNCHANGED <<channelVars, hubVars, swapVars, chain, deposit>>
  <2>1. /\ job["cashout"].pc = "withdrawEther" /\ WithdrawCall("cashout", "eth", shown.eth)
        /\ Moves("cashout", At("withdrawing"))
        /\ UNCHANGED <<plan, root, region, tips, shown, bal, desk, call, appId>>
    BY <1>5 DEF CashoutWithdraw, channelVars, hubVars, swapVars
  <2>2. shown.eth \in Nat BY DEF Typed, Amounts, Shown
  <2>3. /\ withdrawal'["cashout"].at = "reading" /\ withdrawal'["cashout"].asset = "eth"
        /\ withdrawal'["cashout"].amount = shown.eth
        /\ \A d \in Withdrawers \ {"cashout"} : withdrawal'[d] = withdrawal[d]
    BY <1>0, <2>1, <2>2, WithdrawCallIs DEF Assets
  <2>4. WalletHeld' /\ job'["cashout"] = At("withdrawing") BY <1>2, <2>1, <2>3
  <2>5. CallsHeld' BY <2>1, CallsKept
  <2>6. call'["cashout"] = Idle BY <2>1, CashoutQuiet
  <2>7. Enough' BY <2>1, <2>3, <2>4, <2>6 DEF Enough, Idle, At
  <2> QED BY <2>4, <2>5, <2>7
<1>6. CASE AfterCashout
  <2>1. job'["cashout"] = NoJob BY <1>0, <1>6 DEF AfterCashout, Moves
  <2> QED BY <2>1
<1>7. CASE AfterWithdrawSai
  <2>1. withdrawal["sai"] = Idle BY <1>0 DEF WalletHeld
  <2> QED BY <1>7, <2>1 DEF AfterWithdrawSai, Idle
<1> QED BY <1>3, <1>4, <1>5, <1>6, <1>7 DEF CashoutStep

\* Steps that leave the jobs, the calls and the offers alone, and take nothing.
LEMMA HeldQuiet ==
  ASSUME Typed, Typed', WalletHeld, CallsHeld, Enough,
         UNCHANGED <<desk, appId, call, withdrawal, job, root, shown, tips>>,
         region'["withdraw"] = region["withdraw"], send'.pc = send.pc,
         plan'.clicks \subseteq plan.clicks,
         bal'["eth"].user = bal["eth"].user, bal'["dai"].user >= bal["dai"].user
  PROVE  WalletHeld' /\ CallsHeld' /\ Enough'
<1>1. WalletHeld' BY HoldingSame, HeldKept
<1>2. CallsHeld' BY CallsKept
<1>3. bal' \in [Assets -> [Parties -> Nat]] BY DEF Typed, Amounts
<1>4. Enough' BY <1>3, EnoughKept
<1> QED BY <1>1, <1>2, <1>4

LEMMA HeldUser ==
  ASSUME Typed, Typed', WalletHeld, CallsHeld, Enough, UserStep, job["cashout"] # NoJob
  PROVE  WalletHeld' /\ CallsHeld' /\ Enough'
<1>0. bal \in [Assets -> [Parties -> Nat]] BY DEF Typed, Amounts
<1>1. send' = send BY DEF UserStep, cardVars
<1>2. ASSUME bal' = bal PROVE bal'["eth"].user = bal["eth"].user /\ bal'["dai"].user >= bal["dai"].user
  BY <1>0, <1>2 DEF Assets, Parties
<1>3. CASE (\E o \in Operations : Dismiss(o)) /\ UNCHANGED callVars
  <2>1. OffersSame /\ UNCHANGED <<bal, chain, call, deposit, withdrawal>> BY <1>3, CallVarsSame
  <2>2. PICK o \in Operations : Dismiss(o) BY <1>3
  <2>3. UNCHANGED <<plan, root, shown, job, tips>> /\ region' = [region EXCEPT ![o] = "idle"]
        /\ region[o] \in {"success", "error"}
    BY <2>2 DEF Dismiss
  <2>4. region'["withdraw"] = region["withdraw"] BY <2>3 DEF WalletHeld, Typed, Jobbing, Regions
  <2> QED BY <1>1, <1>2, <2>1, <2>3, <2>4, HeldQuiet DEF OffersSame
<1>4. CASE \E what \in {"buyTips", "sellTips"} : buyTipsHandler(what)
  BY <1>4 DEF buyTipsHandler, Clicks, WalletHeld
<1>5. CASE \E sending : cashoutTokens(sending) \/ cashoutEther(sending)
  BY <1>5 DEF cashoutTokens, cashoutEther, StartCashout
<1>6. CASE withdrawSai BY <1>6 DEF withdrawSai, WalletHeld
<1>7. CASE EtherArrives /\ UNCHANGED <<channelVars, hubVars, swapVars, deposit, withdrawal>>
  <2>1. UNCHANGED <<bal, desk, appId, call, withdrawal>>
    BY <1>7 DEF channelVars, hubVars, swapVars
  <2>2. UNCHANGED <<root, region, shown, job, tips>> /\ Clicks("fund") BY <1>7 DEF EtherArrives
  <2>3. plan'.clicks \subseteq plan.clicks BY <2>2, ClicksIs
  <2> QED BY <1>1, <1>2, <2>1, <2>2, <2>3, HeldQuiet
<1> QED BY <1>3, <1>4, <1>5, <1>6, <1>7 DEF UserStep

LEMMA HeldTips ==
  ASSUME WalletHeld, CallsHeld
  PROVE  ~TipsStep
<1>1. call["tips"] = Idle
  BY PartsOfTheWallet DEF CallsHeld, Callers, Jobs
<1> QED BY <1>1 DEF TipsStep, TipsFail, AfterTips, TryTips, WalletHeld, Idle

LEMMA HeldPayment ==
  ASSUME Typed, Typed', WalletHeld, CallsHeld, Enough, PaymentStep
  PROVE  WalletHeld' /\ CallsHeld' /\ Enough'
<1>0. bal \in [Assets -> [Parties -> Nat]] /\ plan \in Plan /\ region \in Regions
  BY DEF Typed, Amounts, Jobbing
<1>1. send' = send BY DEF PaymentStep, cardVars
<1>2. CASE PaymentStarts /\ UNCHANGED callVars
  <2>1. OffersSame /\ UNCHANGED <<bal, chain, call, deposit, withdrawal>> BY <1>2, CallVarsSame
  <2>2. UNCHANGED <<root, shown, job, tips>> /\ region' = START("receive")
        /\ plan' = [plan EXCEPT !.payments = @ - 1, !.incoming = @ + 1]
    BY <1>2 DEF PaymentStarts
  <2>3. region'["withdraw"] = region["withdraw"] BY <1>0, <2>2, RegionKept DEF Operations
  <2>4. plan'.clicks \subseteq plan.clicks BY <1>0, <2>2 DEF Plan
  <2>5. bal'["eth"].user = bal["eth"].user /\ bal'["dai"].user >= bal["dai"].user
    BY <1>0, <2>1 DEF Assets, Parties
  <2> QED BY <1>1, <2>1, <2>2, <2>3, <2>4, <2>5, HeldQuiet DEF OffersSame
<1>3. CASE PaymentEnds /\ UNCHANGED <<offers, apps, numApps, hubVars, swapVars, chain, deposit, withdrawal>>
  <2>1. UNCHANGED <<desk, appId, call, withdrawal>> BY <1>3 DEF hubVars, swapVars
  <2>2. UNCHANGED <<root, shown, job, tips>> /\ region' \in {SUCCESS("receive"), ERROR("receive")}
        /\ plan' = [plan EXCEPT !.incoming = @ - 1]
    BY <1>3 DEF PaymentEnds
  <2>3. region'["withdraw"] = region["withdraw"] BY <1>0, <2>2, RegionKept DEF Operations
  <2>4. plan'.clicks \subseteq plan.clicks BY <1>0, <2>2 DEF Plan
  <2>5. bal'["eth"].user = bal["eth"].user /\ bal'["dai"].user >= bal["dai"].user
    BY <1>0, <1>3 DEF PaymentEnds, Assets, Parties
  <2> QED BY <1>1, <2>1, <2>2, <2>3, <2>4, <2>5, HeldQuiet
<1> QED BY <1>2, <1>3 DEF PaymentStep

LEMMA HeldCard ==
  ASSUME Typed, Typed', WalletHeld, CallsHeld, Enough, CardStep
  PROVE  WalletHeld' /\ CallsHeld' /\ Enough'
<1>0. bal \in [Assets -> [Parties -> Nat]] /\ plan \in Plan /\ SendOK
  BY DEF Typed, Amounts, Carding, SendOK
<1>1. call["send"] = Idle /\ send.pc = "off"
  BY SendCard, PartsOfTheWallet, KindsDiffer DEF CallsHeld, Callers, WalletHeld
<1>2. ~paymentHandler /\ ~linkHandler
  BY DEF paymentHandler, linkHandler, Pay, Clicks, WalletHeld
<1>3. ~TryTransfer /\ ~TransferDone /\ ~TransferThrew /\ ~GiveUp
  BY <1>1 DEF TryTransfer, TransferDone, TransferThrew, GiveUp, Idle
<1>4. CASE RedeemedElsewhere /\ UNCHANGED callVars
  <2>1. OffersSame /\ UNCHANGED <<bal, chain, call, deposit, withdrawal>> BY <1>4, CallVarsSame
  <2>2. UNCHANGED <<root, region, shown, job, tips, send>> /\ Clicks("elsewhere")
    BY <1>4 DEF RedeemedElsewhere
  <2>4. plan'.clicks \subseteq plan.clicks BY <2>2, ClicksIs
  <2>5. bal'["eth"].user = bal["eth"].user /\ bal'["dai"].user >= bal["dai"].user
    BY <1>0, <2>1 DEF Assets, Parties
  <2> QED BY <2>1, <2>2, <2>4, <2>5, HeldQuiet DEF OffersSame
<1>5. CASE /\ \/ closeModal \/ CheckLink \/ LinkChecked \/ Confirm \/ GoBack \/ redeemPayment
              \/ RedeemAfterCollateral \/ Redeemed \/ BackdropClick
           /\ UNCHANGED <<callVars, walletVars>>
  <2>1. OffersSame /\ UNCHANGED <<bal, chain, call, deposit, withdrawal>> BY <1>5, CallVarsSame
  <2>2. UNCHANGED <<plan, root, region, shown, job, tips>> BY <1>5 DEF walletVars
  <2>3. send' \in {send, NotSending}
    BY <1>5 DEF closeModal, CheckLink, LinkChecked, Confirm, GoBack, redeemPayment,
       RedeemAfterCollateral, Redeemed, BackdropClick
  <2>4. send'.pc = send.pc BY <1>1, <2>3 DEF NotSending
  <2>5. bal'["eth"].user = bal["eth"].user /\ bal'["dai"].user >= bal["dai"].user
    BY <1>0, <2>1 DEF Assets, Parties
  <2> QED BY <2>1, <2>2, <2>4, <2>5, HeldQuiet DEF OffersSame
<1>6. CASE /\ LinkCollateral \/ HubResolves
           /\ UNCHANGED <<offers, apps, numApps, hubVars, swapVars, chain, deposit,
                          withdrawal, walletVars>>
  <2>1. UNCHANGED <<desk, appId, call, withdrawal, plan, root, region, shown, job, tips, send>>
    BY <1>6 DEF hubVars, swapVars, walletVars, LinkCollateral, HubResolves
  <2>2. bal'["eth"].user = bal["eth"].user /\ bal'["dai"].user >= bal["dai"].user
    <3>1. CASE bal' = bal BY <1>0, <3>1 DEF Assets, Parties
    <3>2. CASE bal' = [bal EXCEPT !["dai"] = [user |-> @.user + 1, hub |-> @.hub - 1]]
      BY <1>0, <3>2 DEF Assets, Parties
    <3>3. CASE Collateralized("dai", 1)
      <4>1. \A a \in Assets : bal'[a].user = bal[a].user BY <3>3, CollateralizedIs DEF Assets
      <4> QED BY <1>0, <4>1 DEF Assets, Parties
    <3> QED BY <1>6, <3>1, <3>2, <3>3 DEF LinkCollateral, HubResolves
  <2> QED BY <2>1, <2>2, HeldQuiet
<1> QED BY <1>2, <1>3, <1>4, <1>5, <1>6 DEF CardStep

\* The cash-out begins when nothing is left that does not wait for it.
LEMMA CashoutStarts ==
  ASSUME Typed, Typed', OthersIdle, late' = {}, NEW sending, send' = send,
         (send.pc # "off") <=> sending,
         cashoutTokens(sending) \/ cashoutEther(sending),
         UNCHANGED <<channelVars, hubVars, swapVars, chain, deposit>>
  PROVE  WalletHeld' /\ CallsHeld' /\ Enough'
<1>0. /\ "cashout" \in Jobs /\ "cashout" \in Callers /\ "sai" \in Withdrawers
      /\ {"cashout", "sai"} \subseteq Withdrawers /\ "sai" # "cashout"
      /\ bal \in [Assets -> [Parties -> Nat]] /\ region \in Regions
      /\ job = [j \in Jobs |-> job[j]] /\ shown.eth \in Nat /\ shown.dai \in Nat
      /\ desk = [id \in DOMAIN desk |-> desk[id]]
  BY PartsOfTheWallet DEF Jobs, Callers, Typed, Amounts, Jobbing, Shown, Ids
<1>1. UNCHANGED <<bal, desk, call, appId>> BY DEF channelVars, hubVars, swapVars
<1>2. UNCHANGED <<root, shown, tips>> BY DEF cashoutTokens, cashoutEther
<1>3. PICK what : StartCashout(what, sending) BY DEF cashoutTokens, cashoutEther
<1>4. /\ plan'.clicks \subseteq plan.clicks /\ region' = START("withdraw") /\ job["cashout"] = NoJob
      /\ NotHeldBack(sending) = {}
  BY <1>3, StartCashoutIs
<1>5. NotHeldBack(sending) = {} =>
        /\ \A j \in Jobs \ {"cashout"} : ~Holding(j)
        /\ \A c \in Callers \ Jobs : call[c] = Idle
        /\ ~sending /\ tips.pc = "off" /\ plan.clicks \cap {"buyTips", "sellTips", "p2p", "link"} = {}
        /\ desk = <<>> /\ withdrawal["sai"] = Idle
        /\ region["withdraw"] = "idle" /\ root = "ready"
        /\ shown.eth = bal["eth"].user /\ shown.dai = bal["dai"].user
  BY DEF NotHeldBack, Holding
<1>6. DOMAIN desk' = {}
  <2>1. desk' = <<>> BY <1>1, <1>4, <1>5
  <2> QED BY <2>1
<1>7. region'["withdraw"] = "pending"
  BY <1>0, <1>4, <1>5 DEF START, Regions, Operations
<1>8. PICK r \in JobStates("cashout") :
        /\ Moves("cashout", r)
        /\ \/ /\ r.pc = "withdrawing"
              /\ \E a \in {"eth", "dai"} :
                   WithdrawCall("cashout", a, IF a = "eth" THEN shown.eth ELSE shown.dai)
           \/ r.pc = "collateral" /\ withdrawal' = withdrawal
  <2>1. CASE cashoutTokens(sending)
    <3>1. WithdrawCall("cashout", "dai", shown.dai) /\ Moves("cashout", At("withdrawing"))
      BY <2>1 DEF cashoutTokens
    <3> QED BY <3>1 DEF At, JobStates
  <2>2. CASE cashoutEther(sending)
    <3>1. \/ /\ Moves("cashout", [pc |-> "collateral", rate |-> swapRate, need |-> Total])
             /\ withdrawal' = withdrawal
          \/ WithdrawCall("cashout", "eth", shown.eth) /\ Moves("cashout", At("withdrawing"))
      BY <2>2 DEF cashoutEther
    <3>2. [pc |-> "collateral", rate |-> swapRate, need |-> Total] \in JobStates("cashout")
      BY RoomIs DEF JobStates, Typed, Amounts
    <3>3. At("withdrawing") \in JobStates("cashout") /\ At("withdrawing").pc = "withdrawing"
      BY DEF At, JobStates
    <3> QED BY <3>1, <3>2, <3>3
  <2> QED BY <2>1, <2>2
<1>9. job'["cashout"] = r /\ \A k \in Jobs \ {"cashout"} : job'[k] = job[k]
  BY <1>0, <1>8 DEF Moves
<1>10. job["cashout"].pc = "off" BY <1>4 DEF NoJob
<1>11. call'["cashout"] = Idle /\ withdrawal["cashout"] = Idle BY <1>1, <1>10, CashoutQuiet
<1>12. \A w \in Withdrawers \ {"cashout"} : withdrawal'[w] = withdrawal[w]
  <2>1. CASE withdrawal' = withdrawal BY <2>1
  <2>2. CASE \E a \in {"eth", "dai"} :
                   WithdrawCall("cashout", a, IF a = "eth" THEN shown.eth ELSE shown.dai)
    BY <1>0, <2>2, WithdrawCallIs DEF Assets
  <2> QED BY <1>8, <2>1, <2>2
<1>13. \A w \in Withdrawers \ {"cashout"} : withdrawal'[w] = Idle
  BY <1>4, <1>5, <1>12 DEF OthersIdle
<1>14. \A j \in Jobs \ {"cashout"} : ~Holding(j)' BY <1>4, <1>5, <1>9 DEF Holding
<1>15. WalletHeld' BY <1>2, <1>4, <1>5, <1>7, <1>13, <1>14 DEF WalletHeld
<1>16. CallsHeld' BY <1>1, <1>4, <1>5, <1>6 DEF CallsHeld
<1>17. Enough'
  <2>1. bal'["dai"].user = bal["dai"].user /\ shown'.dai = bal["dai"].user /\ shown'.eth = bal'["eth"].user
        /\ bal["dai"].user \in Nat
    BY <1>0, <1>1, <1>2, <1>4, <1>5 DEF Assets, Parties
  <2>2. call'["cashout"].at # "from" BY <1>11 DEF Idle
  <2>3. CASE r.pc = "collateral" /\ withdrawal' = withdrawal
    BY <1>9, <1>11, <2>1, <2>2, <2>3 DEF Enough, Idle
  <2>4. CASE r.pc = "withdrawing" /\ \E a \in {"eth", "dai"} :
                   WithdrawCall("cashout", a, IF a = "eth" THEN shown.eth ELSE shown.dai)
    <3>1. PICK a \in {"eth", "dai"} :
            WithdrawCall("cashout", a, IF a = "eth" THEN shown.eth ELSE shown.dai)
      BY <2>4
    <3>2. withdrawal'["cashout"].asset = a
          /\ withdrawal'["cashout"].amount = IF a = "eth" THEN shown.eth ELSE shown.dai
      BY <1>0, <3>1, WithdrawCallIs DEF Assets
    <3>3. shown.eth = bal'["eth"].user /\ shown.dai <= bal'["dai"].user BY <1>2, <2>1
    <3> QED BY <1>9, <2>2, <2>4, <3>2, <3>3 DEF Enough
  <2> QED BY <1>8, <2>3, <2>4
<1> QED BY <1>15, <1>16, <1>17

\* A cash-out that is under way was so before, or begins with this step; what it
\* has missed is not forgotten.
LEMMA CashoutWasThere ==
  ASSUME Typed, [Next]_vars, late' = {}, job'["cashout"] # NoJob
  PROVE  \/ late = {} /\ job["cashout"] # NoJob
         \/ /\ UserStep
            /\ cashoutTokens(send.pc # "off") \/ cashoutEther(send.pc # "off")
<1>0. "cashout" \in Jobs /\ job = [j \in Jobs |-> job[j]] /\ NoJob.pc = "off"
  BY DEF Typed, Jobbing, Jobs, NoJob
<1>1. ASSUME UNCHANGED <<late, job>> PROVE late = {} /\ job["cashout"] # NoJob BY <1>1
<1>2. ASSUME late' = late, NEW j \in Jobs, NEW r, Moves(j, r), job[j].pc # "off" \/ j # "cashout"
      PROVE  late = {} /\ job["cashout"] # NoJob
  BY <1>0, <1>2 DEF Moves
<1>3. CASE (\E c \in Callers : CallerStep(c)) \/ HubStep \/ HubReclaims \/ DepositStep
           \/ (\E w \in Withdrawers : WithdrawStep(w)) \/ UNCHANGED vars
  BY <1>1, <1>3 DEF CallerStep, HubStep, HubReclaims, DepositStep, WithdrawStep, walletVars, vars
<1>4. CASE CardStep
  <2>1. UNCHANGED <<late, job>>
    BY <1>4 DEF CardStep, walletVars, paymentHandler, linkHandler, Pay, RedeemedElsewhere
  <2> QED BY <1>1, <2>1
<1>5. CASE TipsStep \/ PaymentStep
  <2>1. UNCHANGED <<late, job>>
    BY <1>5 DEF TipsStep, PaymentStep, TipsFail, AfterTips, TryTips, PaymentStarts, PaymentEnds
  <2> QED BY <1>1, <2>1
<1>6. CASE PageReload
  <2>1. job' = [j \in Jobs |-> NoJob] BY <1>6 DEF PageReload, Reload
  <2> QED BY <1>0, <2>1
<1>7. CASE Trouble
  <2>1. CASE UNCHANGED <<late, job>> BY <1>1, <2>1
  <2>2. CASE \E j \in Jobs : RefreshFails(j) BY <1>2, <2>2 DEF RefreshFails
  <2> QED BY <1>7, <2>1, <2>2 DEF Trouble
<1>8. CASE \E j \in Jobs : JobStep(j)
  <2>1. PICK j \in Jobs : JobStep(j) BY <1>8
  <2>2. job[j].pc # "off" /\ (\E r : Moves(j, r)) /\ (late' = late \/ late \subseteq late')
    BY <2>1 DEF JobStep, ReadEther, ReadTokens, ShowBalances, Swapped, RequestCollateral, AutoSwap,
                AfterSwap
  <2>3. late' = late BY <2>2
  <2> QED BY <1>2, <2>2, <2>3
<1>9. CASE PollerStep
  <2>1. late' = late /\ job'["cashout"] = job["cashout"]
    BY <1>0, <1>9 DEF PollerStep, Mount, PollAgain, SkipDeposit, Deposited, RateArrives,
       StartDeposit, AfterDeposit, DepositEtherToo, Moves
  <2> QED BY <2>1
<1>10. CASE CashoutStep
  <2>1. CASE AfterWithdrawSai BY <1>1, <2>1 DEF AfterWithdrawSai
  <2>2. CASE CashoutCollateral \/ CashoutSwap \/ CashoutWithdraw \/ AfterCashout
    <3>1. job["cashout"].pc # "off" /\ late' = late
      BY <2>2 DEF CashoutCollateral, CashoutSwap, CashoutWithdraw, AfterCashout
    <3> QED BY <1>0, <3>1
  <2> QED BY <1>10, <2>1, <2>2 DEF CashoutStep
<1>11. CASE UserStep
  <2>1. CASE cashoutTokens(send.pc # "off") \/ cashoutEther(send.pc # "off") BY <1>11, <2>1
  <2>2. CASE UNCHANGED <<late, job>> BY <1>1, <2>2
  <2> QED BY <1>11, <2>1, <2>2 DEF UserStep, Dismiss, buyTipsHandler, withdrawSai, EtherArrives
<1> QED BY <1>3, <1>4, <1>5, <1>6, <1>7, <1>8, <1>9, <1>10, <1>11 DEF Next

LEMMA OthersIdleNext ==
  ASSUME Typed, OthersIdle, [Next]_vars
  PROVE  OthersIdle'
<1>0. /\ withdrawal \in [Withdrawers -> {Idle} \cup Withdrawal]
      /\ "cashout" \in Withdrawers /\ "sai" \in Withdrawers
  BY PartsOfTheWallet DEF Typed, Calls
<1>1. ASSUME withdrawal' = withdrawal PROVE OthersIdle' BY <1>1 DEF OthersIdle
<1>2. ASSUME NEW w \in {"cashout", "sai"}, NEW r, withdrawal' = [withdrawal EXCEPT ![w] = r]
      PROVE  OthersIdle'
  BY <1>0, <1>2 DEF OthersIdle
<1>3. CASE UNCHANGED vars BY <1>1, <1>3 DEF vars, callVars
<1>4. CASE (\E c \in Callers : CallerStep(c)) \/ HubStep \/ HubReclaims \/ TipsStep
           \/ PaymentStep \/ CardStep
  <2>1. withdrawal' = withdrawal
    BY <1>4 DEF CallerStep, HubStep, HubReclaims, TipsStep, PaymentStep, CardStep, callVars, LinkCollateral
  <2> QED BY <1>1, <2>1
<1>5. CASE DepositStep \/ PollerStep \/ (\E j \in Jobs : JobStep(j)) \/ Trouble
  <2>1. CASE \E w \in Withdrawers : CommitFails(w)
    <3>1. PICK w \in Withdrawers : CommitFails(w) BY <2>1
    <3>2. withdrawal[w] # Idle /\ \A v \in Withdrawers \ {w} : withdrawal'[v] = withdrawal[v]
      BY <1>0, <3>1 DEF CommitFails, Idle
    <3> QED BY <3>2 DEF OthersIdle
  <2>2. CASE ~\E w \in Withdrawers : CommitFails(w)
    <3>1. withdrawal' = withdrawal
      BY <1>5, <2>2 DEF DepositStep, PollerStep, JobStep, Trouble, callVars, ReadForDeposit,
                  DepositLands, CheckDeposit, DepositFails
    <3> QED BY <1>1, <3>1
  <2> QED BY <2>1, <2>2
<1>6. CASE \E w \in Withdrawers : WithdrawStep(w)
  <2>1. PICK w \in Withdrawers : WithdrawStep(w) BY <1>6
  <2>2. withdrawal[w] # Idle
    BY <2>1 DEF WithdrawStep, ReadForWithdrawal, CommitWithdrawal, WithdrawalEnds, Idle
  <2>3. \A v \in Withdrawers \ {w} : withdrawal'[v] = withdrawal[v]
    BY <1>0, <2>1 DEF WithdrawStep, ReadForWithdrawal, CommitWithdrawal, WithdrawalEnds
  <2> QED BY <2>2, <2>3 DEF OthersIdle
<1>7. CASE CashoutStep
  <2>1. CASE CashoutWithdraw BY <1>2, <2>1 DEF CashoutWithdraw, WithdrawCall
  <2>2. CASE AfterCashout BY <1>2, <2>2 DEF AfterCashout
  <2>3. CASE AfterWithdrawSai BY <1>2, <2>3 DEF AfterWithdrawSai
  <2>4. CASE withdrawal' = withdrawal BY <1>1, <2>4
  <2> QED BY <1>7, <2>1, <2>2, <2>3, <2>4 DEF CashoutStep
<1>8. CASE UserStep
  <2>1. CASE \E sending : cashoutTokens(sending) BY <1>2, <2>1 DEF cashoutTokens, WithdrawCall
  <2>2. CASE \E sending : cashoutEther(sending)
    BY <1>1, <1>2, <2>2 DEF cashoutEther, WithdrawCall
  <2>3. CASE withdrawSai BY <1>2, <2>3 DEF withdrawSai, WithdrawCall
  <2>4. CASE withdrawal' = withdrawal BY <1>1, <2>4
  <2> QED BY <1>8, <2>1, <2>2, <2>3, <2>4 DEF UserStep, callVars
<1>9. CASE PageReload
  <2>1. withdrawal' = [w \in Withdrawers |-> Idle] BY <1>9 DEF PageReload
  <2> QED BY <2>1 DEF OthersIdle
<1> QED BY <1>3, <1>4, <1>5, <1>6, <1>7, <1>8, <1>9 DEF Next

\* A cash-out that begins finds all in order, unless it has noted otherwise.
LEMMA UserCashesOut ==
  ASSUME Typed, Typed', OthersIdle, UserStep, late' = {}, job'["cashout"] # NoJob,
         cashoutTokens(send.pc # "off") \/ cashoutEther(send.pc # "off")
  PROVE  WalletHeld' /\ CallsHeld' /\ Enough'
<1>1. job["cashout"] = NoJob BY DEF cashoutTokens, cashoutEther, StartCashout
<1>2. job' # job BY <1>1
<1>3. send' = send BY DEF UserStep, cardVars
<1>4. UNCHANGED <<channelVars, hubVars, swapVars, chain, deposit>>
  BY <1>2 DEF UserStep, Dismiss, buyTipsHandler, EtherArrives
<1> DEFINE sending == send.pc # "off"
<1>5. (send.pc # "off") <=> sending OBVIOUS
<1>6. cashoutTokens(sending) \/ cashoutEther(sending) OBVIOUS
<1> HIDE DEF sending
<1> QED BY <1>3, <1>4, <1>5, <1>6, CashoutStarts

LEMMA CashingOutNext ==
  ASSUME Typed, Typed', Books, OthersIdle, CashingOut, [Next]_vars
  PROVE  CashingOut'
<1> SUFFICES ASSUME late' = {}, job'["cashout"] # NoJob
             PROVE  WalletHeld' /\ CallsHeld' /\ Enough'
  BY DEF CashingOut
<1>1. CASE UserStep /\ (cashoutTokens(send.pc # "off") \/ cashoutEther(send.pc # "off"))
  BY <1>1, UserCashesOut
<1>2. CASE late = {} /\ job["cashout"] # NoJob
  <2>1. WalletHeld /\ CallsHeld /\ Enough BY <1>2 DEF CashingOut
  <2>2. CASE UNCHANGED vars
    <3>1. /\ UNCHANGED <<desk, appId, call, withdrawal, job, root, shown, tips>>
          /\ UNCHANGED <<region, send, plan, bal>>
      BY <2>2 DEF vars, callVars, walletVars, cardVars, hubVars, swapVars, channelVars
    <3>2. bal \in [Assets -> [Parties -> Nat]] BY DEF Typed, Amounts
    <3>3. bal'["eth"].user = bal["eth"].user /\ bal'["dai"].user >= bal["dai"].user
      BY <3>1, <3>2 DEF Assets, Parties
    <3> QED BY <2>1, <3>1, <3>3, HeldQuiet
  <2>3. CASE \E c \in Callers : CallerStep(c) BY <2>1, <2>3, HeldCaller
  <2>4. CASE HubStep BY <2>1, <2>4, HeldHub
  <2>16. CASE HubReclaims BY <2>1, <2>16, HeldReclaims
  <2>5. CASE DepositStep
    <3>1. deposit = Idle BY <2>1, OthersWait
    <3> QED BY <2>5, <3>1 DEF DepositStep, ReadForDeposit, DepositLands, CheckDeposit, Idle
  <2>6. CASE \E w \in Withdrawers : WithdrawStep(w) BY <2>1, <2>6, HeldWithdraw
  <2>7. CASE Trouble BY <2>1, <2>7, HeldTrouble
  <2>8. CASE \E j \in Jobs : JobStep(j) BY <1>2, <2>1, <2>8, HeldJob
  <2>9. CASE PollerStep BY <2>1, <2>9, HeldPoller
  <2>10. CASE CashoutStep BY <2>1, <2>10, HeldCashout
  <2>11. CASE UserStep BY <1>2, <2>1, <2>11, HeldUser
  <2>12. CASE TipsStep BY <2>1, <2>12, HeldTips
  <2>13. CASE PaymentStep BY <2>1, <2>13, HeldPayment
  <2>14. CASE CardStep BY <2>1, <2>14, HeldCard
  <2>15. CASE PageReload
    <3>1. job' = [j \in Jobs |-> NoJob] BY <2>15 DEF PageReload, Reload
    <3> QED BY <3>1 DEF Jobs
  <2> QED BY <2>2, <2>3, <2>4, <2>5, <2>6, <2>7, <2>8, <2>9, <2>10, <2>11, <2>12, <2>13, <2>14,
             <2>15, <2>16 DEF Next
<1> QED BY <1>1, <1>2, CashoutWasThere

\* Without a cash-out nobody withdraws or swaps in its name; during one there
\* is enough.
LEMMA CashingOutCovers ==
  ASSUME Typed, CashingOut
  PROVE  CashoutCovered
<1> SUFFICES ASSUME late = {}
             PROVE  LET w == withdrawal["cashout"]
                        s == call["cashout"]
                    IN /\ w.at \in {"reading", "committing"} =>
                            IF w.asset = "eth" THEN w.amount = bal["eth"].user
                            ELSE w.amount <= bal["dai"].user
                       /\ s.at = "from" => s.pays <= bal["dai"].user
  BY DEF CashoutCovered
<1>1. CASE job["cashout"] = NoJob
  <2>1. job["cashout"].pc \notin {"swapping", "withdrawing"} BY <1>1 DEF NoJob
  <2>2. call["cashout"] = Idle /\ withdrawal["cashout"] = Idle BY <2>1, CashoutQuiet
  <2> QED BY <2>2 DEF Idle
<1>2. CASE job["cashout"] # NoJob BY <1>2 DEF CashingOut, Enough
<1> QED BY <1>1, <1>2

\* A cash-out that found nobody past the lock asks for no more than there is, and
\* leaves no ether behind (cashOutCard.js), whatever arrives, is paid, restarts or
\* fails in the meantime.
THEOREM CashoutCoveredAlways == Spec => []CashoutCovered
<1> DEFINE Inv == Typed /\ Books /\ OthersIdle /\ CashingOut
<1>1. Init => Inv
  <2> SUFFICES ASSUME Init PROVE Inv OBVIOUS
  <2>1. withdrawal = [w \in Withdrawers |-> Idle] BY DEF Init, ClientCallsInit
  <2>2. OthersIdle BY <2>1 DEF OthersIdle
  <2>3. job["cashout"] = NoJob BY DEF Init, WalletInit, Jobs
  <2> QED BY <2>2, <2>3, TypedInit, BooksInit DEF CashingOut
<1>2. Inv /\ [Next]_vars => Inv'
  BY TypedNext, BooksNext, OthersIdleNext, CashingOutNext
<1>3. Inv => CashoutCovered BY CashingOutCovers
<1> QED BY <1>1, <1>2, <1>3, PTL DEF Spec
=============================================================================
