----------------------------- MODULE HubProofs -----------------------------
(***************************************************************************)
(* Proofs about Hub, whatever the users, the plans, the proposals and the    *)
(* faults. First the channels and the withdrawals; then the payments. The    *)
(* invariant of the payments is said of one payment at a time (Of), so that   *)
(* a step of a call has to be looked at for its payment only (Frame). What   *)
(* needs that the calls come one by one is under Once. Then the free         *)
(* balances, the requests for collateral and the flag that bars them, and    *)
(* with these the types of all variables.                                    *)
(***************************************************************************)
EXTENDS Hub, TLAPS

(***************************************************************************)
(* What the properties of the two tables are part of. A creation that has    *)
(* passed the look at the store is alone, and until it persists the hub has   *)
(* no such channel (Alone, Progress).                                        *)
(***************************************************************************)
Alone == \A c, d \in Attempts : c \in Creating /\ d \in Creating => c = d

Progress ==
  \A c \in Attempts :
    LET u == attempt[c].user IN
    /\ attempt[c].hub # "none" => u \in Users
    /\ attempt[c].hub \in {"proposed", "signed"} => ~stored[u].hub
    /\ attempt[c].hub \in {"signed", "stored"} => stored[u].user
    /\ attempt[c].hub = "stored" => stored[u].hub /\ rows[u] = 0

RowsStored ==
  \A u \in Users : rows[u] <= 1 /\ (rows[u] > 0 => stored[u].hub /\ stored[u].user)

CallStates ==
  [user : Users \cup {None}, client : {"idle", "waiting", "connected", "failed"},
   hub : {"none", "asked", "queued", "proposed", "signed", "stored", "done",
          "failed", "lost"}]

ChannelInv == HubChannelsTypeOK /\ Alone /\ Progress /\ RowsStored

(***************************************************************************)
(* A withdrawal that the hub has sent, or written to its table, is pending or *)
(* executed (Sent); whatever a client works at has an owner (Owned).         *)
(***************************************************************************)
OnTheWay(w) == w \in executed \/ pool[w] > 0

Sent ==
  /\ latest # None => OnTheWay(latest)
  /\ \A w \in Withdrawals, k \in Tries : submit[w][k] = "sent" => OnTheWay(w)

Owned ==
  /\ \A u \in Users :
       /\ client[u].pc = "committed" =>
            client[u].tx \in Withdrawals /\ owner[client[u].tx] # None
       /\ client[u].pc \in {"recorded", "asked", "watching"} =>
            record[u] # None /\ record[u].retry \in Tries
       /\ record[u] # None => owner[record[u].tx] # None
  /\ \A w \in Withdrawals, k \in Tries : submit[w][k] # "none" => owner[w] # None

WithdrawalInv == UserWithdrawalsTypeOK /\ RecordedUntilSent /\ Sent /\ Owned

IInv == ChannelInv /\ WithdrawalInv

-----------------------------------------------------------------------------
(***************************************************************************)
(* Channels.                                                                *)
(***************************************************************************)
LEMMA ChannelInit == HubChannelsInit => ChannelInv
<1> SUFFICES ASSUME HubChannelsInit PROVE ChannelInv
  OBVIOUS
<1> USE DEF HubChannelsInit
<1>1. plan.restarts \in Nat
  BY HubConstants
<1>2. HubChannelsTypeOK
  <2>1. NoAttempt \in CallStates
    BY DEF NoAttempt, CallStates
  <2>2. rows \in [Users -> Nat] /\ stored \in [Users -> [hub : BOOLEAN, user : BOOLEAN]]
    OBVIOUS
  <2> QED
    BY <1>1, <2>1, <2>2 DEF HubChannelsTypeOK, CallStates
<1>3. Alone /\ Progress
  BY DEF Alone, Progress, Creating, NoAttempt
<1>4. RowsStored
  <2> SUFFICES ASSUME NEW u \in Users
               PROVE  rows[u] <= 1 /\ (rows[u] > 0 => stored[u].hub /\ stored[u].user)
    BY DEF RowsStored
  <2>1. CASE u \in plan.opened
    <3>1. stored[u].hub /\ stored[u].user
      BY <2>1, Zenon
    <3> QED
      BY <2>1, <3>1
  <2>2. CASE u \notin plan.opened
    BY <2>2
  <2> QED
    BY <2>1, <2>2
<1> QED
  BY <1>2, <1>3, <1>4 DEF ChannelInv

\* A step of one call of connect() that writes nothing, and what it must
\* establish.
LEMMA AttemptStep ==
  ASSUME ChannelInv, NEW c \in Attempts, NEW a \in CallStates,
         attempt' = [attempt EXCEPT ![c] = a],
         UNCHANGED <<plan, restarts, rows, stored>>,
         a.hub # "none" => a.user \in Users,
         a.hub = "proposed" => ~stored[a.user].hub,
         \/ a.hub \notin {"proposed", "signed", "stored"}
         \/ a.hub = "proposed" /\ Creating = {}
         \/ a.hub = attempt[c].hub /\ a.user = attempt[c].user
  PROVE  ChannelInv'
<1> USE DEF ChannelInv
<1>1. HubChannelsTypeOK'
  BY DEF HubChannelsTypeOK, CallStates
<1>2. \A d \in Attempts : attempt'[d] = IF d = c THEN a ELSE attempt[d]
  BY DEF HubChannelsTypeOK
<1>3. Alone'
  BY <1>2 DEF Alone, Creating
<1>4. Progress'
  BY <1>2 DEF Progress
<1>5. RowsStored'
  BY DEF RowsStored
<1> QED
  BY <1>1, <1>3, <1>4, <1>5

\* The steps of a creation that write.
LEMMA SetupResponderInv ==
  ASSUME ChannelInv, NEW c \in Attempts, SetupResponder(c)
  PROVE  ChannelInv'
<1> DEFINE u == attempt[c].user
<1> USE DEF ChannelInv
<1>1. c \in Creating /\ u \in Users
  BY DEF SetupResponder, Creating, Progress
<1>2. \A d \in Attempts :
        /\ attempt'[d].user = attempt[d].user
        /\ attempt'[d].hub = IF d = c THEN "signed" ELSE attempt[d].hub
        /\ attempt'[d].client \in {"idle", "waiting", "connected", "failed"}
  BY DEF SetupResponder, HubChannelsTypeOK
<1>3. \A d \in Attempts : attempt'[d] \in CallStates
  BY <1>2 DEF SetupResponder, HubChannelsTypeOK, CallStates
<1>4. /\ stored' \in [Users -> [hub : BOOLEAN, user : BOOLEAN]]
      /\ \A v \in Users : stored'[v].hub = stored[v].hub
      /\ \A v \in Users : stored'[v].user = IF v = u THEN TRUE ELSE stored[v].user
  BY <1>1, Zenon DEF SetupResponder, HubChannelsTypeOK
<1>5. HubChannelsTypeOK'
  <2>1. attempt' \in [Attempts -> CallStates]
    BY <1>3 DEF SetupResponder
  <2> QED
    BY <1>4, <2>1 DEF HubChannelsTypeOK, SetupResponder, CallStates
<1>6. Alone'
  <2>1. Creating' \subseteq Creating
    BY <1>1, <1>2 DEF Creating
  <2> QED
    BY <2>1 DEF Alone
<1>7. Progress'
  <2> SUFFICES ASSUME NEW d \in Attempts
               PROVE  /\ attempt'[d].hub # "none" => attempt'[d].user \in Users
                      /\ attempt'[d].hub \in {"proposed", "signed"} =>
                           ~stored'[attempt'[d].user].hub
                      /\ attempt'[d].hub \in {"signed", "stored"} =>
                           stored'[attempt'[d].user].user
                      /\ attempt'[d].hub = "stored" =>
                           stored'[attempt'[d].user].hub /\ rows'[attempt'[d].user] = 0
    BY DEF Progress
  <2>1. CASE d = c
    <3>1. ~stored[u].hub
      BY DEF Progress, SetupResponder
    <3>2. ~stored'[u].hub /\ stored'[u].user
      BY <1>1, <1>4, <3>1, Zenon
    <3>3. attempt'[d].user = u /\ attempt'[d].hub = "signed"
      BY <1>2, <2>1
    <3> QED
      BY <1>1, <3>2, <3>3
  <2>2. CASE d # c
    <3>1. d \notin Creating
      BY <1>1, <2>2 DEF Alone
    <3> QED
      BY <1>2, <2>2, <3>1 DEF Progress, Creating
  <2> QED
    BY <2>1, <2>2
<1>8. RowsStored'
  BY <1>4 DEF RowsStored, SetupResponder
<1> QED
  BY <1>5, <1>6, <1>7, <1>8

LEMMA SetupInitiatorInv ==
  ASSUME ChannelInv, NEW c \in Attempts, SetupInitiator(c)
  PROVE  ChannelInv'
<1> DEFINE u == attempt[c].user
<1> USE DEF ChannelInv
<1>1. /\ c \in Creating /\ u \in Users /\ attempt[c].hub = "signed"
      /\ stored[u].user /\ ~stored[u].hub
  BY DEF SetupInitiator, Creating, Progress
<1>2. \A d \in Attempts :
        /\ attempt'[d].user = attempt[d].user
        /\ attempt'[d].hub = IF d = c THEN "stored" ELSE attempt[d].hub
  BY DEF SetupInitiator, HubGoto, HubChannelsTypeOK
<1>3. /\ stored' \in [Users -> [hub : BOOLEAN, user : BOOLEAN]]
      /\ \A v \in Users : stored'[v].user = stored[v].user
      /\ \A v \in Users : stored'[v].hub = IF v = u THEN TRUE ELSE stored[v].hub
  BY <1>1, Zenon DEF SetupInitiator, HubChannelsTypeOK
<1>4. HubChannelsTypeOK'
  BY <1>3 DEF HubChannelsTypeOK, SetupInitiator, HubGoto
<1>5. Creating' \subseteq Creating
  BY <1>1, <1>2 DEF Creating
<1>6. Alone'
  BY <1>5 DEF Alone
<1>7. Progress'
  <2> SUFFICES ASSUME NEW d \in Attempts
               PROVE  /\ attempt'[d].hub # "none" => attempt'[d].user \in Users
                      /\ attempt'[d].hub \in {"proposed", "signed"} =>
                           ~stored'[attempt'[d].user].hub
                      /\ attempt'[d].hub \in {"signed", "stored"} =>
                           stored'[attempt'[d].user].user
                      /\ attempt'[d].hub = "stored" =>
                           stored'[attempt'[d].user].hub /\ rows'[attempt'[d].user] = 0
    BY DEF Progress
  <2>1. CASE d = c
    <3>1. rows[u] = 0
      BY <1>1 DEF RowsStored, HubChannelsTypeOK
    <3> QED
      BY <1>1, <1>2, <1>3, <2>1, <3>1 DEF SetupInitiator
  <2>2. CASE d # c
    <3>1. d \notin Creating
      BY <1>1, <2>2 DEF Alone
    <3> QED
      BY <1>2, <2>2, <3>1 DEF Progress, Creating
  <2> QED
    BY <2>1, <2>2
<1>8. RowsStored'
  BY <1>3 DEF RowsStored, SetupInitiator
<1> QED
  BY <1>4, <1>6, <1>7, <1>8

LEMMA MakeAvailableInv ==
  ASSUME ChannelInv, NEW c \in Attempts, MakeAvailable(c)
  PROVE  ChannelInv'
<1> DEFINE u == attempt[c].user
<1> USE DEF ChannelInv
<1>1. /\ c \in Creating /\ u \in Users
      /\ stored[u].user /\ stored[u].hub /\ rows[u] = 0
  BY DEF MakeAvailable, Creating, Progress
<1>2. \A d \in Attempts :
        /\ attempt'[d].user = attempt[d].user
        /\ attempt'[d].hub = IF d = c THEN "done" ELSE attempt[d].hub
  BY DEF MakeAvailable, HubGoto, HubChannelsTypeOK
<1>3. \A v \in Users : rows'[v] = IF v = u THEN 1 ELSE rows[v]
  BY <1>1 DEF MakeAvailable, HubChannelsTypeOK
<1>4. HubChannelsTypeOK'
  <2>1. rows' \in [Users -> Nat]
    <3>1. rows[u] + 1 \in Nat /\ rows \in [Users -> Nat]
      BY <1>1 DEF HubChannelsTypeOK
    <3>2. rows' = [rows EXCEPT ![u] = rows[u] + 1]
      BY DEF MakeAvailable
    <3> QED
      BY <3>1, <3>2
  <2>2. attempt' \in [Attempts -> CallStates]
    BY DEF HubChannelsTypeOK, CallStates, MakeAvailable, HubGoto
  <2> QED
    BY <2>1, <2>2 DEF HubChannelsTypeOK, MakeAvailable, CallStates
<1>5. Creating' \subseteq Creating \ {c}
  BY <1>1, <1>2 DEF Creating
<1>6. Alone'
  BY <1>5 DEF Alone
<1>7. Progress'
  <2>1. \A d \in Attempts : attempt'[d].hub \notin {"proposed", "signed", "stored"}
    BY <1>1, <1>5 DEF Creating, Alone
  <2> QED
    BY <1>1, <1>2, <2>1 DEF Progress
<1>8. RowsStored'
  BY <1>1, <1>3 DEF RowsStored, MakeAvailable
<1> QED
  BY <1>4, <1>6, <1>7, <1>8

LEMMA ChannelStep == ChannelInv /\ HubChannelsNext => ChannelInv'
<1> SUFFICES ASSUME ChannelInv, NEW c \in Attempts,
                    (\E u \in Users : Connect(c, u)) \/ CreationStep(c) \/ SetupTimeout(c)
             PROVE  ChannelInv'
  BY DEF HubChannelsNext
<1>1. /\ attempt[c] \in CallStates
      /\ attempt[c].hub # "none" => attempt[c].user \in Users
      /\ attempt[c].hub = "proposed" => ~stored[attempt[c].user].hub
  BY DEF ChannelInv, Progress, HubChannelsTypeOK, CallStates
<1>2. ASSUME NEW pc \in {"queued", "proposed", "done", "failed", "lost"}, HubGoto(c, pc),
             attempt[c].hub # "none",
             UNCHANGED <<plan, restarts, rows, stored>>,
             pc = "proposed" => Creating = {} /\ ~stored[attempt[c].user].hub
      PROVE  ChannelInv'
  <2> DEFINE a == [attempt[c] EXCEPT !.hub = pc]
  <2>1. a \in CallStates /\ a.user = attempt[c].user /\ a.hub = pc
    BY <1>1 DEF CallStates
  <2>2. attempt' = [attempt EXCEPT ![c] = a]
    BY <1>2 DEF HubGoto
  <2> HIDE DEF a
  <2> QED
    BY <1>1, <1>2, <2>1, <2>2, AttemptStep
<1>3. ASSUME NEW u \in Users, Connect(c, u) PROVE ChannelInv'
  <2> DEFINE a == [user |-> u, client |-> IF HasRow(u) THEN "connected" ELSE "waiting",
                   hub |-> IF HasRow(u) THEN "none" ELSE "asked"]
  <2>1. a \in CallStates /\ a.user = u /\ a.hub \in {"none", "asked"}
    BY DEF CallStates
  <2>2. attempt' = [attempt EXCEPT ![c] = a] /\ UNCHANGED <<plan, restarts, rows, stored>>
    BY <1>3 DEF Connect
  <2> HIDE DEF a
  <2> QED
    BY <2>1, <2>2, AttemptStep
<1>4. ASSUME Create(c) PROVE ChannelInv'
  BY <1>2, <1>4 DEF Create
<1>5. ASSUME RunSetup(c) PROVE ChannelInv'
  BY <1>2, <1>5 DEF RunSetup
<1>6. ASSUME SetupTimeout(c) PROVE ChannelInv'
  BY <1>2, <1>6 DEF SetupTimeout
<1>7. ASSUME ConnectTimeout(c) PROVE ChannelInv'
  <2> DEFINE a == [attempt[c] EXCEPT !.client = "failed"]
  <2>1. a \in CallStates /\ a.user = attempt[c].user /\ a.hub = attempt[c].hub
    BY <1>1 DEF CallStates
  <2>2. attempt' = [attempt EXCEPT ![c] = a] /\ UNCHANGED <<plan, restarts, rows, stored>>
    BY <1>7 DEF ConnectTimeout
  <2> HIDE DEF a
  <2> QED
    BY <1>1, <2>1, <2>2, AttemptStep
<1> QED
  BY <1>3, <1>4, <1>5, <1>6, <1>7, SetupResponderInv, SetupInitiatorInv, MakeAvailableInv
  DEF CreationStep

LEMMA CreationsLostInv ==
  ChannelInv /\ CreationsLost /\ UNCHANGED plan
    /\ restarts < plan.restarts /\ restarts' = restarts + 1 => ChannelInv'
<1> SUFFICES ASSUME ChannelInv, CreationsLost, UNCHANGED plan,
                    restarts < plan.restarts, restarts' = restarts + 1
             PROVE  ChannelInv'
  OBVIOUS
<1> USE DEF ChannelInv
<1>1. \A c \in Attempts :
        /\ attempt'[c] \in CallStates
        /\ attempt'[c].user = attempt[c].user
        /\ attempt'[c].hub \notin {"proposed", "signed", "stored"}
        /\ attempt'[c].hub # "none" => attempt[c].hub # "none"
  BY DEF CreationsLost, HubChannelsTypeOK, CallStates
<1>2. plan.restarts \in Nat
  BY HubConstants DEF HubChannelsTypeOK
<1>3. HubChannelsTypeOK'
  <2>1. attempt' \in [Attempts -> CallStates]
    BY <1>1 DEF CreationsLost
  <2> QED
    BY <1>2, <2>1 DEF HubChannelsTypeOK, CreationsLost, CallStates
<1>4. Alone' /\ Progress'
  BY <1>1 DEF Alone, Creating, Progress
<1>5. RowsStored'
  BY DEF RowsStored, CreationsLost
<1> QED
  BY <1>3, <1>4, <1>5

LEMMA ChannelStutter == ChannelInv /\ UNCHANGED hubChannelVars => ChannelInv'
<1> SUFFICES ASSUME ChannelInv, UNCHANGED hubChannelVars PROVE ChannelInv'
  OBVIOUS
<1> USE DEF ChannelInv, hubChannelVars, channelVars
<1>1. HubChannelsTypeOK' /\ Alone'
  BY DEF HubChannelsTypeOK, Alone, Creating
<1>2. Progress' /\ RowsStored'
  BY DEF Progress, RowsStored
<1> QED
  BY <1>1, <1>2

-----------------------------------------------------------------------------
(***************************************************************************)
(* Withdrawals.                                                             *)
(***************************************************************************)
ClientStates ==
  [pc : {"up", "committed", "recorded", "asked", "watching", "down"},
   tx : Withdrawals \cup {None}, connecting : BOOLEAN]

Records == [tx : Withdrawals, retry : 0..MAX_WITHDRAWAL_RETRIES] \cup {None}

\* A withdrawal that RecordedUntilSent is content with.
Kept(w) ==
  \/ w \in executed \cup forgotten \/ pool[w] > 0
  \/ client[owner[w]].pc = "committed" /\ client[owner[w]].tx = w
  \/ record[owner[w]] # None /\ record[owner[w]].tx = w

LEMMA WithdrawalNat == Withdrawals \subseteq Nat
  BY RetriesAssumption

LEMMA RetriesFacts ==
  /\ MAX_WITHDRAWAL_RETRIES \in Nat \ {0}
  /\ None \notin Nat
  /\ \A r \in [tx : Nat, retry : Nat] : r # None
  BY RetriesAssumption

LEMMA RetriesNat == \A n \in 0..MAX_WITHDRAWAL_RETRIES : n \in Nat /\ n + 1 \in Nat
<1> MAX_WITHDRAWAL_RETRIES \in Nat
  BY RetriesFacts
<1> QED
  OBVIOUS

LEMMA UpDownStates == Up \in ClientStates /\ Down \in ClientStates
<1>1. None \in Withdrawals \cup {None}
  OBVIOUS
<1> QED
  BY <1>1 DEF Up, Down, ClientStates

LEMMA WithdrawalTypes ==
  ASSUME UserWithdrawalsTypeOK
  PROVE  /\ client \in [Users -> ClientStates]
         /\ record \in [Users -> Records]
         /\ owner \in [Withdrawals -> Users \cup {None}]
         /\ submit \in [Withdrawals -> [Tries -> {"none", "asked", "sent", "done"}]]
         /\ pool \in [Withdrawals -> Nat] /\ executed \subseteq Withdrawals
  BY DEF UserWithdrawalsTypeOK, ClientStates, Records

LEMMA WithdrawalInit == HubChannelsInit /\ UserWithdrawalsInit => WithdrawalInv
<1> SUFFICES ASSUME HubChannelsInit, UserWithdrawalsInit PROVE WithdrawalInv
  OBVIOUS
<1> USE DEF UserWithdrawalsInit
<1>1. plan.clientRestarts \in Nat
  BY HubConstants DEF HubChannelsInit
<1>2. UserWithdrawalsTypeOK
  <2>1. client \in [Users -> ClientStates] /\ record \in [Users -> Records]
    BY UpDownStates DEF Records
  <2>2. owner \in [Withdrawals -> Users \cup {None}] /\ latest \in Withdrawals \cup {None}
    OBVIOUS
  <2>3. submit \in [Withdrawals -> [Tries -> {"none", "asked", "sent", "done"}]]
    OBVIOUS
  <2> QED
    BY <1>1, <2>1, <2>2, <2>3 DEF UserWithdrawalsTypeOK, ClientStates, Records
<1>3. RecordedUntilSent /\ Sent /\ Owned
  BY DEF RecordedUntilSent, Sent, Owned, Up
<1> QED
  BY <1>2, <1>3 DEF WithdrawalInv

\* What a step of one client must establish that leaves the hub and the chain
\* alone.
LEMMA ClientOnly ==
  ASSUME WithdrawalInv, NEW u \in Users, NEW c \in ClientStates, NEW r \in Records,
         client' = [client EXCEPT ![u] = c], record' = [record EXCEPT ![u] = r],
         UNCHANGED <<pool, executed, owner, submit, latest, plan>>,
         clientRestarts' \in 0..plan.clientRestarts,
         forgotten \subseteq forgotten', forgotten' \subseteq Withdrawals,
         c.pc # "committed",
         c.pc \in {"recorded", "asked", "watching"} => r # None /\ r.retry \in Tries,
         r # None => owner[r.tx] # None,
         \A w \in Withdrawals :
           \/ client[u].pc = "committed" /\ client[u].tx = w
           \/ record[u] # None /\ record[u].tx = w
           => OnTheWay(w) \/ w \in forgotten' \/ (r # None /\ r.tx = w)
  PROVE  WithdrawalInv'
<1> USE DEF WithdrawalInv
<1>1. \A v \in Users :
        /\ client'[v] = IF v = u THEN c ELSE client[v]
        /\ record'[v] = IF v = u THEN r ELSE record[v]
  BY WithdrawalTypes
<1>2. UserWithdrawalsTypeOK'
  <2>1. client' \in [Users -> ClientStates] /\ record' \in [Users -> Records]
    BY WithdrawalTypes
  <2> QED
    BY <2>1 DEF UserWithdrawalsTypeOK, ClientStates, Records
<1>3. RecordedUntilSent'
  <2> SUFFICES ASSUME NEW w \in Withdrawals, owner[w] # None PROVE Kept(w)'
    BY DEF RecordedUntilSent, Kept
  <2>1. owner[w] \in Users
    BY WithdrawalTypes
  <2>2. Kept(w)
    BY DEF RecordedUntilSent, Kept
  <2>3. CASE owner[w] = u
    BY <1>1, <2>1, <2>2, <2>3 DEF Kept, OnTheWay
  <2>4. CASE owner[w] # u
    BY <1>1, <2>1, <2>2, <2>4 DEF Kept
  <2> QED
    BY <2>3, <2>4
<1>4. Sent'
  BY DEF Sent, OnTheWay
<1>5. Owned'
  BY <1>1 DEF Owned
<1> QED
  BY <1>2, <1>3, <1>4, <1>5

\* A call that throws.
LEMMA ThrownInv ==
  ASSUME WithdrawalInv, NEW u \in Users, NEW r \in Records,
         client' = Thrown(u), record' = [record EXCEPT ![u] = r],
         client[u].pc # "committed",
         r # None => record[u] # None /\ r.tx = record[u].tx,
         record[u] # None => r # None,
         UNCHANGED <<pool, executed, owner, submit, latest, forgotten, clientRestarts, plan>>
  PROVE  WithdrawalInv'
<1> DEFINE c == IF client[u].connecting THEN Down ELSE Up
<1>1. c \in ClientStates /\ c.pc \in {"up", "down"}
  BY UpDownStates DEF Up, Down
<1>2. client' = [client EXCEPT ![u] = c]
  BY DEF Thrown
<1>3. /\ clientRestarts' \in 0..plan.clientRestarts /\ forgotten' \subseteq Withdrawals
      /\ r # None => owner[r.tx] # None
  BY DEF WithdrawalInv, UserWithdrawalsTypeOK, Owned
<1> HIDE DEF c
<1> QED
  BY <1>1, <1>2, <1>3, ClientOnly

LEMMA RecordInv ==
  ASSUME WithdrawalInv, NEW u \in Users, Record(u), UNCHANGED plan
  PROVE  WithdrawalInv'
<1> DEFINE w == client[u].tx
           r == [tx |-> w, retry |-> 0]
           c == [client[u] EXCEPT !.pc = "recorded"]
<1> USE DEF WithdrawalInv
<1>1. w \in Withdrawals /\ owner[w] # None /\ client[u].pc = "committed"
  BY DEF Owned, Record
<1>2. r \in Records /\ r # None /\ 0 \in Tries
  <2>1. r \in [tx : Withdrawals, retry : 0..MAX_WITHDRAWAL_RETRIES]
    BY <1>1, RetriesFacts
  <2>2. r \in [tx : Nat, retry : Nat]
    BY <1>1, WithdrawalNat
  <2>3. r # None
    BY <2>2, RetriesFacts
  <2> QED
    BY <2>1, <2>3, RetriesFacts DEF Records, Tries
<1>3. c \in ClientStates /\ c.pc = "recorded"
  BY WithdrawalTypes DEF ClientStates
<1>4. client' = [client EXCEPT ![u] = c] /\ record' = [record EXCEPT ![u] = r]
  BY DEF Record
<1>5. /\ forgotten \subseteq forgotten'
      /\ record[u] # None => record[u].tx \in forgotten'
      /\ forgotten' \subseteq Withdrawals
  BY WithdrawalTypes DEF Record, UserWithdrawalsTypeOK, Records
<1>6. UNCHANGED <<pool, executed, owner, submit, latest, clientRestarts>>
  BY DEF Record, chainVars
<1>7. clientRestarts' \in 0..plan.clientRestarts
  BY <1>6 DEF UserWithdrawalsTypeOK
<1> HIDE DEF c
<1> QED
  BY <1>1, <1>2, <1>3, <1>4, <1>5, <1>6, <1>7, ClientOnly

LEMMA FindMinedInv ==
  ASSUME WithdrawalInv, NEW u \in Users, FindMined(u), UNCHANGED plan
  PROVE  WithdrawalInv'
<1> USE DEF WithdrawalInv
<1>1. None \in Records /\ Up \in ClientStates /\ Up.pc = "up"
  BY UpDownStates DEF Records, Up
<1>2. client' = [client EXCEPT ![u] = Up] /\ record' = [record EXCEPT ![u] = None]
  BY DEF FindMined
<1>3. client[u].pc = "watching" /\ record[u].tx \in executed
  BY DEF FindMined
<1>4. /\ UNCHANGED <<pool, executed, owner, submit, latest, forgotten, clientRestarts>>
      /\ clientRestarts \in 0..plan.clientRestarts /\ forgotten \subseteq Withdrawals
  BY DEF FindMined, chainVars, UserWithdrawalsTypeOK
<1> QED
  BY <1>1, <1>2, <1>3, <1>4, ClientOnly DEF OnTheWay

LEMMA RequestTimeoutInv ==
  ASSUME WithdrawalInv, NEW u \in Users, RequestTimeout(u), UNCHANGED plan
  PROVE  WithdrawalInv'
<1>1. record[u] \in Records /\ record' = [record EXCEPT ![u] = record[u]]
  BY WithdrawalTypes DEF RequestTimeout, WithdrawalInv
<1> QED
  BY <1>1, ThrownInv DEF RequestTimeout, chainVars

\* One more try of what is recorded.
Again(u) == [tx |-> record[u].tx, retry |-> record[u].retry + 1]

LEMMA AgainFacts ==
  ASSUME WithdrawalInv, NEW u \in Users, record[u] # None,
         record[u].retry < MAX_WITHDRAWAL_RETRIES
  PROVE  /\ Again(u) \in Records /\ Again(u) # None
         /\ [record EXCEPT ![u].retry = @ + 1] = [record EXCEPT ![u] = Again(u)]
         /\ record[u].retry + 1 < MAX_WITHDRAWAL_RETRIES => Again(u).retry \in Tries
<1>1. record[u] \in [tx : Withdrawals, retry : 0..MAX_WITHDRAWAL_RETRIES]
  BY WithdrawalTypes DEF WithdrawalInv, Records
<1>2. Again(u) \in [tx : Withdrawals, retry : 0..MAX_WITHDRAWAL_RETRIES]
  BY <1>1, RetriesFacts DEF Again
<1>3. Again(u) \in [tx : Nat, retry : Nat]
  <2>1. record[u].tx \in Withdrawals /\ record[u].retry \in 0..MAX_WITHDRAWAL_RETRIES
    BY <1>1
  <2>2. record[u].tx \in Nat /\ record[u].retry + 1 \in Nat
    BY <2>1, WithdrawalNat, RetriesNat
  <2> QED
    BY <2>2 DEF Again
<1>4. Again(u) # None
  BY <1>3, RetriesFacts
<1>5. [record[u] EXCEPT !.retry = @ + 1] = Again(u)
  BY <1>1 DEF Again
<1>6. [record EXCEPT ![u].retry = @ + 1] = [record EXCEPT ![u] = Again(u)]
  BY <1>5, Zenon
<1>7. record[u].retry + 1 < MAX_WITHDRAWAL_RETRIES => Again(u).retry \in Tries
  BY <1>1, RetriesFacts DEF Again, Tries
<1> QED
  BY <1>2, <1>4, <1>6, <1>7 DEF Records

LEMMA WatchEndsInv ==
  ASSUME WithdrawalInv, NEW u \in Users, WatchEnds(u), UNCHANGED plan
  PROVE  WithdrawalInv'
<1>1. client[u].pc = "watching" /\ record[u] # None /\ record[u].retry \in Tries
  BY DEF WatchEnds, WithdrawalInv, Owned
<1>2. record[u].retry < MAX_WITHDRAWAL_RETRIES
  BY <1>1, RetriesFacts DEF Tries
<1>3. /\ Again(u) \in Records /\ Again(u) # None /\ Again(u).tx = record[u].tx
      /\ record' = [record EXCEPT ![u] = Again(u)]
      /\ record[u].retry + 1 < MAX_WITHDRAWAL_RETRIES => Again(u).retry \in Tries
  BY <1>1, <1>2, AgainFacts DEF WatchEnds, Retry, Again
<1>4. /\ UNCHANGED <<pool, executed, owner, submit, latest, forgotten, clientRestarts>>
      /\ clientRestarts \in 0..plan.clientRestarts /\ forgotten \subseteq Withdrawals
  BY DEF WatchEnds, chainVars, WithdrawalInv, UserWithdrawalsTypeOK
<1>5. CASE record[u].retry + 1 >= MAX_WITHDRAWAL_RETRIES
  <2>1. client' = Thrown(u)
    BY <1>5 DEF WatchEnds, Retry
  <2> QED
    BY <1>1, <1>3, <1>4, <2>1, ThrownInv
<1>6. CASE ~(record[u].retry + 1 >= MAX_WITHDRAWAL_RETRIES)
  <2> DEFINE c == [client[u] EXCEPT !.pc = "recorded"]
  <2>1. c \in ClientStates /\ c.pc = "recorded"
    BY WithdrawalTypes DEF ClientStates, WithdrawalInv
  <2>2. client' = [client EXCEPT ![u] = c]
    BY <1>6 DEF WatchEnds, Retry
  <2>3. Again(u).retry \in Tries
    BY <1>1, <1>3, <1>6, RetriesFacts DEF Tries
  <2>4. owner[Again(u).tx] # None
    BY <1>1, <1>3 DEF WithdrawalInv, Owned
  <2> HIDE DEF c
  <2> QED
    BY <1>1, <1>3, <1>4, <2>1, <2>2, <2>3, <2>4, ClientOnly
<1> QED
  BY <1>5, <1>6

LEMMA ClientRestartInv ==
  ASSUME WithdrawalInv, NEW u \in Users, ClientRestart(u), UNCHANGED plan, plan \in Plans
  PROVE  WithdrawalInv'
<1> USE DEF WithdrawalInv
<1>1. Down \in ClientStates /\ Down.pc = "down"
  BY UpDownStates DEF Down
<1>2. /\ record[u] \in Records /\ record' = [record EXCEPT ![u] = record[u]]
      /\ client' = [client EXCEPT ![u] = Down]
  BY WithdrawalTypes DEF ClientRestart
<1>3. /\ forgotten \subseteq forgotten' /\ forgotten' \subseteq Withdrawals
      /\ client[u].pc = "committed" => client[u].tx \in forgotten'
  BY DEF ClientRestart, Owned, UserWithdrawalsTypeOK
<1>4. clientRestarts' \in 0..plan.clientRestarts
  <2>1. plan.clientRestarts \in Nat /\ clientRestarts \in Nat
    BY HubConstants DEF UserWithdrawalsTypeOK
  <2> QED
    BY <2>1 DEF ClientRestart
<1>5. record[u] # None => owner[record[u].tx] # None
  BY DEF Owned
<1>6. UNCHANGED <<pool, executed, owner, submit, latest, plan>>
  BY DEF ClientRestart, chainVars
<1> QED
  BY <1>1, <1>2, <1>3, <1>4, <1>5, <1>6, ClientOnly

LEMMA ResubmitInv ==
  ASSUME WithdrawalInv, NEW u \in Users, ResubmitActiveWithdrawal(u), UNCHANGED plan
  PROVE  WithdrawalInv'
<1> USE DEF WithdrawalInv
<1>1. client[u].pc = "down"
  BY DEF ResubmitActiveWithdrawal, Down
<1>2. /\ UNCHANGED <<pool, executed, owner, submit, latest, forgotten, clientRestarts>>
      /\ clientRestarts \in 0..plan.clientRestarts /\ forgotten \subseteq Withdrawals
  BY DEF ResubmitActiveWithdrawal, chainVars, UserWithdrawalsTypeOK
<1>3. Up \in ClientStates /\ Up.pc = "up" /\ None \in Records
  BY UpDownStates DEF Up, Records
<1>4. CASE record[u] = None \/ MatchTx(u)
  <2>1. record' = [record EXCEPT ![u] = None] /\ client' = [client EXCEPT ![u] = Up]
    BY <1>4, WithdrawalTypes DEF ResubmitActiveWithdrawal
  <2>2. record[u] # None => OnTheWay(record[u].tx)
    <3>1. SUFFICES ASSUME record[u] # None PROVE OnTheWay(record[u].tx)
      OBVIOUS
    <3>2. record[u].tx \in Nat
      BY <3>1, WithdrawalTypes, WithdrawalNat DEF Records
    <3>3. latest = record[u].tx
      BY <1>4, <3>1 DEF MatchTx
    <3>4. latest # None
      BY <3>2, <3>3, RetriesFacts
    <3> QED
      BY <3>3, <3>4 DEF Sent
  <2> QED
    BY <1>1, <1>2, <1>3, <2>1, <2>2, ClientOnly
<1>5. CASE ~(record[u] = None \/ MatchTx(u))
  <2> DEFINE c == IF record[u].retry + 1 >= MAX_WITHDRAWAL_RETRIES THEN Down
                  ELSE [pc |-> "recorded", tx |-> record[u].tx, connecting |-> TRUE]
  <2>0. /\ record[u] # None /\ record[u].retry < MAX_WITHDRAWAL_RETRIES
        /\ record' = [record EXCEPT ![u].retry = @ + 1]
        /\ client' = [client EXCEPT ![u] = c]
    BY <1>5 DEF ResubmitActiveWithdrawal
  <2>1. /\ Again(u) \in Records /\ Again(u) # None /\ Again(u).tx = record[u].tx
        /\ record' = [record EXCEPT ![u] = Again(u)]
        /\ record[u].retry + 1 < MAX_WITHDRAWAL_RETRIES => Again(u).retry \in Tries
    BY <2>0, AgainFacts DEF Again
  <2>2. owner[Again(u).tx] # None
    BY <2>0, <2>1 DEF Owned
  <2>6. Again(u) \in Records /\ Again(u) # None /\ Again(u).tx = record[u].tx
    BY <2>1
  <2>7. record' = [record EXCEPT ![u] = Again(u)] /\ client' = [client EXCEPT ![u] = c]
    BY <2>0, <2>1
  <2>3. record[u].tx \in Withdrawals /\ record[u].retry \in Nat
    BY <1>5, WithdrawalTypes DEF Records
  <2>4. c \in ClientStates /\ c.pc \in {"down", "recorded"}
    <3>1. CASE record[u].retry + 1 >= MAX_WITHDRAWAL_RETRIES
      BY <3>1, UpDownStates DEF Down
    <3>2. CASE ~(record[u].retry + 1 >= MAX_WITHDRAWAL_RETRIES)
      BY <2>3, <3>2 DEF ClientStates
    <3> QED
      BY <3>1, <3>2
  <2>5. c.pc = "recorded" => Again(u).retry \in Tries
    BY <2>1, <2>3, RetriesFacts DEF Down
  <2> HIDE DEF c
  <2> QED
    BY <1>1, <1>2, <2>2, <2>4, <2>5, <2>6, <2>7, ClientOnly
<1> QED
  BY <1>4, <1>5

\* What a step must establish that changes neither a record nor what a client
\* has committed to.
LEMMA HubOnly ==
  ASSUME WithdrawalInv,
         UNCHANGED <<record, owner, forgotten, clientRestarts, plan>>,
         client' \in [Users -> ClientStates], latest' \in Withdrawals \cup {None},
         submit' \in [Withdrawals -> [Tries -> {"none", "asked", "sent", "done"}]],
         pool' \in [Withdrawals -> Nat], executed' \subseteq Withdrawals,
         \A u \in Users :
           \/ client'[u] = client[u]
           \/ client[u].pc # "committed" /\ client'[u].pc \in {"up", "down"}
           \/ /\ client[u].pc \in {"recorded", "asked"}
              /\ client'[u].pc \in {"asked", "watching"},
         \A w \in Withdrawals : OnTheWay(w) => OnTheWay(w)',
         latest' # None => latest' \in executed' \/ pool'[latest'] > 0,
         \A w \in Withdrawals, k \in Tries :
           /\ submit'[w][k] = "sent" => OnTheWay(w)'
           /\ submit'[w][k] # "none" => owner[w] # None
  PROVE  WithdrawalInv'
<1> USE DEF WithdrawalInv
<1>1. UserWithdrawalsTypeOK'
  BY DEF UserWithdrawalsTypeOK, ClientStates, Records
<1>2. RecordedUntilSent'
  <2> SUFFICES ASSUME NEW w \in Withdrawals, owner[w] # None PROVE Kept(w)'
    BY DEF RecordedUntilSent, Kept
  <2>1. owner[w] \in Users
    BY WithdrawalTypes
  <2>2. Kept(w)
    BY DEF RecordedUntilSent, Kept
  <2>3. CASE w \in forgotten \/ OnTheWay(w)
    BY <2>3 DEF Kept, OnTheWay
  <2>4. CASE record[owner[w]] # None /\ record[owner[w]].tx = w
    BY <2>4 DEF Kept
  <2>5. CASE client[owner[w]].pc = "committed" /\ client[owner[w]].tx = w
    <3>1. client'[owner[w]] = client[owner[w]]
      BY <2>1, <2>5
    <3> QED
      BY <2>5, <3>1 DEF Kept
  <2> QED
    BY <2>2, <2>3, <2>4, <2>5 DEF Kept, OnTheWay
<1>3. Sent'
  BY DEF Sent, OnTheWay
<1>4. Owned'
  <2> SUFFICES ASSUME NEW u \in Users
               PROVE  /\ client'[u].pc = "committed" =>
                           client'[u].tx \in Withdrawals /\ owner[client'[u].tx] # None
                      /\ client'[u].pc \in {"recorded", "asked", "watching"} =>
                           record[u] # None /\ record[u].retry \in Tries
                      /\ record[u] # None => owner[record[u].tx] # None
    BY DEF Owned
  <2> QED
    BY DEF Owned
<1> QED
  BY <1>1, <1>2, <1>3, <1>4

\* What request k for w becomes, or remains.
SubmitTo(w, k, x) == submit' = [submit EXCEPT ![w][k] = x]

LEMMA SubmitFacts ==
  ASSUME UserWithdrawalsTypeOK, NEW w \in Withdrawals, NEW k \in Tries,
         NEW x \in {"asked", "sent", "done"}, SubmitTo(w, k, x)
  PROVE  /\ submit' \in [Withdrawals -> [Tries -> {"none", "asked", "sent", "done"}]]
         /\ \A v \in Withdrawals, j \in Tries :
              submit'[v][j] = IF v = w /\ j = k THEN x ELSE submit[v][j]
<1>1. submit \in [Withdrawals -> [Tries -> {"none", "asked", "sent", "done"}]]
  BY WithdrawalTypes
<1>2. submit' = [submit EXCEPT ![w] = [submit[w] EXCEPT ![k] = x]]
  BY DEF SubmitTo
<1> QED
  BY <1>1, <1>2

\* The client that waits for the answer to a request, if one does.
LEMMA AwaitsFacts ==
  ASSUME WithdrawalInv, NEW w \in Withdrawals, NEW k \in Tries,
         submit[w][k] # "none"
  PROVE  owner[w] \in Users /\ (Awaits(owner[w], w, k) => client[owner[w]].pc = "asked")
  BY WithdrawalTypes DEF WithdrawalInv, Owned, Awaits

LEMMA RequestWithdrawInv ==
  ASSUME WithdrawalInv, NEW u \in Users, RequestWithdraw(u), UNCHANGED plan
  PROVE  WithdrawalInv'
<1> USE DEF WithdrawalInv
<1> DEFINE c == [client[u] EXCEPT !.pc = "asked"]
           w == record[u].tx
           k == record[u].retry
<1>1. /\ client[u].pc = "recorded" /\ record[u] # None /\ k \in Tries /\ owner[w] # None
  BY DEF RequestWithdraw, Owned
<1>2. w \in Withdrawals
  BY <1>1, WithdrawalTypes DEF Records
<1>3. c \in ClientStates /\ c.pc = "asked"
  BY WithdrawalTypes DEF ClientStates
<1>4. /\ client' = [client EXCEPT ![u] = c] /\ SubmitTo(w, k, "asked")
      /\ UNCHANGED <<record, owner, forgotten, clientRestarts, pool, executed, latest>>
  BY DEF RequestWithdraw, chainVars, SubmitTo
<1> HIDE DEF c, w, k
<1>5. /\ client' \in [Users -> ClientStates]
      /\ \A v \in Users : client'[v] = IF v = u THEN c ELSE client[v]
  BY <1>3, <1>4, WithdrawalTypes
<1>6. /\ submit' \in [Withdrawals -> [Tries -> {"none", "asked", "sent", "done"}]]
      /\ \A v \in Withdrawals, j \in Tries :
           submit'[v][j] = IF v = w /\ j = k THEN "asked" ELSE submit[v][j]
  BY <1>1, <1>2, <1>4, SubmitFacts
<1>7. \A v \in Withdrawals, j \in Tries :
        /\ submit'[v][j] = "sent" => OnTheWay(v)'
        /\ submit'[v][j] # "none" => owner[v] # None
  BY <1>1, <1>4, <1>6 DEF Sent, Owned, OnTheWay
<1>8. \A v \in Withdrawals : OnTheWay(v) => OnTheWay(v)'
  BY <1>4 DEF OnTheWay
<1>9. /\ latest' \in Withdrawals \cup {None} /\ pool' \in [Withdrawals -> Nat]
      /\ executed' \subseteq Withdrawals
      /\ latest' # None => latest' \in executed' \/ pool'[latest'] > 0
  BY <1>4 DEF UserWithdrawalsTypeOK, Sent, OnTheWay
<1> QED
  BY <1>1, <1>3, <1>4, <1>5, <1>6, <1>7, <1>8, <1>9, HubOnly

LEMMA SendTransactionInv ==
  ASSUME WithdrawalInv, NEW w \in Withdrawals, NEW k \in Tries, SendTransaction(w, k),
         UNCHANGED plan
  PROVE  WithdrawalInv'
<1> USE DEF WithdrawalInv
<1>1. submit[w][k] = "asked"
  BY DEF SendTransaction
<1>2. owner[w] \in Users /\ owner[w] # None
      /\ (Awaits(owner[w], w, k) => client[owner[w]].pc = "asked")
  BY <1>1, AwaitsFacts DEF Owned
<1>3. /\ client' \in [Users -> ClientStates]
      /\ \A v \in Users :
           \/ client'[v] = client[v]
           \/ client[v].pc # "committed" /\ client'[v].pc \in {"up", "down"}
  <2>0. client \in [Users -> ClientStates]
    BY WithdrawalTypes
  <2>1. CASE UNCHANGED client
    BY <2>0, <2>1, Zenon
  <2>2. CASE Awaits(owner[w], w, k) /\ client' = Thrown(owner[w])
    <3> DEFINE c == IF client[owner[w]].connecting THEN Down ELSE Up
    <3>1. c \in ClientStates /\ c.pc \in {"up", "down"}
      BY UpDownStates DEF Up, Down
    <3>2. client' = [client EXCEPT ![owner[w]] = c]
      BY <2>2 DEF Thrown
    <3> HIDE DEF c
    <3>3. client' \in [Users -> ClientStates]
      BY <2>0, <3>1, <3>2
    <3>4. \A v \in Users : client'[v] = IF v = owner[w] THEN c ELSE client[v]
      BY <2>0, <3>2
    <3> QED
      BY <1>2, <2>2, <3>1, <3>3, <3>4
  <2> QED
    BY <2>1, <2>2 DEF SendTransaction
<1>4. /\ pool' \in [Withdrawals -> Nat]
      /\ \A v \in Withdrawals : pool'[v] >= pool[v]
  <2>0. pool \in [Withdrawals -> Nat]
    BY WithdrawalTypes
  <2>1. CASE pool' = [pool EXCEPT ![w] = @ + 1]
    BY <2>0, <2>1
  <2>2. CASE UNCHANGED pool
    BY <2>0, <2>2
  <2> QED
    BY <2>1, <2>2 DEF SendTransaction
<1>5. PICK x \in {"sent", "done"} : SubmitTo(w, k, x) /\ (x = "sent" => pool'[w] > 0)
  <2>0. pool \in [Withdrawals -> Nat]
    BY WithdrawalTypes
  <2>1. CASE pool' = [pool EXCEPT ![w] = @ + 1] /\ SubmitTo(w, k, "sent")
    BY <2>0, <2>1
  <2>2. CASE SubmitTo(w, k, "done")
    BY <2>2
  <2> QED
    BY <2>1, <2>2 DEF SendTransaction, SubmitTo
<1>6. /\ submit' \in [Withdrawals -> [Tries -> {"none", "asked", "sent", "done"}]]
      /\ \A v \in Withdrawals, j \in Tries :
           submit'[v][j] = IF v = w /\ j = k THEN x ELSE submit[v][j]
  BY <1>5, SubmitFacts
<1>7. UNCHANGED <<record, owner, forgotten, clientRestarts, executed, latest>>
  BY DEF SendTransaction
<1>8. \A v \in Withdrawals : OnTheWay(v) => OnTheWay(v)'
  BY <1>4, <1>7, WithdrawalTypes DEF OnTheWay
<1>9. \A v \in Withdrawals, j \in Tries :
        /\ submit'[v][j] = "sent" => OnTheWay(v)'
        /\ submit'[v][j] # "none" => owner[v] # None
  <2> SUFFICES ASSUME NEW v \in Withdrawals, NEW j \in Tries
               PROVE  /\ submit'[v][j] = "sent" => OnTheWay(v)'
                      /\ submit'[v][j] # "none" => owner[v] # None
    OBVIOUS
  <2>1. CASE v = w /\ j = k
    BY <1>2, <1>4, <1>5, <1>6, <2>1 DEF OnTheWay
  <2>2. CASE ~(v = w /\ j = k)
    BY <1>6, <1>8, <2>2 DEF Sent, Owned
  <2> QED
    BY <2>1, <2>2
<1>10. /\ latest' \in Withdrawals \cup {None} /\ executed' \subseteq Withdrawals
       /\ latest' # None => latest' \in executed' \/ pool'[latest'] > 0
  BY <1>4, <1>7, WithdrawalTypes DEF UserWithdrawalsTypeOK, Sent, OnTheWay
<1> QED
  BY <1>3, <1>4, <1>6, <1>7, <1>8, <1>9, <1>10, HubOnly

LEMMA AddUserWithdrawalInv ==
  ASSUME WithdrawalInv, NEW w \in Withdrawals, NEW k \in Tries, AddUserWithdrawal(w, k),
         UNCHANGED plan
  PROVE  WithdrawalInv'
<1> USE DEF WithdrawalInv
<1>1. submit[w][k] = "sent" /\ OnTheWay(w) /\ client \in [Users -> ClientStates]
  BY WithdrawalTypes DEF AddUserWithdrawal, Sent
<1>2. owner[w] \in Users /\ (Awaits(owner[w], w, k) => client[owner[w]].pc = "asked")
  BY <1>1, AwaitsFacts
<1>3. /\ client' \in [Users -> ClientStates]
      /\ \A v \in Users :
           \/ client'[v] = client[v]
           \/ client[v].pc = "asked" /\ client'[v].pc = "watching"
  <2>1. CASE UNCHANGED client
    BY <1>1, <2>1, Zenon
  <2>2. CASE Awaits(owner[w], w, k)
    <3> DEFINE c == [client[owner[w]] EXCEPT !.pc = "watching"]
    <3>1. c \in ClientStates /\ c.pc = "watching"
      BY <1>1, <1>2 DEF ClientStates
    <3>2. client' = [client EXCEPT ![owner[w]] = c]
      BY <2>2 DEF AddUserWithdrawal
    <3> HIDE DEF c
    <3>3. client' \in [Users -> ClientStates]
      BY <1>1, <3>1, <3>2
    <3>4. \A v \in Users : client'[v] = IF v = owner[w] THEN c ELSE client[v]
      BY <1>1, <3>2
    <3> QED
      BY <1>2, <2>2, <3>1, <3>3, <3>4
  <2> QED
    BY <2>1, <2>2 DEF AddUserWithdrawal
<1>4. SubmitTo(w, k, "done") /\ latest' = w
  BY DEF AddUserWithdrawal, SubmitTo
<1>5. /\ submit' \in [Withdrawals -> [Tries -> {"none", "asked", "sent", "done"}]]
      /\ \A v \in Withdrawals, j \in Tries :
           submit'[v][j] = IF v = w /\ j = k THEN "done" ELSE submit[v][j]
  BY <1>4, SubmitFacts
<1>6. UNCHANGED <<record, owner, forgotten, clientRestarts, executed, pool>>
  BY DEF AddUserWithdrawal, chainVars
<1>7. \A v \in Withdrawals : OnTheWay(v) => OnTheWay(v)'
  BY <1>6 DEF OnTheWay
<1>8. \A v \in Withdrawals, j \in Tries :
        /\ submit'[v][j] = "sent" => OnTheWay(v)'
        /\ submit'[v][j] # "none" => owner[v] # None
  BY <1>1, <1>5, <1>7 DEF Sent, Owned
<1>9. /\ latest' \in Withdrawals \cup {None} /\ executed' \subseteq Withdrawals
      /\ pool' \in [Withdrawals -> Nat]
      /\ latest' # None => latest' \in executed' \/ pool'[latest'] > 0
  BY <1>1, <1>4, <1>6 DEF UserWithdrawalsTypeOK, OnTheWay
<1> QED
  BY <1>3, <1>5, <1>6, <1>7, <1>8, <1>9, HubOnly

\* Who watches forgets the record, but of what is now executed.
LEMMA MineInv ==
  ASSUME WithdrawalInv, NEW w \in Withdrawals, Mine(w), UNCHANGED plan
  PROVE  WithdrawalInv'
<1> USE DEF WithdrawalInv
<1>1. /\ client \in [Users -> ClientStates] /\ record \in [Users -> Records]
      /\ pool \in [Withdrawals -> Nat] /\ executed \subseteq Withdrawals
  BY WithdrawalTypes
<1>2. /\ \A u \in Users :
           /\ client'[u] = IF Watching(u, w) THEN Up ELSE client[u]
           /\ record'[u] = IF Watching(u, w) THEN None ELSE record[u]
      /\ client' \in [Users -> ClientStates] /\ record' \in [Users -> Records]
  <2>1. Up \in ClientStates /\ None \in Records
    BY UpDownStates DEF Records
  <2> QED
    BY <1>1, <2>1 DEF Mine
<1>3. executed' = executed \cup {w} /\ pool' \in [Withdrawals -> Nat]
      /\ \A v \in Withdrawals : v # w => pool'[v] = pool[v]
  BY <1>1 DEF Mine
<1>4. UNCHANGED <<owner, submit, latest, forgotten, clientRestarts>>
  BY DEF Mine
<1>5. \A v \in Withdrawals : OnTheWay(v) => OnTheWay(v)'
  BY <1>3 DEF OnTheWay
<1>6. UserWithdrawalsTypeOK'
  BY <1>1, <1>2, <1>3, <1>4 DEF UserWithdrawalsTypeOK, ClientStates, Records
<1>7. RecordedUntilSent'
  <2> SUFFICES ASSUME NEW v \in Withdrawals, owner[v] # None, ~OnTheWay(v)' PROVE Kept(v)'
    BY <1>4 DEF RecordedUntilSent, Kept, OnTheWay
  <2>1. v # w /\ ~OnTheWay(v) /\ owner[v] \in Users
    BY <1>3, <1>5, WithdrawalTypes DEF OnTheWay
  <2>2. Kept(v)
    BY DEF RecordedUntilSent, Kept
  <2>3. ~Watching(owner[v], w) \/ v \in forgotten
    BY <2>1, <2>2 DEF Kept, Watching, OnTheWay
  <2> QED
    BY <1>2, <1>4, <2>1, <2>2, <2>3 DEF Kept, OnTheWay
<1>8. Sent'
  <2>1. latest # None => latest \in Withdrawals
    BY DEF UserWithdrawalsTypeOK
  <2> QED
    BY <1>4, <1>5, <2>1 DEF Sent, OnTheWay
<1>9. Owned'
  <2>1. \A u \in Users :
          /\ client'[u].pc = "committed" =>
               client'[u].tx \in Withdrawals /\ owner[client'[u].tx] # None
          /\ client'[u].pc \in {"recorded", "asked", "watching"} =>
               record'[u] # None /\ record'[u].retry \in Tries
          /\ record'[u] # None => owner[record'[u].tx] # None
    <3> SUFFICES ASSUME NEW u \in Users
                 PROVE  /\ client'[u].pc = "committed" =>
                             client'[u].tx \in Withdrawals /\ owner[client'[u].tx] # None
                        /\ client'[u].pc \in {"recorded", "asked", "watching"} =>
                             record'[u] # None /\ record'[u].retry \in Tries
                        /\ record'[u] # None => owner[record'[u].tx] # None
      OBVIOUS
    <3>1. CASE Watching(u, w)
      BY <1>2, <3>1 DEF Up
    <3>2. CASE ~Watching(u, w)
      BY <1>2, <3>2 DEF Owned
    <3> QED
      BY <3>1, <3>2
  <2> QED
    BY <1>4, <2>1 DEF Owned
<1> QED
  BY <1>6, <1>7, <1>8, <1>9

LEMMA WithdrawInv ==
  ASSUME WithdrawalInv, NEW u \in Users, NEW w \in Withdrawals, Withdraw(u, w),
         UNCHANGED plan
  PROVE  WithdrawalInv'
<1> USE DEF WithdrawalInv
<1> DEFINE c == [client[u] EXCEPT !.pc = "committed", !.tx = w]
<1>1. /\ client \in [Users -> ClientStates]
      /\ owner \in [Withdrawals -> Users \cup {None}]
  BY WithdrawalTypes
<1>2. client[u].pc = "up" /\ owner[w] = None
  BY DEF Withdraw, Up
<1>3. c \in ClientStates /\ c.pc = "committed" /\ c.tx = w
  BY <1>1 DEF ClientStates
<1>4. /\ client' = [client EXCEPT ![u] = c] /\ owner' = [owner EXCEPT ![w] = u]
      /\ UNCHANGED <<record, clientRestarts, pool, executed, submit, latest, forgotten>>
  BY DEF Withdraw, chainVars
<1> HIDE DEF c
<1>5. /\ \A v \in Users : client'[v] = IF v = u THEN c ELSE client[v]
      /\ \A v \in Withdrawals : owner'[v] = IF v = w THEN u ELSE owner[v]
      /\ client' \in [Users -> ClientStates]
      /\ owner' \in [Withdrawals -> Users \cup {None}]
  BY <1>1, <1>3, <1>4
<1>6. u # None
  BY HubConstants
<1>7. UserWithdrawalsTypeOK'
  BY <1>4, <1>5 DEF UserWithdrawalsTypeOK, ClientStates
<1>8. RecordedUntilSent'
  <2> SUFFICES ASSUME NEW v \in Withdrawals, owner'[v] # None PROVE Kept(v)'
    BY DEF RecordedUntilSent, Kept
  <2>1. CASE v = w
    BY <1>3, <1>5, <2>1 DEF Kept
  <2>2. CASE v # w
    <3>1. Kept(v) /\ owner[v] \in Users /\ owner'[v] = owner[v]
      BY <1>1, <1>5, <2>2 DEF RecordedUntilSent, Kept
    <3>2. client[u].pc # "committed"
      BY <1>2
    <3> QED
      BY <1>4, <1>5, <3>1, <3>2 DEF Kept
  <2> QED
    BY <2>1, <2>2
<1>9. Sent'
  BY <1>4 DEF Sent, OnTheWay
<1>10. Owned'
  <2>1. \A v \in Withdrawals : owner[v] # None => owner'[v] # None
    BY <1>5, <1>6
  <2>2. \A v \in Users : record[v] # None => record[v].tx \in Withdrawals
    BY WithdrawalTypes DEF Records
  <2>3. \A v \in Users :
          /\ client'[v].pc = "committed" =>
               client'[v].tx \in Withdrawals /\ owner'[client'[v].tx] # None
          /\ client'[v].pc \in {"recorded", "asked", "watching"} =>
               record[v] # None /\ record[v].retry \in Tries
          /\ record[v] # None => owner'[record[v].tx] # None
    BY <1>3, <1>5, <1>6, <2>1, <2>2 DEF Owned
  <2> QED
    BY <1>4, <2>1, <2>3 DEF Owned
<1> QED
  BY <1>7, <1>8, <1>9, <1>10

LEMMA SubmissionsLostInv ==
  ASSUME WithdrawalInv, SubmissionsLost, UNCHANGED plan
  PROVE  WithdrawalInv'
<1> USE DEF WithdrawalInv
<1>1. /\ submit' \in [Withdrawals -> [Tries -> {"none", "asked", "sent", "done"}]]
      /\ \A w \in Withdrawals, k \in Tries :
           submit'[w][k] # "sent" /\ (submit'[w][k] # "none" => submit[w][k] # "none")
  BY WithdrawalTypes DEF SubmissionsLost
<1>2. UNCHANGED <<client, record, owner, forgotten, clientRestarts, executed, pool, latest>>
  BY DEF SubmissionsLost, clientVars, chainVars
<1>3. client \in [Users -> ClientStates]
  BY WithdrawalTypes
<1>4. /\ latest \in Withdrawals \cup {None} /\ executed \subseteq Withdrawals
      /\ pool \in [Withdrawals -> Nat]
      /\ latest # None => latest \in executed \/ pool[latest] > 0
  BY DEF UserWithdrawalsTypeOK, Sent, OnTheWay
<1>5. \A w \in Withdrawals : OnTheWay(w) => OnTheWay(w)'
  BY <1>2 DEF OnTheWay
<1>6. \A w \in Withdrawals, k \in Tries : submit'[w][k] # "none" => owner[w] # None
  BY <1>1 DEF Owned
<1> QED
  BY <1>1, <1>2, <1>3, <1>4, <1>5, <1>6, HubOnly

LEMMA WithdrawalStep ==
  WithdrawalInv /\ UserWithdrawalsNext /\ UNCHANGED plan /\ plan \in Plans => WithdrawalInv'
<1> SUFFICES ASSUME WithdrawalInv, UserWithdrawalsNext, UNCHANGED plan, plan \in Plans
             PROVE  WithdrawalInv'
  OBVIOUS
<1>1. ASSUME NEW u \in Users, (\E w \in Withdrawals : Withdraw(u, w)) \/ ClientStep(u)
                             \/ ClientRestart(u) \/ ResubmitActiveWithdrawal(u)
      PROVE  WithdrawalInv'
  BY <1>1, WithdrawInv, RecordInv, RequestWithdrawInv, RequestTimeoutInv, FindMinedInv,
     WatchEndsInv, ClientRestartInv, ResubmitInv DEF ClientStep
<1>2. ASSUME NEW w \in Withdrawals, ServerStep(w) PROVE WithdrawalInv'
  BY <1>2, MineInv, SendTransactionInv, AddUserWithdrawalInv DEF ServerStep
<1> QED
  BY <1>1, <1>2 DEF UserWithdrawalsNext

LEMMA WithdrawalStutter ==
  WithdrawalInv /\ UNCHANGED <<withdrawalVars, plan>> => WithdrawalInv'
<1> SUFFICES ASSUME WithdrawalInv, UNCHANGED <<withdrawalVars, plan>> PROVE WithdrawalInv'
  OBVIOUS
<1> USE DEF WithdrawalInv, withdrawalVars, clientVars, chainVars
<1>1. UserWithdrawalsTypeOK'
  BY DEF UserWithdrawalsTypeOK
<1>2. RecordedUntilSent'
  BY DEF RecordedUntilSent
<1>3. Sent' /\ Owned'
  BY DEF Sent, Owned, OnTheWay
<1> QED
  BY <1>1, <1>2, <1>3

-----------------------------------------------------------------------------
(***************************************************************************)
(* The hub: its parts step one at a time, and restart together.             *)
(***************************************************************************)
LEMMA ChannelsKeepPlan == HubChannelsNext => UNCHANGED plan
  BY DEF HubChannelsNext, Connect, CreationStep, Create, RunSetup, SetupResponder,
         SetupInitiator, MakeAvailable, ConnectTimeout, SetupTimeout

LEMMA PaymentsKeepChannels == LinkedTransfersNext => UNCHANGED hubChannelVars
<1>1. ASSUME NEW p \in Payments, NEW r \in Resolves,
             \/ Propose(p) \/ AllowOrReject(p) \/ SaveLinkedTransfer(p)
             \/ InstallEvent(p) \/ GiveUp(p) \/ SetRecipient(p) \/ Ask(r, p)
      PROVE  UNCHANGED hubChannelVars
  BY <1>1 DEF Propose, AllowOrReject, SaveLinkedTransfer, InstallEvent, GiveUp,
              SetRecipient, Ask
<1>2. ASSUME NEW r \in Resolves, RequestStep(r) PROVE UNCHANGED hubChannelVars
  BY <1>2 DEF RequestStep, ReadFlag, ReadBalance, SetInFlight, DepositConfirmed,
              DepositFailed, ClearCollateralizationInFlight
<1>3. ASSUME NEW r \in Resolves, ResolveStep(r) PROVE UNCHANGED hubChannelVars
  BY <1>3 DEF ResolveStep, FindTransfer, FindSenderApp, ProposeInstall, ClientInstalls,
              SaveTransfer, UnlockReceiver, UninstallReceiver, MarkAsRedeemed,
              UnlockSender, UninstallSender, MarkAsReclaimed
<1>4. ASSUME NEW p \in Payments,
             \/ Propose(p) \/ AllowOrReject(p) \/ SaveLinkedTransfer(p)
             \/ InstallEvent(p) \/ GiveUp(p) \/ SetRecipient(p)
      PROVE  UNCHANGED hubChannelVars
  BY <1>4 DEF Propose, AllowOrReject, SaveLinkedTransfer, InstallEvent, GiveUp,
              SetRecipient
<1> QED
  BY <1>1, <1>2, <1>3, <1>4 DEF LinkedTransfersNext

LEMMA WithdrawalsKeepChannels == UserWithdrawalsNext => UNCHANGED hubChannelVars
  BY DEF UserWithdrawalsNext, Withdraw, ClientStep, Record, RequestWithdraw,
         RequestTimeout, FindMined, WatchEnds, ClientRestart, ResubmitActiveWithdrawal,
         ServerStep, Mine, SendTransaction, AddUserWithdrawal

LEMMA InitInv == Init => IInv
  BY ChannelInit, WithdrawalInit DEF Init, IInv

LEMMA StepInv == IInv /\ [Next]_vars => IInv'
<1> SUFFICES ASSUME IInv, [Next]_vars PROVE IInv'
  OBVIOUS
<1>1. ChannelInv /\ WithdrawalInv /\ plan \in Plans
  BY DEF IInv, ChannelInv, HubChannelsTypeOK
<1>2. UNCHANGED plan
  BY ChannelsKeepPlan, PaymentsKeepChannels, WithdrawalsKeepChannels
  DEF Next, Restart, vars, hubChannelVars
<1>3. CASE HubChannelsNext /\ UNCHANGED <<paymentVars, withdrawalVars>>
  BY <1>1, <1>2, <1>3, ChannelStep, WithdrawalStutter DEF IInv
<1>4. CASE UNCHANGED hubChannelVars /\ UNCHANGED withdrawalVars
  BY <1>1, <1>2, <1>4, ChannelStutter, WithdrawalStutter DEF IInv
<1>5. CASE UNCHANGED hubChannelVars /\ UserWithdrawalsNext
  BY <1>1, <1>2, <1>5, ChannelStutter, WithdrawalStep DEF IInv
<1>6. CASE Restart
  BY <1>1, <1>6, CreationsLostInv, SubmissionsLostInv DEF Restart, IInv
<1> QED
  BY <1>3, <1>4, <1>5, <1>6, PaymentsKeepChannels, WithdrawalsKeepChannels DEF Next, vars

LEMMA Invariance == Spec => []IInv
  BY InitInv, StepInv, PTL DEF Spec

-----------------------------------------------------------------------------
\* However many calls create it, whatever is lost and whenever the hub restarts,
\* a user never has two rows, nor one for a channel that a party does not have.
THEOREM OneChannelEach == Spec => []OneChannel
<1>1. IInv => OneChannel
  BY DEF IInv, ChannelInv, RowsStored, OneChannel
<1> QED
  BY <1>1, Invariance, PTL

\* Whenever clients and the hub stop, and whatever is sent twice or late, a
\* client keeps the record of a withdrawal until its transaction is on the way.
THEOREM WithdrawalsAreRecorded == Spec => []RecordedUntilSent
<1>1. IInv => RecordedUntilSent
  BY DEF IInv, WithdrawalInv
<1> QED
  BY <1>1, Invariance, PTL

-----------------------------------------------------------------------------
(***************************************************************************)
(* A call has been accepted once it has passed the check of the status; then *)
(* it goes through Paying, and through PostPaid when the user has the money.  *)
(***************************************************************************)
Paying == {"waiting", "ready", "proposed", "installed", "saved", "unlocked"}
PostPaid == {"paid", "reclaiming", "reclaimed", "unreclaimed", "done"}
HasApp == {"installed", "saved", "unlocked", "stuck", "failed", "lost"}
Past(r, p) == resolve[r].payment = p /\ resolve[r].pc \notin {"idle", "asked", "refused"}

PaymentTypes ==
  /\ sending \in [Payments -> {"idle", "proposed", "installed", "sent", "failed"}]
  /\ proposal \in [Payments -> Proposals \cup {None}]
  /\ inbox \subseteq Payments /\ saving \subseteq Payments
  /\ apps \subseteq [payment : Payments, by : Nat, unlocked : BOOLEAN]
  /\ row \in [Payments -> Rows \cup {None}]
  /\ resolve \in [Resolves -> Calls]
  /\ paid \in [Payments -> Nat] /\ taken \in [Payments -> Nat]

CallShape ==
  \A r \in Resolves :
    /\ resolve[r].pc = "idle" <=> resolve[r].payment = None
    /\ resolve[r].pc \in {"idle", "asked", "refused"} =>
         resolve[r].alone = TRUE /\ resolve[r].senderApp = None
    /\ resolve[r].pc \in {"idle", "asked", "refused", "found", "failed", "stuck"} \cup Paying
         => resolve[r].marked = FALSE

\* What the hub installs for a sender is worth what it was funded with.
Deposit(p) == proposal[p].deposit
Valid(p) == proposal[p] \in Proposals /\ Deposit(p) > 0 /\ Claim(p) = Deposit(p)

\* A payment is proposed, installed and saved once.
Fresh(p) ==
  /\ sending[p] = "idle" \/ p \in inbox =>
       ~Installed(p, 0) /\ taken[p] = 0 /\ row[p] = None /\ p \notin saving
  /\ sending[p] = "idle" => p \notin inbox
  /\ p \in inbox => proposal[p] \in Proposals
  /\ p \in saving => row[p] = None
  /\ Installed(p, 0) \/ taken[p] > 0 \/ row[p] # None \/ p \in saving => Valid(p)

\* A copy of the row of p, in the table or with a call.
CopyOf(t, p) ==
  /\ t \in Rows /\ t.amount = Deposit(p)
  /\ t.status # "PENDING" => paid[p] >= Deposit(p)

RowOf(p) == row[p] # None => CopyOf(row[p], p)

Fits(r, p) ==
  /\ CopyOf(resolve[r].transfer, p)
  /\ resolve[r].pc \in PostPaid \/ resolve[r].marked = TRUE => paid[p] >= Deposit(p)
  /\ resolve[r].marked = FALSE => resolve[r].transfer.status # "REDEEMED"
  /\ resolve[r].pc \in Paying \cup {"paid", "reclaiming"} => resolve[r].senderApp \in Nat
  /\ \A a \in apps : a.payment = p =>
       /\ resolve[r].pc = "unlocked" /\ a.by = r => a.unlocked = TRUE
       /\ resolve[r].pc = "reclaiming" /\ resolve[r].senderApp = 0 /\ a.by = 0
            => a.unlocked = TRUE

CallsOf(p) == \A r \in Resolves : Past(r, p) => row[p] # None /\ Fits(r, p)

AppsOf(p) ==
  \A a \in apps : a.payment = p =>
    /\ \/ a.by = 0
       \/ /\ a.by \in Resolves /\ Past(a.by, p)
          /\ resolve[a.by].pc \in HasApp /\ resolve[a.by].marked = FALSE
    /\ \A b \in apps : b.payment = p /\ b.by = a.by => a = b

TakenOf(p) ==
  taken[p] = 0 \/ (taken[p] = Deposit(p) /\ ~Installed(p, 0) /\ paid[p] >= Deposit(p))

-----------------------------------------------------------------------------
(***************************************************************************)
(* When the calls come one by one: there is one at most that has not marked  *)
(* the payment, and it has found it pending, or redeemed and reclaimed.       *)
(***************************************************************************)
NoApps(p) == \A a \in apps : a.payment # p

OneAccepted(p) ==
  \A r, s \in Resolves : Accepted(r, p) /\ Accepted(s, p) => r = s

MarkedOf(p) ==
  \A r \in Resolves : Past(r, p) /\ resolve[r].marked = TRUE =>
    /\ row[p].status # "PENDING"
    /\ \A s \in Resolves : Accepted(s, p) => resolve[s].transfer.status = "RECLAIMED"

Returned(p) ==
  \/ row[p] # None /\ row[p].status = "RECLAIMED"
  \/ \E r \in Resolves : /\ Past(r, p)
                         /\ \/ resolve[r].transfer.status = "RECLAIMED"
                            \/ resolve[r].pc = "reclaimed"

ReclaimedOf(p) == Returned(p) => NoApps(p) /\ taken[p] = Deposit(p)

PendingOf(p) ==
  \A r \in Resolves : Past(r, p) /\ resolve[r].pc \in Paying \cup {"found"} =>
    \/ /\ resolve[r].transfer.status = "PENDING" /\ paid[p] = 0
       /\ resolve[r].pc # "found" => Installed(p, 0)
    \/ resolve[r].transfer.status = "RECLAIMED" /\ resolve[r].pc = "found"

PaidOnce(p) ==
  /\ paid[p] = 0 \/ (/\ paid[p] = Deposit(p)
                     /\ Installed(p, 0) \/ taken[p] = Deposit(p)
                     /\ \E r \in Resolves : Past(r, p))
  /\ \A r \in Resolves : Past(r, p) => resolve[r].senderApp \in {None, 0}

Once(p) ==
  OneAccepted(p) /\ MarkedOf(p) /\ ReclaimedOf(p) /\ PendingOf(p) /\ PaidOnce(p)

Of(p) ==
  /\ Fresh(p) /\ RowOf(p) /\ CallsOf(p) /\ AppsOf(p) /\ TakenOf(p)
  /\ OneByOne(p) => Once(p)

PayInv == PaymentTypes /\ CallShape /\ \A p \in Payments : Of(p)

-----------------------------------------------------------------------------
LEMMA PaymentConstants ==
  /\ None \notin Payments /\ None \notin Proposals /\ None \notin Nat
  /\ \A t \in Rows : t # None
  /\ Resolves \subseteq Nat \ {0}
  /\ \A q \in Proposals : q.deposit \in Nat /\ q.toSender \in Nat
  BY LinkedTransfersConstants

LEMMA NoResolveIsCall == NoResolve \in Calls
<1>1. None \in Payments \cup {None} /\ None \in Rows \cup {None} /\ None \in Nat \cup {None}
  OBVIOUS
<1> QED
  BY <1>1 DEF NoResolve, Calls, Ended

LEMMA PayInit == LinkedTransfersInit => PayInv
<1> SUFFICES ASSUME LinkedTransfersInit PROVE PayInv
  OBVIOUS
<1> USE DEF LinkedTransfersInit
<1>1. PaymentTypes
  BY NoResolveIsCall DEF PaymentTypes
<1>2. \A r \in Resolves : /\ resolve[r].pc = "idle" /\ resolve[r].payment = None
                          /\ resolve[r].alone = TRUE /\ resolve[r].marked = FALSE
                          /\ resolve[r].senderApp = None
  BY DEF NoResolve
<1>3. CallShape
  BY <1>2 DEF CallShape
<1>4. \A r \in Resolves, p \in Payments : ~Past(r, p) /\ ~Accepted(r, p)
  BY <1>2 DEF Past, Accepted
<1>5. ASSUME NEW p \in Payments PROVE Of(p)
  <2>1. Fresh(p) /\ RowOf(p) /\ AppsOf(p) /\ TakenOf(p)
    BY <1>5 DEF Fresh, RowOf, AppsOf, TakenOf, Installed
  <2>2. CallsOf(p)
    BY <1>4 DEF CallsOf
  <2>3. OneAccepted(p) /\ MarkedOf(p) /\ PendingOf(p)
    BY <1>4 DEF OneAccepted, MarkedOf, PendingOf
  <2>4. ReclaimedOf(p) /\ PaidOnce(p)
    BY <1>4, <1>5 DEF ReclaimedOf, Returned, PaidOnce
  <2> QED
    BY <2>1, <2>2, <2>3, <2>4 DEF Of, Once
<1> QED
  BY <1>1, <1>3, <1>5 DEF PayInv

(***************************************************************************)
(* A payment that a step does not touch.                                    *)
(***************************************************************************)
Untouched(p) ==
  /\ proposal'[p] = proposal[p] /\ row'[p] = row[p]
  /\ paid'[p] = paid[p] /\ taken'[p] = taken[p]
  /\ sending'[p] = "idle" <=> sending[p] = "idle"
  /\ p \in inbox' <=> p \in inbox
  /\ p \in saving' <=> p \in saving
  /\ \A a : a.payment = p => (a \in apps' <=> a \in apps)
  /\ \A r \in Resolves :
       resolve[r].payment = p \/ resolve'[r].payment = p => resolve'[r] = resolve[r]

LEMMA Frame ==
  ASSUME NEW p \in Payments, Of(p), Untouched(p)
  PROVE  Of(p)'
<1>1. /\ \A r \in Resolves : Past(r, p)' <=> Past(r, p)
      /\ \A r \in Resolves : Accepted(r, p)' <=> Accepted(r, p)
  BY DEF Untouched, Past, Accepted
<1>2. \A r \in Resolves : Past(r, p) => resolve'[r] = resolve[r]
  BY DEF Untouched, Past
<1>3. \A r \in Resolves : Accepted(r, p) => resolve'[r] = resolve[r]
  BY DEF Untouched, Accepted
<1>4. \A a : a.payment = p => (a \in apps' <=> a \in apps)
  BY DEF Untouched
<1>5. /\ proposal'[p] = proposal[p] /\ row'[p] = row[p]
      /\ paid'[p] = paid[p] /\ taken'[p] = taken[p]
  BY DEF Untouched
<1>6. \A n : Installed(p, n)' <=> Installed(p, n)
  BY <1>4 DEF Installed
<1>7. Fresh(p)'
  <2>1. Fresh(p)
    BY DEF Of
  <2> QED
    BY <1>5, <1>6, <2>1 DEF Untouched, Fresh, Valid, Deposit, Claim
<1>8. \A t : CopyOf(t, p)' <=> CopyOf(t, p)
  BY <1>5 DEF CopyOf, Deposit
<1>9. RowOf(p)' /\ TakenOf(p)'
  BY <1>5, <1>6, <1>8 DEF Of, RowOf, TakenOf, Deposit
<1>10. CallsOf(p)'
  <2>1. CallsOf(p)
    BY DEF Of
  <2> QED
    BY <1>1, <1>2, <1>4, <1>5, <1>8, <2>1 DEF CallsOf, Fits, Deposit
<1>11. AppsOf(p)'
  <2>1. AppsOf(p)
    BY DEF Of
  <2> QED
    BY <1>1, <1>2, <1>4, <2>1 DEF AppsOf
<1>12. OneByOne(p)' <=> OneByOne(p)
  BY DEF OneByOne, Untouched
<1>13. Once(p) => Once(p)'
  <2> SUFFICES ASSUME Once(p) PROVE Once(p)'
    OBVIOUS
  <2>1. OneAccepted(p)' /\ MarkedOf(p)'
    BY <1>1, <1>2, <1>3, <1>5 DEF Once, OneAccepted, MarkedOf
  <2>2. NoApps(p)' <=> NoApps(p)
    BY <1>4 DEF NoApps
  <2>3. ReclaimedOf(p)'
    BY <1>1, <1>2, <1>5, <2>2 DEF Once, ReclaimedOf, Returned, Deposit
  <2>4. PendingOf(p)' /\ PaidOnce(p)'
    BY <1>1, <1>2, <1>5, <1>6 DEF Once, PendingOf, PaidOnce, Deposit
  <2> QED
    BY <2>1, <2>3, <2>4 DEF Once
<1> QED
  BY <1>7, <1>9, <1>10, <1>11, <1>12, <1>13 DEF Of

(***************************************************************************)
(* Steps that only move calls on, fail them or lose them.                    *)
(***************************************************************************)
Moves(pc, new) ==
  \/ new = pc
  \/ pc = "asked" /\ new = "refused"
  \/ pc \in Paying \cup {"found"} /\ new \in {"failed", "stuck"}
  \/ pc = "waiting" /\ new = "ready"
  \/ pc = "ready" /\ new = "proposed"
  \/ pc \in {"paid", "reclaiming"} /\ new = "unreclaimed"
  \/ pc \notin {"idle", "asked", "refused"} /\ new = "lost"

Moved(r) ==
  /\ Moves(resolve[r].pc, resolve'[r].pc)
  /\ resolve'[r].payment = resolve[r].payment
  /\ resolve'[r].transfer = resolve[r].transfer
  /\ resolve'[r].senderApp = resolve[r].senderApp
  /\ resolve'[r].alone = resolve[r].alone
  /\ resolve'[r].marked = resolve[r].marked

OnlyMoves ==
  /\ resolve' \in [Resolves -> Calls] /\ \A r \in Resolves : Moved(r)
  /\ sending' \in [Payments -> {"idle", "proposed", "installed", "sent", "failed"}]
  /\ \A p \in Payments : sending'[p] = "idle" <=> sending[p] = "idle"
  /\ inbox' \subseteq inbox /\ saving' \subseteq saving
  /\ UNCHANGED <<proposal, apps, row, paid, taken>>

LEMMA MovesKeep ==
  ASSUME PayInv, OnlyMoves
  PROVE  PayInv'
<1>1. PaymentTypes'
  BY DEF PayInv, PaymentTypes, OnlyMoves
<1>2. CallShape'
  <2>1. CallShape
    BY DEF PayInv
  <2> QED
    BY <2>1 DEF CallShape, OnlyMoves, Moved, Moves, Paying
<1>3. ASSUME NEW p \in Payments PROVE Of(p)'
  <2>1. Of(p)
    BY DEF PayInv
  <2>2. \A r \in Resolves : Moved(r)
    BY DEF OnlyMoves
  <2>3. /\ \A r \in Resolves : Past(r, p)' <=> Past(r, p)
        /\ \A r \in Resolves : Accepted(r, p)' <=> Accepted(r, p)
    BY <2>2 DEF Moved, Moves, Past, Accepted, Paying
  <2>4. \A r \in Resolves, pc \in PostPaid \ {"unreclaimed"} :
          resolve'[r].pc = pc => resolve[r].pc = pc
    BY <2>2 DEF Moved, Moves, PostPaid, Paying
  <2>5. \A r \in Resolves :
          /\ resolve'[r].pc \in PostPaid => resolve[r].pc \in PostPaid
          /\ resolve'[r].pc \in Paying => resolve[r].pc \in Paying
          /\ resolve'[r].pc = "found" => resolve[r].pc = "found"
          /\ resolve'[r].pc = "unlocked" => resolve[r].pc = "unlocked"
          /\ resolve[r].pc \in HasApp => resolve'[r].pc \in HasApp
    BY <2>2 DEF Moved, Moves, PostPaid, Paying, HasApp
  <2>6. \A r \in Resolves :
          /\ resolve'[r].transfer = resolve[r].transfer
          /\ resolve'[r].senderApp = resolve[r].senderApp
          /\ resolve'[r].marked = resolve[r].marked
    BY <2>2 DEF Moved
  <2>7. /\ proposal' = proposal /\ row' = row /\ paid' = paid /\ taken' = taken
        /\ apps' = apps
    BY DEF OnlyMoves
  <2>8. Fresh(p)'
    <3>1. Fresh(p)
      BY <2>1 DEF Of
    <3> QED
      BY <2>7, <3>1 DEF Fresh, Installed, Valid, Claim, Deposit, OnlyMoves
  <2>9. RowOf(p)' /\ TakenOf(p)'
    BY <2>1, <2>7 DEF Of, RowOf, TakenOf, CopyOf, Deposit, Installed
  <2>10. CallsOf(p)'
    <3>1. CallsOf(p)
      BY <2>1 DEF Of
    <3>2. \A t : CopyOf(t, p)' <=> CopyOf(t, p)
      BY <2>7 DEF CopyOf, Deposit
    <3> QED
      BY <2>3, <2>4, <2>5, <2>6, <2>7, <3>1, <3>2 DEF CallsOf, Fits, Deposit, PostPaid
  <2>11. AppsOf(p)'
    BY <2>1, <2>3, <2>5, <2>6, <2>7 DEF Of, AppsOf
  <2>12. OneByOne(p)' <=> OneByOne(p)
    BY <2>2 DEF OneByOne, Moved
  <2>13. Once(p) => Once(p)'
    <3> SUFFICES ASSUME Once(p) PROVE Once(p)'
      OBVIOUS
    <3>1. OneAccepted(p)' /\ MarkedOf(p)'
      BY <2>3, <2>6, <2>7 DEF Once, OneAccepted, MarkedOf
    <3>2. ReclaimedOf(p)'
      BY <2>3, <2>4, <2>6, <2>7 DEF Once, ReclaimedOf, Returned, NoApps, Deposit, PostPaid
    <3>3. PendingOf(p)'
      BY <2>3, <2>5, <2>6, <2>7 DEF Once, PendingOf, Installed, Paying
    <3>4. PaidOnce(p)'
      BY <2>3, <2>6, <2>7 DEF Once, PaidOnce, Installed, Deposit
    <3> QED
      BY <3>1, <3>2, <3>3, <3>4 DEF Once
  <2> QED
    BY <2>1, <2>8, <2>9, <2>10, <2>11, <2>12, <2>13 DEF Of
<1> QED
  BY <1>1, <1>2, <1>3 DEF PayInv

(***************************************************************************)
(* A step of call r for payment p, which leaves it in state c.              *)
(***************************************************************************)
CallOf(r, p, c) ==
  /\ c \in Calls /\ c.payment = p
  /\ resolve' = [resolve EXCEPT ![r] = c]
  /\ resolve[r].payment = p \/ resolve[r].payment = None
  /\ c.pc \in {"asked", "refused"} => c.alone = TRUE /\ c.senderApp = None
  /\ c.pc \in {"asked", "refused", "found", "failed", "stuck"} \cup Paying
       => c.marked = FALSE
  /\ c.pc # "idle"
  /\ UNCHANGED <<sending, proposal, inbox, saving>>
  /\ apps' \subseteq [payment : Payments, by : Nat, unlocked : BOOLEAN]
  /\ row' \in [Payments -> Rows \cup {None}]
  /\ paid' \in [Payments -> Nat] /\ taken' \in [Payments -> Nat]
  /\ \A q \in Payments \ {p} :
       row'[q] = row[q] /\ paid'[q] = paid[q] /\ taken'[q] = taken[q]
  /\ \A a : a.payment # p => (a \in apps' <=> a \in apps)

LEMMA CallFacts ==
  ASSUME PayInv, NEW r \in Resolves, NEW p \in Payments, NEW c, CallOf(r, p, c)
  PROVE  /\ \A s \in Resolves : resolve'[s] = IF s = r THEN c ELSE resolve[s]
         /\ resolve' \in [Resolves -> Calls]
  BY DEF PayInv, PaymentTypes, CallOf

LEMMA CallStep ==
  ASSUME PayInv, NEW r \in Resolves, NEW p \in Payments, NEW c, CallOf(r, p, c), Of(p)'
  PROVE  PayInv'
<1>1. \A s \in Resolves : resolve'[s] = IF s = r THEN c ELSE resolve[s]
  BY CallFacts
<1>2. PaymentTypes'
  BY CallFacts DEF PayInv, PaymentTypes, CallOf
<1>3. CallShape'
  <2>1. CallShape /\ p # None
    BY PaymentConstants DEF PayInv
  <2>2. /\ c.payment = p /\ c.pc # "idle"
        /\ c.pc \in {"asked", "refused"} => c.alone = TRUE /\ c.senderApp = None
        /\ c.pc \in {"asked", "refused", "found", "failed", "stuck"} \cup Paying
             => c.marked = FALSE
    BY DEF CallOf
  <2> QED
    BY <1>1, <2>1, <2>2 DEF CallShape
<1>4. ASSUME NEW q \in Payments, q # p PROVE Of(q)'
  <2>1. Untouched(q)
    <3>1. \A s \in Resolves : resolve[s].payment = q \/ resolve'[s].payment = q =>
            resolve'[s] = resolve[s]
      BY <1>1, <1>4, PaymentConstants DEF CallOf
    <3>2. /\ proposal'[q] = proposal[q] /\ row'[q] = row[q]
          /\ paid'[q] = paid[q] /\ taken'[q] = taken[q]
      BY <1>4 DEF CallOf
    <3>3. \A a : a.payment = q => (a \in apps' <=> a \in apps)
      BY <1>4 DEF CallOf
    <3>4. sending' = sending /\ inbox' = inbox /\ saving' = saving
      BY DEF CallOf
    <3> QED
      BY <3>1, <3>2, <3>3, <3>4 DEF Untouched
  <2> QED
    BY <2>1, Frame DEF PayInv
<1> QED
  BY <1>2, <1>3, <1>4 DEF PayInv

\* When only the call changes.
LEMMA CallAlone ==
  ASSUME PayInv, NEW r \in Resolves, NEW p \in Payments, NEW c,
         c \in Calls, c.payment = p, resolve' = [resolve EXCEPT ![r] = c],
         resolve[r].payment = p \/ resolve[r].payment = None,
         c.pc \in {"asked", "refused"} => c.alone = TRUE /\ c.senderApp = None,
         c.pc \in {"asked", "refused", "found", "failed", "stuck"} \cup Paying
           => c.marked = FALSE,
         c.pc # "idle",
         UNCHANGED <<sending, proposal, inbox, saving, apps, row, paid, taken>>
  PROVE  CallOf(r, p, c)
  BY DEF CallOf, PayInv, PaymentTypes

LEMMA AskInv ==
  ASSUME PayInv, NEW r \in Resolves, NEW p \in Payments, Ask(r, p)
  PROVE  PayInv'
<1> DEFINE c == [resolve[r] EXCEPT !.pc = "asked", !.payment = p]
<1>1. resolve[r] \in Calls /\ resolve[r].pc = "idle" /\ resolve[r].payment = None
      /\ resolve[r].alone = TRUE /\ resolve[r].marked = FALSE
      /\ resolve[r].senderApp = None
  BY DEF PayInv, PaymentTypes, CallShape, Ask
<1>2. c \in Calls /\ c.payment = p /\ c.pc = "asked" /\ c.alone = TRUE
      /\ c.marked = FALSE /\ c.senderApp = None
  BY <1>1 DEF Calls, Ended
<1>3. /\ resolve' = [resolve EXCEPT ![r] = c]
      /\ UNCHANGED <<sending, proposal, inbox, saving, apps, row, paid, taken>>
  BY DEF Ask, senderVars, moneyVars
<1> HIDE DEF c
<1>4. CallOf(r, p, c)
  BY <1>1, <1>2, <1>3, CallAlone
<1>5. \A s \in Resolves : resolve'[s] = IF s = r THEN c ELSE resolve[s]
  BY <1>4, CallFacts
<1>6. /\ \A s \in Resolves : Past(s, p)' <=> Past(s, p)
      /\ \A s \in Resolves : Accepted(s, p)' <=> Accepted(s, p)
      /\ \A s \in Resolves : Past(s, p) \/ Accepted(s, p) => resolve'[s] = resolve[s]
  BY <1>1, <1>2, <1>5 DEF Past, Accepted
<1>7. Of(p)
  BY DEF PayInv
<1>8. Fresh(p)' /\ RowOf(p)' /\ TakenOf(p)'
  BY <1>3, <1>7 DEF Of, Fresh, RowOf, TakenOf, CopyOf, Deposit, Valid, Claim, Installed
<1>9. CallsOf(p)'
  <2>1. \A t : CopyOf(t, p)' <=> CopyOf(t, p)
    BY <1>3 DEF CopyOf, Deposit
  <2> QED
    BY <1>3, <1>6, <1>7, <2>1 DEF Of, CallsOf, Fits, Deposit
<1>10. AppsOf(p)'
  BY <1>3, <1>6, <1>7 DEF Of, AppsOf
<1>11. OneByOne(p)' => OneByOne(p)
  BY <1>1, <1>5, PaymentConstants DEF OneByOne
<1>12. Once(p) => Once(p)'
  <2> SUFFICES ASSUME Once(p) PROVE Once(p)'
    OBVIOUS
  <2>1. OneAccepted(p)' /\ MarkedOf(p)'
    BY <1>3, <1>6 DEF Once, OneAccepted, MarkedOf
  <2>2. ReclaimedOf(p)'
    BY <1>3, <1>6 DEF Once, ReclaimedOf, Returned, NoApps, Deposit
  <2>3. PendingOf(p)' /\ PaidOnce(p)'
    BY <1>3, <1>6 DEF Once, PendingOf, PaidOnce, Installed, Deposit
  <2> QED
    BY <2>1, <2>2, <2>3 DEF Once
<1>13. Of(p)'
  BY <1>7, <1>8, <1>9, <1>10, <1>11, <1>12 DEF Of
<1> QED
  BY <1>4, <1>13, CallStep

LEMMA GotoInv ==
  ASSUME PayInv, NEW r \in Resolves, NEW pc, Goto(r, pc), Moves(resolve[r].pc, pc),
         UNCHANGED <<sending, proposal, inbox, saving, apps, row, paid, taken>>
  PROVE  PayInv'
<1>1. resolve \in [Resolves -> Calls]
  BY DEF PayInv, PaymentTypes
<1>2. resolve[r] \in Calls /\ [resolve[r] EXCEPT !.pc = pc] \in Calls
  BY <1>1 DEF Calls, Ended, Moves, Paying
<1>3. resolve' = [resolve EXCEPT ![r] = [resolve[r] EXCEPT !.pc = pc]]
  BY DEF Goto
<1>4. \A s \in Resolves :
        resolve'[s] = IF s = r THEN [resolve[r] EXCEPT !.pc = pc] ELSE resolve[s]
  BY <1>1, <1>3
<1>5. \A s \in Resolves : Moved(s)
  BY <1>2, <1>4 DEF Moved, Moves, Calls
<1>6. resolve' \in [Resolves -> Calls]
  BY <1>1, <1>2, <1>3
<1>7. OnlyMoves
  BY <1>5, <1>6 DEF OnlyMoves, PayInv, PaymentTypes
<1> QED
  BY <1>7, MovesKeep

\* What does not change for the other calls, and for the payment.
LEMMA PastFacts ==
  ASSUME PayInv, NEW r \in Resolves, NEW p \in Payments, NEW c, CallOf(r, p, c),
         c.pc \notin {"idle", "asked", "refused"}
  PROVE  /\ \A s \in Resolves : resolve'[s] = IF s = r THEN c ELSE resolve[s]
         /\ Past(r, p)' /\ (Accepted(r, p)' <=> ~c.marked)
         /\ \A s \in Resolves \ {r} : /\ Past(s, p)' <=> Past(s, p)
                                      /\ Accepted(s, p)' <=> Accepted(s, p)
         /\ Deposit(p)' = Deposit(p) /\ Claim(p)' = Claim(p) /\ Valid(p)' = Valid(p)
<1>1. \A s \in Resolves : resolve'[s] = IF s = r THEN c ELSE resolve[s]
  BY CallFacts
<1>2. c.payment = p /\ proposal' = proposal
  BY DEF CallOf
<1>3. Past(r, p)' /\ (Accepted(r, p)' <=> ~c.marked)
  BY <1>1, <1>2 DEF Past, Accepted
<1>4. \A s \in Resolves \ {r} : /\ Past(s, p)' <=> Past(s, p)
                                /\ Accepted(s, p)' <=> Accepted(s, p)
  BY <1>1 DEF Past, Accepted
<1> QED
  BY <1>1, <1>2, <1>3, <1>4 DEF Deposit, Claim, Valid

\* Accepted: alone, if the calls come one by one.
LEMMA FindTransferInv ==
  ASSUME PayInv, NEW r \in Resolves, NEW p \in Payments, resolve[r].payment = p,
         FindTransfer(r)
  PROVE  PayInv'
<1>1. /\ resolve[r] \in Calls /\ resolve[r].pc = "asked"
      /\ resolve[r].alone = TRUE /\ resolve[r].marked = FALSE
      /\ resolve[r].senderApp = None
      /\ UNCHANGED <<sending, proposal, inbox, saving, apps, row, paid, taken>>
  BY DEF PayInv, PaymentTypes, CallShape, FindTransfer, senderVars, moneyVars
<1>2. CASE Goto(r, "refused")
  BY <1>1, <1>2, GotoInv DEF Moves
<1>3. ASSUME NEW c, row[p] # None, row[p].status # "REDEEMED",
             resolve' = [resolve EXCEPT ![r] = c],
             c = [resolve[r] EXCEPT !.pc = "found", !.transfer = row[p],
                    !.alone = \A s \in Resolves \ {r} : ~Accepted(s, p)]
      PROVE PayInv'
  <2>1. row[p] \in Rows
    BY <1>3 DEF PayInv, PaymentTypes
  <2>2. /\ c \in Calls /\ c.payment = p /\ c.pc = "found" /\ c.marked = FALSE
        /\ c.transfer = row[p] /\ c.senderApp = None
        /\ c.alone = (\A s \in Resolves \ {r} : ~Accepted(s, p))
    BY <1>1, <1>3, <2>1 DEF Calls, Ended
  <2>3. CallOf(r, p, c)
    BY <1>1, <1>3, <2>2, CallAlone
  <2>4. \A s \in Resolves : resolve'[s] = IF s = r THEN c ELSE resolve[s]
    BY <2>3, CallFacts
  <2>5. /\ ~Past(r, p) /\ ~Accepted(r, p)
        /\ Past(r, p)' /\ Accepted(r, p)'
        /\ \A s \in Resolves \ {r} : /\ Past(s, p)' <=> Past(s, p)
                                     /\ Accepted(s, p)' <=> Accepted(s, p)
    BY <1>1, <2>2, <2>3, PastFacts DEF Past, Accepted
  <2>6. Of(p)
    BY DEF PayInv
  <2>7. Fresh(p)' /\ RowOf(p)' /\ TakenOf(p)'
    BY <1>1, <2>6 DEF Of, Fresh, RowOf, TakenOf, CopyOf, Deposit, Valid, Claim, Installed
  <2>8. CallsOf(p)'
    <3>1. \A t : CopyOf(t, p)' <=> CopyOf(t, p)
      BY <1>1 DEF CopyOf, Deposit
    <3>2. CopyOf(c.transfer, p)
      BY <1>3, <2>2, <2>6 DEF Of, RowOf
    <3>3. \A s \in Resolves \ {r} : Past(s, p)' => row'[p] # None /\ Fits(s, p)'
      BY <1>1, <2>4, <2>5, <2>6, <3>1 DEF Of, CallsOf, Fits, Deposit
    <3>4. Fits(r, p)'
      BY <1>3, <2>2, <2>4, <3>1, <3>2 DEF Fits, PostPaid, Paying
    <3> QED
      BY <1>1, <1>3, <3>3, <3>4 DEF CallsOf
  <2>9. AppsOf(p)'
    BY <1>1, <2>4, <2>5, <2>6 DEF Of, AppsOf
  <2>10. ASSUME OneByOne(p)' PROVE Once(p)'
    <3>1. c.alone /\ OneByOne(p)
      BY <1>1, <2>2, <2>4, <2>10 DEF OneByOne
    <3>2. Once(p)
      BY <2>6, <3>1 DEF Of
    <3>3. \A s \in Resolves \ {r} : ~Accepted(s, p)
      BY <2>2, <3>1
    <3>4. OneAccepted(p)'
      BY <2>5, <3>3 DEF OneAccepted
    <3>5. \A s \in Resolves : Past(s, p) => resolve[s].marked = TRUE
      <4>1. \A s \in Resolves : resolve[s].marked \in BOOLEAN
        BY DEF PayInv, PaymentTypes, Calls
      <4> QED
        BY <2>5, <3>3, <4>1 DEF Past, Accepted
    <3>6. (\E s \in Resolves : Past(s, p)) => row[p].status = "RECLAIMED"
      BY <1>3, <2>1, <3>2, <3>5 DEF Once, MarkedOf, Rows, Statuses
    <3>7. MarkedOf(p)'
      <4>1. \A s \in Resolves : Accepted(s, p)' => s = r
        BY <2>5, <3>3
      <4>2. \A s \in Resolves : Past(s, p)' /\ resolve'[s].marked = TRUE =>
              s # r /\ Past(s, p) /\ resolve[s].marked = TRUE
        BY <2>2, <2>4, <2>5
      <4>3. resolve'[r].transfer = row[p] /\ row' = row
        BY <1>1, <2>2, <2>4
      <4>4. ASSUME NEW s \in Resolves, Past(s, p)', resolve'[s].marked = TRUE
            PROVE  row[p].status = "RECLAIMED"
        BY <3>6, <4>2, <4>4
      <4>5. ASSUME NEW s \in Resolves, Past(s, p)', resolve'[s].marked = TRUE
            PROVE  /\ row'[p].status # "PENDING"
                   /\ \A t \in Resolves : Accepted(t, p)' => resolve'[t].transfer.status = "RECLAIMED"
        <5>1. row[p].status = "RECLAIMED"
          BY <4>4, <4>5
        <5>2. row'[p].status # "PENDING"
          BY <4>3, <5>1
        <5>3. ASSUME NEW t \in Resolves, Accepted(t, p)'
              PROVE  resolve'[t].transfer.status = "RECLAIMED"
          <6>1. t = r
            BY <4>1, <5>3
          <6> QED
            BY <4>3, <5>1, <6>1
        <5> QED
          BY <5>2, <5>3
      <4> QED
        BY <4>5 DEF MarkedOf
    <3>8. ReclaimedOf(p)'
      <4>1. ASSUME NEW s \in Resolves, Past(s, p)',
                   \/ resolve'[s].transfer.status = "RECLAIMED"
                   \/ resolve'[s].pc = "reclaimed"
            PROVE  Returned(p)
        <5>1. CASE s = r
          BY <1>3, <2>2, <2>4, <4>1, <5>1 DEF Returned
        <5>2. CASE s # r
          BY <2>4, <2>5, <4>1, <5>2 DEF Returned
        <5> QED
          BY <5>1, <5>2
      <4>2. Returned(p)' => Returned(p)
        BY <1>1, <4>1 DEF Returned
      <4> QED
        BY <1>1, <3>2, <4>2 DEF Once, ReclaimedOf, NoApps, Deposit
    <3>9. PendingOf(p)'
      <4>1. row[p].status = "PENDING" => paid[p] = 0
        BY <3>2, <3>6 DEF Once, PaidOnce
      <4>2. row[p].status \in {"PENDING", "RECLAIMED"}
        BY <1>3, <2>1 DEF Rows, Statuses
      <4> QED
        BY <1>1, <2>2, <2>4, <2>5, <3>2, <4>1, <4>2 DEF Once, PendingOf, Installed
    <3>10. PaidOnce(p)'
      BY <1>1, <2>2, <2>4, <2>5, <3>2 DEF Once, PaidOnce, Installed, Deposit
    <3> QED
      BY <3>4, <3>7, <3>8, <3>9, <3>10 DEF Once
  <2>11. Of(p)'
    BY <2>7, <2>8, <2>9, <2>10 DEF Of
  <2> QED
    BY <2>3, <2>11, CallStep
<1>4. \/ Goto(r, "refused")
      \/ /\ row[p] # None /\ row[p].status # "REDEEMED"
         /\ resolve' = [resolve EXCEPT ![r] = [resolve[r] EXCEPT
              !.pc = "found", !.transfer = row[p],
              !.alone = \A s \in Resolves \ {r} : ~Accepted(s, p)]]
  BY DEF FindTransfer
<1> QED
  BY <1>2, <1>3, <1>4

-----------------------------------------------------------------------------
(***************************************************************************)
(* The steps of a call that has been accepted. What a step must keep for the *)
(* calls and for the payment, when the table and the money may change.        *)
(***************************************************************************)
LEMMA PastPayment ==
  ASSUME PayInv, NEW r \in Resolves, NEW p \in Payments, Past(r, p)
  PROVE  /\ Of(p) /\ resolve[r] \in Calls /\ row[p] \in Rows /\ row[p] # None
         /\ Fits(r, p) /\ Valid(p) /\ Deposit(p) \in Nat \ {0}
         /\ resolve[r].transfer \in Rows /\ row[p].amount = Deposit(p)
         /\ sending[p] # "idle" /\ p \notin inbox /\ p \notin saving
<1>1. Of(p) /\ resolve[r] \in Calls
  BY DEF PayInv, PaymentTypes
<1>2. row[p] # None /\ Fits(r, p)
  BY <1>1 DEF Of, CallsOf
<1>3. row[p] \in Rows /\ Valid(p)
  BY <1>1, <1>2 DEF Of, Fresh, PayInv, PaymentTypes
<1>4. Deposit(p) \in Nat \ {0}
  BY <1>3, PaymentConstants DEF Valid, Deposit
<1>5. resolve[r].transfer \in Rows /\ row[p].amount = Deposit(p)
  BY <1>1, <1>2 DEF Of, RowOf, CopyOf, Fits
<1>6. sending[p] # "idle" /\ p \notin inbox /\ p \notin saving
  BY <1>1, <1>2 DEF Of, Fresh
<1> QED
  BY <1>1, <1>2, <1>3, <1>4, <1>5, <1>6

LEMMA FreshKept ==
  ASSUME PayInv, NEW r \in Resolves, NEW p \in Payments, NEW c, CallOf(r, p, c),
         Past(r, p), row'[p] # None
  PROVE  Fresh(p)'
<1>1. /\ Valid(p) /\ sending[p] # "idle" /\ p \notin inbox /\ p \notin saving
  BY PastPayment
<1>2. UNCHANGED <<sending, proposal, inbox, saving>>
  BY DEF CallOf
<1> QED
  BY <1>1, <1>2 DEF Fresh, Valid, Deposit, Claim

\* The other calls: they may find more paid, and apps unlocked.
LEMMA OthersFit ==
  ASSUME PayInv, NEW r \in Resolves, NEW p \in Payments, NEW c, CallOf(r, p, c),
         c.pc \notin {"idle", "asked", "refused"}, Past(r, p),
         row'[p] # None, paid'[p] >= paid[p],
         \A a \in apps' : a.payment = p => a \in apps \/ a.unlocked = TRUE \/ a.by = r
  PROVE  \A s \in Resolves \ {r} : Past(s, p)' => row'[p] # None /\ Fits(s, p)'
<1> SUFFICES ASSUME NEW s \in Resolves \ {r}, Past(s, p)'
             PROVE  Fits(s, p)'
  OBVIOUS
<1>1. /\ resolve'[s] = resolve[s] /\ Past(s, p) /\ Deposit(p)' = Deposit(p)
      /\ paid[p] \in Nat /\ paid'[p] \in Nat /\ r # 0
  <2>1. resolve'[s] = resolve[s] /\ Past(s, p) /\ Deposit(p)' = Deposit(p)
    BY PastFacts
  <2>2. paid[p] \in Nat /\ paid'[p] \in Nat
    BY DEF PayInv, PaymentTypes, CallOf
  <2>3. r # 0
    BY PaymentConstants
  <2> QED
    BY <2>1, <2>2, <2>3
<1>2. Fits(s, p) /\ Deposit(p) \in Nat
  BY <1>1, PastPayment
<1>3. CopyOf(resolve[s].transfer, p)'
  BY <1>1, <1>2 DEF Fits, CopyOf
<1>4. paid[p] >= Deposit(p) => paid'[p] >= Deposit(p)'
  BY <1>1, <1>2
<1>5. ASSUME NEW a \in apps', a.payment = p
      PROVE  /\ resolve[s].pc = "unlocked" /\ a.by = s => a.unlocked = TRUE
             /\ resolve[s].pc = "reclaiming" /\ resolve[s].senderApp = 0 /\ a.by = 0
                  => a.unlocked = TRUE
  BY <1>1, <1>2, <1>5 DEF Fits
<1>6. /\ resolve[s].pc \in PostPaid \/ resolve[s].marked = TRUE => paid'[p] >= Deposit(p)'
      /\ resolve[s].marked = FALSE => resolve[s].transfer.status # "REDEEMED"
      /\ resolve[s].pc \in Paying \cup {"paid", "reclaiming"} => resolve[s].senderApp \in Nat
  BY <1>2, <1>4 DEF Fits
<1>7. resolve'[s] = resolve[s]
  BY <1>1
<1> QED
  BY <1>3, <1>5, <1>6, <1>7 DEF Fits

LEMMA CallsKept ==
  ASSUME PayInv, NEW r \in Resolves, NEW p \in Payments, NEW c, CallOf(r, p, c),
         c.pc \notin {"idle", "asked", "refused"}, Past(r, p),
         row'[p] # None, paid'[p] >= paid[p],
         \A a \in apps' : a.payment = p => a \in apps \/ a.unlocked = TRUE \/ a.by = r,
         Fits(r, p)'
  PROVE  CallsOf(p)'
  BY OthersFit DEF CallsOf

\* The only call that is under way is the one that has not marked the payment.
LEMMA Sole ==
  ASSUME PayInv, NEW r \in Resolves, NEW p \in Payments, Accepted(r, p), Once(p)
  PROVE  \A s \in Resolves \ {r} : Past(s, p) =>
           /\ ~Accepted(s, p) /\ resolve[s].marked = TRUE
           /\ resolve[s].pc \notin Paying \cup {"found", "failed", "stuck"}
<1> SUFFICES ASSUME NEW s \in Resolves \ {r}, Past(s, p)
             PROVE  /\ ~Accepted(s, p) /\ resolve[s].marked = TRUE
                    /\ resolve[s].pc \notin Paying \cup {"found", "failed", "stuck"}
  OBVIOUS
<1>1. ~Accepted(s, p)
  BY DEF Once, OneAccepted
<1>2. resolve[s].marked \in BOOLEAN
  BY DEF PayInv, PaymentTypes, Calls
<1>3. resolve[s].marked = TRUE
  BY <1>1, <1>2 DEF Accepted, Past
<1> QED
  BY <1>1, <1>3 DEF PayInv, CallShape

\* The apps of a payment: the sender's, or that of the accepted call.
LEMMA AppIs ==
  ASSUME PayInv, NEW r \in Resolves, NEW p \in Payments, Accepted(r, p), Once(p),
         NEW a \in apps, a.payment = p, resolve[r].pc \notin HasApp
  PROVE  a.by = 0
<1>1. AppsOf(p)
  BY DEF PayInv, Of
<1>2. CASE a.by \in Resolves /\ Past(a.by, p) /\ resolve[a.by].marked = FALSE
           /\ resolve[a.by].pc \in HasApp
  <2>1. Accepted(a.by, p)
    BY <1>2 DEF Accepted, Past
  <2>2. a.by = r
    BY <1>2, <2>1 DEF Once, OneAccepted
  <2> QED
    BY <1>2, <2>2
<1> QED
  BY <1>1, <1>2 DEF AppsOf

-----------------------------------------------------------------------------
LEMMA FindSenderAppInv ==
  ASSUME PayInv, NEW r \in Resolves, NEW p \in Payments, resolve[r].payment = p,
         FindSenderApp(r)
  PROVE  PayInv'
<1>1. /\ resolve[r] \in Calls /\ resolve[r].pc = "found" /\ resolve[r].marked = FALSE
      /\ Past(r, p) /\ Accepted(r, p)
      /\ UNCHANGED <<sending, proposal, inbox, saving, apps, row, paid, taken>>
  BY DEF PayInv, PaymentTypes, CallShape, FindSenderApp, senderVars, moneyVars, Past, Accepted
<1>2. CASE Goto(r, "failed")
  BY <1>1, <1>2, GotoInv DEF Moves
<1>3. ASSUME NEW a \in apps, a.payment = p, NEW pc \in {"waiting", "ready"}, NEW c,
             resolve' = [resolve EXCEPT ![r] = c],
             c = [resolve[r] EXCEPT !.senderApp = a.by, !.pc = pc]
      PROVE  PayInv'
  <2>1. a.by \in Nat
    BY DEF PayInv, PaymentTypes
  <2>2. /\ c \in Calls /\ c.payment = p /\ c.pc = pc /\ c.marked = FALSE
        /\ c.transfer = resolve[r].transfer /\ c.senderApp = a.by
        /\ c.alone = resolve[r].alone
    BY <1>1, <1>3, <2>1 DEF Calls, Ended
  <2>3. CallOf(r, p, c)
    BY <1>1, <1>3, <2>2, CallAlone
  <2>4. /\ \A s \in Resolves : resolve'[s] = IF s = r THEN c ELSE resolve[s]
        /\ Past(r, p)' /\ Accepted(r, p)'
        /\ \A s \in Resolves : /\ Past(s, p)' <=> Past(s, p)
                               /\ Accepted(s, p)' <=> Accepted(s, p)
        /\ Deposit(p)' = Deposit(p)
    BY <1>1, <2>2, <2>3, PastFacts
  <2>5. Of(p) /\ row[p] # None /\ Fits(r, p)
    BY <1>1, PastPayment
  <2>6. Fresh(p)' /\ RowOf(p)' /\ TakenOf(p)'
    BY <1>1, <2>5 DEF Of, Fresh, RowOf, TakenOf, CopyOf, Deposit, Valid, Claim, Installed
  <2>7. CallsOf(p)'
    <3>1. Fits(r, p)'
      BY <1>1, <2>1, <2>2, <2>4, <2>5 DEF Fits, CopyOf, PostPaid, Paying
    <3>2. paid'[p] >= paid[p]
      BY <1>1 DEF PayInv, PaymentTypes
    <3> QED
      BY <1>1, <2>2, <2>3, <2>5, <3>1, <3>2, CallsKept
  <2>8. AppsOf(p)'
    <3>1. resolve[r].pc \notin HasApp
      BY <1>1 DEF HasApp
    <3> QED
      BY <1>1, <2>4, <2>5, <3>1 DEF Of, AppsOf
  <2>9. ASSUME OneByOne(p)' PROVE Once(p)'
    <3>1. Once(p)
      BY <2>2, <2>4, <2>5, <2>9 DEF Of, OneByOne
    <3>2. a.by = 0 /\ Installed(p, 0)
      BY <1>1, <1>3, <3>1, AppIs DEF HasApp, Installed
    <3>3. OneAccepted(p)'
      BY <2>4, <3>1 DEF Once, OneAccepted
    <3>4. MarkedOf(p)'
      <4>1. \A s \in Resolves : Past(s, p)' /\ resolve'[s].marked = TRUE =>
              Past(s, p) /\ resolve[s].marked = TRUE
        BY <2>2, <2>4
      <4>2. \A s \in Resolves : resolve'[s].transfer = resolve[s].transfer
        BY <2>2, <2>4
      <4> QED
        BY <1>1, <2>4, <3>1, <4>1, <4>2 DEF Once, MarkedOf
    <3>5. ReclaimedOf(p)'
      <4>1. Returned(p)' => Returned(p)
        BY <1>1, <2>2, <2>4 DEF Returned
      <4> QED
        BY <1>1, <3>1, <4>1 DEF Once, ReclaimedOf, NoApps, Deposit
    <3>6. PendingOf(p)'
      <4>1. resolve[r].transfer.status = "PENDING" /\ paid[p] = 0
        <5>1. ~Returned(p)
          BY <1>3, <3>1 DEF Once, ReclaimedOf, NoApps
        <5> QED
          BY <1>1, <3>1, <5>1 DEF Once, PendingOf, Returned
      <4>2. \A s \in Resolves \ {r} : Past(s, p) => resolve[s].pc \notin Paying \cup {"found"}
        BY <1>1, <3>1, Sole
      <4>3. Installed(p, 0)'
        BY <1>1, <3>2 DEF Installed
      <4> QED
        BY <1>1, <2>2, <2>4, <4>1, <4>2, <4>3 DEF PendingOf
    <3>7. PaidOnce(p)'
      <4>1. \A s \in Resolves : Past(s, p)' => resolve'[s].senderApp \in {None, 0}
        BY <2>2, <2>4, <3>1, <3>2 DEF Once, PaidOnce
      <4> QED
        BY <1>1, <2>4, <3>1, <4>1 DEF Once, PaidOnce, Installed
    <3> QED
      BY <3>3, <3>4, <3>5, <3>6, <3>7 DEF Once
  <2>10. Of(p)'
    BY <2>6, <2>7, <2>8, <2>9 DEF Of
  <2> QED
    BY <2>3, <2>10, CallStep
<1>4. \/ Goto(r, "failed")
      \/ \E a \in apps, pc \in {"waiting", "ready"} :
           /\ a.payment = p
           /\ resolve' = [resolve EXCEPT ![r] =
                [resolve[r] EXCEPT !.senderApp = a.by, !.pc = pc]]
  BY DEF FindSenderApp
<1> QED
  BY <1>2, <1>3, <1>4

\* A step after which the call has the same copy of the row.
Same(r, p, c) ==
  /\ CallOf(r, p, c) /\ Past(r, p) /\ c.pc \notin {"idle", "asked", "refused"}
  /\ c.alone = resolve[r].alone /\ c.marked = resolve[r].marked
  /\ c.transfer.status = resolve[r].transfer.status
  /\ c.senderApp = resolve[r].senderApp

LEMMA SameFacts ==
  ASSUME PayInv, NEW r \in Resolves, NEW p \in Payments, NEW c, Same(r, p, c)
  PROVE  /\ \A s \in Resolves : resolve'[s] = IF s = r THEN c ELSE resolve[s]
         /\ \A s \in Resolves : /\ Past(s, p)' <=> Past(s, p)
                                /\ Accepted(s, p)' <=> Accepted(s, p)
                                /\ resolve'[s].marked = resolve[s].marked
                                /\ resolve'[s].transfer.status = resolve[s].transfer.status
                                /\ resolve'[s].senderApp = resolve[s].senderApp
         /\ OneByOne(p)' <=> OneByOne(p)
         /\ Deposit(p)' = Deposit(p)
<1>1. CallOf(r, p, c) /\ c.pc \notin {"idle", "asked", "refused"} /\ c.payment = p
  BY DEF Same, CallOf
<1>2. /\ \A s \in Resolves : resolve'[s] = IF s = r THEN c ELSE resolve[s]
      /\ Past(r, p)' /\ (Accepted(r, p)' <=> ~c.marked)
      /\ \A s \in Resolves \ {r} : /\ Past(s, p)' <=> Past(s, p)
                                   /\ Accepted(s, p)' <=> Accepted(s, p)
      /\ Deposit(p)' = Deposit(p)
  BY <1>1, PastFacts
<1>3. Past(r, p) /\ (Accepted(r, p) <=> ~c.marked)
  BY DEF Same, Past, Accepted
<1>4. \A s \in Resolves : /\ resolve'[s].marked = resolve[s].marked
                          /\ resolve'[s].transfer.status = resolve[s].transfer.status
                          /\ resolve'[s].senderApp = resolve[s].senderApp
  BY <1>2 DEF Same
<1>5. OneByOne(p)' <=> OneByOne(p)
  BY <1>1, <1>2, <1>3 DEF Same, OneByOne, Past
<1> QED
  BY <1>2, <1>3, <1>4, <1>5

LEMMA SameMarks ==
  ASSUME PayInv, NEW r \in Resolves, NEW p \in Payments, NEW c, Same(r, p, c),
         row'[p] = row[p], Once(p)
  PROVE  /\ OneAccepted(p)' /\ MarkedOf(p)'
         /\ Returned(p)' => Returned(p) \/ c.pc = "reclaimed"
<1>1. OneAccepted(p)'
  BY SameFacts DEF Once, OneAccepted
<1>2. MarkedOf(p)'
  <2>1. MarkedOf(p)
    BY DEF Once
  <2> QED
    BY <2>1, SameFacts DEF MarkedOf
<1>3. ASSUME NEW s \in Resolves, Past(s, p)',
             \/ resolve'[s].transfer.status = "RECLAIMED"
             \/ resolve'[s].pc = "reclaimed"
      PROVE  Returned(p) \/ c.pc = "reclaimed"
  <2>1. CASE s = r
    BY <1>3, <2>1, SameFacts DEF Returned
  <2>2. CASE s # r
    BY <1>3, <2>2, SameFacts DEF Returned
  <2> QED
    BY <2>1, <2>2
<1>4. Returned(p)' => Returned(p) \/ c.pc = "reclaimed"
  BY <1>3 DEF Returned
<1> QED
  BY <1>1, <1>2, <1>4

\* While a call is paying, nothing was paid, marked or returned.
LEMMA PayingFacts ==
  ASSUME PayInv, NEW r \in Resolves, NEW p \in Payments, Past(r, p), Once(p),
         resolve[r].pc \in Paying
  PROVE  /\ Accepted(r, p) /\ ~Returned(p) /\ Installed(p, 0) /\ paid[p] = 0
         /\ resolve[r].transfer.status = "PENDING"
         /\ \A s \in Resolves : Past(s, p) => s = r
<1>1. resolve[r].marked = FALSE /\ Accepted(r, p)
  BY DEF PayInv, CallShape, Past, Accepted
<1>2. /\ resolve[r].transfer.status = "PENDING" /\ paid[p] = 0 /\ Installed(p, 0)
  BY DEF Once, PendingOf, Paying
<1>3. ~Returned(p)
  BY <1>2 DEF Once, ReclaimedOf, NoApps, Installed
<1>4. ASSUME NEW s \in Resolves, Past(s, p), s # r PROVE FALSE
  <2>1. resolve[s].marked = TRUE
    BY <1>1, <1>4, Sole
  <2>2. resolve[r].transfer.status = "RECLAIMED"
    BY <1>1, <1>4, <2>1 DEF Once, MarkedOf
  <2> QED
    BY <1>2, <2>2
<1> QED
  BY <1>1, <1>2, <1>3, <1>4

LEMMA ClientInstallsInv ==
  ASSUME PayInv, NEW r \in Resolves, NEW p \in Payments, resolve[r].payment = p,
         ClientInstalls(r)
  PROVE  PayInv'
<1>1. /\ resolve[r] \in Calls /\ resolve[r].pc = "proposed" /\ resolve[r].marked = FALSE
      /\ Past(r, p) /\ Accepted(r, p)
      /\ UNCHANGED <<sending, proposal, inbox, saving, row, paid, taken>>
  BY DEF PayInv, PaymentTypes, CallShape, ClientInstalls, senderVars, Past, Accepted, Paying
<1>2. CASE Goto(r, "stuck") /\ UNCHANGED apps
  BY <1>1, <1>2, GotoInv DEF Moves, Paying
<1>3. ASSUME NEW pc \in {"installed", "stuck"}, NEW c,
             apps' = apps \cup {AppOf(p, r)},
             resolve' = [resolve EXCEPT ![r] = c],
             c = [resolve[r] EXCEPT !.pc = pc]
      PROVE  PayInv'
  <2>1. /\ c \in Calls /\ c.payment = p /\ c.pc = pc /\ c.marked = FALSE
        /\ c.transfer = resolve[r].transfer /\ c.senderApp = resolve[r].senderApp
        /\ c.alone = resolve[r].alone
    BY <1>1, <1>3 DEF Calls, Ended
  <2>2. /\ AppOf(p, r) \in [payment : Payments, by : Nat, unlocked : BOOLEAN]
        /\ AppOf(p, r).payment = p /\ AppOf(p, r).by = r /\ r # 0
    BY PaymentConstants DEF AppOf
  <2>3. CallOf(r, p, c)
    BY <1>1, <1>3, <2>1, <2>2 DEF CallOf, PayInv, PaymentTypes
  <2>4. Same(r, p, c)
    BY <1>1, <2>1, <2>3 DEF Same
  <2>5. Of(p) /\ row[p] # None /\ Fits(r, p)
    BY <1>1, PastPayment
  <2>6. Fresh(p)'
    BY <1>1, <2>3, <2>5, FreshKept
  <2>7. \A n : n # r => (Installed(p, n)' <=> Installed(p, n))
    BY <1>3, <2>2 DEF Installed
  <2>8. RowOf(p)' /\ TakenOf(p)'
    BY <1>1, <2>2, <2>5, <2>7 DEF Of, RowOf, TakenOf, CopyOf, Deposit
  <2>9. CallsOf(p)'
    <3>1. Fits(r, p)'
      <4>1. resolve'[r] = c /\ Deposit(p)' = Deposit(p)
        BY <2>4, SameFacts
      <4> QED
        BY <1>1, <1>3, <2>1, <2>5, <4>1 DEF Fits, CopyOf, PostPaid, Paying
    <3>2. paid'[p] >= paid[p]
      BY <1>1 DEF PayInv, PaymentTypes
    <3>3. \A a \in apps' : a.payment = p => a \in apps \/ a.unlocked = TRUE \/ a.by = r
      BY <1>3, <2>2
    <3> QED
      BY <1>1, <2>1, <2>3, <2>5, <3>1, <3>2, <3>3, CallsKept
  <2>10. AppsOf(p)'
    <3>1. \A a \in apps : a.payment = p => a.by # r
      BY <1>1, <2>2, <2>5 DEF Of, AppsOf, HasApp
    <3>2. /\ Past(r, p)' /\ resolve'[r].pc \in HasApp /\ resolve'[r].marked = FALSE
          /\ \A s \in Resolves \ {r} : /\ Past(s, p)' <=> Past(s, p)
                                       /\ resolve'[s] = resolve[s]
      BY <1>1, <2>1, <2>4, SameFacts DEF HasApp
    <3>3. ASSUME NEW a \in apps', a.payment = p
          PROVE  \/ a.by = 0
                 \/ /\ a.by \in Resolves /\ Past(a.by, p)'
                    /\ resolve'[a.by].pc \in HasApp /\ resolve'[a.by].marked = FALSE
      BY <1>3, <2>2, <2>5, <3>1, <3>2, <3>3 DEF Of, AppsOf
    <3>4. ASSUME NEW a \in apps', a.payment = p, NEW b \in apps', b.payment = p, b.by = a.by
          PROVE  a = b
      BY <1>3, <2>2, <2>5, <3>1, <3>4 DEF Of, AppsOf
    <3> QED
      BY <3>3, <3>4 DEF AppsOf
  <2>11. ASSUME OneByOne(p)' PROVE Once(p)'
    <3>1. Once(p)
      BY <2>4, <2>5, <2>11, SameFacts DEF Of
    <3>2. /\ ~Returned(p) /\ Installed(p, 0) /\ paid[p] = 0
          /\ resolve[r].transfer.status = "PENDING"
          /\ \A s \in Resolves : Past(s, p) => s = r
      BY <1>1, <3>1, PayingFacts DEF Paying
    <3>3. OneAccepted(p)' /\ MarkedOf(p)' /\ ~Returned(p)'
      BY <1>1, <2>1, <2>4, <3>1, <3>2, SameMarks
    <3>4. Installed(p, 0)'
      BY <2>2, <2>7, <3>2
    <3>5. PendingOf(p)'
      BY <1>1, <2>1, <2>4, <3>2, <3>4, SameFacts DEF PendingOf
    <3>6. PaidOnce(p)'
      <4>1. \A s \in Resolves : Past(s, p)' => resolve'[s].senderApp \in {None, 0}
        BY <2>4, <3>1, SameFacts DEF Once, PaidOnce
      <4> QED
        BY <1>1, <3>2, <4>1 DEF PaidOnce
    <3> QED
      BY <3>3, <3>5, <3>6 DEF Once, ReclaimedOf
  <2>12. Of(p)'
    BY <2>6, <2>8, <2>9, <2>10, <2>11 DEF Of
  <2> QED
    BY <2>3, <2>12, CallStep
<1>4. \/ Goto(r, "stuck") /\ UNCHANGED apps
      \/ \E pc \in {"installed", "stuck"} :
           /\ apps' = apps \cup {AppOf(p, r)}
           /\ resolve' = [resolve EXCEPT ![r] = [resolve[r] EXCEPT !.pc = pc]]
  BY DEF ClientInstalls, Goto
<1> QED
  BY <1>2, <1>3, <1>4

LEMMA SaveTransferInv ==
  ASSUME PayInv, NEW r \in Resolves, NEW p \in Payments, resolve[r].payment = p,
         SaveTransfer(r)
  PROVE  PayInv'
<1>1. /\ resolve[r] \in Calls /\ resolve[r].pc = "installed" /\ resolve[r].marked = FALSE
      /\ Past(r, p)
      /\ UNCHANGED <<sending, proposal, inbox, saving, apps, paid, taken>>
  BY DEF PayInv, PaymentTypes, CallShape, SaveTransfer, senderVars, moneyVars, Past, Paying
<1>2. Of(p) /\ row[p] # None /\ Fits(r, p) /\ resolve[r].transfer \in Rows
  BY <1>1, PastPayment
<1>3. PICK t : /\ t = [resolve[r].transfer EXCEPT !.receiverApp = r]
               /\ row' = [row EXCEPT ![p] = t]
               /\ resolve' = [resolve EXCEPT ![r].pc = "saved", ![r].transfer = t]
  BY DEF SaveTransfer
<1>4. /\ t \in Rows /\ t # None
      /\ t.status = resolve[r].transfer.status /\ t.amount = resolve[r].transfer.amount
  BY <1>2, <1>3, PaymentConstants DEF Rows
<1>5. PICK c : /\ c = [resolve[r] EXCEPT !.pc = "saved", !.transfer = t]
               /\ resolve' = [resolve EXCEPT ![r] = c]
  BY <1>3
<1>6. /\ c \in Calls /\ c.payment = p /\ c.pc = "saved" /\ c.marked = FALSE
      /\ c.transfer = t /\ c.senderApp = resolve[r].senderApp
      /\ c.alone = resolve[r].alone
  BY <1>1, <1>4, <1>5 DEF Calls, Ended
<1>7. /\ row' \in [Payments -> Rows \cup {None}] /\ row'[p] = t
      /\ \A q \in Payments \ {p} : row'[q] = row[q]
  BY <1>3, <1>4 DEF PayInv, PaymentTypes
<1>8. CallOf(r, p, c)
  BY <1>1, <1>5, <1>6, <1>7 DEF CallOf, PayInv, PaymentTypes
<1>9. Same(r, p, c)
  BY <1>1, <1>4, <1>6, <1>8 DEF Same
<1>10. Fresh(p)'
  BY <1>1, <1>4, <1>7, <1>8, FreshKept
<1>11. CopyOf(t, p)' /\ Deposit(p)' = Deposit(p)
  BY <1>1, <1>2, <1>4 DEF Fits, CopyOf, Deposit
<1>12. RowOf(p)' /\ TakenOf(p)'
  BY <1>1, <1>2, <1>7, <1>11 DEF Of, RowOf, TakenOf, Installed
<1>13. CallsOf(p)'
  <2>1. Fits(r, p)'
    <3>1. resolve'[r] = c
      BY <1>9, SameFacts
    <3> QED
      BY <1>1, <1>2, <1>4, <1>6, <1>11, <3>1 DEF Fits, PostPaid, Paying
  <2>2. paid'[p] >= paid[p]
    BY <1>1 DEF PayInv, PaymentTypes
  <2> QED
    BY <1>1, <1>4, <1>6, <1>7, <1>8, <2>1, <2>2, CallsKept
<1>14. AppsOf(p)'
  <2>1. /\ Past(r, p)' /\ resolve'[r].pc \in HasApp /\ resolve'[r].marked = FALSE
        /\ \A s \in Resolves \ {r} : /\ Past(s, p)' <=> Past(s, p)
                                     /\ resolve'[s] = resolve[s]
    BY <1>1, <1>6, <1>9, SameFacts DEF HasApp
  <2> QED
    BY <1>1, <1>2, <2>1 DEF Of, AppsOf
<1>15. ASSUME OneByOne(p)' PROVE Once(p)'
  <2>1. Once(p)
    BY <1>2, <1>9, <1>15, SameFacts DEF Of
  <2>2. /\ ~Returned(p) /\ Installed(p, 0) /\ paid[p] = 0
        /\ resolve[r].transfer.status = "PENDING"
        /\ \A s \in Resolves : Past(s, p) => s = r
    BY <1>1, <2>1, PayingFacts DEF Paying
  <2>3. \A s \in Resolves : Past(s, p)' => s = r /\ resolve'[s] = c
    BY <1>9, <2>2, SameFacts
  <2>4. OneAccepted(p)' /\ MarkedOf(p)'
    BY <1>6, <2>1, <2>3, <1>9, SameFacts DEF Once, OneAccepted, MarkedOf
  <2>5. ~Returned(p)'
    BY <1>4, <1>6, <1>7, <2>2, <2>3 DEF Returned
  <2>6. Installed(p, 0)'
    BY <1>1, <2>2 DEF Installed
  <2>7. PendingOf(p)'
    BY <1>1, <1>4, <1>6, <2>2, <2>3, <2>6 DEF PendingOf
  <2>8. PaidOnce(p)'
    <3>1. \A s \in Resolves : Past(s, p)' => resolve'[s].senderApp \in {None, 0}
      BY <1>9, <2>1, SameFacts DEF Once, PaidOnce
    <3> QED
      BY <1>1, <2>2, <3>1 DEF PaidOnce
  <2> QED
    BY <2>4, <2>5, <2>7, <2>8 DEF Once, ReclaimedOf
<1>16. Of(p)'
  BY <1>10, <1>12, <1>13, <1>14, <1>15 DEF Of
<1> QED
  BY <1>8, <1>16, CallStep

-----------------------------------------------------------------------------
\* takeAction unlocks an app, and leaves the others.
Unlocks(p, by) ==
  /\ apps' \subseteq [payment : Payments, by : Nat, unlocked : BOOLEAN]
  /\ \A a \in apps' : \E b \in apps :
       /\ a.payment = b.payment /\ a.by = b.by
       /\ a = b \/ a.unlocked = TRUE
  /\ \A b \in apps : \E a \in apps' : a.payment = b.payment /\ a.by = b.by
  /\ \A a \in apps' : a.payment # p \/ a.by # by => a \in apps
  /\ \A a \in apps : a.payment # p \/ a.by # by => a \in apps'
  /\ \A a \in apps' : a.payment = p /\ a.by = by => a.unlocked = TRUE

LEMMA TakeActionUnlocks ==
  ASSUME PayInv, NEW p \in Payments, NEW by, TakeAction(p, by)
  PROVE  Unlocks(p, by) /\ Installed(p, by)
<1> DEFINE Un(a) == IF a.payment = p /\ a.by = by THEN [a EXCEPT !.unlocked = TRUE] ELSE a
<1>1. apps' = {Un(a) : a \in apps} /\ Installed(p, by)
  BY DEF TakeAction
<1>2. \A a \in apps : a \in [payment : Payments, by : Nat, unlocked : BOOLEAN]
  BY DEF PayInv, PaymentTypes
<1>3. \A a \in apps :
        /\ Un(a) \in [payment : Payments, by : Nat, unlocked : BOOLEAN]
        /\ Un(a).payment = a.payment /\ Un(a).by = a.by
        /\ a.payment # p \/ a.by # by => Un(a) = a
        /\ a.payment = p /\ a.by = by => Un(a).unlocked = TRUE
  BY <1>2
<1> HIDE DEF Un
<1>4. apps' \subseteq [payment : Payments, by : Nat, unlocked : BOOLEAN]
  BY <1>1, <1>3
<1>5. \A a \in apps' : \E b \in apps :
        /\ a.payment = b.payment /\ a.by = b.by
        /\ a = b \/ a.unlocked = TRUE
  BY <1>1, <1>3
<1>6. \A b \in apps : \E a \in apps' : a.payment = b.payment /\ a.by = b.by
  BY <1>1, <1>3
<1>7. /\ \A a \in apps' : a.payment # p \/ a.by # by => a \in apps
      /\ \A a \in apps : a.payment # p \/ a.by # by => a \in apps'
      /\ \A a \in apps' : a.payment = p /\ a.by = by => a.unlocked = TRUE
  BY <1>1, <1>3
<1> QED
  BY <1>1, <1>4, <1>5, <1>6, <1>7 DEF Unlocks

\* A call that has unlocked an app goes on.
LEMMA UnlockedInv ==
  ASSUME PayInv, NEW r \in Resolves, NEW p \in Payments, NEW pc, NEW by,
         Past(r, p), Unlocks(p, by), Goto(r, pc),
         \/ resolve[r].pc = "saved" /\ pc = "unlocked" /\ by = r
         \/ resolve[r].pc = "paid" /\ pc = "reclaiming" /\ by = resolve[r].senderApp,
         UNCHANGED <<sending, proposal, inbox, saving, row, paid, taken>>
  PROVE  PayInv'
<1>1. /\ Of(p) /\ resolve[r] \in Calls /\ row[p] # None /\ Fits(r, p)
      /\ resolve[r].payment = p /\ Deposit(p)' = Deposit(p)
  BY PastPayment DEF Past, Deposit
<1>2. PICK c : /\ c = [resolve[r] EXCEPT !.pc = pc]
               /\ resolve' = [resolve EXCEPT ![r] = c]
  BY DEF Goto
<1>3. /\ c \in Calls /\ c.payment = p /\ c.pc = pc /\ c.marked = resolve[r].marked
      /\ c.transfer = resolve[r].transfer /\ c.senderApp = resolve[r].senderApp
      /\ c.alone = resolve[r].alone
  BY <1>1, <1>2 DEF Calls, Ended
<1>4. pc = "unlocked" => c.marked = FALSE
  BY <1>3 DEF PayInv, CallShape, Paying
<1>5. \A a : a.payment # p => (a \in apps' <=> a \in apps)
  BY DEF Unlocks
<1>6. CallOf(r, p, c)
  BY <1>1, <1>2, <1>3, <1>4, <1>5 DEF CallOf, PayInv, PaymentTypes, Unlocks, Paying
<1>7. Same(r, p, c)
  BY <1>3, <1>6 DEF Same
<1>8. Fresh(p)'
  BY <1>1, <1>6, FreshKept
<1>9. \A n : Installed(p, n)' <=> Installed(p, n)
  BY DEF Unlocks, Installed
<1>10. RowOf(p)' /\ TakenOf(p)'
  BY <1>1, <1>9 DEF Of, RowOf, TakenOf, CopyOf
<1>11. CallsOf(p)'
  <2>1. Fits(r, p)'
    <3>1. resolve'[r] = c
      BY <1>7, SameFacts
    <3>2. CopyOf(c.transfer, p)'
      BY <1>1, <1>3 DEF Fits, CopyOf
    <3>3. \A a \in apps' : a.payment = p =>
            /\ pc = "unlocked" /\ a.by = r => a.unlocked = TRUE
            /\ pc = "reclaiming" /\ c.senderApp = 0 /\ a.by = 0 => a.unlocked = TRUE
      BY <1>3 DEF Unlocks
    <3>4. pc \in {"unlocked", "reclaiming"}
      OBVIOUS
    <3>5. pc = "reclaiming" => paid[p] >= Deposit(p)
      BY <1>1 DEF Fits, PostPaid
    <3>6. c.senderApp \in Nat
      BY <1>1, <1>3 DEF Fits, Paying
    <3> QED
      BY <1>1, <1>3, <3>1, <3>2, <3>3, <3>4, <3>5, <3>6 DEF Fits, PostPaid
  <2>2. paid'[p] >= paid[p]
    BY DEF PayInv, PaymentTypes
  <2>3. \A a \in apps' : a.payment = p => a \in apps \/ a.unlocked = TRUE \/ a.by = r
    BY DEF Unlocks
  <2> QED
    BY <1>1, <1>3, <1>6, <2>1, <2>2, <2>3, CallsKept DEF Same
<1>12. AppsOf(p)'
  <2>1. resolve[r].pc \in HasApp => resolve'[r].pc \in HasApp
    BY <1>3, <1>7, SameFacts DEF HasApp
  <2>2. \A s \in Resolves :
          Past(s, p) /\ resolve[s].pc \in HasApp /\ resolve[s].marked = FALSE =>
          Past(s, p)' /\ resolve'[s].pc \in HasApp /\ resolve'[s].marked = FALSE
    BY <1>3, <1>7, <2>1, SameFacts
  <2>3. ASSUME NEW a \in apps', a.payment = p
        PROVE  \/ a.by = 0
               \/ /\ a.by \in Resolves /\ Past(a.by, p)'
                  /\ resolve'[a.by].pc \in HasApp /\ resolve'[a.by].marked = FALSE
    BY <1>1, <2>2, <2>3 DEF Of, AppsOf, Unlocks
  <2>4. ASSUME NEW a \in apps', a.payment = p, NEW b \in apps', b.payment = p, b.by = a.by
        PROVE  a = b
    <3>1. CASE a.by # by
      BY <1>1, <2>4, <3>1 DEF Of, AppsOf, Unlocks
    <3>2. CASE a.by = by
      <4>1. a.unlocked = TRUE /\ b.unlocked = TRUE
        BY <2>4, <3>2 DEF Unlocks
      <4>2. a \in [payment : Payments, by : Nat, unlocked : BOOLEAN]
            /\ b \in [payment : Payments, by : Nat, unlocked : BOOLEAN]
        BY DEF Unlocks
      <4> QED
        BY <2>4, <4>1, <4>2
    <3> QED
      BY <3>1, <3>2
  <2> QED
    BY <2>3, <2>4 DEF AppsOf
<1>13. ASSUME OneByOne(p)' PROVE Once(p)'
  <2>1. Once(p)
    BY <1>1, <1>7, <1>13, SameFacts DEF Of
  <2>2. pc # "reclaimed" /\ (Returned(p)' => Returned(p))
    BY <1>3, <1>7, <2>1, SameMarks
  <2>3. OneAccepted(p)' /\ MarkedOf(p)'
    BY <1>7, <2>1, SameMarks
  <2>4. ReclaimedOf(p)'
    <3>1. NoApps(p) => NoApps(p)'
      BY DEF NoApps, Unlocks
    <3> QED
      BY <1>1, <2>1, <2>2, <3>1 DEF Once, ReclaimedOf
  <2>5. PendingOf(p)'
    <3>1. \A s \in Resolves : resolve'[s].pc \in Paying => resolve[s].pc \in Paying
      BY <1>3, <1>7, SameFacts DEF Paying
    <3>2. \A s \in Resolves : resolve'[s].pc = "found" => resolve[s].pc = "found"
      BY <1>3, <1>7, SameFacts
    <3> QED
      BY <1>7, <1>9, <2>1, <3>1, <3>2, SameFacts DEF Once, PendingOf, Paying
  <2>6. PaidOnce(p)'
    <3>1. \A s \in Resolves : /\ Past(s, p)' <=> Past(s, p)
                              /\ resolve'[s].senderApp = resolve[s].senderApp
      BY <1>7, SameFacts
    <3> QED
      BY <1>1, <1>9, <2>1, <3>1 DEF Once, PaidOnce
  <2> QED
    BY <2>3, <2>4, <2>5, <2>6 DEF Once
<1>14. Of(p)'
  BY <1>8, <1>10, <1>11, <1>12, <1>13 DEF Of
<1> QED
  BY <1>6, <1>14, CallStep

LEMMA UnlockReceiverInv ==
  ASSUME PayInv, NEW r \in Resolves, NEW p \in Payments, resolve[r].payment = p,
         UnlockReceiver(r)
  PROVE  PayInv'
<1>1. /\ resolve[r].pc = "saved" /\ Past(r, p)
      /\ UNCHANGED <<sending, proposal, inbox, saving, row, paid, taken>>
  BY DEF UnlockReceiver, senderVars, Past
<1>2. CASE TakeAction(p, r) /\ Goto(r, "unlocked")
  BY <1>1, <1>2, TakeActionUnlocks, UnlockedInv
<1>3. CASE Goto(r, "failed") /\ UNCHANGED apps
  BY <1>1, <1>3, GotoInv DEF Moves, Paying
<1> QED
  BY <1>2, <1>3 DEF UnlockReceiver

LEMMA UnlockSenderInv ==
  ASSUME PayInv, NEW r \in Resolves, NEW p \in Payments, resolve[r].payment = p,
         UnlockSender(r)
  PROVE  PayInv'
<1>1. /\ resolve[r].pc = "paid" /\ Past(r, p)
      /\ UNCHANGED <<sending, proposal, inbox, saving, row, paid, taken>>
  BY DEF UnlockSender, senderVars, Past
<1>2. CASE TakeAction(p, resolve[r].senderApp) /\ Goto(r, "reclaiming")
  BY <1>1, <1>2, TakeActionUnlocks, UnlockedInv
<1>3. CASE Goto(r, "unreclaimed") /\ UNCHANGED apps
  BY <1>1, <1>3, GotoInv DEF Moves
<1> QED
  BY <1>2, <1>3 DEF UnlockSender

-----------------------------------------------------------------------------
\* What an uninstalled app leaves and pays.
LEMMA UninstallFacts ==
  ASSUME PayInv, NEW p \in Payments, NEW by \in Nat, UninstallApp(p, by),
         row[p] \in Rows, row[p].amount = Deposit(p), Claim(p) = Deposit(p),
         Deposit(p) \in Nat
  PROVE  \E a \in apps :
           /\ a.payment = p /\ a.by = by /\ apps' = apps \ {a}
           /\ by = 0 => /\ paid' = paid
                        /\ taken' = [taken EXCEPT ![p] = @ + (IF a.unlocked THEN Deposit(p) ELSE 0)]
           /\ by # 0 => /\ taken' = taken
                        /\ paid' = [paid EXCEPT ![p] = @ + (IF a.unlocked THEN Deposit(p) ELSE 0)]
<1>1. PICK a \in apps :
        /\ a.payment = p /\ a.by = by /\ apps' = apps \ {a}
        /\ by = 0 => /\ paid' = paid
                     /\ taken' = [taken EXCEPT ![p] = @ + (IF a.unlocked THEN Claim(p) ELSE 0)]
        /\ by # 0 => /\ taken' = taken
                     /\ paid' = [paid EXCEPT ![p] = @ + (IF a.unlocked THEN row[p].amount ELSE 0)]
  BY DEF UninstallApp
<1> QED
  BY <1>1

\* A call that has uninstalled an app goes on.
LEMMA UninstallStep ==
  ASSUME PayInv, NEW r \in Resolves, NEW p \in Payments, NEW pc, NEW c,
         resolve[r].payment = p, Past(r, p), NEW a \in apps, a.payment = p,
         apps' = apps \ {a}, Goto(r, pc),
         \/ resolve[r].pc = "unlocked" /\ pc = "paid" /\ a.by = r
         \/ resolve[r].pc = "reclaiming" /\ pc = "reclaimed" /\ a.by = resolve[r].senderApp,
         c = [resolve[r] EXCEPT !.pc = pc],
         paid' \in [Payments -> Nat], taken' \in [Payments -> Nat],
         \A q \in Payments \ {p} : paid'[q] = paid[q] /\ taken'[q] = taken[q],
         paid'[p] >= paid[p], paid'[p] >= Deposit(p),
         UNCHANGED <<sending, proposal, inbox, saving, row>>
  PROVE  /\ CallOf(r, p, c) /\ Same(r, p, c) /\ c.pc = pc /\ c.senderApp = resolve[r].senderApp
         /\ Fresh(p)' /\ RowOf(p)' /\ CallsOf(p)' /\ AppsOf(p)'
         /\ \A b \in apps' : b.payment = p => b \in apps /\ b.by # a.by
<1>1. /\ Of(p) /\ resolve[r] \in Calls /\ row[p] # None /\ Fits(r, p)
      /\ Deposit(p)' = Deposit(p) /\ Deposit(p) \in Nat
  BY PastPayment DEF Deposit
<1>2. resolve' = [resolve EXCEPT ![r] = c]
  BY DEF Goto
<1>3. /\ c \in Calls /\ c.payment = p /\ c.pc = pc /\ c.marked = resolve[r].marked
      /\ c.transfer = resolve[r].transfer /\ c.senderApp = resolve[r].senderApp
      /\ c.alone = resolve[r].alone
  BY <1>1 DEF Calls, Ended
<1>4. /\ apps' \subseteq [payment : Payments, by : Nat, unlocked : BOOLEAN]
      /\ \A b : b.payment # p => (b \in apps' <=> b \in apps)
  BY DEF PayInv, PaymentTypes
<1>5. CallOf(r, p, c)
  BY <1>2, <1>3, <1>4 DEF CallOf, PayInv, PaymentTypes, Paying
<1>6. Same(r, p, c)
  BY <1>3, <1>5 DEF Same
<1>7. Fresh(p)'
  BY <1>1, <1>5, FreshKept
<1>8. paid[p] \in Nat /\ paid'[p] \in Nat
  BY DEF PayInv, PaymentTypes
<1>9. \A t : CopyOf(t, p) => CopyOf(t, p)'
  BY <1>1, <1>8 DEF CopyOf
<1>10. RowOf(p)'
  BY <1>1, <1>9 DEF Of, RowOf
<1>11. CallsOf(p)'
  <2>1. Fits(r, p)'
    <3>1. resolve'[r] = c
      BY <1>6, SameFacts
    <3>2. CopyOf(c.transfer, p)'
      BY <1>1, <1>3, <1>9 DEF Fits
    <3>3. c.pc \in {"paid", "reclaimed"}
      BY <1>3
    <3>4. c.marked = FALSE => c.transfer.status # "REDEEMED"
      BY <1>1, <1>3 DEF Fits
    <3>5. c.senderApp \in Nat
      BY <1>1, <1>3 DEF Fits, Paying
    <3>6. paid'[p] >= Deposit(p)'
      BY <1>1
    <3> QED
      BY <3>1, <3>2, <3>3, <3>4, <3>5, <3>6 DEF Fits
  <2> QED
    BY <1>1, <1>3, <1>5, <2>1, CallsKept
<1>12. \A b \in apps' : b.payment = p => b \in apps /\ b.by # a.by
  BY <1>1 DEF Of, AppsOf
<1>13. AppsOf(p)'
  <2>1. resolve[r].pc \in HasApp => a.by = r
    BY DEF HasApp
  <2>2. \A s \in Resolves \ {r} : (Past(s, p)' <=> Past(s, p)) /\ resolve'[s] = resolve[s]
    BY <1>6, SameFacts
  <2>3. ASSUME NEW b \in apps', b.payment = p
        PROVE  \/ b.by = 0
               \/ /\ b.by \in Resolves /\ Past(b.by, p)'
                  /\ resolve'[b.by].pc \in HasApp /\ resolve'[b.by].marked = FALSE
    <3>1. /\ b \in apps /\ b.by # a.by
          /\ \/ b.by = 0
             \/ /\ b.by \in Resolves /\ Past(b.by, p)
                /\ resolve[b.by].pc \in HasApp /\ resolve[b.by].marked = FALSE
      BY <1>1, <1>12, <2>3 DEF Of, AppsOf
    <3>2. b.by # r \/ b.by = 0
      BY <2>1, <3>1
    <3> QED
      BY <2>2, <3>1, <3>2
  <2>4. \A b, d \in apps' : b.payment = p /\ d.payment = p /\ d.by = b.by => b = d
    BY <1>1, <1>12 DEF Of, AppsOf
  <2> QED
    BY <2>3, <2>4 DEF AppsOf
<1> QED
  BY <1>3, <1>5, <1>6, <1>7, <1>10, <1>11, <1>12, <1>13

\* The user has the money, once if the calls come one by one.
LEMMA UninstallReceiverInv ==
  ASSUME PayInv, NEW r \in Resolves, NEW p \in Payments, resolve[r].payment = p,
         UninstallReceiver(r)
  PROVE  PayInv'
<1>1. /\ resolve[r].pc = "unlocked" /\ Past(r, p)
      /\ UNCHANGED <<sending, proposal, inbox, saving, row>>
  BY DEF UninstallReceiver, senderVars, Past
<1>2. /\ Of(p) /\ resolve[r] \in Calls /\ row[p] \in Rows /\ row[p] # None /\ Fits(r, p)
      /\ Valid(p) /\ Deposit(p) \in Nat \ {0} /\ row[p].amount = Deposit(p)
      /\ Claim(p) = Deposit(p) /\ r \in Nat /\ r # 0
  BY <1>1, PastPayment, PaymentConstants DEF Valid
<1>3. CASE UninstallApp(p, r) /\ Goto(r, "paid")
  <2>1. PICK a \in apps :
          /\ a.payment = p /\ a.by = r /\ apps' = apps \ {a} /\ taken' = taken
          /\ paid' = [paid EXCEPT ![p] = @ + (IF a.unlocked THEN Deposit(p) ELSE 0)]
    BY <1>2, <1>3, UninstallFacts
  <2>2. a.unlocked = TRUE
    BY <1>1, <1>2, <2>1 DEF Fits
  <2>3. paid \in [Payments -> Nat] /\ taken \in [Payments -> Nat]
    BY DEF PayInv, PaymentTypes
  <2>4. /\ paid' \in [Payments -> Nat] /\ taken' \in [Payments -> Nat]
        /\ \A q \in Payments \ {p} : paid'[q] = paid[q] /\ taken'[q] = taken[q]
        /\ paid'[p] = paid[p] + Deposit(p) /\ paid'[p] >= paid[p] /\ paid'[p] >= Deposit(p)
        /\ taken'[p] = taken[p]
    BY <1>2, <2>1, <2>2, <2>3
  <2>5. PICK c : c = [resolve[r] EXCEPT !.pc = "paid"]
    OBVIOUS
  <2>6. /\ CallOf(r, p, c) /\ Same(r, p, c) /\ c.pc = "paid"
        /\ Fresh(p)' /\ RowOf(p)' /\ CallsOf(p)' /\ AppsOf(p)'
        /\ \A b \in apps' : b.payment = p => b \in apps
    BY <1>1, <1>3, <2>1, <2>4, <2>5, UninstallStep
  <2>7. Installed(p, 0)' <=> Installed(p, 0)
    BY <1>2, <2>1 DEF Installed
  <2>8. TakenOf(p)'
    BY <1>1, <1>2, <2>4, <2>7 DEF Of, TakenOf, Deposit
  <2>9. ASSUME OneByOne(p)' PROVE Once(p)'
    <3>1. Once(p)
      BY <1>2, <2>6, <2>9, SameFacts DEF Of
    <3>2. /\ ~Returned(p) /\ Installed(p, 0) /\ paid[p] = 0
          /\ \A s \in Resolves : Past(s, p) => s = r
      BY <1>1, <3>1, PayingFacts DEF Paying
    <3>3. OneAccepted(p)' /\ MarkedOf(p)' /\ ~Returned(p)'
      BY <1>1, <2>6, <3>1, <3>2, SameMarks
    <3>4. PendingOf(p)'
      BY <2>6, <3>2, SameFacts DEF PendingOf, Paying
    <3>5. PaidOnce(p)'
      <4>1. \A s \in Resolves : Past(s, p)' => resolve'[s].senderApp \in {None, 0}
        BY <2>6, <3>1, SameFacts DEF Once, PaidOnce
      <4>2. paid'[p] = Deposit(p)' /\ Past(r, p)'
        BY <1>1, <1>2, <2>4, <2>6, <3>2, SameFacts
      <4> QED
        BY <2>7, <3>2, <4>1, <4>2 DEF PaidOnce
    <3> QED
      BY <3>3, <3>4, <3>5 DEF Once, ReclaimedOf
  <2>10. Of(p)'
    BY <2>6, <2>8, <2>9 DEF Of
  <2> QED
    BY <2>6, <2>10, CallStep
<1>4. CASE Goto(r, "failed") /\ UNCHANGED moneyVars
  BY <1>1, <1>4, GotoInv DEF Moves, Paying, moneyVars
<1> QED
  BY <1>3, <1>4 DEF UninstallReceiver

\* The hub has the sender's money, or once more that of another call's app.
LEMMA UninstallSenderInv ==
  ASSUME PayInv, NEW r \in Resolves, NEW p \in Payments, resolve[r].payment = p,
         UninstallSender(r)
  PROVE  PayInv'
<1>1. /\ resolve[r].pc = "reclaiming" /\ Past(r, p)
      /\ UNCHANGED <<sending, proposal, inbox, saving, row>>
  BY DEF UninstallSender, senderVars, Past
<1>2. /\ Of(p) /\ resolve[r] \in Calls /\ row[p] \in Rows /\ row[p] # None /\ Fits(r, p)
      /\ Valid(p) /\ Deposit(p) \in Nat \ {0} /\ row[p].amount = Deposit(p)
      /\ Claim(p) = Deposit(p)
  BY <1>1, PastPayment DEF Valid
<1>3. resolve[r].senderApp \in Nat /\ paid[p] >= Deposit(p)
  BY <1>1, <1>2 DEF Fits, PostPaid
<1>4. ASSUME NEW by \in Nat, by = resolve[r].senderApp, UninstallApp(p, by), Goto(r, "reclaimed")
      PROVE  PayInv'
  <2>1. PICK a \in apps :
          /\ a.payment = p /\ a.by = by /\ apps' = apps \ {a}
          /\ by = 0 => /\ paid' = paid
                       /\ taken' = [taken EXCEPT ![p] = @ + (IF a.unlocked THEN Deposit(p) ELSE 0)]
          /\ by # 0 => /\ taken' = taken
                       /\ paid' = [paid EXCEPT ![p] = @ + (IF a.unlocked THEN Deposit(p) ELSE 0)]
    BY <1>2, <1>4, UninstallFacts
  <2>2. by = 0 => a.unlocked = TRUE
    BY <1>1, <1>2, <1>4, <2>1 DEF Fits
  <2>3. paid \in [Payments -> Nat] /\ taken \in [Payments -> Nat]
    BY DEF PayInv, PaymentTypes
  <2>4. /\ paid' \in [Payments -> Nat] /\ taken' \in [Payments -> Nat]
        /\ \A q \in Payments \ {p} : paid'[q] = paid[q] /\ taken'[q] = taken[q]
        /\ paid'[p] >= paid[p] /\ paid'[p] >= Deposit(p)
        /\ by # 0 => taken'[p] = taken[p]
        /\ by = 0 => taken'[p] = taken[p] + Deposit(p) /\ paid'[p] = paid[p]
    BY <1>2, <1>3, <2>1, <2>2, <2>3
  <2>5. PICK c : c = [resolve[r] EXCEPT !.pc = "reclaimed"]
    OBVIOUS
  <2>6. /\ CallOf(r, p, c) /\ Same(r, p, c) /\ c.pc = "reclaimed"
        /\ Fresh(p)' /\ RowOf(p)' /\ CallsOf(p)' /\ AppsOf(p)'
        /\ \A b \in apps' : b.payment = p => b \in apps /\ b.by # by
    BY <1>1, <1>4, <2>1, <2>4, <2>5, UninstallStep
  <2>7. Deposit(p)' = Deposit(p)
    BY <1>1 DEF Deposit
  <2>8. CASE by = 0
    <3>1. Installed(p, 0) /\ taken[p] = 0 /\ taken'[p] = Deposit(p) /\ ~Installed(p, 0)'
      BY <1>2, <2>1, <2>4, <2>6, <2>8 DEF Installed, Of, TakenOf
    <3>2. TakenOf(p)'
      BY <2>4, <2>7, <3>1 DEF TakenOf
    <3>3. ASSUME OneByOne(p)' PROVE Once(p)'
      <4>1. Once(p)
        BY <1>2, <2>6, <3>3, SameFacts DEF Of
      <4>2. OneAccepted(p)' /\ MarkedOf(p)'
        BY <1>1, <2>6, <4>1, SameMarks
      <4>3. ~Returned(p)
        BY <2>1, <4>1 DEF Once, ReclaimedOf, NoApps
      <4>4. \A s \in Resolves : Accepted(s, p) => s = r
        <5>1. ASSUME NEW s \in Resolves, Accepted(s, p), s # r PROVE FALSE
          <6>1. ~Accepted(r, p)
            BY <4>1, <5>1 DEF Once, OneAccepted
          <6>2. resolve[r].marked = TRUE
            BY <1>1, <1>2, <6>1 DEF Past, Accepted, Calls
          <6>3. resolve[s].transfer.status = "RECLAIMED"
            BY <1>1, <4>1, <5>1, <6>2 DEF Once, MarkedOf
          <6> QED
            BY <4>3, <5>1, <6>3 DEF Returned, Past, Accepted
        <5> QED
          BY <5>1
      <4>5. NoApps(p)'
        <5>1. ASSUME NEW b \in apps', b.payment = p PROVE FALSE
          <6>1. b \in apps /\ b.by # 0
            BY <2>6, <2>8, <5>1
          <6>2. /\ b.by \in Resolves /\ Past(b.by, p)
                /\ resolve[b.by].pc \in HasApp /\ resolve[b.by].marked = FALSE
            BY <1>2, <5>1, <6>1 DEF Of, AppsOf
          <6>3. b.by = r
            BY <4>4, <6>2 DEF Past, Accepted
          <6> QED
            BY <1>1, <6>2, <6>3 DEF HasApp
        <5> QED
          BY <5>1 DEF NoApps
      <4>6. ReclaimedOf(p)'
        BY <2>7, <3>1, <4>5 DEF ReclaimedOf
      <4>7. PendingOf(p)'
        <5>1. \A s \in Resolves \ {r} : Past(s, p) => resolve[s].marked = TRUE
          <6>1. \A s \in Resolves : resolve[s].marked \in BOOLEAN
            BY DEF PayInv, PaymentTypes, Calls
          <6> QED
            BY <4>4, <6>1 DEF Past, Accepted
        <5>2. \A s \in Resolves : resolve[s].pc \in Paying \cup {"found"} =>
                resolve[s].marked = FALSE
          BY DEF PayInv, CallShape
        <5>3. \A s \in Resolves : Past(s, p)' => resolve'[s].pc \notin Paying \cup {"found"}
          BY <2>6, <5>1, <5>2, SameFacts DEF Paying
        <5> QED
          BY <5>3 DEF PendingOf
      <4>8. PaidOnce(p)'
        <5>1. \A s \in Resolves : Past(s, p)' => resolve'[s].senderApp \in {None, 0}
          BY <2>6, <4>1, SameFacts DEF Once, PaidOnce
        <5>2. paid'[p] = Deposit(p)' /\ taken'[p] = Deposit(p)'
          BY <1>2, <1>3, <2>3, <2>4, <2>7, <2>8, <3>1, <4>1 DEF Once, PaidOnce
        <5>3. Past(r, p)'
          BY <1>1, <2>6, SameFacts
        <5> QED
          BY <5>1, <5>2, <5>3 DEF PaidOnce
      <4> QED
        BY <4>2, <4>6, <4>7, <4>8 DEF Once
    <3> QED
      BY <2>6, <3>2, <3>3, CallStep DEF Of
  <2>9. CASE by # 0
    <3>1. TakenOf(p)'
      <4>1. Installed(p, 0)' => Installed(p, 0)
        BY <2>1 DEF Installed
      <4> QED
        BY <1>2, <2>4, <2>7, <2>9, <4>1 DEF Of, TakenOf
    <3>2. ~OneByOne(p)'
      <4>1. ASSUME OneByOne(p)' PROVE FALSE
        <5>1. Once(p)
          BY <1>2, <2>6, <4>1, SameFacts DEF Of
        <5>2. resolve[r].senderApp \in {None, 0}
          BY <1>1, <5>1 DEF Once, PaidOnce
        <5> QED
          BY <1>4, <2>9, <5>2, PaymentConstants
      <4> QED
        BY <4>1
    <3> QED
      BY <2>6, <3>1, <3>2, CallStep DEF Of
  <2> QED
    BY <2>8, <2>9
<1>5. CASE Goto(r, "unreclaimed") /\ UNCHANGED moneyVars
  BY <1>1, <1>5, GotoInv DEF Moves, moneyVars
<1> QED
  BY <1>3, <1>4, <1>5 DEF UninstallSender

-----------------------------------------------------------------------------
(***************************************************************************)
(* The writes of the status.                                                *)
(***************************************************************************)
MarkOf(r, p, c, t) ==
  /\ Past(r, p) /\ resolve[r].pc \in PostPaid
  /\ t \in Rows /\ t.amount = resolve[r].transfer.amount
  /\ row' = [row EXCEPT ![p] = t] /\ resolve' = [resolve EXCEPT ![r] = c]
  /\ c \in Calls /\ c.payment = p /\ c.pc \in PostPaid /\ c.transfer = t /\ c.marked = TRUE
  /\ c.senderApp = resolve[r].senderApp /\ c.alone = resolve[r].alone
  /\ c.pc \in {"paid", "reclaiming"} => resolve[r].pc = c.pc
  /\ UNCHANGED <<sending, proposal, inbox, saving, apps, paid, taken>>

LEMMA MarkStep ==
  ASSUME PayInv, NEW r \in Resolves, NEW p \in Payments, NEW c, NEW t, MarkOf(r, p, c, t)
  PROVE  /\ CallOf(r, p, c) /\ row'[p] = t /\ (OneByOne(p)' <=> OneByOne(p))
         /\ \A s \in Resolves : resolve'[s] = IF s = r THEN c ELSE resolve[s]
         /\ \A s \in Resolves : Past(s, p)' <=> Past(s, p)
         /\ \A s \in Resolves : Accepted(s, p)' <=> Accepted(s, p) /\ s # r
         /\ Fresh(p)' /\ RowOf(p)' /\ CallsOf(p)' /\ AppsOf(p)' /\ TakenOf(p)'
         /\ Once(p) => OneAccepted(p)' /\ PaidOnce(p)'
<1> USE DEF MarkOf
<1>0. resolve[r].payment = p
  BY DEF Past
<1>1. /\ Of(p) /\ row[p] # None /\ Fits(r, p) /\ t # None /\ Deposit(p)' = Deposit(p)
      /\ resolve[r].transfer \in Rows
  BY PastPayment, PaymentConstants DEF Deposit
<1>2. /\ row' \in [Payments -> Rows \cup {None}] /\ row'[p] = t
      /\ \A q \in Payments \ {p} : row'[q] = row[q]
  BY DEF PayInv, PaymentTypes
<1>3. c.pc \notin {"idle", "asked", "refused", "found", "failed", "stuck"} \cup Paying
  BY DEF PostPaid, Paying
<1>4. CallOf(r, p, c)
  BY <1>0, <1>2, <1>3 DEF CallOf, PayInv, PaymentTypes
<1>5. /\ \A s \in Resolves : resolve'[s] = IF s = r THEN c ELSE resolve[s]
      /\ Past(r, p)' /\ (Accepted(r, p)' <=> ~c.marked)
      /\ \A s \in Resolves \ {r} : /\ Past(s, p)' <=> Past(s, p)
                                   /\ Accepted(s, p)' <=> Accepted(s, p)
  BY <1>3, <1>4, PastFacts
<1>6. /\ \A s \in Resolves : Past(s, p)' <=> Past(s, p)
      /\ \A s \in Resolves : Accepted(s, p)' <=> Accepted(s, p) /\ s # r
  BY <1>5
<1>7. OneByOne(p)' <=> OneByOne(p)
  BY <1>0, <1>5 DEF OneByOne
<1>8. Fresh(p)'
  BY <1>1, <1>2, <1>4, FreshKept
<1>9. paid[p] >= Deposit(p)
  BY <1>1 DEF Fits
<1>10. CopyOf(t, p)'
  BY <1>1, <1>9 DEF CopyOf, Fits
<1>11. RowOf(p)' /\ TakenOf(p)'
  BY <1>1, <1>2, <1>10 DEF Of, RowOf, TakenOf, Installed
<1>12. CallsOf(p)'
  <2>1. Fits(r, p)'
    <3>1. c.pc \in Paying \cup {"paid", "reclaiming"} => c.senderApp \in Nat
      BY <1>1, <1>3 DEF Fits
    <3>2. \A a \in apps : a.payment = p =>
            (c.pc = "reclaiming" /\ c.senderApp = 0 /\ a.by = 0 => a.unlocked = TRUE)
      BY <1>1 DEF Fits
    <3>3. c.pc # "unlocked"
      BY <1>3 DEF Paying
    <3> QED
      BY <1>1, <1>5, <1>9, <1>10, <3>1, <3>2, <3>3 DEF Fits
  <2>2. paid'[p] >= paid[p]
    BY DEF PayInv, PaymentTypes
  <2> QED
    BY <1>1, <1>2, <1>3, <1>4, <2>1, <2>2, CallsKept
<1>13. AppsOf(p)'
  <2>1. resolve[r].pc \notin HasApp
    BY DEF PostPaid, HasApp
  <2> QED
    BY <1>1, <1>5, <1>6, <2>1 DEF Of, AppsOf
<1>14. ASSUME Once(p) PROVE OneAccepted(p)' /\ PaidOnce(p)'
  <2>1. OneAccepted(p)'
    BY <1>6, <1>14 DEF Once, OneAccepted
  <2>2. \A s \in Resolves : Past(s, p)' => resolve'[s].senderApp \in {None, 0}
    BY <1>5, <1>6, <1>14 DEF Once, PaidOnce
  <2>3. PaidOnce(p)'
    BY <1>1, <1>6, <1>14, <2>2 DEF Once, PaidOnce, Installed
  <2> QED
    BY <2>1, <2>3
<1> QED
  BY <1>2, <1>4, <1>5, <1>6, <1>7, <1>8, <1>11, <1>12, <1>13, <1>14

LEMMA MarkAsRedeemedInv ==
  ASSUME PayInv, NEW r \in Resolves, NEW p \in Payments, resolve[r].payment = p,
         MarkAsRedeemed(r)
  PROVE  PayInv'
<1>1. /\ resolve[r] \in Calls /\ resolve[r].pc \in PostPaid /\ resolve[r].marked = FALSE
      /\ resolve[r].pc # "done" /\ Past(r, p) /\ Accepted(r, p)
      /\ UNCHANGED <<sending, proposal, inbox, saving, apps, paid, taken>>
  BY DEF PayInv, PaymentTypes, MarkAsRedeemed, senderVars, moneyVars, Past, Accepted,
         PostPaid, Calls
<1>2. Of(p) /\ resolve[r].transfer \in Rows
  BY <1>1, PastPayment
<1>3. PICK t : /\ t = [resolve[r].transfer EXCEPT !.status = "REDEEMED"]
               /\ row' = [row EXCEPT ![p] = t]
               /\ resolve' = [resolve EXCEPT ![r].transfer = t, ![r].marked = TRUE]
  BY DEF MarkAsRedeemed
<1>4. t \in Rows /\ t.amount = resolve[r].transfer.amount /\ t.status = "REDEEMED"
  BY <1>2, <1>3 DEF Rows, Statuses
<1>5. PICK c : /\ c = [resolve[r] EXCEPT !.transfer = t, !.marked = TRUE]
               /\ resolve' = [resolve EXCEPT ![r] = c]
  BY <1>3
<1>6. /\ c \in Calls /\ c.payment = p /\ c.pc = resolve[r].pc /\ c.marked = TRUE
      /\ c.transfer = t /\ c.senderApp = resolve[r].senderApp
      /\ c.alone = resolve[r].alone
  BY <1>1, <1>4, <1>5 DEF Calls
<1>7. /\ CallOf(r, p, c) /\ row'[p] = t /\ (OneByOne(p)' <=> OneByOne(p))
      /\ \A s \in Resolves : resolve'[s] = IF s = r THEN c ELSE resolve[s]
      /\ \A s \in Resolves : Past(s, p)' <=> Past(s, p)
      /\ \A s \in Resolves : Accepted(s, p)' <=> Accepted(s, p) /\ s # r
      /\ Fresh(p)' /\ RowOf(p)' /\ CallsOf(p)' /\ AppsOf(p)' /\ TakenOf(p)'
      /\ Once(p) => OneAccepted(p)' /\ PaidOnce(p)'
  <2>1. MarkOf(r, p, c, t)
    BY <1>1, <1>3, <1>4, <1>5, <1>6 DEF MarkOf
  <2> QED
    BY <2>1, MarkStep
<1>8. ASSUME OneByOne(p)' PROVE Once(p)'
  <2>1. Once(p)
    BY <1>2, <1>7, <1>8 DEF Of
  <2>2. \A s \in Resolves : ~Accepted(s, p)'
    BY <1>1, <1>7, <2>1 DEF Once, OneAccepted
  <2>3. MarkedOf(p)'
    BY <1>4, <1>7, <2>2 DEF MarkedOf
  <2>4. Returned(p)' => Returned(p)
    <3>1. ASSUME NEW s \in Resolves, Past(s, p)',
                 \/ resolve'[s].transfer.status = "RECLAIMED"
                 \/ resolve'[s].pc = "reclaimed"
          PROVE  Returned(p)
      <4>1. CASE s = r
        BY <1>4, <1>6, <1>7, <3>1, <4>1 DEF Returned
      <4>2. CASE s # r
        BY <1>7, <3>1, <4>2 DEF Returned
      <4> QED
        BY <4>1, <4>2
    <3> QED
      BY <1>4, <1>7, <3>1 DEF Returned
  <2>5. ReclaimedOf(p)'
    BY <1>1, <2>1, <2>4 DEF Once, ReclaimedOf, NoApps, Deposit
  <2>6. PendingOf(p)'
    <3>1. \A s \in Resolves \ {r} : Past(s, p) => resolve[s].pc \notin Paying \cup {"found"}
      BY <1>1, <2>1, Sole
    <3>2. resolve[r].pc \notin Paying \cup {"found"}
      BY <1>1 DEF PostPaid, Paying
    <3> QED
      BY <1>6, <1>7, <3>1, <3>2 DEF PendingOf
  <2> QED
    BY <1>7, <2>1, <2>3, <2>5, <2>6 DEF Once
<1>9. Of(p)'
  BY <1>7, <1>8 DEF Of
<1> QED
  BY <1>7, <1>9, CallStep

LEMMA MarkAsReclaimedInv ==
  ASSUME PayInv, NEW r \in Resolves, NEW p \in Payments, resolve[r].payment = p,
         MarkAsReclaimed(r)
  PROVE  PayInv'
<1>1. /\ resolve[r] \in Calls /\ resolve[r].pc = "reclaimed" /\ resolve[r].marked = TRUE
      /\ Past(r, p)
      /\ UNCHANGED <<sending, proposal, inbox, saving, apps, paid, taken>>
  BY DEF PayInv, PaymentTypes, MarkAsReclaimed, senderVars, moneyVars, Past, Calls
<1>2. Of(p) /\ resolve[r].transfer \in Rows
  BY <1>1, PastPayment
<1>3. PICK t : /\ t = [resolve[r].transfer EXCEPT !.status = "RECLAIMED"]
               /\ row' = [row EXCEPT ![p] = t]
               /\ resolve' = [resolve EXCEPT ![r].transfer = t, ![r].pc = "done"]
  BY DEF MarkAsReclaimed
<1>4. t \in Rows /\ t.amount = resolve[r].transfer.amount /\ t.status = "RECLAIMED"
  BY <1>2, <1>3 DEF Rows, Statuses
<1>5. PICK c : /\ c = [resolve[r] EXCEPT !.transfer = t, !.pc = "done"]
               /\ resolve' = [resolve EXCEPT ![r] = c]
  BY <1>3
<1>6. /\ c \in Calls /\ c.payment = p /\ c.pc = "done" /\ c.marked = TRUE
      /\ c.transfer = t /\ c.senderApp = resolve[r].senderApp
      /\ c.alone = resolve[r].alone
  BY <1>1, <1>4, <1>5 DEF Calls, Ended
<1>7. /\ CallOf(r, p, c) /\ row'[p] = t /\ (OneByOne(p)' <=> OneByOne(p))
      /\ \A s \in Resolves : resolve'[s] = IF s = r THEN c ELSE resolve[s]
      /\ \A s \in Resolves : Past(s, p)' <=> Past(s, p)
      /\ \A s \in Resolves : Accepted(s, p)' <=> Accepted(s, p) /\ s # r
      /\ Fresh(p)' /\ RowOf(p)' /\ CallsOf(p)' /\ AppsOf(p)' /\ TakenOf(p)'
      /\ Once(p) => OneAccepted(p)' /\ PaidOnce(p)'
  <2>1. MarkOf(r, p, c, t)
    BY <1>1, <1>3, <1>4, <1>5, <1>6 DEF MarkOf, PostPaid
  <2> QED
    BY <2>1, MarkStep
<1>8. ASSUME OneByOne(p)' PROVE Once(p)'
  <2>1. Once(p)
    BY <1>2, <1>7, <1>8 DEF Of
  <2>2. \A s \in Resolves : Accepted(s, p) => resolve[s].transfer.status = "RECLAIMED"
    BY <1>1, <2>1 DEF Once, MarkedOf
  <2>3. MarkedOf(p)'
    BY <1>4, <1>7, <2>2 DEF MarkedOf
  <2>4. NoApps(p) /\ taken[p] = Deposit(p)
    BY <1>1, <2>1 DEF Once, ReclaimedOf, Returned
  <2>5. ReclaimedOf(p)'
    BY <1>1, <2>4 DEF ReclaimedOf, NoApps, Deposit
  <2>6. PendingOf(p)'
    <3>1. c.pc \notin Paying \cup {"found"}
      BY <1>6 DEF Paying
    <3>2. Installed(p, 0)' <=> Installed(p, 0)
      BY <1>1 DEF Installed
    <3> QED
      BY <1>1, <1>7, <2>1, <3>1, <3>2 DEF Once, PendingOf
  <2> QED
    BY <1>7, <2>1, <2>3, <2>5, <2>6 DEF Once
<1>9. Of(p)'
  BY <1>7, <1>8 DEF Of
<1> QED
  BY <1>7, <1>9, CallStep

-----------------------------------------------------------------------------
(***************************************************************************)
(* The steps before a call: the app is proposed, installed and saved.         *)
(***************************************************************************)
PaymentOnly(p) ==
  /\ UNCHANGED <<resolve, paid, taken>>
  /\ sending' \in [Payments -> {"idle", "proposed", "installed", "sent", "failed"}]
  /\ proposal' \in [Payments -> Proposals \cup {None}]
  /\ inbox' \subseteq Payments /\ saving' \subseteq Payments
  /\ apps' \subseteq [payment : Payments, by : Nat, unlocked : BOOLEAN]
  /\ row' \in [Payments -> Rows \cup {None}]
  /\ \A q \in Payments \ {p} :
       /\ sending'[q] = sending[q] /\ proposal'[q] = proposal[q] /\ row'[q] = row[q]
       /\ q \in inbox' <=> q \in inbox
       /\ q \in saving' <=> q \in saving
  /\ \A a : a.payment # p => (a \in apps' <=> a \in apps)

LEMMA PaymentStep ==
  ASSUME PayInv, NEW p \in Payments, PaymentOnly(p), Of(p)'
  PROVE  PayInv'
<1>1. PaymentTypes' /\ CallShape'
  BY DEF PayInv, PaymentTypes, CallShape, PaymentOnly
<1>2. ASSUME NEW q \in Payments, q # p PROVE Of(q)'
  <2>1. Untouched(q)
    BY <1>2 DEF PaymentOnly, Untouched
  <2> QED
    BY <2>1, Frame DEF PayInv
<1> QED
  BY <1>1, <1>2 DEF PayInv

\* Nobody has been told of a payment that has no row.
LEMMA Unsaved ==
  ASSUME PayInv, NEW p \in Payments, row[p] = None
  PROVE  /\ Of(p) /\ \A r \in Resolves : ~Past(r, p)
         /\ \A a \in apps : a.payment = p => a.by = 0
<1>1. Of(p)
  BY DEF PayInv
<1>2. \A r \in Resolves : ~Past(r, p)
  BY <1>1 DEF Of, CallsOf
<1> QED
  BY <1>1, <1>2 DEF Of, AppsOf

LEMMA UnsavedStep ==
  ASSUME PayInv, NEW p \in Payments, PaymentOnly(p), row[p] = None,
         \/ row'[p] = None
         \/ row'[p] \in Rows /\ row'[p].status = "PENDING" /\ row'[p].amount = Deposit(p)',
         \A a, b \in apps' : a.payment = p /\ b.payment = p => a.by = 0 /\ a = b,
         Fresh(p)', TakenOf(p)'
  PROVE  PayInv'
<1>1. Of(p) /\ \A r \in Resolves : ~Past(r, p)
  BY Unsaved
<1>2. resolve' = resolve /\ paid' = paid
  BY DEF PaymentOnly
<1>3. \A r \in Resolves : ~Past(r, p)' /\ ~Accepted(r, p)'
  BY <1>1, <1>2 DEF Past, Accepted
<1>4. RowOf(p)' /\ CallsOf(p)' /\ AppsOf(p)'
  BY <1>3 DEF RowOf, CopyOf, CallsOf, AppsOf
<1>5. ASSUME OneByOne(p)' PROVE Once(p)'
  <2>1. Once(p)
    BY <1>1, <1>2, <1>5 DEF Of, OneByOne
  <2>2. paid'[p] = 0
    BY <1>1, <1>2, <2>1 DEF Once, PaidOnce
  <2>3. ~Returned(p)'
    BY <1>3 DEF Returned
  <2> QED
    BY <1>3, <2>2, <2>3
    DEF Once, OneAccepted, MarkedOf, ReclaimedOf, PendingOf, PaidOnce
<1>6. Of(p)'
  BY <1>4, <1>5 DEF Of
<1> QED
  BY <1>6, PaymentStep

LEMMA ProposeInv ==
  ASSUME PayInv, NEW p \in Payments, Propose(p)
  PROVE  PayInv'
<1>1. PICK q \in Proposals : proposal' = [proposal EXCEPT ![p] = q]
  BY DEF Propose
<1>2. /\ sending[p] = "idle" /\ sending' = [sending EXCEPT ![p] = "proposed"]
      /\ inbox' = inbox \cup {p}
      /\ UNCHANGED <<saving, row, resolve, apps, paid, taken>>
  BY DEF Propose, hubVars, moneyVars
<1>3. PaymentOnly(p)
  BY <1>1, <1>2 DEF PayInv, PaymentTypes, PaymentOnly
<1>4. ~Installed(p, 0) /\ taken[p] = 0 /\ row[p] = None /\ p \notin saving
  BY <1>2 DEF PayInv, Of, Fresh
<1>5. \A a \in apps : a.payment # p
  BY <1>4, Unsaved DEF Installed
<1>6. sending'[p] = "proposed" /\ proposal'[p] \in Proposals
  BY <1>1, <1>2 DEF PayInv, PaymentTypes
<1>7. Fresh(p)'
  BY <1>2, <1>4, <1>6 DEF Fresh, Installed
<1>8. TakenOf(p)'
  BY <1>2, <1>4 DEF TakenOf
<1> QED
  BY <1>2, <1>3, <1>4, <1>5, <1>7, <1>8, UnsavedStep

\* What the hub installs is worth its deposit.
LEMMA VerifiedIsValid ==
  ASSUME NEW p \in Payments, proposal[p] \in Proposals,
         verifyAppProposal(Sender[p], proposal[p])
  PROVE  Valid(p)
<1>1. proposal[p].app = "SimpleLinkedTransferApp"
  BY LinkedTransfersConstants DEF verifyAppProposal, AllowNodeInstall
<1> QED
  BY <1>1 DEF verifyAppProposal, validateSimpleLinkedTransfer, Valid, Claim, Deposit

LEMMA AllowOrRejectInv ==
  ASSUME PayInv, NEW p \in Payments, AllowOrReject(p)
  PROVE  PayInv'
<1>1. /\ p \in inbox /\ inbox' = inbox \ {p}
      /\ UNCHANGED <<proposal, row, resolve, paid, taken>>
  BY DEF AllowOrReject, hubVars
<1>2. /\ ~Installed(p, 0) /\ taken[p] = 0 /\ row[p] = None /\ p \notin saving
      /\ proposal[p] \in Proposals /\ sending[p] # "idle"
  BY <1>1 DEF PayInv, Of, Fresh
<1>3. \A a \in apps : a.payment # p
  BY <1>2, Unsaved DEF Installed
<1>4. TakenOf(p)'
  BY <1>1, <1>2 DEF TakenOf
<1>5. CASE /\ verifyAppProposal(Sender[p], proposal[p])
           /\ apps' = apps \cup {AppOf(p, 0)} /\ saving' = saving \cup {p}
           /\ UNCHANGED sending
  <2>1. /\ AppOf(p, 0) \in [payment : Payments, by : Nat, unlocked : BOOLEAN]
        /\ AppOf(p, 0).payment = p /\ AppOf(p, 0).by = 0
    BY DEF AppOf
  <2>2. PaymentOnly(p)
    BY <1>1, <1>5, <2>1 DEF PayInv, PaymentTypes, PaymentOnly
  <2>3. Valid(p)'
    <3>1. Valid(p)
      BY <1>2, <1>5, VerifiedIsValid
    <3> QED
      BY <1>1, <3>1 DEF Valid, Deposit, Claim
  <2>4. Fresh(p)'
    BY <1>1, <1>2, <1>5, <2>3 DEF Fresh
  <2>5. \A a, b \in apps' : a.payment = p /\ b.payment = p => a.by = 0 /\ a = b
    BY <1>3, <1>5, <2>1
  <2> QED
    BY <1>1, <1>2, <1>4, <2>2, <2>4, <2>5, UnsavedStep
<1>6. CASE /\ sending' = [sending EXCEPT ![p] = IF @ = "proposed" THEN "failed" ELSE @]
           /\ UNCHANGED <<apps, saving>>
  <2>1. PaymentOnly(p)
    BY <1>1, <1>6 DEF PayInv, PaymentTypes, PaymentOnly
  <2>2. sending'[p] # "idle"
    BY <1>2, <1>6 DEF PayInv, PaymentTypes
  <2>3. Fresh(p)'
    BY <1>1, <1>2, <1>6, <2>2 DEF Fresh, Installed
  <2> QED
    BY <1>1, <1>2, <1>3, <1>4, <1>6, <2>1, <2>3, UnsavedStep
<1> QED
  BY <1>5, <1>6 DEF AllowOrReject

LEMMA SaveLinkedTransferInv ==
  ASSUME PayInv, NEW p \in Payments, SaveLinkedTransfer(p)
  PROVE  PayInv'
<1>1. /\ p \in saving /\ saving' = saving \ {p}
      /\ UNCHANGED <<sending, proposal, inbox, resolve, apps, paid, taken>>
  BY DEF SaveLinkedTransfer, moneyVars
<1>2. Of(p) /\ row[p] = None /\ Valid(p) /\ sending[p] # "idle" /\ p \notin inbox
  BY <1>1 DEF PayInv, Of, Fresh
<1>3. Deposit(p) \in Nat
  BY <1>2, PaymentConstants DEF Valid, Deposit
<1>4. PICK t : /\ t = [status |-> "PENDING", amount |-> Deposit(p),
                       recipient |-> FALSE, receiverApp |-> 0]
               /\ row' = [row EXCEPT ![p] = t]
  BY DEF SaveLinkedTransfer, Deposit
<1>5. t \in Rows /\ t.status = "PENDING" /\ t.amount = Deposit(p)
  BY <1>3, <1>4 DEF Rows, Statuses
<1>6. row' \in [Payments -> Rows \cup {None}] /\ row'[p] = t
  BY <1>4, <1>5 DEF PayInv, PaymentTypes
<1>7. PaymentOnly(p)
  BY <1>1, <1>4, <1>6 DEF PayInv, PaymentTypes, PaymentOnly
<1>8. Fresh(p)'
  BY <1>1, <1>2 DEF Fresh, Valid, Deposit, Claim
<1>9. TakenOf(p)' /\ Deposit(p)' = Deposit(p)
  BY <1>1, <1>2 DEF Of, TakenOf, Deposit, Installed
<1>10. \A a, b \in apps' : a.payment = p /\ b.payment = p => a.by = 0 /\ a = b
  <2>1. \A a \in apps : a.payment = p => a.by = 0
    BY <1>2, Unsaved
  <2> QED
    BY <1>1, <1>2, <2>1 DEF Of, AppsOf
<1> QED
  BY <1>2, <1>5, <1>6, <1>7, <1>8, <1>9, <1>10, UnsavedStep

\* The sender's client alone moves on.
LEMMA SenderMoves ==
  ASSUME PayInv, NEW p \in Payments, NEW s \in {"installed", "sent", "failed"},
         sending[p] # "idle", sending' = [sending EXCEPT ![p] = s],
         UNCHANGED <<proposal, inbox, saving, resolve, apps, row, paid, taken>>
  PROVE  PayInv'
<1>1. sending \in [Payments -> {"idle", "proposed", "installed", "sent", "failed"}]
  BY DEF PayInv, PaymentTypes
<1>2. /\ sending' \in [Payments -> {"idle", "proposed", "installed", "sent", "failed"}]
      /\ \A q \in Payments : sending'[q] = "idle" <=> sending[q] = "idle"
  BY <1>1
<1>3. resolve' \in [Resolves -> Calls] /\ \A r \in Resolves : Moved(r)
  BY DEF PayInv, PaymentTypes, Moved, Moves
<1>4. OnlyMoves
  BY <1>2, <1>3 DEF OnlyMoves
<1> QED
  BY <1>4, MovesKeep

\* The recipient of the row changes, nothing else of it.
LEMMA SetRecipientInv ==
  ASSUME PayInv, NEW p \in Payments, SetRecipient(p)
  PROVE  PayInv'
<1>1. /\ sending[p] = "installed"
      /\ UNCHANGED <<proposal, inbox, saving, resolve, apps, paid, taken>>
  BY DEF SetRecipient, moneyVars
<1>2. CASE sending' = [sending EXCEPT ![p] = "failed"] /\ UNCHANGED row
  BY <1>1, <1>2, SenderMoves
<1>3. CASE /\ row[p] # None /\ sending' = [sending EXCEPT ![p] = "sent"]
           /\ row' = [row EXCEPT ![p].recipient = TRUE]
  <2>1. Of(p) /\ row[p] \in Rows
    BY <1>3 DEF PayInv, PaymentTypes
  <2>2. PICK t : /\ t = [row[p] EXCEPT !.recipient = TRUE]
                 /\ row' = [row EXCEPT ![p] = t]
    BY <1>3
  <2>3. /\ t \in Rows /\ t.status = row[p].status /\ t.amount = row[p].amount
        /\ t # None
    BY <2>1, <2>2, PaymentConstants DEF Rows
  <2>4. row' \in [Payments -> Rows \cup {None}] /\ row'[p] = t
    BY <2>2, <2>3 DEF PayInv, PaymentTypes
  <2>5. PaymentOnly(p) /\ sending'[p] = "sent"
    BY <1>1, <1>3, <2>2, <2>4 DEF PayInv, PaymentTypes, PaymentOnly
  <2>6. /\ \A r \in Resolves : Past(r, p)' <=> Past(r, p)
        /\ \A r \in Resolves : Accepted(r, p)' <=> Accepted(r, p)
        /\ Deposit(p)' = Deposit(p) /\ (Installed(p, 0)' <=> Installed(p, 0))
        /\ \A u : CopyOf(u, p)' <=> CopyOf(u, p)
    BY <1>1 DEF Past, Accepted, Deposit, Installed, CopyOf
  <2>7. Fresh(p)'
    BY <1>1, <1>3, <2>1, <2>4, <2>5, <2>6 DEF Of, Fresh, Valid, Deposit, Claim
  <2>8. RowOf(p)' /\ TakenOf(p)'
    BY <1>1, <1>3, <2>1, <2>3, <2>4, <2>6 DEF Of, RowOf, TakenOf, CopyOf
  <2>9. CallsOf(p)' /\ AppsOf(p)'
    BY <1>1, <2>1, <2>3, <2>4, <2>6 DEF Of, CallsOf, Fits, AppsOf
  <2>10. ASSUME OneByOne(p)' PROVE Once(p)'
    <3>1. Once(p)
      BY <1>1, <2>1, <2>10 DEF Of, OneByOne
    <3>2. OneAccepted(p)' /\ MarkedOf(p)'
      BY <1>1, <2>3, <2>4, <2>6, <3>1 DEF Once, OneAccepted, MarkedOf
    <3>3. Returned(p)' => Returned(p)
      BY <1>1, <1>3, <2>3, <2>4, <2>6 DEF Returned
    <3>4. ReclaimedOf(p)'
      BY <1>1, <2>6, <3>1, <3>3 DEF Once, ReclaimedOf, NoApps
    <3>5. PendingOf(p)' /\ PaidOnce(p)'
      BY <1>1, <2>6, <3>1 DEF Once, PendingOf, PaidOnce
    <3> QED
      BY <3>2, <3>4, <3>5 DEF Once
  <2>11. Of(p)'
    BY <2>7, <2>8, <2>9, <2>10 DEF Of
  <2> QED
    BY <2>5, <2>11, PaymentStep
<1> QED
  BY <1>2, <1>3 DEF SetRecipient

-----------------------------------------------------------------------------
LEMMA ProposeInstallInv ==
  ASSUME PayInv, NEW r \in Resolves, ProposeInstall(r)
  PROVE  PayInv'
<1>1. /\ resolve[r].pc = "ready"
      /\ UNCHANGED <<sending, proposal, inbox, saving, apps, row, paid, taken>>
  BY DEF ProposeInstall, senderVars, moneyVars
<1>2. CASE Goto(r, "proposed")
  BY <1>1, <1>2, GotoInv DEF Moves
<1>3. CASE Goto(r, "failed")
  BY <1>1, <1>3, GotoInv DEF Moves, Paying
<1> QED
  BY <1>2, <1>3 DEF ProposeInstall

(***************************************************************************)
(* Requests for collateral resume or fail the calls that wait for it.         *)
(***************************************************************************)
LEMMA WaitingMoves ==
  ASSUME PayInv, resolve' \in [Resolves -> Calls],
         \A s \in Resolves :
           \/ resolve'[s] = resolve[s]
           \/ \E pc \in {"ready", "failed"} :
                /\ resolve[s].pc = "waiting"
                /\ resolve'[s] = [resolve[s] EXCEPT !.pc = pc],
         UNCHANGED <<sending, proposal, inbox, saving, apps, row, paid, taken>>
  PROVE  PayInv'
<1>1. resolve \in [Resolves -> Calls]
  BY DEF PayInv, PaymentTypes
<1>2. \A s \in Resolves : Moved(s)
  BY <1>1 DEF Moved, Moves, Paying, Calls
<1>3. OnlyMoves
  BY <1>2 DEF OnlyMoves, PayInv, PaymentTypes
<1> QED
  BY <1>3, MovesKeep

LEMMA ResumedCall ==
  ASSUME PayInv, NEW s \in Resolves
  PROVE  /\ Resumed(s) \in Calls /\ resolve[s] \in Calls
         /\ \/ Resumed(s) = resolve[s]
            \/ resolve[s].pc = "waiting" /\ Resumed(s) = [resolve[s] EXCEPT !.pc = "ready"]
<1>1. resolve[s] \in Calls
  BY DEF PayInv, PaymentTypes
<1> QED
  BY <1>1 DEF Resumed, Calls, Ended

LEMMA RequestInv ==
  ASSUME PayInv, NEW r \in Resolves, RequestStep(r)
  PROVE  PayInv'
<1>1. UNCHANGED <<sending, proposal, inbox, saving, apps, row, paid, taken>>
  BY DEF RequestStep, ReadFlag, ReadBalance, SetInFlight, DepositConfirmed, DepositFailed,
         ClearCollateralizationInFlight, senderVars, moneyVars
<1>2. resolve \in [Resolves -> Calls]
  BY DEF PayInv, PaymentTypes
<1>3. CASE UNCHANGED resolve
  BY <1>1, <1>2, <1>3, WaitingMoves
<1>4. CASE resolve' = [resolve EXCEPT ![r] = Resumed(r)]
  <2>1. resolve' \in [Resolves -> Calls]
    BY <1>2, <1>4, ResumedCall
  <2>2. \A s \in Resolves : resolve'[s] = IF s = r THEN Resumed(s) ELSE resolve[s]
    BY <1>2, <1>4
  <2> QED
    BY <1>1, <2>1, <2>2, ResumedCall, WaitingMoves
<1>5. CASE DepositConfirmed(r)
  <2>1. resolve' = [s \in Resolves |->
          IF resolve[s].pc = "waiting" /\ UserOf(s) = UserOf(r) THEN Resumed(s)
                                                                ELSE resolve[s]]
    BY <1>5 DEF DepositConfirmed
  <2>2. \A s \in Resolves : resolve'[s] \in {Resumed(s), resolve[s]}
    BY <2>1
  <2>3. resolve' \in [Resolves -> Calls]
    BY <2>1, ResumedCall
  <2> QED
    BY <1>1, <2>2, <2>3, ResumedCall, WaitingMoves
<1>6. CASE resolve' = [resolve EXCEPT ![r].pc = IF @ = "waiting" THEN "failed" ELSE @]
  <2>1. PICK c : /\ c = [resolve[r] EXCEPT !.pc = IF @ = "waiting" THEN "failed" ELSE @]
                 /\ resolve' = [resolve EXCEPT ![r] = c]
    BY <1>6
  <2>2. resolve[r] \in Calls
    BY <1>2
  <2>3. /\ c \in Calls
        /\ \/ c = resolve[r]
           \/ resolve[r].pc = "waiting" /\ c = [resolve[r] EXCEPT !.pc = "failed"]
    <3>1. CASE resolve[r].pc = "waiting"
      <4>1. c = [resolve[r] EXCEPT !.pc = "failed"]
        BY <2>1, <3>1
      <4> QED
        BY <2>2, <3>1, <4>1 DEF Calls, Ended
    <3>2. CASE resolve[r].pc # "waiting"
      <4>1. c = resolve[r]
        BY <2>1, <2>2, <3>2 DEF Calls
      <4> QED
        BY <2>2, <4>1
    <3> QED
      BY <3>1, <3>2
  <2>4. resolve' \in [Resolves -> Calls]
    BY <1>2, <2>1, <2>3
  <2>5. \A s \in Resolves : resolve'[s] = IF s = r THEN c ELSE resolve[s]
    BY <1>2, <2>1
  <2> QED
    BY <1>1, <2>3, <2>4, <2>5, WaitingMoves
<1>7. \/ UNCHANGED resolve
      \/ resolve' = [resolve EXCEPT ![r] = Resumed(r)]
      \/ DepositConfirmed(r)
      \/ resolve' = [resolve EXCEPT ![r].pc = IF @ = "waiting" THEN "failed" ELSE @]
  BY DEF RequestStep, ReadFlag, ReadBalance, SetInFlight, DepositFailed,
         ClearCollateralizationInFlight, NotDeposited
<1> QED
  BY <1>3, <1>4, <1>5, <1>6, <1>7

LEMMA PaymentsLostInv ==
  ASSUME PayInv, PaymentsLost
  PROVE  PayInv'
<1>1. resolve \in [Resolves -> Calls]
  BY DEF PayInv, PaymentTypes
<1>2. ASSUME NEW s \in Resolves
      PROVE  resolve'[s] \in Calls /\ Moved(s)
  <2>1. resolve[s] \in Calls
    BY <1>1
  <2>2. \/ resolve'[s] = resolve[s]
        \/ \E pc \in {"refused", "lost"} :
             /\ resolve'[s] = [resolve[s] EXCEPT !.pc = pc]
             /\ pc = "refused" => resolve[s].pc = "asked"
             /\ pc = "lost" => resolve[s].pc \notin {"idle", "asked", "refused"}
    BY DEF PaymentsLost, Ended
  <2> QED
    BY <2>1, <2>2 DEF Moved, Moves, Calls, Ended
<1>3. resolve' \in [Resolves -> Calls]
  BY <1>2 DEF PaymentsLost
<1>4. /\ inbox' = {} /\ saving' = {}
      /\ UNCHANGED <<sending, proposal, apps, row, paid, taken>>
  BY DEF PaymentsLost, moneyVars
<1>5. OnlyMoves
  BY <1>2, <1>3, <1>4 DEF OnlyMoves, PayInv, PaymentTypes
<1> QED
  BY <1>5, MovesKeep

LEMMA ResolveInv ==
  ASSUME PayInv, NEW r \in Resolves, ResolveStep(r)
  PROVE  PayInv'
<1>1. resolve[r].payment \in Payments
  <2>1. resolve[r] \in Calls /\ resolve[r].pc # "idle"
    BY DEF PayInv, PaymentTypes, ResolveStep, FindTransfer, FindSenderApp, ProposeInstall,
           ClientInstalls, SaveTransfer, UnlockReceiver, UninstallReceiver, MarkAsRedeemed,
           UnlockSender, UninstallSender, MarkAsReclaimed
  <2> QED
    BY <2>1 DEF PayInv, CallShape, Calls
<1>2. PICK p \in Payments : resolve[r].payment = p
  BY <1>1
<1>3. CASE FindTransfer(r)
  BY <1>2, <1>3, FindTransferInv
<1>4. CASE FindSenderApp(r)
  BY <1>2, <1>4, FindSenderAppInv
<1>5. CASE ProposeInstall(r)
  BY <1>5, ProposeInstallInv
<1>6. CASE ClientInstalls(r)
  BY <1>2, <1>6, ClientInstallsInv
<1>7. CASE SaveTransfer(r)
  BY <1>2, <1>7, SaveTransferInv
<1>8. CASE UnlockReceiver(r)
  BY <1>2, <1>8, UnlockReceiverInv
<1>9. CASE UninstallReceiver(r)
  BY <1>2, <1>9, UninstallReceiverInv
<1>10. CASE MarkAsRedeemed(r)
  BY <1>2, <1>10, MarkAsRedeemedInv
<1>11. CASE UnlockSender(r)
  BY <1>2, <1>11, UnlockSenderInv
<1>12. CASE UninstallSender(r)
  BY <1>2, <1>12, UninstallSenderInv
<1>13. CASE MarkAsReclaimed(r)
  BY <1>2, <1>13, MarkAsReclaimedInv
<1> QED
  BY <1>3, <1>4, <1>5, <1>6, <1>7, <1>8, <1>9, <1>10, <1>11, <1>12, <1>13 DEF ResolveStep

LEMMA PaymentInv ==
  ASSUME PayInv, LinkedTransfersNext
  PROVE  PayInv'
<1>1. ASSUME NEW p \in Payments, InstallEvent(p) \/ GiveUp(p) PROVE PayInv'
  <2>1. /\ sending[p] # "idle"
        /\ \E s \in {"installed", "failed"} : sending' = [sending EXCEPT ![p] = s]
        /\ UNCHANGED <<proposal, inbox, saving, resolve, apps, row, paid, taken>>
    BY <1>1 DEF InstallEvent, GiveUp, hubVars, moneyVars
  <2> QED
    BY <2>1, SenderMoves
<1> QED
  BY <1>1, ProposeInv, AllowOrRejectInv, SaveLinkedTransferInv, SetRecipientInv, AskInv,
     ResolveInv, RequestInv
  DEF LinkedTransfersNext

LEMMA PaymentStutter ==
  ASSUME PayInv, UNCHANGED paymentVars
  PROVE  PayInv'
<1>1. OnlyMoves
  BY DEF PayInv, PaymentTypes, OnlyMoves, Moved, Moves, paymentVars, senderVars, hubVars,
         moneyVars
<1> QED
  BY <1>1, MovesKeep

LEMMA PayInvInit == Init => PayInv
  BY PayInit DEF Init

LEMMA PayInvStep == PayInv /\ [Next]_vars => PayInv'
<1> SUFFICES ASSUME PayInv, [Next]_vars PROVE PayInv'
  OBVIOUS
<1>1. CASE UNCHANGED paymentVars
  BY <1>1, PaymentStutter
<1>2. CASE LinkedTransfersNext
  BY <1>2, PaymentInv
<1>3. CASE PaymentsLost
  BY <1>3, PaymentsLostInv
<1> QED
  BY <1>1, <1>2, <1>3 DEF Next, Restart, vars

LEMMA PaymentsInvariance == Spec => []PayInv
  BY PayInvInit, PayInvStep, PTL DEF Spec

-----------------------------------------------------------------------------
(***************************************************************************)
(* The sender's money is never taken before the same money has reached       *)
(* someone who knew the pre-image.                                          *)
(***************************************************************************)
THEOREM PaymentsPaidFirst == Spec => []PaidBeforeTaken
<1>1. PayInv => PaidBeforeTaken
  <2> SUFFICES ASSUME PayInv, NEW p \in Payments PROVE taken[p] <= paid[p]
    BY DEF PaidBeforeTaken
  <2>1. TakenOf(p) /\ paid[p] \in Nat /\ taken[p] \in Nat
    BY DEF PayInv, PaymentTypes, Of
  <2> QED
    BY <2>1 DEF TakenOf
<1> QED
  BY <1>1, PaymentsInvariance, PTL

(***************************************************************************)
(* The table says redeemed only of what was paid, and reclaimed, when the     *)
(* calls come one by one, only of what was taken.                            *)
(***************************************************************************)
THEOREM StatusIsPaid == Spec => []StatusMeansPaid
<1>1. PayInv => StatusMeansPaid
  <2> SUFFICES ASSUME PayInv, NEW p \in Payments, row[p] # None
               PROVE  /\ row[p].status \in {"REDEEMED", "RECLAIMED"} => paid[p] >= row[p].amount
                      /\ row[p].status = "RECLAIMED" /\ OneByOne(p) => taken[p] >= row[p].amount
    BY DEF StatusMeansPaid
  <2>1. /\ Of(p) /\ CopyOf(row[p], p) /\ Valid(p)
    BY DEF PayInv, Of, RowOf, Fresh
  <2>2. Deposit(p) \in Nat
    BY <2>1, PaymentConstants DEF Valid, Deposit
  <2>3. row[p].status = "RECLAIMED" /\ OneByOne(p) => taken[p] = Deposit(p)
    BY <2>1 DEF Of, Once, ReclaimedOf, Returned
  <2> QED
    BY <2>1, <2>2, <2>3 DEF CopyOf
<1> QED
  BY <1>1, PaymentsInvariance, PTL

(***************************************************************************)
(* The hub is never out of pocket, as long as the calls come one by one.      *)
(***************************************************************************)
THEOREM HubIsCovered == Spec => []HubCovered
<1>1. PayInv => HubCovered
  <2> SUFFICES ASSUME PayInv, NEW p \in Payments, OneByOne(p)
               PROVE  paid[p] <= taken[p] + Reclaimable(p)
    BY DEF HubCovered
  <2>1. Of(p) /\ Once(p) /\ paid[p] \in Nat /\ taken[p] \in Nat
    BY DEF PayInv, PaymentTypes, Of
  <2>2. Installed(p, 0) => Claim(p) = Deposit(p) /\ Deposit(p) \in Nat
    BY <2>1, PaymentConstants DEF Of, Fresh, Valid, Deposit
  <2>3. Reclaimable(p) \in Nat
    BY <2>2 DEF Reclaimable
  <2>4. \/ paid[p] = 0
        \/ paid[p] = Deposit(p) /\ (Installed(p, 0) \/ taken[p] = Deposit(p))
    BY <2>1 DEF Once, PaidOnce
  <2> QED
    BY <2>1, <2>2, <2>3, <2>4 DEF Reclaimable
<1> QED
  BY <1>1, PaymentsInvariance, PTL

-----------------------------------------------------------------------------
(***************************************************************************)
(* Collateral. A request belongs to a call that has been accepted, so that   *)
(* its payment and its copy of the row are settled (Requested).              *)
(***************************************************************************)
Requests ==
  [pc : {"idle", "asked", "unflagged", "short", "depositing", "confirmed", "done"},
   amount : Nat]

FundTypes ==
  /\ free \in [Users -> [hub : Nat, user : Nat]]
  /\ inFlight \in [Users -> BOOLEAN]
  /\ request \in [Resolves -> Requests]

Settled(r) == resolve[r].pc \notin {"idle", "asked", "refused", "found"}

Requested == \A r \in Resolves : request[r].pc # "idle" => Settled(r)

FundInv == FundTypes /\ Requested /\ FlagMeansDeposit

\* Whose channel pays and collateralizes.
LEMMA Parties ==
  /\ \A p \in Payments : Sender[p] \in Users /\ Recipient[p] \in Users
  /\ MinimumMaintainedCollateral \in Nat /\ AmountToCollateralize \in Nat
  BY LinkedTransfersConstants

LEMMA CallHas ==
  ASSUME PayInv, NEW r \in Resolves, Settled(r)
  PROVE  /\ resolve[r].payment \in Payments /\ UserOf(r) \in Users
         /\ AmountOf(r) \in Nat
<1>1. resolve[r] \in Calls
  BY DEF PayInv, PaymentTypes
<1>2. resolve[r].payment \in Payments
  BY <1>1 DEF Settled, PayInv, CallShape, Calls
<1>3. resolve[r].transfer \in Rows
  <2>1. Past(r, resolve[r].payment)
    BY DEF Past, Settled
  <2> QED
    BY <1>2, <2>1, PastPayment
<1> QED
  BY <1>2, <1>3, Parties DEF UserOf, AmountOf, Rows

LEMMA MaxOfTwo ==
  ASSUME NEW a \in Nat, NEW b \in Nat
  PROVE  Max({a, b}) \in Nat /\ Max({a, b}) >= a /\ Max({a, b}) >= b
<1>1. \E x \in {a, b} : \A y \in {a, b} : x >= y
  BY SMT
<1>2. Max({a, b}) \in {a, b} /\ \A y \in {a, b} : Max({a, b}) >= y
  BY <1>1 DEF Max
<1> QED
  BY <1>2

LEMMA FundInit == Init => FundInv
<1> SUFFICES ASSUME Init PROVE FundInv
  OBVIOUS
<1>1. FundTypes
  BY LinkedTransfersConstants
  DEF Init, LinkedTransfersInit, FundTypes, Requests, NoRequest
<1>2. Requested
  BY DEF Init, LinkedTransfersInit, Requested, NoRequest
<1>3. FlagMeansDeposit
  BY DEF Init, LinkedTransfersInit, FlagMeansDeposit
<1> QED
  BY <1>1, <1>2, <1>3 DEF FundInv

-----------------------------------------------------------------------------
\* What was said of requests stays true while their calls go on.
CallsGoOn ==
  \A r \in Resolves : Settled(r) =>
    Settled(r)' /\ resolve'[r].payment = resolve[r].payment

LEMMA RequestsKept ==
  ASSUME FundInv, CallsGoOn, UNCHANGED <<request, inFlight, restarts>>,
         free' \in [Users -> [hub : Nat, user : Nat]]
  PROVE  FundInv'
<1>1. FundTypes'
  BY DEF FundInv, FundTypes
<1>2. Requested'
  BY DEF FundInv, Requested, CallsGoOn
<1>3. FlagMeansDeposit'
  <2> SUFFICES ASSUME NEW u \in Users, inFlight[u], restarts = 0
               PROVE  \E r \in Resolves : /\ request[r].pc \in {"depositing", "confirmed"}
                                          /\ Recipient[resolve'[r].payment] = u
    BY DEF FlagMeansDeposit, UserOf
  <2>1. PICK r \in Resolves :
          request[r].pc \in {"depositing", "confirmed"} /\ UserOf(r) = u
    BY DEF FundInv, FlagMeansDeposit
  <2>2. resolve'[r].payment = resolve[r].payment
    BY <2>1 DEF FundInv, Requested, CallsGoOn
  <2> QED
    BY <2>1, <2>2 DEF UserOf
<1> QED
  BY <1>1, <1>2, <1>3 DEF FundInv

\* A call steps, and takes from the free balance what it puts into an app, or
\* gives what an app paid.
LEMMA CallGoesOn ==
  ASSUME PayInv, NEW r \in Resolves, NEW c, resolve' = [resolve EXCEPT ![r] = c],
         c.payment = resolve[r].payment,
         Settled(r) => c.pc \notin {"idle", "asked", "refused", "found"}
  PROVE  CallsGoOn
<1>1. \A s \in Resolves : resolve'[s] = IF s = r THEN c ELSE resolve[s]
  BY DEF PayInv, PaymentTypes
<1> QED
  BY <1>1 DEF CallsGoOn, Settled

LEMMA GotoGoesOn ==
  ASSUME PayInv, NEW r \in Resolves, NEW pc, Goto(r, pc),
         pc \notin {"idle", "asked", "refused", "found"}
  PROVE  CallsGoOn
<1>1. resolve[r] \in Calls
  BY DEF PayInv, PaymentTypes
<1>2. PICK c : /\ c = [resolve[r] EXCEPT !.pc = pc]
               /\ resolve' = [resolve EXCEPT ![r] = c]
  BY DEF Goto
<1>3. c.payment = resolve[r].payment /\ c.pc = pc
  BY <1>1, <1>2 DEF Calls
<1> QED
  BY <1>2, <1>3, CallGoesOn

LEMMA FreeChanges ==
  ASSUME FundInv, NEW u \in Users, NEW b \in [hub : Nat, user : Nat],
         free' = [free EXCEPT ![u] = b]
  PROVE  free' \in [Users -> [hub : Nat, user : Nat]]
  BY DEF FundInv, FundTypes

LEMMA AskFunds ==
  ASSUME PayInv, FundInv, NEW r \in Resolves, NEW p \in Payments, Ask(r, p)
  PROVE  FundInv'
<1>1. resolve[r].pc = "idle" /\ resolve' = [resolve EXCEPT ![r].pc = "asked", ![r].payment = p]
  BY DEF Ask
<1>2. \A s \in Resolves \ {r} : resolve'[s] = resolve[s]
  BY <1>1 DEF PayInv, PaymentTypes
<1>3. CallsGoOn
  BY <1>1, <1>2 DEF CallsGoOn, Settled
<1>4. UNCHANGED <<request, inFlight, restarts, free>>
  BY DEF Ask, moneyVars, hubChannelVars
<1> QED
  BY <1>3, <1>4, RequestsKept DEF FundInv, FundTypes

LEMMA FindTransferFunds ==
  ASSUME PayInv, FundInv, NEW r \in Resolves, FindTransfer(r)
  PROVE  FundInv'
<1>1. /\ resolve[r].pc = "asked" /\ resolve[r] \in Calls
      /\ UNCHANGED <<request, inFlight, restarts, free>>
  BY DEF FindTransfer, moneyVars, hubChannelVars, PayInv, PaymentTypes
<1>2. CallsGoOn
  <2>1. \A s \in Resolves \ {r} : resolve'[s] = resolve[s]
    BY DEF PayInv, PaymentTypes, FindTransfer, Goto
  <2> QED
    BY <1>1, <2>1 DEF CallsGoOn, Settled
<1> QED
  BY <1>1, <1>2, RequestsKept DEF FundInv, FundTypes

\* The call asks for collateral.
LEMMA FindSenderAppFunds ==
  ASSUME PayInv, FundInv, NEW r \in Resolves, FindSenderApp(r)
  PROVE  FundInv'
<1>1. /\ resolve[r].pc = "found" /\ resolve[r] \in Calls
      /\ UNCHANGED <<inFlight, restarts, free>>
  BY DEF FindSenderApp, moneyVars, hubChannelVars, PayInv, PaymentTypes
<1>2. CASE Goto(r, "failed") /\ UNCHANGED request
  BY <1>1, <1>2, GotoGoesOn, RequestsKept DEF FundInv, FundTypes
<1>3. ASSUME NEW by, NEW pc \in {"waiting", "ready"}, NEW c, NEW q,
             c = [resolve[r] EXCEPT !.senderApp = by, !.pc = pc],
             resolve' = [resolve EXCEPT ![r] = c],
             q = [request[r] EXCEPT !.pc = "asked"],
             request' = [request EXCEPT ![r] = q]
      PROVE  FundInv'
  <2>1. c.payment = resolve[r].payment /\ c.pc = pc
    BY <1>1, <1>3 DEF Calls
  <2>2. CallsGoOn
    BY <1>1, <1>3, <2>1, CallGoesOn
  <2>3. q \in Requests /\ q.pc = "asked"
    BY <1>3 DEF FundInv, FundTypes, Requests
  <2>4. \A s \in Resolves : request'[s] = IF s = r THEN q ELSE request[s]
    BY <1>3 DEF FundInv, FundTypes
  <2>5. FundTypes'
    BY <1>1, <1>3, <2>3 DEF FundInv, FundTypes
  <2>6. Settled(r)' /\ ~Settled(r)
    BY <1>1, <1>3, <2>1 DEF PayInv, PaymentTypes, Settled
  <2>7. Requested'
    BY <2>2, <2>4, <2>6 DEF FundInv, Requested, CallsGoOn
  <2>8. FlagMeansDeposit'
    <3> SUFFICES ASSUME NEW u \in Users, inFlight[u], restarts = 0
                 PROVE  \E s \in Resolves : /\ request'[s].pc \in {"depositing", "confirmed"}
                                            /\ Recipient[resolve'[s].payment] = u
      BY <1>1 DEF FlagMeansDeposit, UserOf
    <3>1. PICK s \in Resolves :
            request[s].pc \in {"depositing", "confirmed"} /\ UserOf(s) = u
      BY DEF FundInv, FlagMeansDeposit
    <3>2. Settled(s) /\ s # r
      BY <2>6, <3>1 DEF FundInv, Requested
    <3>3. request'[s] = request[s] /\ resolve'[s].payment = resolve[s].payment
      BY <2>2, <2>4, <3>2 DEF CallsGoOn
    <3> QED
      BY <3>1, <3>3 DEF UserOf
  <2> QED
    BY <2>5, <2>7, <2>8 DEF FundInv
<1>4. \/ Goto(r, "failed") /\ UNCHANGED request
      \/ \E by : \E pc \in {"waiting", "ready"} :
           /\ resolve' = [resolve EXCEPT ![r] =
                            [resolve[r] EXCEPT !.senderApp = by, !.pc = pc]]
           /\ request' = [request EXCEPT ![r] = [request[r] EXCEPT !.pc = "asked"]]
  BY DEF FindSenderApp
<1> QED
  BY <1>2, <1>3, <1>4

\* The steps of an accepted call that move no money.
LEMMA CallFunds ==
  ASSUME PayInv, FundInv, NEW r \in Resolves,
         \/ ProposeInstall(r) \/ SaveTransfer(r) \/ UnlockReceiver(r)
         \/ MarkAsRedeemed(r) \/ UnlockSender(r) \/ MarkAsReclaimed(r)
  PROVE  FundInv'
<1>1. resolve[r] \in Calls /\ free \in [Users -> [hub : Nat, user : Nat]]
  BY DEF PayInv, PaymentTypes, FundInv, FundTypes
<1>2. UNCHANGED <<request, inFlight, restarts, free>>
  BY DEF ProposeInstall, SaveTransfer, UnlockReceiver, MarkAsRedeemed, UnlockSender,
         MarkAsReclaimed, moneyVars, hubChannelVars
<1>3. CASE ProposeInstall(r) \/ UnlockReceiver(r) \/ UnlockSender(r)
  <2>1. \E pc \in {"proposed", "failed", "unlocked", "reclaiming", "unreclaimed"} : Goto(r, pc)
    BY <1>3 DEF ProposeInstall, UnlockReceiver, UnlockSender
  <2> QED
    BY <1>1, <1>2, <2>1, GotoGoesOn, RequestsKept
<1>4. CASE SaveTransfer(r) \/ MarkAsRedeemed(r) \/ MarkAsReclaimed(r)
  <2>1. \E c : /\ resolve' = [resolve EXCEPT ![r] = c]
               /\ c.payment = resolve[r].payment
               /\ c.pc \notin {"idle", "asked", "refused", "found"}
    <3>1. CASE SaveTransfer(r)
      <4>1. PICK t : resolve' = [resolve EXCEPT ![r].pc = "saved", ![r].transfer = t]
        BY <3>1 DEF SaveTransfer
      <4>2. PICK c : /\ c = [resolve[r] EXCEPT !.pc = "saved", !.transfer = t]
                     /\ resolve' = [resolve EXCEPT ![r] = c]
        BY <4>1
      <4>3. c.payment = resolve[r].payment /\ c.pc = "saved"
        BY <1>1, <4>2 DEF Calls
      <4> QED
        BY <4>2, <4>3
    <3>2. CASE MarkAsRedeemed(r)
      <4>1. PICK t : resolve' = [resolve EXCEPT ![r].transfer = t, ![r].marked = TRUE]
        BY <3>2 DEF MarkAsRedeemed
      <4>2. PICK c : /\ c = [resolve[r] EXCEPT !.transfer = t, !.marked = TRUE]
                     /\ resolve' = [resolve EXCEPT ![r] = c]
        BY <4>1
      <4>3. c.payment = resolve[r].payment /\ c.pc = resolve[r].pc
        BY <1>1, <4>2 DEF Calls
      <4>4. resolve[r].pc \notin {"idle", "asked", "refused", "found"}
        BY <3>2 DEF MarkAsRedeemed
      <4> QED
        BY <4>2, <4>3, <4>4
    <3>3. CASE MarkAsReclaimed(r)
      <4>1. PICK t : resolve' = [resolve EXCEPT ![r].transfer = t, ![r].pc = "done"]
        BY <3>3 DEF MarkAsReclaimed
      <4>2. PICK c : /\ c = [resolve[r] EXCEPT !.transfer = t, !.pc = "done"]
                     /\ resolve' = [resolve EXCEPT ![r] = c]
        BY <4>1
      <4>3. c.payment = resolve[r].payment /\ c.pc = "done"
        BY <1>1, <4>2 DEF Calls
      <4> QED
        BY <4>2, <4>3
    <3> QED
      BY <1>4, <3>1, <3>2, <3>3
  <2> QED
    BY <1>1, <1>2, <2>1, CallGoesOn, RequestsKept
<1> QED
  BY <1>3, <1>4

LEMMA ClientInstallsFunds ==
  ASSUME PayInv, FundInv, NEW r \in Resolves, ClientInstalls(r)
  PROVE  FundInv'
<1>1. /\ resolve[r].pc = "proposed" /\ \E pc \in {"installed", "stuck"} : Goto(r, pc)
      /\ UNCHANGED <<request, inFlight, restarts>>
  BY DEF ClientInstalls, hubChannelVars
<1>2. Settled(r)
  BY <1>1 DEF Settled
<1>3. UserOf(r) \in Users /\ AmountOf(r) \in Nat /\ free \in [Users -> [hub : Nat, user : Nat]]
  BY <1>2, CallHas DEF FundInv, FundTypes
<1>4. free' \in [Users -> [hub : Nat, user : Nat]]
  <2>1. CASE UNCHANGED free
    BY <1>3, <2>1
  <2>2. CASE /\ free[UserOf(r)].hub >= AmountOf(r)
             /\ free' = [free EXCEPT ![UserOf(r)].hub = @ - AmountOf(r)]
    <3>1. PICK u \in Users, n \in Nat : u = UserOf(r) /\ n = AmountOf(r)
      BY <1>3
    <3>2. PICK b : b = [free[u] EXCEPT !.hub = @ - n] /\ free' = [free EXCEPT ![u] = b]
      BY <2>2, <3>1
    <3>3. free[u] \in [hub : Nat, user : Nat] /\ free[u].hub >= n
      BY <1>3, <2>2, <3>1
    <3>4. b \in [hub : Nat, user : Nat]
      BY <3>2, <3>3
    <3> QED
      BY <3>2, <3>4, FreeChanges
  <2> QED
    BY <2>1, <2>2 DEF ClientInstalls
<1> QED
  BY <1>1, <1>4, GotoGoesOn, RequestsKept

LEMMA UninstallFunds ==
  ASSUME PayInv, FundInv, NEW p \in Payments, NEW by \in Nat, UninstallApp(p, by),
         row[p] \in Rows, row[p].amount = Deposit(p), Claim(p) = Deposit(p),
         Deposit(p) \in Nat
  PROVE  free' \in [Users -> [hub : Nat, user : Nat]]
<1>1. PICK u \in Users, h \in Nat, w \in Nat :
        free' = [free EXCEPT ![u] = [hub |-> @.hub + h, user |-> @.user + w]]
  <2>1. CASE by = 0
    <3>1. PICK m \in {0, Claim(p)} : free' = [free EXCEPT ![Sender[p]] =
              [hub |-> @.hub + m, user |-> @.user + (Deposit(p) - m)]]
      BY <2>1 DEF UninstallApp, Deposit
    <3>2. m \in Nat /\ Deposit(p) - m \in Nat
      BY <3>1
    <3> QED
      BY <3>1, <3>2, Parties
  <2>2. CASE by # 0
    <3>1. PICK m \in {0, row[p].amount} : free' = [free EXCEPT ![Recipient[p]] =
              [hub |-> @.hub + (row[p].amount - m), user |-> @.user + m]]
      BY <2>2 DEF UninstallApp
    <3>2. m \in Nat /\ row[p].amount - m \in Nat
      BY <3>1
    <3> QED
      BY <3>1, <3>2, Parties
  <2> QED
    BY <2>1, <2>2
<1>2. free[u] \in [hub : Nat, user : Nat]
  BY DEF FundInv, FundTypes
<1>3. PICK b : /\ b = [hub |-> free[u].hub + h, user |-> free[u].user + w]
               /\ free' = [free EXCEPT ![u] = b]
  BY <1>1
<1>4. b \in [hub : Nat, user : Nat]
  BY <1>2, <1>3
<1> QED
  BY <1>3, <1>4, FreeChanges

LEMMA UninstallCallFunds ==
  ASSUME PayInv, FundInv, NEW r \in Resolves,
         UninstallReceiver(r) \/ UninstallSender(r)
  PROVE  FundInv'
<1>1. /\ resolve[r].pc \in {"unlocked", "reclaiming"}
      /\ \E pc \in {"paid", "failed", "reclaimed", "unreclaimed"} : Goto(r, pc)
      /\ UNCHANGED <<request, inFlight, restarts>>
  BY DEF UninstallReceiver, UninstallSender, hubChannelVars
<1>2. resolve[r].payment \in Payments
  BY <1>1, CallHas DEF Settled
<1>3. PICK p \in Payments : p = resolve[r].payment
  BY <1>2
<1>4. /\ row[p] \in Rows /\ row[p].amount = Deposit(p) /\ Claim(p) = Deposit(p)
      /\ Deposit(p) \in Nat /\ Fits(r, p)
  BY <1>1, <1>3, PastPayment DEF Past, Valid
<1>5. resolve[r].senderApp \in Nat /\ r \in Nat
  BY <1>1, <1>4, PaymentConstants DEF Fits, Paying
<1>6. UNCHANGED free \/ \E by \in Nat : UninstallApp(p, by)
  BY <1>3, <1>5 DEF UninstallReceiver, UninstallSender, moneyVars
<1>7. free' \in [Users -> [hub : Nat, user : Nat]]
  BY <1>4, <1>6, UninstallFunds DEF FundInv, FundTypes
<1> QED
  BY <1>1, <1>7, GotoGoesOn, RequestsKept

-----------------------------------------------------------------------------
\* The steps before a call: the sender puts in what the hub has looked for.
LEMMA SenderFunds ==
  ASSUME PayInv, FundInv, NEW p \in Payments,
         \/ Propose(p) \/ AllowOrReject(p) \/ SaveLinkedTransfer(p)
         \/ InstallEvent(p) \/ GiveUp(p) \/ SetRecipient(p)
  PROVE  FundInv'
<1>1. UNCHANGED <<resolve, request, inFlight, restarts>>
  BY DEF Propose, AllowOrReject, SaveLinkedTransfer, InstallEvent, GiveUp, SetRecipient,
         hubVars, hubChannelVars
<1>2. CallsGoOn
  BY <1>1 DEF CallsGoOn, Settled
<1>3. CASE UNCHANGED free
  BY <1>1, <1>2, <1>3, RequestsKept DEF FundInv, FundTypes
<1>4. CASE /\ p \in inbox /\ verifyAppProposal(Sender[p], proposal[p])
           /\ free' = [free EXCEPT ![Sender[p]].user = @ - proposal[p].deposit]
  <2>1. proposal[p] \in Proposals
    BY <1>4 DEF PayInv, Of, Fresh
  <2>2. proposal[p].deposit \in Nat /\ free[Sender[p]].user >= proposal[p].deposit
    BY <1>4, <2>1, PaymentConstants DEF verifyAppProposal, commonAppProposalValidation
  <2>3. PICK u \in Users, n \in Nat : u = Sender[p] /\ n = proposal[p].deposit
    BY <2>2, Parties
  <2>4. PICK b : b = [free[u] EXCEPT !.user = @ - n] /\ free' = [free EXCEPT ![u] = b]
    BY <1>4, <2>3
  <2>5. free[u] \in [hub : Nat, user : Nat] /\ free[u].user >= n
    BY <2>2, <2>3 DEF FundInv, FundTypes
  <2>6. b \in [hub : Nat, user : Nat]
    BY <2>4, <2>5
  <2>7. free' \in [Users -> [hub : Nat, user : Nat]]
    BY <2>4, <2>6, FreeChanges
  <2> QED
    BY <1>1, <1>2, <2>7, RequestsKept
<1>5. UNCHANGED free \/ (/\ p \in inbox /\ verifyAppProposal(Sender[p], proposal[p])
                         /\ free' = [free EXCEPT ![Sender[p]].user = @ - proposal[p].deposit])
  BY DEF Propose, AllowOrReject, SaveLinkedTransfer, InstallEvent, GiveUp, SetRecipient,
         moneyVars
<1> QED
  BY <1>3, <1>4, <1>5

-----------------------------------------------------------------------------
(***************************************************************************)
(* The requests for collateral. Calls that wait are resumed or fail.          *)
(***************************************************************************)
LEMMA RequestGoesOn ==
  ASSUME PayInv, NEW r \in Resolves, RequestStep(r)
  PROVE  CallsGoOn
<1>1. \A s \in Resolves : resolve[s] \in Calls
  BY DEF PayInv, PaymentTypes
<1>2. CASE UNCHANGED resolve
  BY <1>2 DEF CallsGoOn, Settled
<1>3. \A s \in Resolves : /\ Resumed(s).payment = resolve[s].payment
                          /\ Settled(s) => Resumed(s).pc \notin {"idle", "asked", "refused", "found"}
  BY <1>1 DEF Resumed, Settled, Calls
<1>4. CASE resolve' = [resolve EXCEPT ![r] = Resumed(r)]
  BY <1>3, <1>4, CallGoesOn
<1>5. CASE DepositConfirmed(r)
  <2>1. \A s \in Resolves : resolve'[s] \in {Resumed(s), resolve[s]}
    BY <1>5 DEF DepositConfirmed
  <2> QED
    BY <1>3, <2>1 DEF CallsGoOn, Settled
<1>6. CASE resolve' = [resolve EXCEPT ![r].pc = IF @ = "waiting" THEN "failed" ELSE @]
  <2>1. PICK c : /\ c = [resolve[r] EXCEPT !.pc = IF @ = "waiting" THEN "failed" ELSE @]
                 /\ resolve' = [resolve EXCEPT ![r] = c]
    BY <1>6
  <2>2. c.payment = resolve[r].payment /\ c.pc \in {"failed", resolve[r].pc}
    BY <1>1, <2>1 DEF Calls
  <2> QED
    BY <2>1, <2>2, CallGoesOn DEF Settled
<1> QED
  BY <1>2, <1>4, <1>5, <1>6
  DEF RequestStep, ReadFlag, ReadBalance, SetInFlight, DepositFailed,
      ClearCollateralizationInFlight, NotDeposited

\* A request steps to q, and the flag of its user may change.
RequestTo(r, q) ==
  /\ request[r].pc # "idle" /\ q \in Requests
  /\ request' = [request EXCEPT ![r] = q]
  /\ UNCHANGED restarts

LEMMA RequestTypes ==
  ASSUME PayInv, FundInv, NEW r \in Resolves, NEW q, RequestTo(r, q), CallsGoOn,
         inFlight' \in [Users -> BOOLEAN],
         free' \in [Users -> [hub : Nat, user : Nat]],
         \A u \in Users : inFlight'[u] = TRUE =>
           \/ q.pc \in {"depositing", "confirmed"} /\ UserOf(r) = u
           \/ inFlight[u] = TRUE /\ (u = UserOf(r) => request[r].pc \notin {"depositing", "confirmed"})
  PROVE  FundInv'
<1>1. /\ request \in [Resolves -> Requests] /\ Settled(r)
      /\ \A s \in Resolves : request'[s] = IF s = r THEN q ELSE request[s]
  BY DEF FundInv, FundTypes, Requested, RequestTo
<1>2. FundTypes'
  BY <1>1 DEF RequestTo, FundTypes
<1>3. \A s \in Resolves : request'[s].pc # "idle" => Settled(s)
  BY <1>1 DEF FundInv, Requested
<1>4. Requested'
  BY <1>3 DEF Requested, CallsGoOn
<1>5. FlagMeansDeposit'
  <2> SUFFICES ASSUME NEW u \in Users, inFlight'[u], restarts = 0
               PROVE  \E s \in Resolves : /\ request'[s].pc \in {"depositing", "confirmed"}
                                          /\ Recipient[resolve'[s].payment] = u
    BY DEF FlagMeansDeposit, UserOf, RequestTo
  <2>1. inFlight'[u] = TRUE
    OBVIOUS
  <2>2. CASE q.pc \in {"depositing", "confirmed"} /\ UserOf(r) = u
    <3>1. resolve'[r].payment = resolve[r].payment
      BY <1>1 DEF CallsGoOn
    <3> QED
      BY <1>1, <2>2, <3>1 DEF UserOf
  <2>3. CASE inFlight[u] = TRUE /\ (u = UserOf(r) => request[r].pc \notin {"depositing", "confirmed"})
    <3>1. PICK s \in Resolves :
            request[s].pc \in {"depositing", "confirmed"} /\ UserOf(s) = u
      BY <2>3 DEF FundInv, FlagMeansDeposit
    <3>2. s # r
      BY <2>3, <3>1
    <3>3. resolve'[s].payment = resolve[s].payment
      BY <3>1 DEF FundInv, Requested, CallsGoOn
    <3> QED
      BY <1>1, <3>1, <3>2, <3>3 DEF UserOf
  <2> QED
    BY <2>1, <2>2, <2>3
<1> QED
  BY <1>2, <1>4, <1>5 DEF FundInv

LEMMA RequestFunds ==
  ASSUME PayInv, FundInv, NEW r \in Resolves, RequestStep(r)
  PROVE  FundInv'
<1>1. request[r].pc # "idle" /\ UNCHANGED restarts
  BY DEF RequestStep, ReadFlag, ReadBalance, SetInFlight, DepositConfirmed, DepositFailed,
         ClearCollateralizationInFlight, hubChannelVars
<1>2. /\ UserOf(r) \in Users /\ AmountOf(r) \in Nat /\ CallsGoOn /\ request[r] \in Requests
      /\ free \in [Users -> [hub : Nat, user : Nat]] /\ inFlight \in [Users -> BOOLEAN]
  BY <1>1, CallHas, RequestGoesOn DEF FundInv, FundTypes, Requested
<1>3. \A pc \in {"unflagged", "depositing", "confirmed", "done"} :
        /\ [request[r] EXCEPT !.pc = pc] \in Requests
        /\ [request[r] EXCEPT !.pc = pc].pc = pc
  BY <1>2 DEF Requests
<1>4. ASSUME NEW q, RequestTo(r, q), UNCHANGED <<free, inFlight>>,
             request[r].pc \notin {"depositing", "confirmed"}
      PROVE  FundInv'
  BY <1>2, <1>4, RequestTypes
<1>5. CASE ReadFlag(r)
  <2>1. PICK pc \in {"unflagged", "done"} : request' = [request EXCEPT ![r].pc = pc]
    BY <1>5 DEF ReadFlag, NotDeposited
  <2>2. RequestTo(r, [request[r] EXCEPT !.pc = pc])
    BY <1>1, <1>3, <2>1 DEF RequestTo
  <2> QED
    BY <1>4, <1>5, <2>2 DEF ReadFlag, moneyVars
<1>6. CASE ReadBalance(r)
  <2>1. PICK needed : needed = CollateralNeeded(AmountOf(r))
    OBVIOUS
  <2>2. PICK balance : balance = free[UserOf(r)].hub
    OBVIOUS
  <2>3. needed \in Nat /\ balance \in Nat
    BY <1>2, <2>1, <2>2, MaxOfTwo, Parties DEF CollateralNeeded
  <2>4. balance < needed => AmountDeposit(needed, balance) \in Nat
    BY <2>3, MaxOfTwo, Parties DEF AmountDeposit
  <2>5. CASE request' = [request EXCEPT ![r].pc = "done"]
    <3>1. RequestTo(r, [request[r] EXCEPT !.pc = "done"])
      BY <1>1, <1>3, <2>5 DEF RequestTo
    <3> QED
      BY <1>4, <1>6, <3>1 DEF ReadBalance, moneyVars
  <2>6. CASE /\ balance < needed
             /\ request' = [request EXCEPT ![r] =
                  [pc |-> "short", amount |-> AmountDeposit(needed, balance)]]
    <3>1. PICK q : /\ q = [pc |-> "short", amount |-> AmountDeposit(needed, balance)]
                   /\ request' = [request EXCEPT ![r] = q]
      BY <2>6
    <3>2. RequestTo(r, q)
      BY <1>1, <2>4, <2>6, <3>1 DEF RequestTo, Requests
    <3> QED
      BY <1>4, <1>6, <3>2 DEF ReadBalance, moneyVars
  <2> QED
    BY <1>6, <2>1, <2>2, <2>5, <2>6 DEF ReadBalance, NotDeposited
<1>7. CASE SetInFlight(r)
  <2>1. PICK q : q = [request[r] EXCEPT !.pc = "depositing"] /\ request' = [request EXCEPT ![r] = q]
    BY <1>7 DEF SetInFlight
  <2>2. RequestTo(r, q) /\ q.pc = "depositing"
    BY <1>1, <1>3, <2>1 DEF RequestTo
  <2>3. /\ inFlight' = [inFlight EXCEPT ![UserOf(r)] = TRUE] /\ UNCHANGED free
        /\ request[r].pc = "short"
    BY <1>7 DEF SetInFlight, moneyVars
  <2>4. inFlight' \in [Users -> BOOLEAN]
    BY <1>2, <2>3
  <2>5. \A u \in Users : u # UserOf(r) => inFlight'[u] = inFlight[u]
    BY <1>2, <2>3
  <2> QED
    BY <1>2, <2>2, <2>3, <2>4, <2>5, RequestTypes
<1>8. CASE DepositConfirmed(r)
  <2>1. PICK q : q = [request[r] EXCEPT !.pc = "confirmed"] /\ request' = [request EXCEPT ![r] = q]
    BY <1>8 DEF DepositConfirmed
  <2>2. RequestTo(r, q) /\ q.pc = "confirmed"
    BY <1>1, <1>3, <2>1 DEF RequestTo
  <2>3. PICK u \in Users, n \in Nat : u = UserOf(r) /\ n = request[r].amount
    BY <1>2 DEF Requests
  <2>4. PICK b : b = [free[u] EXCEPT !.hub = @ + n] /\ free' = [free EXCEPT ![u] = b]
    BY <1>8, <2>3 DEF DepositConfirmed
  <2>5. free[u] \in [hub : Nat, user : Nat]
    BY <1>2
  <2>6. b \in [hub : Nat, user : Nat]
    BY <2>4, <2>5
  <2>7. free' \in [Users -> [hub : Nat, user : Nat]] /\ UNCHANGED inFlight
    BY <1>8, <2>4, <2>6, FreeChanges DEF DepositConfirmed
  <2> QED
    BY <1>2, <2>2, <2>7, RequestTypes
<1>9. CASE DepositFailed(r) \/ ClearCollateralizationInFlight(r)
  <2>1. PICK q : q = [request[r] EXCEPT !.pc = "done"] /\ request' = [request EXCEPT ![r] = q]
    BY <1>9 DEF DepositFailed, ClearCollateralizationInFlight
  <2>2. RequestTo(r, q)
    BY <1>1, <1>3, <2>1 DEF RequestTo
  <2>3. inFlight' = [inFlight EXCEPT ![UserOf(r)] = FALSE] /\ UNCHANGED free
    BY <1>9 DEF DepositFailed, ClearCollateralizationInFlight, moneyVars
  <2>4. /\ inFlight' \in [Users -> BOOLEAN]
        /\ inFlight'[UserOf(r)] = FALSE
        /\ \A u \in Users : u # UserOf(r) => inFlight'[u] = inFlight[u]
    BY <1>2, <2>3
  <2> QED
    BY <1>2, <2>2, <2>3, <2>4, RequestTypes
<1> QED
  BY <1>5, <1>6, <1>7, <1>8, <1>9 DEF RequestStep

-----------------------------------------------------------------------------
LEMMA PaymentFunds ==
  ASSUME PayInv, FundInv, LinkedTransfersNext
  PROVE  FundInv'
<1>1. ASSUME NEW r \in Resolves, ResolveStep(r) PROVE FundInv'
  BY <1>1, FindTransferFunds, FindSenderAppFunds, CallFunds, ClientInstallsFunds,
     UninstallCallFunds
  DEF ResolveStep
<1> QED
  BY <1>1, SenderFunds, AskFunds, RequestFunds DEF LinkedTransfersNext

LEMMA FundStutter ==
  ASSUME PayInv, FundInv, UNCHANGED <<paymentVars, restarts>>
  PROVE  FundInv'
<1>1. CallsGoOn /\ UNCHANGED <<request, inFlight, restarts, free>>
  BY DEF CallsGoOn, Settled, paymentVars, hubVars, moneyVars
<1> QED
  BY <1>1, RequestsKept DEF FundInv, FundTypes

\* A restart ends the requests and leaves the flags as they are.
LEMMA RestartFunds ==
  ASSUME PayInv, FundInv, Restart, restarts \in Nat
  PROVE  FundInv'
<1>1. /\ request' = [r \in Resolves |->
           IF request[r].pc = "idle" THEN request[r] ELSE [request[r] EXCEPT !.pc = "done"]]
      /\ UNCHANGED <<inFlight, free>> /\ restarts' = restarts + 1
  BY DEF Restart, PaymentsLost, moneyVars
<1>2. \A r \in Resolves :
        /\ request'[r] \in Requests
        /\ request'[r].pc # "idle" => request[r].pc # "idle"
  <2>1. \A r \in Resolves : request[r] \in Requests
    BY DEF FundInv, FundTypes
  <2> QED
    BY <1>1, <2>1 DEF Requests
<1>3. FundTypes'
  BY <1>1, <1>2 DEF FundInv, FundTypes
<1>4. \A r \in Resolves : Settled(r) => Settled(r)'
  <2>1. \A r \in Resolves : resolve[r] \in Calls
    BY DEF PayInv, PaymentTypes
  <2> QED
    BY <2>1 DEF Restart, PaymentsLost, Settled, Calls, Ended
<1>5. Requested'
  BY <1>2, <1>4 DEF FundInv, Requested
<1>6. FlagMeansDeposit'
  BY <1>1 DEF FlagMeansDeposit
<1> QED
  BY <1>3, <1>5, <1>6 DEF FundInv

LEMMA FundStep == IInv /\ PayInv /\ FundInv /\ [Next]_vars => FundInv'
<1> SUFFICES ASSUME IInv, PayInv, FundInv, [Next]_vars PROVE FundInv'
  OBVIOUS
<1>1. CASE HubChannelsNext /\ UNCHANGED <<paymentVars, withdrawalVars>>
  <2>1. UNCHANGED restarts
    BY <1>1 DEF HubChannelsNext, Connect, CreationStep, Create, RunSetup, SetupResponder,
           SetupInitiator, MakeAvailable, ConnectTimeout, SetupTimeout
  <2> QED
    BY <1>1, <2>1, FundStutter
<1>2. CASE LinkedTransfersNext
  BY <1>2, PaymentFunds
<1>3. CASE UserWithdrawalsNext /\ UNCHANGED paymentVars
  BY <1>3, WithdrawalsKeepChannels, FundStutter DEF hubChannelVars
<1>4. CASE Restart
  <2>1. restarts \in 0..plan.restarts /\ plan.restarts \in Nat
    BY HubConstants DEF IInv, ChannelInv, HubChannelsTypeOK
  <2>2. restarts \in Nat
    BY <2>1
  <2> QED
    BY <1>4, <2>2, RestartFunds
<1>5. CASE UNCHANGED vars
  BY <1>5, FundStutter DEF vars, hubChannelVars
<1> QED
  BY <1>1, <1>2, <1>3, <1>4, <1>5 DEF Next

LEMMA FundsInvariance == Spec => []FundInv
<1>1. Init => FundInv
  BY FundInit
<1>2. IInv /\ PayInv /\ FundInv /\ [Next]_vars => FundInv'
  BY FundStep
<1> QED
  BY <1>1, <1>2, Invariance, PaymentsInvariance, PTL DEF Spec

-----------------------------------------------------------------------------
(***************************************************************************)
(* The flag that bars collateral for a user stands for a deposit that is      *)
(* under way or has just been confirmed, unless the hub was restarted.        *)
(***************************************************************************)
THEOREM FlagsAreDeposits == Spec => []FlagMeansDeposit
<1>1. FundInv => FlagMeansDeposit
  BY DEF FundInv
<1> QED
  BY <1>1, FundsInvariance, PTL

(***************************************************************************)
(* The types: no free balance is ever taken below zero, by whatever calls,    *)
(* proposals and deposits run next to each other.                            *)
(***************************************************************************)
THEOREM HubTypes == Spec => []TypeOK
<1>1. IInv /\ PayInv /\ FundInv => TypeOK
  <2> SUFFICES ASSUME IInv, PayInv, FundInv PROVE TypeOK
    OBVIOUS
  <2>1. HubChannelsTypeOK /\ UserWithdrawalsTypeOK
    BY DEF IInv, ChannelInv, WithdrawalInv
  <2>2. LinkedTransfersTypeOK
    BY DEF PayInv, PaymentTypes, FundInv, FundTypes, Requests, LinkedTransfersTypeOK
  <2> QED
    BY <2>1, <2>2 DEF TypeOK
<1> QED
  BY <1>1, Invariance, PaymentsInvariance, FundsInvariance, PTL

=============================================================================
