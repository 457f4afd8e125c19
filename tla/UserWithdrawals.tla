-------------------------- MODULE UserWithdrawals --------------------------
(***************************************************************************)
(* A withdrawal that the hub submits for a user (modules/client, modules/     *)
(* node). The parties sign the commitment, which charges the user's free     *)
(* balance (see Funding); the client records the transaction in its store,    *)
(* asks the hub to send it, and watches the chain for it. Until it has seen   *)
(* it, it asks again, a limited number of times in all: also when it connects *)
(* again after a restart.                                                   *)
(***************************************************************************)
EXTENDS HubChannels

CONSTANT MAX_WITHDRAWAL_RETRIES

Withdrawals == 1..Max({p.withdrawals : p \in Plans} \cup {0})
Tries == 0..(MAX_WITHDRAWAL_RETRIES - 1)

ASSUME RetriesAssumption ==
  /\ MAX_WITHDRAWAL_RETRIES \in Nat \ {0}
  /\ Withdrawals \subseteq Nat
  /\ None \notin Nat \cup [tx : Nat, retry : Nat]

VARIABLES
  client,     \* of every user: what its client is doing about a withdrawal
  record,     \* what it has stored under withdrawalKey: [tx, retry]
  owner,      \* whose balance a withdrawal was charged to
  submit,     \* the hub's handling of the requests for it, by their retry
  pool,       \* its transactions that the hub has sent and nobody has mined
  executed,   \* the withdrawals that have been paid
  latest,     \* the last row of the hub's withdrawals by users
  forgotten,  \* withdrawals that no record was kept of (for the properties)
  clientRestarts

clientVars == <<client, record, clientRestarts>>
chainVars == <<pool, executed>>
withdrawalVars == <<clientVars, chainVars, owner, submit, latest, forgotten>>
withdrawalStepVars == <<withdrawalVars, hubChannelVars>>

Up == [pc |-> "up", tx |-> None, connecting |-> FALSE]
Down == [pc |-> "down", tx |-> None, connecting |-> FALSE]

UserWithdrawalsInit ==
  /\ client = [u \in Users |-> Up]
  /\ record = [u \in Users |-> None]
  /\ owner = [w \in Withdrawals |-> None]
  /\ submit = [w \in Withdrawals |-> [k \in Tries |-> "none"]]
  /\ pool = [w \in Withdrawals |-> 0]
  /\ executed = {} /\ latest = None /\ forgotten = {}
  /\ clientRestarts = 0

\* A call that throws: withdraw() leaves the client running, connect() not.
Thrown(u) == [client EXCEPT ![u] = IF @.connecting THEN Down ELSE Up]

-----------------------------------------------------------------------------
\* withdraw(): the commitment is signed and the balance charged.
Withdraw(u, w) ==
  /\ w <= plan.withdrawals /\ owner[w] = None
  /\ \A v \in 1..(w - 1) : owner[v] # None
  /\ Connected(u) /\ client[u] = Up
  /\ owner' = [owner EXCEPT ![w] = u]
  /\ client' = [client EXCEPT ![u].pc = "committed", ![u].tx = w]
  /\ UNCHANGED <<record, clientRestarts, chainVars, submit, latest, forgotten,
                 hubChannelVars>>

\* There is one record: that of a withdrawal before is overwritten.
Record(u) ==
  /\ client[u].pc = "committed"
  /\ record' = [record EXCEPT ![u] = [tx |-> client[u].tx, retry |-> 0]]
  /\ forgotten' = forgotten \cup (IF record[u] = None THEN {} ELSE {record[u].tx})
  /\ client' = [client EXCEPT ![u].pc = "recorded"]
  /\ UNCHANGED <<clientRestarts, chainVars, owner, submit, latest, hubChannelVars>>

RequestWithdraw(u) ==
  /\ client[u].pc = "recorded"
  /\ submit' = [submit EXCEPT ![record[u].tx][record[u].retry] = "asked"]
  /\ client' = [client EXCEPT ![u].pc = "asked"]
  /\ UNCHANGED <<record, clientRestarts, chainVars, owner, latest, forgotten,
                 hubChannelVars>>

\* The user whose client still waits for the answer to request k for w.
Awaits(u, w, k) ==
  client[u].pc = "asked" /\ record[u] = [tx |-> w, retry |-> k]

(***************************************************************************)
(* withdrawForClient: the multisig is deployed if need be, and the           *)
(* transaction sent. The node estimates its gas first and refuses one that    *)
(* would revert, as any but the first that is mined does.                   *)
(***************************************************************************)
SendTransaction(w, k) ==
  /\ submit[w][k] = "asked"
  /\ \/ /\ w \notin executed /\ HasRow(owner[w])
        /\ pool' = [pool EXCEPT ![w] = @ + 1]
        /\ submit' = [submit EXCEPT ![w][k] = "sent"]
        /\ UNCHANGED client
     \/ /\ w \in executed \/ ~HasRow(owner[w]) \/ Fault("submit")
        /\ submit' = [submit EXCEPT ![w][k] = "done"]
        /\ client' = IF Awaits(owner[w], w, k) THEN Thrown(owner[w]) ELSE client
        /\ UNCHANGED pool
  /\ UNCHANGED <<record, clientRestarts, executed, owner, latest, forgotten,
                 hubChannelVars>>

\* addUserWithdrawal, and the answer. The client then watches from the block
\* of that moment on.
AddUserWithdrawal(w, k) ==
  /\ submit[w][k] = "sent"
  /\ submit' = [submit EXCEPT ![w][k] = "done"]
  /\ latest' = w
  /\ client' = IF Awaits(owner[w], w, k)
               THEN [client EXCEPT ![owner[w]].pc = "watching"] ELSE client
  /\ UNCHANGED <<record, clientRestarts, chainVars, owner, forgotten, hubChannelVars>>

\* The request is not answered within API_TIMEOUT, or never.
RequestTimeout(u) ==
  /\ client[u].pc = "asked"
  /\ Fault("timeout") \/ submit[record[u].tx][record[u].retry] = "done"
  /\ client' = Thrown(u)
  /\ UNCHANGED <<record, clientRestarts, chainVars, owner, submit, latest, forgotten,
                 hubChannelVars>>

\* A transaction is mined, first or again. Whoever watches sees it in that
\* block, forgets the record and is done.
Watching(u, w) == client[u].pc = "watching" /\ record[u].tx = w

Mine(w) ==
  /\ pool[w] > 0
  /\ pool' = [pool EXCEPT ![w] = @ - 1]
  /\ executed' = executed \cup {w}
  /\ record' = [u \in Users |-> IF Watching(u, w) THEN None ELSE record[u]]
  /\ client' = [u \in Users |-> IF Watching(u, w) THEN Up ELSE client[u]]
  /\ UNCHANGED <<clientRestarts, owner, submit, latest, forgotten, hubChannelVars>>

\* The first poll of the client may still deliver the block it was mined in.
FindMined(u) ==
  /\ client[u].pc = "watching" /\ record[u].tx \in executed
  /\ record' = [record EXCEPT ![u] = None]
  /\ client' = [client EXCEPT ![u] = Up]
  /\ UNCHANGED <<clientRestarts, chainVars, owner, submit, latest, forgotten,
                 hubChannelVars>>

\* retryNodeSubmittedWithdrawal, up to the request.
Retry(u) ==
  /\ record' = [record EXCEPT ![u].retry = @ + 1]
  /\ client' = IF record[u].retry + 1 >= MAX_WITHDRAWAL_RETRIES
               THEN Thrown(u) ELSE [client EXCEPT ![u].pc = "recorded"]

\* More than 15 blocks have passed: because the transaction was mined before
\* the client looked, or is late.
WatchEnds(u) ==
  /\ client[u].pc = "watching"
  /\ Fault("late") \/ pool[record[u].tx] = 0
  /\ Retry(u)
  /\ UNCHANGED <<clientRestarts, chainVars, owner, submit, latest, forgotten,
                 hubChannelVars>>

-----------------------------------------------------------------------------
\* The client stops, wherever it is: a withdrawal not yet recorded is lost.
ClientRestart(u) ==
  /\ clientRestarts < plan.clientRestarts
  /\ client[u] # Down
  /\ clientRestarts' = clientRestarts + 1
  /\ forgotten' = forgotten \cup
       (IF client[u].pc = "committed" THEN {client[u].tx} ELSE {})
  /\ client' = [client EXCEPT ![u] = Down]
  /\ UNCHANGED <<record, chainVars, owner, submit, latest, hubChannelVars>>

\* A mutant: any withdrawal that the hub knows of is taken for this one.
MatchAnyTx(u) == latest # None

\* The hub answers with the last withdrawal of all users, not of this one.
MatchTx(u) == latest = record[u].tx

\* resubmitActiveWithdrawal, when the client connects again and finds its
\* channel.
ResubmitActiveWithdrawal(u) ==
  /\ client[u] = Down /\ HasRow(u)
  /\ \/ /\ record[u] = None
        /\ client' = [client EXCEPT ![u] = Up] /\ UNCHANGED record
     \/ /\ record[u] # None /\ record[u].retry < MAX_WITHDRAWAL_RETRIES
        /\ MatchTx(u)
        /\ record' = [record EXCEPT ![u] = None]
        /\ client' = [client EXCEPT ![u] = Up]
     \/ /\ record[u] # None /\ record[u].retry < MAX_WITHDRAWAL_RETRIES
        /\ ~MatchTx(u)
        /\ record' = [record EXCEPT ![u].retry = @ + 1]
        /\ client' = [client EXCEPT ![u] =
             IF record[u].retry + 1 >= MAX_WITHDRAWAL_RETRIES THEN Down
             ELSE [pc |-> "recorded", tx |-> record[u].tx, connecting |-> TRUE]]
  /\ UNCHANGED <<clientRestarts, chainVars, owner, submit, latest, forgotten,
                 hubChannelVars>>

\* What a restart of the hub loses of this: the requests it was handling.
SubmissionsLost ==
  /\ submit' = [w \in Withdrawals |-> [k \in Tries |->
       IF submit[w][k] \in {"asked", "sent"} THEN "done" ELSE submit[w][k]]]
  /\ UNCHANGED <<clientVars, chainVars, owner, latest, forgotten>>

ClientStep(u) == Record(u) \/ RequestWithdraw(u) \/ RequestTimeout(u)
                 \/ FindMined(u) \/ WatchEnds(u)
ServerStep(w) ==
  Mine(w) \/ \E k \in Tries : SendTransaction(w, k) \/ AddUserWithdrawal(w, k)

UserWithdrawalsNext ==
  \/ \E u \in Users :
       \/ \E w \in Withdrawals : Withdraw(u, w)
       \/ ClientStep(u) \/ ClientRestart(u) \/ ResubmitActiveWithdrawal(u)
  \/ \E w \in Withdrawals : ServerStep(w)

\* Calls run on, timers fire, and what was sent is mined.
UserWithdrawalsFairness ==
  /\ \A u \in Users : WF_withdrawalStepVars(ClientStep(u))
  /\ \A w \in Withdrawals : WF_withdrawalStepVars(ServerStep(w))

-----------------------------------------------------------------------------
UserWithdrawalsTypeOK ==
  /\ client \in [Users ->
       [pc : {"up", "committed", "recorded", "asked", "watching", "down"},
        tx : Withdrawals \cup {None}, connecting : BOOLEAN]]
  /\ record \in [Users ->
       [tx : Withdrawals, retry : 0..MAX_WITHDRAWAL_RETRIES] \cup {None}]
  /\ owner \in [Withdrawals -> Users \cup {None}]
  /\ submit \in [Withdrawals -> [Tries -> {"none", "asked", "sent", "done"}]]
  /\ pool \in [Withdrawals -> Nat] /\ executed \subseteq Withdrawals
  /\ latest \in Withdrawals \cup {None} /\ forgotten \subseteq Withdrawals
  /\ clientRestarts \in 0..plan.clientRestarts

(***************************************************************************)
(* A client does not forget a withdrawal that was charged to it before its    *)
(* transaction is on the way: until then it is in the record, or about to be, *)
(* unless the client stopped before it wrote the record or wrote that of the  *)
(* next withdrawal over it.                                                 *)
(***************************************************************************)
RecordedUntilSent ==
  \A w \in Withdrawals : owner[w] # None =>
    \/ w \in executed \cup forgotten \/ pool[w] > 0
    \/ client[owner[w]].pc = "committed" /\ client[owner[w]].tx = w
    \/ record[owner[w]] # None /\ record[owner[w]].tx = w

LockedOut(w) ==
  /\ owner[w] # None
  /\ record[owner[w]] # None /\ record[owner[w]].retry >= MAX_WITHDRAWAL_RETRIES

(***************************************************************************)
(* A recorded withdrawal of a user whom the hub has a row for is paid in the  *)
(* end, whenever its client stops and as long as its user comes back, unless  *)
(* it has used up its retries, its record is overwritten, or the hub restarts *)
(* or fails to send.                                                        *)
(***************************************************************************)
RecordedOf(w) ==
  /\ owner[w] # None /\ HasRow(owner[w])
  /\ client[owner[w]].pc = "recorded" /\ client[owner[w]].tx = w

PaidInTheEnd ==
  \A w \in Withdrawals :
    []<>(owner[w] # None => client[owner[w]].pc # "down") =>
      RecordedOf(w) ~> \/ w \in executed \cup forgotten
                      \/ LockedOut(w) \/ restarts > 0 \/ Fault("submit")
=============================================================================
