--------------------------- MODULE FundingProofs ---------------------------
(***************************************************************************)
(* Proofs about Funding, for any opening channel, calls, amounts and number *)
(* of runs.  First the types; then, while the lock of the channel is kept:  *)
(* the wallet covers what it owes (Room), the two nodes' books agree and a  *)
(* deposit credits what it transferred when nothing goes wrong (Agreed,     *)
(* Credits), and every coin is accounted for (Exact).  Each invariant rests *)
(* on the ones before it.                                                   *)
(***************************************************************************)
EXTENDS Funding, Sums

-----------------------------------------------------------------------------
(* The worth of a channel.                                                  *)

PotOf == [a \in App |-> a.pot]

Pots(apps) == Total(PotOf, apps)

Held(c) == c.bal[Alice] + c.bal[Bob]

LEMMA PotOfIs == \A a \in App : PotOf[a] = a.pot /\ PotOf[a] \in Nat
BY DEF PotOf, App

\* The apps of a channel are finitely many.
Books == {c \in Channel : IsFiniteSet(c.apps)}

LEMMA BooksFields ==
  ASSUME NEW c \in Books
  PROVE  /\ c \in Channel /\ c.np \in Nat /\ c.props \in SUBSET Proposal
         /\ c.apps \in SUBSET App /\ IsFiniteSet(c.apps)
         /\ c.ver \in Nat /\ c.bal \in [Parties -> Nat]
         /\ c = [np |-> c.np, props |-> c.props, apps |-> c.apps, ver |-> c.ver,
                 bal |-> c.bal]
BY DEF Books, Channel

LEMMA PotsType ==
  ASSUME NEW S \in SUBSET App, IsFiniteSet(S)
  PROVE  Pots(S) \in Nat
<1>1. \A a \in S : PotOf[a] \in Nat BY PotOfIs
<1> QED BY <1>1, TotalType DEF Pots

LEMMA PotsAre ==
  ASSUME NEW S \in SUBSET App, IsFiniteSet(S)
  PROVE  MapThenSumSet(LAMBDA a : a.pot, S) = Pots(S)
<1> DEFINE Is(g) == g = [s \in SUBSET S |-> IF s = {} THEN 0
                          ELSE (CHOOSE x \in s : TRUE).pot + g[s \ {CHOOSE x \in s : TRUE}]]
           h == CHOOSE g : Is(g)
<1>1. MapThenSumSet(LAMBDA a : a.pot, S) = h[S]
  BY Zenon DEF MapThenSumSet, MapThenFoldSet
<1>2. \A g : Is(g) <=> SumFn(g, PotOf, S)
  <2> TAKE g
  <2> DEFINE left == [s \in SUBSET S |-> IF s = {} THEN 0
                        ELSE (CHOOSE x \in s : TRUE).pot + g[s \ {CHOOSE x \in s : TRUE}]]
             right == [s \in SUBSET S |-> IF s = {} THEN 0
                         ELSE PotOf[Some(s)] + g[s \ {Some(s)}]]
  <2>1. \A s \in SUBSET S : s # {} => (CHOOSE x \in s : TRUE).pot = PotOf[Some(s)]
    <3> TAKE s \in SUBSET S
    <3> HAVE s # {}
    <3>1. Some(s) \in App BY SomeIs
    <3>2. PotOf[Some(s)] = Some(s).pot BY <3>1, PotOfIs
    <3> QED BY <3>2 DEF Some
  <2>2. left = right BY <2>1 DEF Some
  <2> HIDE DEF left, right
  <2>3. Is(g) <=> g = left BY DEF left
  <2>4. SumFn(g, PotOf, S) <=> g = right BY DEF SumFn, right
  <2> QED BY <2>2, <2>3, <2>4
<1> HIDE DEF Is
<1>3. \E g : Is(g)
  <2>1. PICK k : SumFn(k, PotOf, S) BY SumFnExists
  <2> QED BY <1>2, <2>1
<1>4. Is(h) BY <1>3
<1> HIDE DEF h
<1>5. SumFn(h, PotOf, S) BY <1>2, <1>4
<1>6. Total(PotOf, S) = h[S]
  <2>1. S \in SUBSET S /\ \A x \in S : PotOf[x] = PotOf[x] OBVIOUS
  <2> QED BY <1>5, <2>1, TotalOn
<1> QED BY <1>1, <1>6 DEF Pots

LEMMA WorthIs ==
  ASSUME NEW c \in Books
  PROVE  /\ Worth(c) = Held(c) + Pots(c.apps)
         /\ Held(c) \in Nat /\ Pots(c.apps) \in Nat /\ Worth(c) \in Nat
<1>1. MapThenSumSet(LAMBDA a : a.pot, c.apps) = Pots(c.apps) BY BooksFields, PotsAre
<1>2. Worth(c) = c.bal[Alice] + c.bal[Bob] + Pots(c.apps) BY <1>1, Zenon DEF Worth
<1>3. c.bal[Alice] \in Nat /\ c.bal[Bob] \in Nat BY BooksFields DEF Parties
<1>4. Pots(c.apps) \in Nat BY BooksFields, PotsType
<1> QED BY <1>2, <1>3, <1>4 DEF Held

\* A channel with other balances.
LEMMA HeldMoves ==
  ASSUME NEW c \in Books, NEW p \in Parties, NEW x, NEW d,
         d.bal = [c.bal EXCEPT ![p] = x]
  PROVE  Held(d) + c.bal[p] = Held(c) + x \/ x \notin Nat
<1> SUFFICES ASSUME x \in Nat PROVE Held(d) + c.bal[p] = Held(c) + x OBVIOUS
<1>1. c.bal \in [Parties -> Nat] BY BooksFields
<1>2. Alice # Bob /\ Alice \in Parties /\ Bob \in Parties BY FundingConstants DEF Parties
<1> DEFINE a == c.bal[Alice]
           b == c.bal[Bob]
<1>3. a \in Nat /\ b \in Nat BY <1>1, <1>2
<1>4. CASE p = Alice
  <2>1. d.bal[Alice] = x /\ d.bal[Bob] = b BY <1>1, <1>2, <1>4
  <2> HIDE DEF a, b
  <2> QED BY <1>3, <1>4, <2>1 DEF Held, a, b
<1>5. CASE p = Bob
  <2>1. d.bal[Alice] = a /\ d.bal[Bob] = x BY <1>1, <1>2, <1>5
  <2> HIDE DEF a, b
  <2> QED BY <1>3, <1>5, <2>1 DEF Held, a, b
<1> QED BY <1>4, <1>5 DEF Parties

-----------------------------------------------------------------------------
(* Installing, uninstalling and refund apps, in terms of their worth.       *)

\* The apps but the one of this number.
Without(apps, id) == {b \in apps : b.id # id}

LEMMA InstallAsIs ==
  ASSUME NEW c \in Books, NEW a \in App, a.pot <= c.bal[a.by]
  PROVE  /\ InstallAs(c, a) \in Books
         /\ InstallAs(c, a).np = c.np
         /\ InstallAs(c, a).props = {q \in c.props : q.id # a.id}
         /\ InstallAs(c, a).apps = Without(c.apps, a.id) \cup {a}
         /\ InstallAs(c, a).ver = c.ver + 2
         /\ InstallAs(c, a).bal = [c.bal EXCEPT ![a.by] = c.bal[a.by] - a.pot]
<1> DEFINE v == c.ver + 2
           ps == {q \in c.props : q.id # a.id}
           as == {b \in c.apps : b.id # a.id} \cup {a}
           bs == [c.bal EXCEPT ![a.by] = c.bal[a.by] - a.pot]
           d == InstallAs(c, a)
           rec == [np |-> c.np, props |-> ps, apps |-> as, ver |-> v, bal |-> bs]
<1>1. a.by \in Parties /\ a.pot \in Nat BY DEF App
<1>2. c.bal \in [Parties -> Nat] /\ c.np \in Nat /\ c.ver \in Nat BY BooksFields
<1>3. c.bal[a.by] - a.pot \in Nat
  <2> DEFINE b == c.bal[a.by]
  <2>1. b \in Nat BY <1>1, <1>2
  <2> HIDE DEF b
  <2>2. a.pot <= b BY DEF b
  <2>3. b - a.pot \in Nat BY <1>1, <2>1, <2>2
  <2> QED BY <2>3 DEF b
<1>4. bs \in [Parties -> Nat] BY <1>1, <1>2, <1>3
<1>5. ps \in SUBSET Proposal /\ as \in SUBSET App BY BooksFields
<1>6. IsFiniteSet(as)
  <2>1. IsFiniteSet(c.apps) /\ {b \in c.apps : b.id # a.id} \in SUBSET c.apps BY BooksFields
  <2>2. IsFiniteSet({b \in c.apps : b.id # a.id}) BY <2>1, FS_Subset
  <2> QED BY <2>2, FS_AddElement
<1>7. d = rec
  <2>1. c = [np |-> c.np, props |-> c.props, apps |-> c.apps, ver |-> c.ver,
             bal |-> c.bal]
    BY BooksFields
  <2>2. InstallAs(c, a) = [c EXCEPT !.props = ps, !.apps = as, !.ver = c.ver + 2,
                                    !.bal = bs]
    BY <2>1, Zenon DEF InstallAs
  <2> HIDE DEF ps, as, bs
  <2> QED BY <2>1, <2>2
<1>8. v \in Nat BY <1>2
<1> HIDE DEF ps, as, bs, d, v
<1>9. /\ d \in Books /\ d.np = c.np /\ d.props = ps /\ d.apps = as
      /\ d.ver = v /\ d.bal = bs
  BY ONLY <1>2, <1>4, <1>5, <1>6, <1>7, <1>8 DEF rec, Books, Channel
<1> QED BY <1>9 DEF ps, as, bs, d, v, Without

LEMMA UninstallIs ==
  ASSUME NEW c \in Books, NEW id, NEW p \in Parties, NEW x \in Nat
  PROVE  /\ Uninstall(c, id, p, x) \in Books
         /\ Uninstall(c, id, p, x).np = c.np
         /\ Uninstall(c, id, p, x).props = c.props
         /\ Uninstall(c, id, p, x).apps = Without(c.apps, id)
         /\ Uninstall(c, id, p, x).ver = c.ver + 2
         /\ Uninstall(c, id, p, x).bal = [c.bal EXCEPT ![p] = c.bal[p] + x]
<1> DEFINE v == c.ver + 2
           ps == c.props
           as == {b \in c.apps : b.id # id}
           bs == [c.bal EXCEPT ![p] = c.bal[p] + x]
           d == Uninstall(c, id, p, x)
           rec == [np |-> c.np, props |-> ps, apps |-> as, ver |-> v, bal |-> bs]
<1>2. c.bal \in [Parties -> Nat] /\ c.np \in Nat /\ c.ver \in Nat BY BooksFields
<1>3. bs \in [Parties -> Nat]
  <2>1. c.bal[p] + x \in Nat BY <1>2
  <2> QED BY <1>2, <2>1
<1>5. ps \in SUBSET Proposal /\ as \in SUBSET App BY BooksFields
<1>6. IsFiniteSet(as)
  <2>1. IsFiniteSet(c.apps) /\ as \in SUBSET c.apps BY BooksFields
  <2> QED BY <2>1, FS_Subset
<1>7. d = rec
  <2>1. c = [np |-> c.np, props |-> c.props, apps |-> c.apps, ver |-> c.ver,
             bal |-> c.bal]
    BY BooksFields
  <2>2. Uninstall(c, id, p, x) = [c EXCEPT !.apps = as, !.ver = c.ver + 2, !.bal = bs]
    BY <2>1, Zenon DEF Uninstall
  <2> HIDE DEF as, bs
  <2> QED BY <2>1, <2>2
<1>8. v \in Nat BY <1>2
<1> HIDE DEF ps, as, bs, d, v
<1>9. /\ d \in Books /\ d.np = c.np /\ d.props = ps /\ d.apps = as
      /\ d.ver = v /\ d.bal = bs
  BY ONLY <1>2, <1>3, <1>5, <1>6, <1>7, <1>8 DEF rec, Books, Channel
<1> QED BY <1>9 DEF ps, as, bs, d, v, Without

\* Installing an app never makes the books worth more.
LEMMA InstallWorth ==
  ASSUME NEW c \in Books, NEW a \in App, a.pot <= c.bal[a.by]
  PROVE  /\ Worth(InstallAs(c, a)) <= Worth(c)
         /\ (\A b \in c.apps : b.id # a.id) => Worth(InstallAs(c, a)) = Worth(c)
<1> DEFINE d == InstallAs(c, a)
           rest == Without(c.apps, a.id)
<1>1. /\ d \in Books /\ d.apps = rest \cup {a}
      /\ d.bal = [c.bal EXCEPT ![a.by] = c.bal[a.by] - a.pot]
  BY InstallAsIs
<1>2. a.by \in Parties /\ a.pot \in Nat /\ PotOf[a] = a.pot BY PotOfIs DEF App
<1>3. c.bal[a.by] \in Nat BY <1>2, BooksFields
<1>4. Held(d) + a.pot = Held(c)
  <2> DEFINE y == c.bal[a.by]
             x == y - a.pot
  <2>1. y \in Nat /\ a.pot <= y BY <1>3
  <2> HIDE DEF y
  <2>2. x \in Nat BY <1>2, <2>1
  <2>3. d.bal = [c.bal EXCEPT ![a.by] = x] BY <1>1 DEF y
  <2> HIDE DEF x, d
  <2>4. Held(d) + c.bal[a.by] = Held(c) + x BY <1>2, <2>2, <2>3, HeldMoves
  <2>5. Held(d) + y = Held(c) + x BY <2>4 DEF y
  <2>6. Held(d) \in Nat /\ Held(c) \in Nat BY <1>1, WorthIs
  <2> QED BY <1>2, <2>1, <2>5, <2>6 DEF x
<1>5. IsFiniteSet(c.apps) /\ c.apps \in SUBSET App /\ rest \in SUBSET c.apps
      /\ \A b \in c.apps : PotOf[b] \in Nat
  BY BooksFields, PotOfIs DEF Without
<1>6. IsFiniteSet(rest) /\ a \notin rest /\ \A b \in rest \cup {a} : PotOf[b] \in Nat
  BY <1>5, FS_Subset, PotOfIs DEF Without
<1> HIDE DEF rest, d
<1>7. Pots(d.apps) = a.pot + Pots(rest) BY <1>1, <1>2, <1>6, TotalAdded DEF Pots
<1>8. Pots(rest) <= Pots(c.apps) BY <1>5, TotalPart DEF Pots
<1>9. Pots(rest) \in Nat /\ Pots(c.apps) \in Nat BY <1>5, <1>6, PotsType
<1>10. /\ Worth(d) = Held(d) + Pots(d.apps) /\ Worth(c) = Held(c) + Pots(c.apps)
       /\ Held(d) \in Nat /\ Held(c) \in Nat
  BY <1>1, WorthIs
<1>11. Worth(d) <= Worth(c) BY <1>2, <1>4, <1>7, <1>8, <1>9, <1>10
<1>12. ASSUME \A b \in c.apps : b.id # a.id PROVE Worth(d) = Worth(c)
  <2>1. rest = c.apps BY <1>12 DEF rest, Without
  <2> QED BY <1>2, <1>4, <1>7, <1>9, <1>10, <2>1
<1> QED BY <1>11, <1>12 DEF d

\* Uninstalling an app takes its pot from the books and credits the increment.
LEMMA UninstallWorth ==
  ASSUME NEW c \in Books, NEW a \in c.apps, NEW p \in Parties, NEW x \in Nat
  PROVE  /\ Worth(Uninstall(c, a.id, p, x)) + a.pot <= Worth(c) + x
         /\ (\A b \in c.apps : b.id = a.id => b = a) =>
               Worth(Uninstall(c, a.id, p, x)) + a.pot = Worth(c) + x
<1> DEFINE d == Uninstall(c, a.id, p, x)
           rest == Without(c.apps, a.id)
<1>1. d \in Books /\ d.apps = rest /\ d.bal = [c.bal EXCEPT ![p] = c.bal[p] + x]
  <2> DEFINE id == a.id
  <2> HIDE DEF id
  <2>1. /\ Uninstall(c, id, p, x) \in Books
        /\ Uninstall(c, id, p, x).apps = Without(c.apps, id)
        /\ Uninstall(c, id, p, x).bal = [c.bal EXCEPT ![p] = c.bal[p] + x]
    BY ONLY UninstallIs, c \in Books, p \in Parties, x \in Nat
  <2> QED BY ONLY <2>1 DEF id
<1>2. a \in App /\ a.pot \in Nat /\ PotOf[a] = a.pot
  <2>1. a \in App BY BooksFields
  <2> QED BY <2>1, PotOfIs
<1>3. c.bal[p] \in Nat BY BooksFields
<1>4. Held(d) = Held(c) + x
  <2> DEFINE y == c.bal[p]
             z == y + x
  <2> HIDE DEF y
  <2>1. y \in Nat BY <1>3 DEF y
  <2>2. z \in Nat BY <2>1
  <2>3. d.bal = [c.bal EXCEPT ![p] = z] BY <1>1 DEF y
  <2> HIDE DEF z, d
  <2>4. Held(d) + c.bal[p] = Held(c) + z BY <2>2, <2>3, HeldMoves
  <2>5. Held(d) + y = Held(c) + z BY <2>4 DEF y
  <2>6. Held(d) \in Nat /\ Held(c) \in Nat BY <1>1, WorthIs
  <2> QED BY <2>1, <2>5, <2>6 DEF z
<1>5. IsFiniteSet(c.apps) /\ c.apps \in SUBSET App /\ rest \in SUBSET (c.apps \ {a})
      /\ \A b \in c.apps : PotOf[b] \in Nat
  BY BooksFields, PotOfIs DEF Without
<1>6. IsFiniteSet(rest) BY <1>5, FS_Subset
<1> HIDE DEF rest, d
<1>7. Pots(rest) + a.pot <= Pots(c.apps) BY <1>2, <1>5, TotalWithout DEF Pots
<1>8. Pots(rest) \in Nat /\ Pots(c.apps) \in Nat BY <1>5, <1>6, PotsType
<1>9. /\ Worth(d) = Held(d) + Pots(rest) /\ Worth(c) = Held(c) + Pots(c.apps)
      /\ Held(d) \in Nat /\ Held(c) \in Nat
  BY <1>1, WorthIs
<1>10. Worth(d) + a.pot <= Worth(c) + x BY <1>2, <1>4, <1>7, <1>8, <1>9
<1>11. ASSUME \A b \in c.apps : b.id = a.id => b = a PROVE Worth(d) + a.pot = Worth(c) + x
  <2>1. rest = c.apps \ {a} BY <1>11 DEF rest, Without
  <2>2. Pots(c.apps) = a.pot + Pots(rest) BY <1>2, <1>5, <2>1, TotalAt DEF Pots
  <2> QED BY <1>2, <1>4, <1>8, <1>9, <2>2
<1> QED BY <1>10, <1>11 DEF d

-----------------------------------------------------------------------------
(* Types.                                                                   *)

Run == [by : Parties, call : {"deposit", "withdrawCommitment", "withdraw"},
        amount : Nat, threshold : Nat]
IniPc == {"idle", "queued"} \cup Ends \cup IniWaits \cup {"send", "mine", "save", "submit"}
RspPc == {"idle", "done"} \cup RspWaits
IniHalf == [pc : IniPc, post : Books, tries : Nat]
RspHalf == [pc : RspPc, post : Books, tries : Nat]
Tx == [run : Runs, kind : {"deposit", "withdrawal"}, n : Nat, amount : Nat]
Wallet == [balance : Nat, executed : SUBSET [to : Parties, amount : Nat], reverted : Nat]

Types ==
  /\ store \in [Parties -> Books]
  /\ run \in [Runs -> Run]
  /\ ini \in [Runs -> IniHalf]
  /\ rsp \in [Runs -> RspHalf]
  /\ \A m \in net : m.run \in Runs
  /\ leases \in SUBSET Runs
  /\ slot \in [Parties -> Runs \cup {0}]
  /\ wallet \in Wallet
  /\ txs \in SUBSET Tx /\ IsFiniteSet(txs)
  /\ mishaps \in SUBSET {"raced", "renamed", "crashed"}

\* A deposit that is still to be sent has tries left, and a withdrawal to be
\* submitted has been stored.
Ready ==
  \A r \in Runs :
    /\ ini[r].pc = "send" => ini[r].tries # 0
    /\ ini[r].pc \in {"save", "submit"} => slot[Caller(r)] # 0

LEMMA Couple ==
  /\ Alice \in Parties /\ Bob \in Parties /\ Alice # Bob
  /\ \A p \in Parties : /\ Other(p) \in Parties /\ Other(p) # p /\ Other(Other(p)) = p
                        /\ Parties = {p, Other(p)}
BY FundingConstants DEF Parties, Other

LEMMA RunFields ==
  ASSUME Types, NEW r \in Runs
  PROVE  /\ run[r] \in Run /\ Caller(r) \in Parties /\ run[r].by = Caller(r)
         /\ Responder(r) \in Parties /\ Responder(r) # Caller(r)
         /\ Parties = {Caller(r), Responder(r)}
         /\ run[r].amount \in Nat /\ run[r].threshold \in Nat
         /\ store[Caller(r)] \in Books /\ store[Responder(r)] \in Books
         /\ ini[r] \in IniHalf /\ ini[r].pc \in IniPc /\ ini[r].post \in Books
         /\ rsp[r] \in RspHalf /\ rsp[r].pc \in RspPc /\ rsp[r].post \in Books
BY Couple DEF Types, Run, IniHalf, RspHalf, Caller, Responder

LEMMA WalletFields ==
  ASSUME Types
  PROVE  /\ wallet.balance \in Nat /\ wallet.reverted \in Nat
         /\ wallet = [balance |-> wallet.balance, executed |-> wallet.executed,
                      reverted |-> wallet.reverted]
         /\ wallet.executed \in SUBSET [to : Parties, amount : Nat]
BY DEF Types, Wallet

LEMMA HalfIs ==
  ASSUME NEW pc, NEW post
  PROVE  /\ Half(pc, post).pc = pc /\ Half(pc, post).post = post
         /\ Half(pc, post).tries = 0
         /\ (pc \in IniPc /\ post \in Books) => Half(pc, post) \in IniHalf
         /\ (pc \in RspPc /\ post \in Books) => Half(pc, post) \in RspHalf
BY DEF Half, IniHalf, RspHalf

LEMMA OpeningBooks == Opening \in Books
BY FundingConstants, OpeningNumbered DEF Books

\* The refund app of the call, and the channel with it.
LEMMA RefundIs ==
  ASSUME NEW c \in Books, NEW kind \in Kinds, NEW p \in Parties, NEW pot \in Nat,
         NEW t \in Nat, pot <= c.bal[p]
  PROVE  LET a == [id |-> c.np, kind |-> kind, by |-> p, pot |-> pot, threshold |-> t]
         IN  /\ a \in App /\ a.id = c.np /\ a.kind = kind /\ a.by = p /\ a.pot = pot
             /\ a.threshold = t
             /\ InstallRefundApp(c, kind, p, pot, t) = InstallAs(c, a)
             /\ InstallRefundApp(c, kind, p, pot, t) \in Books
<1> DEFINE a == [id |-> c.np, kind |-> kind, by |-> p, pot |-> pot, threshold |-> t]
<1>1. c.np \in Nat BY BooksFields
<1>2. a \in App /\ a.id = c.np /\ a.kind = kind /\ a.by = p /\ a.pot = pot /\ a.threshold = t
  BY <1>1 DEF App
<1>3. InstallRefundApp(c, kind, p, pot, t) = InstallAs(c, a) BY DEF InstallRefundApp
<1> HIDE DEF a
<1>4. InstallAs(c, a) \in Books BY <1>2, InstallAsIs
<1> QED BY <1>2, <1>3, <1>4 DEF a

LEMMA NothingCharged ==
  ASSUME NEW c \in Books, NEW p \in Parties
  PROVE  0 <= c.bal[p]
<1>1. c.bal[p] \in Nat BY BooksFields
<1> QED BY <1>1

LEMMA UnchargedBooks ==
  ASSUME Types, NEW r \in Runs, NEW c \in Books
  PROVE  Uncharged(r, c) \in Books
BY RunFields, UninstallIs DEF Uncharged

LEMMA RefundApp ==
  ASSUME NEW c \in Books, CanUninstall(c), wallet.balance \in Nat
  PROVE  LET a == TheRefundApp(c)
         IN  /\ a \in c.apps /\ a \in App /\ a.by \in Parties /\ a.kind # "app"
             /\ \A b \in c.apps : b.kind # "app" => b = a
             /\ a.threshold \in Nat /\ a.threshold < wallet.balance /\ Outcome(a) \in Nat
             /\ Outcome(a) + a.threshold = wallet.balance
             /\ Uninstall(c, a.id, a.by, Outcome(a)) \in Books
<1> DEFINE a == TheRefundApp(c)
<1>1. c.apps \in SUBSET App /\ IsFiniteSet(c.apps) BY BooksFields
<1>2. IsFiniteSet(DepositApps(c))
  <2>1. DepositApps(c) \in SUBSET c.apps BY DEF DepositApps
  <2> QED BY <1>1, <2>1, FS_Subset
<1>3. Cardinality(DepositApps(c)) = 1 BY DEF CanUninstall
<1>4. PICK x : DepositApps(c) = {x} BY <1>2, <1>3, FS_Singleton
<1>5. a \in c.apps /\ a.kind # "app" /\ \A b \in c.apps : b.kind # "app" => b = a
  BY <1>4 DEF DepositApps, TheRefundApp
<1>6. a \in App BY <1>1, <1>5
<1>7. a.by \in Parties /\ a.threshold \in Nat BY <1>6 DEF App
<1>8. a.threshold < wallet.balance BY <1>7 DEF CanUninstall, HasOutcome
<1>9. Outcome(a) \in Nat /\ Outcome(a) + a.threshold = wallet.balance
  BY <1>7, <1>8 DEF Outcome
<1> HIDE DEF a
<1>10. Uninstall(c, a.id, a.by, Outcome(a)) \in Books BY <1>7, <1>9, UninstallIs
<1> QED BY <1>5, <1>6, <1>7, <1>8, <1>9, <1>10 DEF a

-----------------------------------------------------------------------------
(* Steps preserve the types.                                                *)

TR == Types /\ Ready

LEMMA IniStep ==
  ASSUME Types, NEW r \in Runs, NEW h \in IniHalf, IniGoes(r, h)
  PROVE  /\ ini' \in [Runs -> IniHalf] /\ ini'[r] = h
         /\ \A s \in Runs \ {r} : ini'[s] = ini[s]
BY DEF Types, IniGoes

LEMMA RspStep ==
  ASSUME Types, NEW r \in Runs, NEW h \in RspHalf, RspGoes(r, h)
  PROVE  /\ rsp' \in [Runs -> RspHalf] /\ rsp'[r] = h
         /\ \A s \in Runs \ {r} : rsp'[s] = rsp[s]
BY DEF Types, RspGoes

LEMMA StoreStep ==
  ASSUME Types, NEW p \in Parties, NEW c \in Books, Persist(p, c)
  PROVE  /\ store' \in [Parties -> Books] /\ store'[p] = c
         /\ \A q \in Parties \ {p} : store'[q] = store[q]
BY DEF Types, Persist

LEMMA LeaveStep ==
  ASSUME Types, NEW r \in Runs, NEW how \in Ends, Leave(r, how)
  PROVE  /\ ini' \in [Runs -> IniHalf] /\ ini'[r].pc = how
         /\ \A s \in Runs \ {r} : ini'[s] = ini[s]
         /\ leases' \in SUBSET Runs /\ leases' = leases \ {r}
<1>1. how \in IniPc BY DEF IniPc
<1>2. Half(how, Opening) \in IniHalf /\ Half(how, Opening).pc = how
  BY <1>1, HalfIs, OpeningBooks
<1>3. IniGoes(r, Half(how, Opening)) /\ leases' = leases \ {r} BY DEF Leave
<1> QED BY <1>2, <1>3, IniStep DEF Types

LEMMA AnswerStep ==
  ASSUME Types, NEW m \in net, NEW n, NEW to, NEW sigs, Answer(m, n, to, sigs)
  PROVE  /\ \A k \in net' : k.run \in Runs
         /\ \A k \in net' \ net : k.run = m.run /\ k.n = n /\ k.to = to /\ k.sigs = sigs
         /\ net' = (net \ {m}) \cup {Message(m.run, n, to, sigs)}
BY DEF Types, Answer, Message

\* The run of a half that goes on keeps what is ready.
LEMMA ReadyStep ==
  ASSUME Types, Ready, NEW r \in Runs, UNCHANGED run,
         \A s \in Runs \ {r} : ini'[s] = ini[s],
         ini'[r].pc = "send" => ini'[r].tries # 0,
         \A p \in Parties : slot[p] # 0 => slot'[p] # 0,
         ini'[r].pc \in {"save", "submit"} => slot'[Caller(r)] # 0
  PROVE  Ready'
BY RunFields DEF Ready, Caller

LEMMA CallTypes ==
  ASSUME TR, NEW r \in Runs, NEW p \in Parties, NEW call \in Calls, NEW amount \in Amounts,
         Call(r, p, call, amount)
  PROVE  TR'
<1>1. Half("queued", Opening) \in IniHalf /\ Half("queued", Opening).pc = "queued"
  BY HalfIs, OpeningBooks DEF IniPc
<1>2. IniGoes(r, Half("queued", Opening)) BY DEF Call
<1>3. /\ ini' \in [Runs -> IniHalf] /\ ini'[r].pc = "queued"
      /\ \A s \in Runs \ {r} : ini'[s] = ini[s]
  BY <1>1, <1>2, IniStep DEF TR
<1> DEFINE new == [by |-> p, call |-> call, amount |-> amount, threshold |-> 0]
<1>4. new \in Run BY FundingConstants DEF Run
<1>5. run' = [run EXCEPT ![r] = new] BY DEF Call
<1> HIDE DEF new
<1>6. run' \in [Runs -> Run] /\ \A s \in Runs \ {r} : run'[s] = run[s]
  BY <1>4, <1>5 DEF TR, Types
<1>7. UNCHANGED <<store, rsp, net, leases, slot, wallet, txs, mishaps>> BY DEF Call, chain
<1>8. Types' BY <1>3, <1>6, <1>7 DEF TR, Types
<1>9. Ready' BY <1>3, <1>6, <1>7 DEF TR, Ready, Caller
<1> QED BY <1>8, <1>9 DEF TR

LEMMA BeginsTypes ==
  ASSUME TR, NEW r \in Runs, NEW post \in Books, NEW n, NEW t \in Nat, Begins(r, post, n, t)
  PROVE  TR'
<1> DEFINE h == Half(IF n = "i1" THEN "i2" ELSE "w2", post)
<1>1. h \in IniHalf /\ h.pc \in {"i2", "w2"} BY HalfIs DEF IniPc, IniWaits
<1>2. IniGoes(r, h) BY DEF Begins
<1> HIDE DEF h
<1>3. /\ ini' \in [Runs -> IniHalf] /\ ini'[r].pc \in {"i2", "w2"}
      /\ \A s \in Runs \ {r} : ini'[s] = ini[s]
  BY <1>1, <1>2, IniStep DEF TR
<1>4. run' = [run EXCEPT ![r].threshold = t] BY DEF Begins
<1>5. run' \in [Runs -> Run] /\ \A s \in Runs : run'[s].by = run[s].by
  BY <1>4 DEF TR, Types, Run
<1>6. \A m \in net' : m.run \in Runs BY DEF TR, Types, Begins, Message
<1>7. leases' \in SUBSET Runs BY DEF TR, Types, Begins
<1>8. mishaps' \in SUBSET {"raced", "renamed", "crashed"} BY DEF TR, Types, Begins
<1>9. UNCHANGED <<store, rsp, slot, wallet, txs>> BY DEF Begins, chain
<1>10. Types' BY <1>3, <1>5, <1>6, <1>7, <1>8, <1>9 DEF TR, Types
<1>11. Ready' BY <1>3, <1>5, <1>9 DEF TR, Ready, Caller
<1> QED BY <1>10, <1>11 DEF TR

LEMMA DepositPost ==
  ASSUME Types, NEW r \in Runs
  PROVE  InstallRefundApp(store[Caller(r)], "deposit", Caller(r), 0, Threshold(Caller(r))) \in Books
         /\ Threshold(Caller(r)) \in Nat
<1>1. Threshold(Caller(r)) \in Nat BY WalletFields DEF Threshold
<1>2. store[Caller(r)] \in Books /\ Caller(r) \in Parties BY RunFields
<1>3. 0 <= store[Caller(r)].bal[Caller(r)] BY <1>2, NothingCharged
<1>4. "deposit" \in Kinds BY DEF Kinds
<1> QED BY <1>1, <1>2, <1>3, <1>4, RefundIs

LEMMA WithdrawalPost ==
  ASSUME Types, NEW r \in Runs, CanCharge(store[Caller(r)], Caller(r), run[r].amount)
  PROVE  InstallRefundApp(store[Caller(r)], "withdrawal", Caller(r), run[r].amount, 0) \in Books
<1>1. store[Caller(r)] \in Books /\ Caller(r) \in Parties /\ run[r].amount \in Nat BY RunFields
<1>2. run[r].amount <= store[Caller(r)].bal[Caller(r)] BY DEF CanCharge
<1>3. "withdrawal" \in Kinds BY DEF Kinds
<1> QED BY <1>1, <1>2, <1>3, RefundIs

LEMMA ResponderPost ==
  ASSUME Types, NEW m \in net, CanSign(m)
  PROVE  RefundAppAtResponder(m.run) \in Books
<1> DEFINE r == m.run
           p == Caller(r)
           c == store[Responder(r)]
           t == run[r].threshold
           pot == run[r].amount
<1>0. r \in Runs BY DEF Types
<1>1. c \in Books /\ p \in Parties /\ t \in Nat /\ pot \in Nat BY <1>0, RunFields
<1>2. "withdrawal" \in Kinds /\ "deposit" \in Kinds BY DEF Kinds
<1>3. 0 <= c.bal[p] BY <1>1, NothingCharged
<1>4. CASE run[r].call = "deposit"
  <2>1. RefundAppAtResponder(r) = InstallRefundApp(c, "deposit", p, 0, t)
    BY <1>4 DEF RefundAppAtResponder
  <2> HIDE DEF c, p, t, r
  <2>2. InstallRefundApp(c, "deposit", p, 0, t) \in Books BY <1>1, <1>2, <1>3, RefundIs
  <2> QED BY <2>1, <2>2 DEF r
<1>5. CASE run[r].call # "deposit"
  <2>1. RefundAppAtResponder(r) = InstallRefundApp(c, "withdrawal", p, pot, t)
    BY <1>5 DEF RefundAppAtResponder
  <2>2. pot <= c.bal[p] BY <1>5 DEF CanSign, CanCharge
  <2> HIDE DEF c, p, t, r, pot
  <2>3. InstallRefundApp(c, "withdrawal", p, pot, t) \in Books BY <1>1, <1>2, <2>2, RefundIs
  <2> QED BY <2>1, <2>3 DEF r
<1> QED BY <1>4, <1>5

LEMMA DepositBeginsTypes ==
  ASSUME TR, NEW r \in Runs, DepositBegins(r)
  PROVE  TR'
<1> DEFINE post == InstallRefundApp(store[Caller(r)], "deposit", Caller(r), 0,
                                    Threshold(Caller(r)))
<1>1. post \in Books /\ Threshold(Caller(r)) \in Nat BY DepositPost DEF TR
<1>2. Begins(r, post, "i1", Threshold(Caller(r))) BY DEF DepositBegins
<1> HIDE DEF post
<1> QED BY <1>1, <1>2, BeginsTypes

LEMMA WithdrawalBeginsTypes ==
  ASSUME TR, NEW r \in Runs, WithdrawalBegins(r)
  PROVE  TR'
<1> DEFINE post == InstallRefundApp(store[Caller(r)], "withdrawal", Caller(r),
                                    run[r].amount, 0)
<1>1. post \in Books BY WithdrawalPost DEF TR, WithdrawalBegins
<1>2. Begins(r, post, "w1", 0) BY DEF WithdrawalBegins
<1> HIDE DEF post
<1> QED BY <1>1, <1>2, BeginsTypes

\* A step of run r in which the chain and the slots stay.
LEMMA RunTypes ==
  ASSUME TR, NEW r \in Runs, UNCHANGED <<run, slot, wallet, txs>>,
         store' \in [Parties -> Books],
         ini' \in [Runs -> IniHalf], rsp' \in [Runs -> RspHalf],
         \A s \in Runs \ {r} : ini'[s] = ini[s],
         ini'[r] = ini[r] \/ ini'[r].pc \notin {"send", "save", "submit"},
         \A m \in net' : m.run \in Runs, leases' \in SUBSET Runs,
         mishaps' \in SUBSET {"raced", "renamed", "crashed"}
  PROVE  TR'
<1>1. Types' BY DEF TR, Types
<1>2. Ready' BY RunFields DEF TR, Ready, Caller
<1> QED BY <1>1, <1>2 DEF TR

LEMMA LeaveTypes ==
  ASSUME TR, NEW r \in Runs, NEW how \in Ends, Leave(r, how),
         UNCHANGED <<store, run, rsp, slot, wallet, txs, mishaps>>, net' \subseteq net
  PROVE  TR'
<1>1. /\ ini' \in [Runs -> IniHalf] /\ ini'[r].pc = how
      /\ \A s \in Runs \ {r} : ini'[s] = ini[s]
      /\ leases' \in SUBSET Runs
  BY LeaveStep DEF TR
<1>2. ini'[r].pc \notin {"send", "save", "submit"} BY <1>1 DEF Ends
<1> QED BY <1>1, <1>2, RunTypes DEF TR, Types

LEMMA ResponderSignsTypes ==
  ASSUME TR, NEW m \in net, NEW first, NEW answer, NEW wait \in RspWaits,
         ResponderSigns(m, first, answer, wait)
  PROVE  TR'
<1> DEFINE r == m.run
           post == RefundAppAtResponder(r)
<1>0. r \in Runs /\ Types BY DEF TR, Types
<1>1. post \in Books BY <1>0, ResponderPost DEF ResponderSigns
<1>2. RspGoes(r, Half(wait, post)) BY DEF ResponderSigns
<1>3. \A k \in net' : k.run \in Runs BY <1>0 DEF ResponderSigns, Answer, Message, Types
<1>4. UNCHANGED <<store, run, ini, slot, wallet, txs, leases, mishaps>>
  BY DEF ResponderSigns, chain
<1> HIDE DEF r, post
<1>5. Half(wait, post) \in RspHalf BY <1>1, HalfIs DEF RspPc
<1>6. rsp' \in [Runs -> RspHalf] BY <1>0, <1>2, <1>5, RspStep
<1> QED BY <1>0, <1>3, <1>4, <1>6, RunTypes DEF Types

LEMMA CallerInstallsTypes ==
  ASSUME TR, NEW m \in net, CallerInstalls(m)
  PROVE  TR'
<1> DEFINE r == m.run
<1>0. r \in Runs /\ Types BY DEF TR, Types
<1>1. ini[r].post \in Books /\ rsp[r].post \in Books BY <1>0, RunFields
<1>2. Half("i4", ini[r].post) \in IniHalf /\ (Half("i4", ini[r].post)).pc = "i4" BY <1>0, <1>1, HalfIs, RunFields DEF IniPc, IniWaits
<1>3. IniGoes(r, Half("i4", ini[r].post)) BY DEF CallerInstalls
<1>4. ini' \in [Runs -> IniHalf] /\ ini'[r].pc = "i4" /\ \A s \in Runs \ {r} : ini'[s] = ini[s]
  BY <1>0, <1>2, <1>3, IniStep
<1>7. rsp' \in [Runs -> RspHalf] BY <1>0 DEF CallerInstalls, Types
<1>8. Persist(Caller(r), ini[r].post) BY DEF CallerInstalls
<1>9. store' \in [Parties -> Books] BY <1>0, <1>1, <1>8, RunFields, StoreStep
<1>10. \A k \in net' : k.run \in Runs BY <1>0 DEF CallerInstalls, Answer, Message, Types
<1>11. UNCHANGED <<run, slot, wallet, txs, leases, mishaps>> BY DEF CallerInstalls, chain
<1>12. leases' \in SUBSET Runs /\ mishaps' \in SUBSET {"raced", "renamed", "crashed"}
  BY <1>0, <1>11 DEF Types
<1> HIDE DEF r
<1> QED BY <1>0, <1>4, <1>7, <1>9, <1>10, <1>11, <1>12, RunTypes

LEMMA ResponderInstallsTypes ==
  ASSUME TR, NEW m \in net, ResponderInstalls(m)
  PROVE  TR'
<1> DEFINE r == m.run
<1>0. r \in Runs /\ Types BY DEF TR, Types
<1>1. ini[r].post \in Books /\ rsp[r].post \in Books BY <1>0, RunFields
<1>4. ini' = ini /\ ini' \in [Runs -> IniHalf] BY <1>0 DEF ResponderInstalls, Types
<1>5. Half("done", Opening) \in RspHalf BY <1>0, <1>1, HalfIs, OpeningBooks DEF RspPc, RspWaits
<1>6. RspGoes(r, Half("done", Opening)) BY DEF ResponderInstalls
<1>7. rsp' \in [Runs -> RspHalf] BY <1>0, <1>5, <1>6, RspStep
<1>8. Persist(Responder(r), rsp[r].post) BY DEF ResponderInstalls
<1>9. store' \in [Parties -> Books] BY <1>0, <1>1, <1>8, RunFields, StoreStep
<1>10. \A k \in net' : k.run \in Runs BY <1>0 DEF ResponderInstalls, Answer, Message, Types
<1>11. UNCHANGED <<run, slot, wallet, txs, leases, mishaps>> BY DEF ResponderInstalls, chain
<1>12. leases' \in SUBSET Runs /\ mishaps' \in SUBSET {"raced", "renamed", "crashed"}
  BY <1>0, <1>11 DEF Types
<1> HIDE DEF r
<1> QED BY <1>0, <1>4, <1>7, <1>9, <1>10, <1>11, <1>12, RunTypes

LEMMA ResponderUninstallsTypes ==
  ASSUME TR, NEW m \in net, ResponderUninstalls(m)
  PROVE  TR'
<1> DEFINE r == m.run
<1>0. r \in Runs /\ Types BY DEF TR, Types
<1>1. UninstalledAtResponder(r) \in Books
  <2>1. CanUninstall(store[Responder(r)]) BY DEF ResponderUninstalls, CanCountersign
  <2>2. store[Responder(r)] \in Books /\ wallet.balance \in Nat BY <1>0, RunFields, WalletFields
  <2> QED BY <2>1, <2>2, RefundApp DEF UninstalledAtResponder
<1>4. ini' = ini /\ ini' \in [Runs -> IniHalf] BY <1>0 DEF ResponderUninstalls, Types
<1>5. Half("done", Opening) \in RspHalf BY <1>0, <1>1, HalfIs, OpeningBooks DEF RspPc, RspWaits
<1>6. RspGoes(r, Half("done", Opening)) BY DEF ResponderUninstalls
<1>7. rsp' \in [Runs -> RspHalf] BY <1>0, <1>5, <1>6, RspStep
<1>8. Persist(Responder(r), UninstalledAtResponder(r)) BY DEF ResponderUninstalls
<1>9. store' \in [Parties -> Books] BY <1>0, <1>1, <1>8, RunFields, StoreStep
<1>10. \A k \in net' : k.run \in Runs BY <1>0 DEF ResponderUninstalls, Answer, Message, Types
<1>11. UNCHANGED <<run, slot, wallet, txs, leases, mishaps>> BY DEF ResponderUninstalls, chain
<1>12. leases' \in SUBSET Runs /\ mishaps' \in SUBSET {"raced", "renamed", "crashed"}
  BY <1>0, <1>11 DEF Types
<1> HIDE DEF r
<1> QED BY <1>0, <1>4, <1>7, <1>9, <1>10, <1>11, <1>12, RunTypes

LEMMA CallerChargesTypes ==
  ASSUME TR, NEW m \in net, CallerCharges(m)
  PROVE  TR'
<1> DEFINE r == m.run
<1>0. r \in Runs /\ Types BY DEF TR, Types
<1>1. ini[r].post \in Books /\ rsp[r].post \in Books BY <1>0, RunFields
<1>2. Half("w4", ini[r].post) \in IniHalf /\ (Half("w4", ini[r].post)).pc = "w4" BY <1>0, <1>1, HalfIs, RunFields DEF IniPc, IniWaits
<1>3. IniGoes(r, Half("w4", ini[r].post)) BY DEF CallerCharges
<1>4. ini' \in [Runs -> IniHalf] /\ ini'[r].pc = "w4" /\ \A s \in Runs \ {r} : ini'[s] = ini[s]
  BY <1>0, <1>2, <1>3, IniStep
<1>7. rsp' \in [Runs -> RspHalf] BY <1>0 DEF CallerCharges, Types
<1>9. store' \in [Parties -> Books] BY <1>0 DEF CallerCharges, Types
<1>10. \A k \in net' : k.run \in Runs BY <1>0 DEF CallerCharges, Answer, Message, Types
<1>11. UNCHANGED <<run, slot, wallet, txs, leases, mishaps>> BY DEF CallerCharges, chain
<1>12. leases' \in SUBSET Runs /\ mishaps' \in SUBSET {"raced", "renamed", "crashed"}
  BY <1>0, <1>11 DEF Types
<1> HIDE DEF r
<1> QED BY <1>0, <1>4, <1>7, <1>9, <1>10, <1>11, <1>12, RunTypes

LEMMA CallerSettlesTypes ==
  ASSUME TR, NEW m \in net, CallerSettles(m)
  PROVE  TR'
<1> DEFINE r == m.run
<1>0. r \in Runs /\ Types BY DEF TR, Types
<1>1. Uncharged(r, ini[r].post) \in Books /\ Uncharged(r, rsp[r].post) \in Books BY <1>0, RunFields, UnchargedBooks
<1>2. Half("w6", Uncharged(r, ini[r].post)) \in IniHalf /\ (Half("w6", Uncharged(r, ini[r].post))).pc = "w6" BY <1>0, <1>1, HalfIs, RunFields DEF IniPc, IniWaits
<1>3. IniGoes(r, Half("w6", Uncharged(r, ini[r].post))) BY DEF CallerSettles
<1>4. ini' \in [Runs -> IniHalf] /\ ini'[r].pc = "w6" /\ \A s \in Runs \ {r} : ini'[s] = ini[s]
  BY <1>0, <1>2, <1>3, IniStep
<1>7. rsp' \in [Runs -> RspHalf] BY <1>0 DEF CallerSettles, Types
<1>9. store' \in [Parties -> Books] BY <1>0 DEF CallerSettles, Types
<1>10. \A k \in net' : k.run \in Runs BY <1>0 DEF CallerSettles, Answer, Message, Types
<1>11. UNCHANGED <<run, slot, wallet, txs, leases, mishaps>> BY DEF CallerSettles, chain
<1>12. leases' \in SUBSET Runs /\ mishaps' \in SUBSET {"raced", "renamed", "crashed"}
  BY <1>0, <1>11 DEF Types
<1> HIDE DEF r
<1> QED BY <1>0, <1>4, <1>7, <1>9, <1>10, <1>11, <1>12, RunTypes

LEMMA ResponderSettlesTypes ==
  ASSUME TR, NEW m \in net, ResponderSettles(m)
  PROVE  TR'
<1> DEFINE r == m.run
<1>0. r \in Runs /\ Types BY DEF TR, Types
<1>1. ini[r].post \in Books /\ rsp[r].post \in Books BY <1>0, RunFields
<1>4. ini' = ini /\ ini' \in [Runs -> IniHalf] BY <1>0 DEF ResponderSettles, Types
<1>5. Half("done", Opening) \in RspHalf BY <1>0, <1>1, HalfIs, OpeningBooks DEF RspPc, RspWaits
<1>6. RspGoes(r, Half("done", Opening)) BY DEF ResponderSettles
<1>7. rsp' \in [Runs -> RspHalf] BY <1>0, <1>5, <1>6, RspStep
<1>8. Persist(Responder(r), rsp[r].post) BY DEF ResponderSettles
<1>9. store' \in [Parties -> Books] BY <1>0, <1>1, <1>8, RunFields, StoreStep
<1>10. \A k \in net' : k.run \in Runs BY <1>0 DEF ResponderSettles, Answer, Message, Types
<1>11. UNCHANGED <<run, slot, wallet, txs, leases, mishaps>> BY DEF ResponderSettles, chain
<1>12. leases' \in SUBSET Runs /\ mishaps' \in SUBSET {"raced", "renamed", "crashed"}
  BY <1>0, <1>11 DEF Types
<1> HIDE DEF r
<1> QED BY <1>0, <1>4, <1>7, <1>9, <1>10, <1>11, <1>12, RunTypes

LEMMA DepositInstalledTypes ==
  ASSUME TR, NEW m \in net, DepositInstalled(m)
  PROVE  TR'
<1> DEFINE r == m.run
           h == [Half("send", Opening) EXCEPT !.tries = DEPOSIT_RETRY_COUNT]
<1>0. r \in Runs /\ Types /\ Ready BY DEF TR, Types
<1>1. h \in IniHalf /\ h.pc = "send" /\ h.tries # 0
  BY OpeningBooks DEF Half, IniHalf, IniPc, DEPOSIT_RETRY_COUNT
<1>2. IniGoes(r, h) BY DEF DepositInstalled
<1>3. UNCHANGED <<store, run, rsp, leases, slot, wallet, txs, mishaps>> /\ net' \subseteq net
  BY DEF DepositInstalled, chain
<1> HIDE DEF r, h
<1>4. /\ ini' \in [Runs -> IniHalf] /\ ini'[r].pc = "send" /\ ini'[r].tries # 0
      /\ \A s \in Runs \ {r} : ini'[s] = ini[s]
  BY <1>0, <1>1, <1>2, IniStep
<1>5. Types' BY <1>0, <1>3, <1>4 DEF Types
<1>6. Ready' BY <1>0, <1>3, <1>4, ReadyStep
<1> QED BY <1>5, <1>6 DEF TR

LEMMA SendTransactionTypes ==
  ASSUME TR, NEW r \in Runs, SendTransaction(r)
  PROVE  TR'
<1> DEFINE h == [ini[r] EXCEPT !.pc = "mine"]
           t == DepositTransaction(r)
<1>0. Types /\ Ready BY DEF TR
<1>1. h \in IniHalf /\ h.pc = "mine" BY <1>0, RunFields DEF IniHalf, IniPc
<1>2. t \in Tx BY <1>0, RunFields DEF DepositTransaction, Transaction, Tx, IniHalf
<1>3. IniGoes(r, h) /\ txs' = txs \cup {t} BY DEF SendTransaction
<1>4. UNCHANGED <<store, run, rsp, net, leases, slot, wallet, mishaps>>
  BY DEF SendTransaction
<1> HIDE DEF h, t
<1>5. /\ ini' \in [Runs -> IniHalf] /\ ini'[r].pc = "mine"
      /\ \A s \in Runs \ {r} : ini'[s] = ini[s]
  BY <1>0, <1>1, <1>3, IniStep
<1>6. txs' \in SUBSET Tx /\ IsFiniteSet(txs')
  BY <1>0, <1>2, <1>3, FS_AddElement DEF Types
<1>7. Types' BY <1>0, <1>4, <1>5, <1>6 DEF Types
<1>8. Ready' BY <1>0, <1>4, <1>5, ReadyStep
<1> QED BY <1>7, <1>8 DEF TR

LEMMA SendThrowsTypes ==
  ASSUME TR, NEW r \in Runs, SendThrows(r)
  PROVE  TR'
<1> DEFINE h == [ini[r] EXCEPT !.tries = @ - 1]
           t == DepositTransaction(r)
<1>0. Types /\ Ready /\ ini[r].pc = "send" BY DEF TR, SendThrows
<1>1. t \in Tx BY <1>0, RunFields DEF DepositTransaction, Transaction, Tx, IniHalf
<1>2. txs' = txs \cup {t} \/ txs' = txs BY DEF SendThrows
<1>3. Leave(r, "threw") \/ (ini[r].tries # 1 /\ IniGoes(r, h) /\ UNCHANGED leases)
  BY DEF SendThrows
<1>4. UNCHANGED <<store, run, rsp, net, slot, wallet, mishaps>> BY DEF SendThrows
<1>5. ini[r].tries \in Nat \ {0} BY <1>0, RunFields DEF Ready, IniHalf
<1>6. txs' \in SUBSET Tx /\ IsFiniteSet(txs')
  <2> HIDE DEF t
  <2> QED BY <1>0, <1>1, <1>2, FS_AddElement DEF Types
<1>7. CASE Leave(r, "threw")
  <2>1. /\ ini' \in [Runs -> IniHalf] /\ ini'[r].pc = "threw"
        /\ \A s \in Runs \ {r} : ini'[s] = ini[s]
        /\ leases' \in SUBSET Runs
    BY <1>0, <1>7, LeaveStep DEF Ends
  <2>2. Types' BY <1>0, <1>4, <1>6, <2>1 DEF Types
  <2>3. Ready' BY <1>0, <1>4, <2>1, ReadyStep
  <2> QED BY <2>2, <2>3 DEF TR
<1>8. CASE ini[r].tries # 1 /\ IniGoes(r, h) /\ UNCHANGED leases
  <2>1. h \in IniHalf /\ h.pc = "send" /\ h.tries # 0
    BY <1>0, <1>5, <1>8, RunFields DEF IniHalf
  <2> HIDE DEF h
  <2>2. /\ ini' \in [Runs -> IniHalf] /\ ini'[r].pc = "send" /\ ini'[r].tries # 0
        /\ \A s \in Runs \ {r} : ini'[s] = ini[s]
    BY <1>0, <1>8, <2>1, IniStep
  <2>3. Types' BY <1>0, <1>4, <1>6, <1>8, <2>2 DEF Types
  <2>4. Ready' BY <1>0, <1>4, <2>2, ReadyStep
  <2> QED BY <2>3, <2>4 DEF TR
<1> QED BY <1>3, <1>7, <1>8

LEMMA UninstallBeginsTypes ==
  ASSUME TR, NEW r \in Runs, UninstallBegins(r)
  PROVE  TR'
<1> DEFINE a == TheRefundApp(store[Caller(r)])
           post == Uninstall(store[Caller(r)], a.id, a.by, Outcome(a))
<1>0. Types BY DEF TR
<1>1. post \in Books
  <2>1. CanUninstall(store[Caller(r)]) BY DEF UninstallBegins
  <2>2. store[Caller(r)] \in Books /\ wallet.balance \in Nat BY <1>0, RunFields, WalletFields
  <2> QED BY <2>1, <2>2, RefundApp
<1>2. IniGoes(r, Half("u2", post)) BY DEF UninstallBegins
<1>3. net' = net \cup {Message(r, "u1", Responder(r), {FreeBalance(post)})}
  BY DEF UninstallBegins
<1>4. UNCHANGED <<store, run, rsp, leases, slot, wallet, txs, mishaps>>
  BY DEF UninstallBegins, chain
<1> HIDE DEF post
<1>5. Half("u2", post) \in IniHalf /\ Half("u2", post).pc = "u2"
  BY <1>1, HalfIs DEF IniPc, IniWaits
<1>6. /\ ini' \in [Runs -> IniHalf] /\ ini'[r].pc = "u2"
      /\ \A s \in Runs \ {r} : ini'[s] = ini[s]
  BY <1>0, <1>2, <1>5, IniStep
<1>7. \A k \in net' : k.run \in Runs BY <1>0, <1>3 DEF Message, Types
<1> QED BY <1>0, <1>4, <1>6, <1>7, RunTypes DEF Types

LEMMA DepositReturnsTypes ==
  ASSUME TR, NEW m \in net, DepositReturns(m)
  PROVE  TR'
<1> DEFINE r == m.run
           post == ini[r].post
<1>0. r \in Runs /\ Types BY DEF TR, Types
<1>1. Persist(Caller(r), post) /\ Leave(r, "returned") BY DEF DepositReturns
<1>2. UNCHANGED <<run, rsp, slot, wallet, txs, mishaps>> /\ net' \subseteq net
  BY DEF DepositReturns, chain
<1> HIDE DEF r
<1>3. post \in Books /\ Caller(r) \in Parties BY <1>0, RunFields
<1> HIDE DEF post
<1>4. store' \in [Parties -> Books] BY <1>0, <1>1, <1>3, StoreStep
<1>5. /\ ini' \in [Runs -> IniHalf] /\ ini'[r].pc = "returned"
      /\ \A s \in Runs \ {r} : ini'[s] = ini[s]
      /\ leases' \in SUBSET Runs
  BY <1>0, <1>1, LeaveStep DEF Ends
<1> QED BY <1>0, <1>2, <1>4, <1>5, RunTypes DEF Types

LEMMA ResponderReleasesTypes ==
  ASSUME TR, NEW m \in net, ResponderReleases(m)
  PROVE  TR'
<1> DEFINE r == m.run
           post == Uncharged(r, rsp[r].post)
<1>0. r \in Runs /\ Types /\ Ready BY DEF TR, Types
<1>1. RspGoes(r, Half("w5", post)) /\ slot' = [slot EXCEPT ![Responder(r)] = r]
  BY DEF ResponderReleases
<1>2. UNCHANGED <<store, run, ini, leases, wallet, txs, mishaps>>
  BY DEF ResponderReleases, chain
<1>3. \A k \in net' : k.run \in Runs BY <1>0 DEF ResponderReleases, Answer, Message, Types
<1>4. post \in Books BY <1>0, RunFields, UnchargedBooks
<1> HIDE DEF r, post
<1>5. Half("w5", post) \in RspHalf BY <1>4, HalfIs DEF RspPc, RspWaits
<1>6. rsp' \in [Runs -> RspHalf] BY <1>0, <1>1, <1>5, RspStep
<1>7. r # 0 BY <1>0 DEF Runs
<1>8. slot' \in [Parties -> Runs \cup {0}] /\ \A p \in Parties : slot[p] # 0 => slot'[p] # 0
  BY <1>0, <1>1, <1>7 DEF Types
<1>9. Types' BY <1>0, <1>2, <1>3, <1>6, <1>8 DEF Types
<1>10. Ready' BY <1>0, <1>2, <1>8, RunFields DEF Ready, Caller
<1> QED BY <1>9, <1>10 DEF TR

LEMMA CallerStoresTypes ==
  ASSUME TR, NEW m \in net, CallerStoresWithdrawal(m)
  PROVE  TR'
<1> DEFINE r == m.run
           h == [ini[r] EXCEPT !.pc = "save"]
<1>0. r \in Runs /\ Types /\ Ready BY DEF TR, Types
<1>1. IniGoes(r, h) /\ slot' = [slot EXCEPT ![Caller(r)] = r] BY DEF CallerStoresWithdrawal
<1>2. UNCHANGED <<store, run, rsp, leases, wallet, txs, mishaps>> /\ net' \subseteq net
  BY DEF CallerStoresWithdrawal, chain
<1>3. h \in IniHalf /\ h.pc = "save" BY <1>0, RunFields DEF IniHalf, IniPc
<1> HIDE DEF r, h
<1>4. /\ ini' \in [Runs -> IniHalf] /\ ini'[r].pc = "save"
      /\ \A s \in Runs \ {r} : ini'[s] = ini[s]
  BY <1>0, <1>1, <1>3, IniStep
<1>5. r # 0 /\ Caller(r) \in Parties BY <1>0, RunFields DEF Runs
<1>6. /\ slot' \in [Parties -> Runs \cup {0}] /\ slot'[Caller(r)] # 0
      /\ \A p \in Parties : slot[p] # 0 => slot'[p] # 0
  BY <1>0, <1>1, <1>5 DEF Types
<1>7. Types' BY <1>0, <1>2, <1>4, <1>6 DEF Types
<1>8. Ready' BY <1>0, <1>2, <1>4, <1>6, ReadyStep
<1> QED BY <1>7, <1>8 DEF TR

LEMMA CallerSavesTypes ==
  ASSUME TR, NEW r \in Runs, CallerSaves(r)
  PROVE  TR'
<1> DEFINE post == ini[r].post
<1>0. Types /\ Ready /\ ini[r].pc = "save" BY DEF TR, CallerSaves
<1>1. Persist(Caller(r), post) /\ IniGoes(r, Half("submit", Opening)) BY DEF CallerSaves
<1>2. UNCHANGED <<run, rsp, net, leases, slot, wallet, txs, mishaps>>
  BY DEF CallerSaves, chain
<1>3. post \in Books /\ Caller(r) \in Parties BY <1>0, RunFields
<1> HIDE DEF post
<1>4. store' \in [Parties -> Books] BY <1>0, <1>1, <1>3, StoreStep
<1>5. Half("submit", Opening) \in IniHalf /\ Half("submit", Opening).pc = "submit"
  BY HalfIs, OpeningBooks DEF IniPc
<1>6. /\ ini' \in [Runs -> IniHalf] /\ ini'[r].pc = "submit"
      /\ \A s \in Runs \ {r} : ini'[s] = ini[s]
  BY <1>0, <1>1, <1>5, IniStep
<1>7. Types' BY <1>0, <1>2, <1>4, <1>6 DEF Types
<1>8. Ready' BY <1>0, <1>2, <1>6, ReadyStep DEF Ready
<1> QED BY <1>7, <1>8 DEF TR

LEMMA WithdrawalReturnsTypes ==
  ASSUME TR, NEW r \in Runs, WithdrawalReturns(r)
  PROVE  TR'
<1> DEFINE w == slot[Caller(r)]
           t == Transaction(w, "withdrawal", 0, run[w].amount)
<1>0. Types /\ Ready /\ ini[r].pc = "submit" BY DEF TR, WithdrawalReturns
<1>1. txs' = txs \cup {t} /\ Leave(r, "returned") BY DEF WithdrawalReturns
<1>2. UNCHANGED <<store, run, rsp, net, slot, wallet, mishaps>> BY DEF WithdrawalReturns
<1>3. w \in Runs BY <1>0, RunFields DEF Types, Ready
<1> HIDE DEF w
<1>4. t \in Tx BY <1>0, <1>3, RunFields DEF Transaction, Tx
<1> HIDE DEF t
<1>5. txs' \in SUBSET Tx /\ IsFiniteSet(txs') BY <1>0, <1>1, <1>4, FS_AddElement DEF Types
<1>6. /\ ini' \in [Runs -> IniHalf] /\ ini'[r].pc = "returned"
      /\ \A s \in Runs \ {r} : ini'[s] = ini[s]
      /\ leases' \in SUBSET Runs
  BY <1>0, <1>1, LeaveStep DEF Ends
<1>7. Types' BY <1>0, <1>2, <1>5, <1>6 DEF Types
<1>8. Ready' BY <1>0, <1>2, <1>6, ReadyStep
<1> QED BY <1>7, <1>8 DEF TR

LEMMA MineTypes ==
  ASSUME TR, NEW t \in txs, Mine(t)
  PROVE  TR'
<1>0. Types /\ Ready BY DEF TR
<1>1. t \in Tx /\ t.amount \in Nat /\ t.run \in Runs BY <1>0 DEF Types, Tx
<1>2. UNCHANGED <<store, run, ini, rsp, net, leases, slot>> BY DEF Mine
<1>3. txs' = txs \ {t} BY DEF Mine, MineDeposit, MineWithdrawal, RevertWithdrawal
<1>4. txs' \in SUBSET Tx /\ IsFiniteSet(txs')
  <2>1. txs' \in SUBSET txs BY <1>3
  <2> QED BY <1>0, <2>1, FS_Subset DEF Types
<1>5. mishaps' \in SUBSET {"raced", "renamed", "crashed"}
  BY <1>0 DEF Types, Mine, MineDeposit, MineWithdrawal, RevertWithdrawal
<1>6. wallet' \in Wallet
  <2>1. CASE MineDeposit(t)
    <3>1. wallet' = [wallet EXCEPT !.balance = wallet.balance + t.amount]
      BY <2>1, Zenon DEF MineDeposit
    <3>2. wallet.balance + t.amount \in Nat BY <1>0, <1>1, WalletFields
    <3> QED BY <1>0, <3>1, <3>2 DEF Types, Wallet
  <2>2. CASE MineWithdrawal(t)
    <3> DEFINE x == [to |-> run[t.run].by, amount |-> t.amount]
    <3>1. wallet' = [wallet EXCEPT !.balance = wallet.balance - t.amount,
                                   !.executed = wallet.executed \cup {x}]
      BY <2>2, Zenon DEF MineWithdrawal
    <3>2. wallet.balance - t.amount \in Nat
      BY <1>0, <1>1, <2>2, WalletFields DEF MineWithdrawal
    <3>3. x \in [to : Parties, amount : Nat] BY <1>0, <1>1, RunFields
    <3> HIDE DEF x
    <3>4. wallet.executed \cup {x} \in SUBSET [to : Parties, amount : Nat]
      BY <1>0, <3>3, WalletFields
    <3> QED BY <1>0, <3>1, <3>2, <3>4 DEF Types, Wallet
  <2>3. CASE RevertWithdrawal(t)
    <3>1. wallet' = [wallet EXCEPT !.reverted = wallet.reverted + t.amount]
      BY <2>3, Zenon DEF RevertWithdrawal
    <3>2. wallet.reverted + t.amount \in Nat BY <1>0, <1>1, WalletFields
    <3> QED BY <1>0, <3>1, <3>2 DEF Types, Wallet
  <2> QED BY <2>1, <2>2, <2>3 DEF Mine
<1>7. Types' BY <1>0, <1>2, <1>4, <1>5, <1>6 DEF Types
<1>8. Ready' BY <1>0, <1>2 DEF Ready, Caller
<1> QED BY <1>7, <1>8 DEF TR

LEMMA BothTypes ==
  ASSUME TR, NEW c \in Books, BothHave(c)
  PROVE  TR'
<1>1. store' \in [Parties -> Books] BY DEF BothHave
<1>2. UNCHANGED <<run, ini, rsp, net, leases, slot, wallet, txs, mishaps>>
  BY DEF BothHave, chain
<1>3. Types' BY <1>1, <1>2 DEF TR, Types
<1>4. Ready' BY <1>2 DEF TR, Ready, Caller
<1> QED BY <1>3, <1>4 DEF TR

\* The channel with one proposal more.
Proposed(c, p, pot) ==
  [c EXCEPT !.np = @ + 1,
            !.props = @ \cup {[id |-> c.np + 1, by |-> p, pot |-> pot]}]

LEMMA ProposedIs ==
  ASSUME NEW c \in Books, NEW p \in Parties, NEW pot \in Nat
  PROVE  LET d == Proposed(c, p, pot)
         IN  /\ d \in Books /\ d.np = c.np + 1 /\ d.apps = c.apps /\ d.bal = c.bal
             /\ d.ver = c.ver
             /\ d.props = c.props \cup {[id |-> c.np + 1, by |-> p, pot |-> pot]}
<1> DEFINE x == [id |-> c.np + 1, by |-> p, pot |-> pot]
           ps == c.props \cup {x}
           as == c.apps
           bs == c.bal
           d == Proposed(c, p, pot)
           rec == [np |-> c.np + 1, props |-> ps, apps |-> as, ver |-> c.ver, bal |-> bs]
<1>1. c.bal \in [Parties -> Nat] /\ c.np \in Nat /\ c.ver \in Nat /\ c.np + 1 \in Nat
  BY BooksFields
<1>2. x \in Proposal BY <1>1 DEF Proposal
<1>3. ps \in SUBSET Proposal /\ as \in SUBSET App /\ IsFiniteSet(as) BY <1>2, BooksFields
<1>4. d = rec
  <2>1. c = [np |-> c.np, props |-> c.props, apps |-> c.apps, ver |-> c.ver,
             bal |-> c.bal]
    BY BooksFields
  <2>2. d = [c EXCEPT !.np = c.np + 1, !.props = ps] BY <2>1, Zenon DEF Proposed
  <2> HIDE DEF ps, d
  <2> QED BY <2>1, <2>2
<1> HIDE DEF ps, as, bs, d
<1>5. /\ d \in Books /\ d.np = c.np + 1 /\ d.props = ps /\ d.apps = as
      /\ d.ver = c.ver /\ d.bal = bs
  BY ONLY <1>1, <1>3, <1>4 DEF bs, rec, Books, Channel
<1> QED BY <1>5 DEF ps, as, bs, d

\* The app that installs proposal q.
AppOf(q) == [id |-> q.id, kind |-> "app", by |-> q.by, pot |-> q.pot, threshold |-> 0]

LEMMA AppOfIs ==
  ASSUME NEW q \in Proposal
  PROVE  /\ AppOf(q) \in App /\ AppOf(q).id = q.id /\ AppOf(q).kind = "app"
         /\ AppOf(q).by = q.by /\ AppOf(q).pot = q.pot /\ q.by \in Parties /\ q.pot \in Nat
BY DEF AppOf, App, Proposal, Kinds

LEMMA ProposeAppTypes ==
  ASSUME TR, NEW p \in Parties, NEW pot \in Amounts, ProposeApp(p, pot)
  PROVE  TR'
<1>1. store[p] \in Books /\ pot \in Nat BY FundingConstants DEF TR, Types
<1>2. BothHave(Proposed(store[p], p, pot)) BY DEF ProposeApp, Proposed
<1>3. Proposed(store[p], p, pot) \in Books BY <1>1, ProposedIs
<1> QED BY <1>2, <1>3, BothTypes

LEMMA InstallAppTypes ==
  ASSUME TR, NEW q \in store[Alice].props, InstallApp(q)
  PROVE  TR'
<1>1. q \in Proposal BY Couple, BooksFields DEF TR, Types
<1>2. store[q.by] \in Books BY <1>1 DEF TR, Types, Proposal
<1>3. BothHave(InstallAs(store[q.by], AppOf(q))) BY DEF InstallApp, AppOf
<1>4. q.pot <= store[q.by].bal[q.by] BY DEF InstallApp, CanCharge
<1>5. InstallAs(store[q.by], AppOf(q)) \in Books BY <1>1, <1>2, <1>4, AppOfIs, InstallAsIs
<1> QED BY <1>3, <1>5, BothTypes

LEMMA UninstallAppTypes ==
  ASSUME TR, NEW p \in Parties, NEW a \in store[Alice].apps, UninstallApp(a, p)
  PROVE  TR'
<1>1. a \in App BY Couple, BooksFields DEF TR, Types
<1>2. a.pot \in Nat /\ store[p] \in Books BY <1>1 DEF TR, Types, App
<1>3. BothHave(Uninstall(store[p], a.id, p, a.pot)) BY DEF UninstallApp
<1>4. Uninstall(store[p], a.id, p, a.pot) \in Books BY <1>2, UninstallIs
<1> QED BY <1>3, <1>4, BothTypes

LEMMA RefuseTypes ==
  ASSUME TR, NEW m \in net, Refuse(m)
  PROVE  TR'
<1> DEFINE r == m.run
<1>0. r \in Runs /\ Types BY DEF TR, Types
<1>1. UNCHANGED <<store, run, slot, wallet, txs, mishaps>> /\ net' \subseteq net
  BY DEF Refuse, chain
<1>2. Leave(r, "threw") \/ UNCHANGED <<ini, leases>> BY DEF Refuse
<1>3. RspGoes(r, Half("done", Opening)) \/ UNCHANGED rsp BY DEF Refuse
<1> HIDE DEF r
<1>4. rsp' \in [Runs -> RspHalf]
  <2>1. Half("done", Opening) \in RspHalf BY HalfIs, OpeningBooks DEF RspPc
  <2> QED BY <1>0, <1>3, <2>1, RspStep DEF Types
<1>5. /\ ini' \in [Runs -> IniHalf] /\ \A s \in Runs \ {r} : ini'[s] = ini[s]
      /\ ini'[r] = ini[r] \/ ini'[r].pc \notin {"send", "save", "submit"}
      /\ leases' \in SUBSET Runs
  <2>1. CASE Leave(r, "threw") BY <1>0, <2>1, LeaveStep DEF Ends
  <2>2. CASE UNCHANGED <<ini, leases>> BY <1>0, <2>2 DEF Types
  <2> QED BY <1>2, <2>1, <2>2
<1> QED BY <1>0, <1>1, <1>4, <1>5, RunTypes DEF Types

LEMMA ThrowTypes ==
  ASSUME TR, NEW r \in Runs,
         WithdrawalThrows(r) \/ UninstallThrows(r) \/ CallerTimesOut(r)
  PROVE  TR'
<1>1. Leave(r, "threw") BY DEF WithdrawalThrows, UninstallThrows, CallerTimesOut
<1>2. UNCHANGED <<store, run, rsp, net, slot, wallet, txs, mishaps>>
  BY DEF WithdrawalThrows, UninstallThrows, CallerTimesOut, chain
<1> QED BY <1>1, <1>2, LeaveTypes DEF Ends

LEMMA ResponderTimesOutTypes ==
  ASSUME TR, NEW r \in Runs, ResponderTimesOut(r)
  PROVE  TR'
<1>0. Types BY DEF TR
<1>1. Half("done", Opening) \in RspHalf BY HalfIs, OpeningBooks DEF RspPc
<1>2. rsp' \in [Runs -> RspHalf] BY <1>0, <1>1, RspStep DEF ResponderTimesOut
<1>3. UNCHANGED <<store, run, ini, net, leases, slot, wallet, txs, mishaps>>
  BY DEF ResponderTimesOut, chain
<1> QED BY <1>0, <1>2, <1>3, RunTypes DEF Types

LEMMA LoseTypes ==
  ASSUME TR, NEW m \in net, Lose(m)
  PROVE  TR'
<1>1. UNCHANGED <<store, run, ini, rsp, leases, slot, wallet, txs, mishaps>> /\ net' \subseteq net
  BY DEF Lose, chain
<1>2. m.run \in Runs /\ Types BY DEF TR, Types
<1> QED BY <1>1, <1>2, RunTypes DEF Types

LEMMA CrashTypes ==
  ASSUME TR, NEW p \in Parties, Crash(p)
  PROVE  TR'
<1>0. Types /\ Ready BY DEF TR
<1>1. Half("crashed", Opening) \in IniHalf /\ Half("crashed", Opening).pc = "crashed"
      /\ Half("done", Opening) \in RspHalf
  BY HalfIs, OpeningBooks DEF IniPc, Ends, RspPc
<1>2. ini' = [r \in Runs |-> IF Caller(r) = p /\ (IniGoing(r) \/ ini[r].pc = "queued")
                               THEN Half("crashed", Opening) ELSE ini[r]]
  BY DEF Crash
<1>3. rsp' = [r \in Runs |-> IF Responder(r) = p /\ rsp[r].pc \in RspWaits
                               THEN Half("done", Opening) ELSE rsp[r]]
  BY DEF Crash
<1>4. UNCHANGED <<store, run, net, leases, slot, wallet, txs>>
      /\ mishaps' \in SUBSET {"raced", "renamed", "crashed"}
  BY <1>0 DEF Crash, chain, Types
<1> DEFINE h == Half("crashed", Opening)
           k == Half("done", Opening)
<1> HIDE DEF h, k
<1>5. ini' \in [Runs -> IniHalf] /\ \A r \in Runs : ini'[r] = ini[r] \/ ini'[r].pc = "crashed"
  BY <1>0, <1>1, <1>2 DEF Types, h
<1>6. rsp' \in [Runs -> RspHalf] BY <1>0, <1>1, <1>3 DEF Types, k
<1>7. Types' BY <1>0, <1>4, <1>5, <1>6 DEF Types
<1>8. Ready' BY <1>0, <1>4, <1>5 DEF Ready, Caller
<1> QED BY <1>7, <1>8 DEF TR

LEMMA LeaseExpiresTypes ==
  ASSUME TR, NEW r \in Runs, LeaseExpires(r)
  PROVE  TR'
<1>1. UNCHANGED <<store, run, ini, rsp, net, slot, wallet, txs, mishaps>>
      /\ leases' \subseteq leases
  BY DEF LeaseExpires, chain
<1> QED BY <1>1, RunTypes DEF TR, Types

LEMMA NextTypes ==
  ASSUME TR, [Next]_vars
  PROVE  TR'
<1>1. CASE Ask
  BY <1>1, CallTypes, ProposeAppTypes, InstallAppTypes, UninstallAppTypes DEF Ask
<1>2. ASSUME NEW r \in Runs, Proceed(r) PROVE TR'
  BY <1>2, DepositBeginsTypes, WithdrawalBeginsTypes, ThrowTypes, SendTransactionTypes,
     SendThrowsTypes, UninstallBeginsTypes, CallerSavesTypes, WithdrawalReturnsTypes
  DEF Proceed
<1>3. ASSUME NEW r \in Runs, TimesOut(r) PROVE TR'
  BY <1>3, ThrowTypes, ResponderTimesOutTypes, LeaseExpiresTypes DEF TimesOut
<1>4. ASSUME NEW m \in net, Handle(m) PROVE TR'
  <2>1. "i3" \in RspWaits /\ "w3" \in RspWaits BY DEF RspWaits
  <2>2. CASE ResponderSigns(m, "i1", "i2", "i3") \/ ResponderSigns(m, "w1", "w2", "w3")
    BY <2>1, <2>2, ResponderSignsTypes
  <2> QED
    BY <1>4, <2>2, CallerInstallsTypes, ResponderInstallsTypes, DepositInstalledTypes,
       ResponderUninstallsTypes, DepositReturnsTypes, CallerChargesTypes,
       ResponderReleasesTypes, CallerSettlesTypes, ResponderSettlesTypes,
       CallerStoresTypes, RefuseTypes
    DEF Handle
<1>5. CASE UNCHANGED vars
  <2>1. Types' BY <1>5 DEF TR, Types, vars, chain
  <2>2. Ready' BY <1>5 DEF TR, Ready, vars, chain, Caller
  <2> QED BY <2>1, <2>2 DEF TR
<1> QED BY <1>1, <1>2, <1>3, <1>4, <1>5, LoseTypes, MineTypes, CrashTypes DEF Next, Step

LEMMA InitTypes == Init => TR
<1> SUFFICES ASSUME Init PROVE TR OBVIOUS
<1>1. Opening \in Books BY OpeningBooks
<1>2. Half("idle", Opening) \in IniHalf /\ Half("idle", Opening) \in RspHalf
      /\ Half("idle", Opening).pc = "idle"
  BY <1>1, HalfIs DEF IniPc, RspPc
<1>3. store \in [Parties -> Books] BY <1>1 DEF Init
<1>4. run \in [Runs -> Run] BY Couple DEF Init, Run
<1>5. ini \in [Runs -> IniHalf] /\ rsp \in [Runs -> RspHalf] /\ \A r \in Runs : ini[r].pc = "idle"
  BY <1>2 DEF Init
<1>6. wallet \in Wallet
  <2>1. Worth(Opening) \in Nat BY <1>1, WorthIs
  <2> QED BY <2>1 DEF Init, Wallet
<1>7. txs \in SUBSET Tx /\ IsFiniteSet(txs) BY FS_EmptySet DEF Init
<1>8. /\ slot \in [Parties -> Runs \cup {0}] /\ net = {} /\ leases \in SUBSET Runs
      /\ mishaps \in SUBSET {"raced", "renamed", "crashed"}
  BY DEF Init
<1>9. Types BY <1>3, <1>4, <1>5, <1>6, <1>7, <1>8 DEF Types
<1>10. Ready BY <1>5 DEF Ready
<1> QED BY <1>9, <1>10 DEF TR

LEMMA TypesInvariance == Spec => []TR
<1> QED BY InitTypes, NextTypes, PTL DEF Spec

-----------------------------------------------------------------------------
(* What each step does.                                                     *)

IniTo(r, pc, post) ==
  ini'[r].pc = pc /\ ini'[r].post = post /\ \A s \in Runs \ {r} : ini'[s] = ini[s]

RspTo(r, pc, post) ==
  rsp'[r].pc = pc /\ rsp'[r].post = post /\ \A s \in Runs \ {r} : rsp'[s] = rsp[s]

StoreTo(p, c) == store'[p] = c /\ \A q \in Parties \ {p} : store'[q] = store[q]

\* Message m is taken, and another sent.
NetTo(m, n, to, sigs) == net' = (net \ {m}) \cup {Message(m.run, n, to, sigs)}

LEMMA MessageIs ==
  ASSUME NEW r, NEW n, NEW to, NEW sigs
  PROVE  /\ Message(r, n, to, sigs).run = r /\ Message(r, n, to, sigs).n = n
         /\ Message(r, n, to, sigs).to = to /\ Message(r, n, to, sigs).sigs = sigs
BY DEF Message

LEMMA IniGoesTo ==
  ASSUME Types, NEW r \in Runs, NEW pc, NEW post, IniGoes(r, Half(pc, post))
  PROVE  IniTo(r, pc, post)
<1> DEFINE h == Half(pc, post)
<1>1. h.pc = pc /\ h.post = post BY DEF Half
<1> HIDE DEF h
<1>2. ini' = [ini EXCEPT ![r] = h] BY DEF IniGoes, h
<1>3. ini'[r] = h /\ \A s \in Runs \ {r} : ini'[s] = ini[s] BY <1>2 DEF Types
<1> QED BY <1>1, <1>3 DEF IniTo

LEMMA RspGoesTo ==
  ASSUME Types, NEW r \in Runs, NEW pc, NEW post, RspGoes(r, Half(pc, post))
  PROVE  RspTo(r, pc, post)
<1> DEFINE h == Half(pc, post)
<1>1. h.pc = pc /\ h.post = post BY DEF Half
<1> HIDE DEF h
<1>2. rsp' = [rsp EXCEPT ![r] = h] BY DEF RspGoes, h
<1>3. rsp'[r] = h /\ \A s \in Runs \ {r} : rsp'[s] = rsp[s] BY <1>2 DEF Types
<1> QED BY <1>1, <1>3 DEF RspTo

LEMMA PersistTo ==
  ASSUME Types, NEW p \in Parties, NEW c, Persist(p, c)
  PROVE  StoreTo(p, c)
BY DEF Types, Persist, StoreTo

LEMMA LeaveTo ==
  ASSUME Types, NEW r \in Runs, NEW how, Leave(r, how)
  PROVE  IniTo(r, how, Opening) /\ leases' = leases \ {r}
BY IniGoesTo DEF Leave

LEMMA NetRuns ==
  ASSUME Types, NEW m \in net
  PROVE  m.run \in Runs /\ Caller(m.run) \in Parties /\ Responder(m.run) \in Parties
BY RunFields DEF Types


LEMMA ResponderSignsDoes ==
  ASSUME TR, NEW m \in net, NEW first, NEW answer, NEW wait,
         ResponderSigns(m, first, answer, wait)
  PROVE  LET post == RefundAppAtResponder(m.run)
         IN  /\ m.n = first /\ CanSign(m)
             /\ RspTo(m.run, wait, post)
             /\ NetTo(m, answer, Caller(m.run), {Conditional(post), FreeBalance(post)})
             /\ UNCHANGED <<store, run, ini, leases, slot, wallet, txs, mishaps>>
<1> DEFINE post == RefundAppAtResponder(m.run)
<1>0. Types /\ m.run \in Runs BY NetRuns DEF TR
<1>1. m.n = first /\ CanSign(m) BY DEF ResponderSigns
<1>2. RspGoes(m.run, Half(wait, post)) BY DEF ResponderSigns
<1>3. RspTo(m.run, wait, post) BY <1>0, <1>2, RspGoesTo
<1>4. NetTo(m, answer, Caller(m.run), {Conditional(post), FreeBalance(post)})
  BY DEF ResponderSigns, Answer, NetTo
<1>5. UNCHANGED <<store, run, ini, leases, slot, wallet, txs, mishaps>>
  BY DEF ResponderSigns, chain
<1> QED BY <1>1, <1>3, <1>4, <1>5

LEMMA CallerInstallsDoes ==
  ASSUME TR, NEW m \in net, CallerInstalls(m)
  PROVE  /\ m.n = "i2"
         /\ ini[m.run].pc = "i2"
         /\ Valid(m)
         /\ IniTo(m.run, "i4", ini[m.run].post)
         /\ StoreTo(Caller(m.run), ini[m.run].post)
         /\ NetTo(m, "i3", Responder(m.run), {FreeBalance(ini[m.run].post)})
         /\ UNCHANGED <<run, rsp, leases, slot, wallet, txs, mishaps>>
<1>0. Types /\ m.run \in Runs /\ Caller(m.run) \in Parties /\ Responder(m.run) \in Parties
  BY RunFields, NetRuns DEF TR
<1>1. m.n = "i2" /\ ini[m.run].pc = "i2" /\ Valid(m)
  BY DEF CallerInstalls, Handles, Awaited, IniWaits, RspWaits, Confirmed
<1>2. IniGoes(m.run, Half("i4", ini[m.run].post))
  BY DEF CallerInstalls
<1>3. IniTo(m.run, "i4", ini[m.run].post)
  BY <1>0, <1>2, IniGoesTo
<1>4. Persist(Caller(m.run), ini[m.run].post)
  BY DEF CallerInstalls
<1>5. StoreTo(Caller(m.run), ini[m.run].post)
  BY <1>0, <1>4, PersistTo
<1>6. NetTo(m, "i3", Responder(m.run), {FreeBalance(ini[m.run].post)})
  BY DEF CallerInstalls, Answer, NetTo
<1>7. UNCHANGED <<run, rsp, leases, slot, wallet, txs, mishaps>>
  BY DEF CallerInstalls, chain
<1> QED BY <1>1, <1>3, <1>5, <1>6, <1>7

LEMMA ResponderInstallsDoes ==
  ASSUME TR, NEW m \in net, ResponderInstalls(m)
  PROVE  /\ m.n = "i3"
         /\ rsp[m.run].pc = "i3"
         /\ Valid(m)
         /\ RspTo(m.run, "done", Opening)
         /\ StoreTo(Responder(m.run), rsp[m.run].post)
         /\ NetTo(m, "i4", Caller(m.run), {})
         /\ UNCHANGED <<run, ini, leases, slot, wallet, txs, mishaps>>
<1>0. Types /\ m.run \in Runs /\ Caller(m.run) \in Parties /\ Responder(m.run) \in Parties
  BY RunFields, NetRuns DEF TR
<1>1. m.n = "i3" /\ rsp[m.run].pc = "i3" /\ Valid(m)
  BY DEF ResponderInstalls, Handles, Awaited, IniWaits, RspWaits, Confirmed
<1>2. RspGoes(m.run, Half("done", Opening))
  BY DEF ResponderInstalls
<1>3. RspTo(m.run, "done", Opening)
  BY <1>0, <1>2, RspGoesTo
<1>4. Persist(Responder(m.run), rsp[m.run].post)
  BY DEF ResponderInstalls
<1>5. StoreTo(Responder(m.run), rsp[m.run].post)
  BY <1>0, <1>4, PersistTo
<1>6. NetTo(m, "i4", Caller(m.run), {})
  BY DEF ResponderInstalls, Answer, NetTo
<1>7. UNCHANGED <<run, ini, leases, slot, wallet, txs, mishaps>>
  BY DEF ResponderInstalls, chain
<1> QED BY <1>1, <1>3, <1>5, <1>6, <1>7

LEMMA ResponderUninstallsDoes ==
  ASSUME TR, NEW m \in net, ResponderUninstalls(m)
  PROVE  /\ m.n = "u1"
         /\ CanCountersign(m)
         /\ RspTo(m.run, "done", Opening)
         /\ StoreTo(Responder(m.run), UninstalledAtResponder(m.run))
         /\ NetTo(m, "u2", Caller(m.run), {FreeBalance(UninstalledAtResponder(m.run))})
         /\ UNCHANGED <<run, ini, leases, slot, wallet, txs, mishaps>>
<1>0. Types /\ m.run \in Runs /\ Caller(m.run) \in Parties /\ Responder(m.run) \in Parties
  BY RunFields, NetRuns DEF TR
<1>1. m.n = "u1" /\ CanCountersign(m)
  BY DEF ResponderUninstalls, Handles, Awaited, IniWaits, RspWaits, Confirmed
<1>2. RspGoes(m.run, Half("done", Opening))
  BY DEF ResponderUninstalls
<1>3. RspTo(m.run, "done", Opening)
  BY <1>0, <1>2, RspGoesTo
<1>4. Persist(Responder(m.run), UninstalledAtResponder(m.run))
  BY DEF ResponderUninstalls
<1>5. StoreTo(Responder(m.run), UninstalledAtResponder(m.run))
  BY <1>0, <1>4, PersistTo
<1>6. NetTo(m, "u2", Caller(m.run), {FreeBalance(UninstalledAtResponder(m.run))})
  BY DEF ResponderUninstalls, Answer, NetTo
<1>7. UNCHANGED <<run, ini, leases, slot, wallet, txs, mishaps>>
  BY DEF ResponderUninstalls, chain
<1> QED BY <1>1, <1>3, <1>5, <1>6, <1>7

LEMMA DepositReturnsDoes ==
  ASSUME TR, NEW m \in net, DepositReturns(m)
  PROVE  /\ m.n = "u2"
         /\ ini[m.run].pc = "u2"
         /\ Valid(m)
         /\ IniTo(m.run, "returned", Opening)
         /\ leases' = leases \ {m.run}
         /\ StoreTo(Caller(m.run), ini[m.run].post)
         /\ net' = net \ {m}
         /\ UNCHANGED <<run, rsp, slot, wallet, txs, mishaps>>
<1>0. Types /\ m.run \in Runs /\ Caller(m.run) \in Parties /\ Responder(m.run) \in Parties
  BY RunFields, NetRuns DEF TR
<1>1. m.n = "u2" /\ ini[m.run].pc = "u2" /\ Valid(m)
  BY DEF DepositReturns, Handles, Awaited, IniWaits, RspWaits, Confirmed
<1>2. Leave(m.run, "returned")
  BY DEF DepositReturns
<1>3. IniTo(m.run, "returned", Opening) /\ leases' = leases \ {m.run}
  BY <1>0, <1>2, LeaveTo
<1>4. Persist(Caller(m.run), ini[m.run].post)
  BY DEF DepositReturns
<1>5. StoreTo(Caller(m.run), ini[m.run].post)
  BY <1>0, <1>4, PersistTo
<1>6. net' = net \ {m}
  BY DEF DepositReturns, Answer, NetTo
<1>7. UNCHANGED <<run, rsp, slot, wallet, txs, mishaps>>
  BY DEF DepositReturns, chain
<1> QED BY <1>1, <1>3, <1>5, <1>6, <1>7

LEMMA CallerChargesDoes ==
  ASSUME TR, NEW m \in net, CallerCharges(m)
  PROVE  /\ m.n = "w2"
         /\ ini[m.run].pc = "w2"
         /\ Valid(m)
         /\ IniTo(m.run, "w4", ini[m.run].post)
         /\ NetTo(m, "w3", Responder(m.run), {FreeBalance(ini[m.run].post), Withdrawal(m.run)})
         /\ UNCHANGED <<store, run, rsp, leases, slot, wallet, txs, mishaps>>
<1>0. Types /\ m.run \in Runs /\ Caller(m.run) \in Parties /\ Responder(m.run) \in Parties
  BY RunFields, NetRuns DEF TR
<1>1. m.n = "w2" /\ ini[m.run].pc = "w2" /\ Valid(m)
  BY DEF CallerCharges, Handles, Awaited, IniWaits, RspWaits, Confirmed
<1>2. IniGoes(m.run, Half("w4", ini[m.run].post))
  BY DEF CallerCharges
<1>3. IniTo(m.run, "w4", ini[m.run].post)
  BY <1>0, <1>2, IniGoesTo
<1>4. NetTo(m, "w3", Responder(m.run), {FreeBalance(ini[m.run].post), Withdrawal(m.run)})
  BY DEF CallerCharges, Answer, NetTo
<1>5. UNCHANGED <<store, run, rsp, leases, slot, wallet, txs, mishaps>>
  BY DEF CallerCharges, chain
<1> QED BY <1>1, <1>3, <1>4, <1>5

LEMMA ResponderReleasesDoes ==
  ASSUME TR, NEW m \in net, ResponderReleases(m)
  PROVE  /\ m.n = "w3"
         /\ rsp[m.run].pc = "w3"
         /\ Valid(m)
         /\ RspTo(m.run, "w5", Uncharged(m.run, rsp[m.run].post))
         /\ NetTo(m, "w4", Caller(m.run), {Withdrawal(m.run), FreeBalance(Uncharged(m.run, rsp[m.run].post))})
         /\ slot' = [slot EXCEPT ![Responder(m.run)] = m.run]
         /\ UNCHANGED <<store, run, ini, leases, wallet, txs, mishaps>>
<1>0. Types /\ m.run \in Runs /\ Caller(m.run) \in Parties /\ Responder(m.run) \in Parties
  BY RunFields, NetRuns DEF TR
<1>1. m.n = "w3" /\ rsp[m.run].pc = "w3" /\ Valid(m)
  BY DEF ResponderReleases, Handles, Awaited, IniWaits, RspWaits, Confirmed
<1>2. RspGoes(m.run, Half("w5", Uncharged(m.run, rsp[m.run].post)))
  BY DEF ResponderReleases
<1>3. RspTo(m.run, "w5", Uncharged(m.run, rsp[m.run].post))
  BY <1>0, <1>2, RspGoesTo
<1>4. NetTo(m, "w4", Caller(m.run), {Withdrawal(m.run), FreeBalance(Uncharged(m.run, rsp[m.run].post))})
  BY DEF ResponderReleases, Answer, NetTo
<1>5. slot' = [slot EXCEPT ![Responder(m.run)] = m.run]
  BY DEF ResponderReleases
<1>6. UNCHANGED <<store, run, ini, leases, wallet, txs, mishaps>>
  BY DEF ResponderReleases, chain
<1> QED BY <1>1, <1>3, <1>4, <1>5, <1>6

LEMMA CallerSettlesDoes ==
  ASSUME TR, NEW m \in net, CallerSettles(m)
  PROVE  /\ m.n = "w4"
         /\ ini[m.run].pc = "w4"
         /\ Valid(m)
         /\ IniTo(m.run, "w6", Uncharged(m.run, ini[m.run].post))
         /\ NetTo(m, "w5", Responder(m.run), {FreeBalance(Uncharged(m.run, ini[m.run].post))})
         /\ UNCHANGED <<store, run, rsp, leases, slot, wallet, txs, mishaps>>
<1>0. Types /\ m.run \in Runs /\ Caller(m.run) \in Parties /\ Responder(m.run) \in Parties
  BY RunFields, NetRuns DEF TR
<1>1. m.n = "w4" /\ ini[m.run].pc = "w4" /\ Valid(m)
  BY DEF CallerSettles, Handles, Awaited, IniWaits, RspWaits, Confirmed
<1>2. IniGoes(m.run, Half("w6", Uncharged(m.run, ini[m.run].post)))
  BY DEF CallerSettles
<1>3. IniTo(m.run, "w6", Uncharged(m.run, ini[m.run].post))
  BY <1>0, <1>2, IniGoesTo
<1>4. NetTo(m, "w5", Responder(m.run), {FreeBalance(Uncharged(m.run, ini[m.run].post))})
  BY DEF CallerSettles, Answer, NetTo
<1>5. UNCHANGED <<store, run, rsp, leases, slot, wallet, txs, mishaps>>
  BY DEF CallerSettles, chain
<1> QED BY <1>1, <1>3, <1>4, <1>5

LEMMA ResponderSettlesDoes ==
  ASSUME TR, NEW m \in net, ResponderSettles(m)
  PROVE  /\ m.n = "w5"
         /\ rsp[m.run].pc = "w5"
         /\ Valid(m)
         /\ RspTo(m.run, "done", Opening)
         /\ StoreTo(Responder(m.run), rsp[m.run].post)
         /\ NetTo(m, "w6", Caller(m.run), {})
         /\ UNCHANGED <<run, ini, leases, slot, wallet, txs, mishaps>>
<1>0. Types /\ m.run \in Runs /\ Caller(m.run) \in Parties /\ Responder(m.run) \in Parties
  BY RunFields, NetRuns DEF TR
<1>1. m.n = "w5" /\ rsp[m.run].pc = "w5" /\ Valid(m)
  BY DEF ResponderSettles, Handles, Awaited, IniWaits, RspWaits, Confirmed
<1>2. RspGoes(m.run, Half("done", Opening))
  BY DEF ResponderSettles
<1>3. RspTo(m.run, "done", Opening)
  BY <1>0, <1>2, RspGoesTo
<1>4. Persist(Responder(m.run), rsp[m.run].post)
  BY DEF ResponderSettles
<1>5. StoreTo(Responder(m.run), rsp[m.run].post)
  BY <1>0, <1>4, PersistTo
<1>6. NetTo(m, "w6", Caller(m.run), {})
  BY DEF ResponderSettles, Answer, NetTo
<1>7. UNCHANGED <<run, ini, leases, slot, wallet, txs, mishaps>>
  BY DEF ResponderSettles, chain
<1> QED BY <1>1, <1>3, <1>5, <1>6, <1>7

LEMMA CallerSavesDoes ==
  ASSUME TR, NEW r \in Runs, CallerSaves(r)
  PROVE  /\ ini[r].pc = "save"
         /\ IniTo(r, "submit", Opening)
         /\ StoreTo(Caller(r), ini[r].post)
         /\ UNCHANGED <<run, rsp, net, leases, slot, wallet, txs, mishaps>>
<1>0. Types /\ Caller(r) \in Parties BY RunFields DEF TR
<1>1. ini[r].pc = "save"
  BY DEF CallerSaves, Handles, Awaited, IniWaits, RspWaits, Confirmed
<1>2. IniGoes(r, Half("submit", Opening))
  BY DEF CallerSaves
<1>3. IniTo(r, "submit", Opening)
  BY <1>0, <1>2, IniGoesTo
<1>4. Persist(Caller(r), ini[r].post)
  BY DEF CallerSaves
<1>5. StoreTo(Caller(r), ini[r].post)
  BY <1>0, <1>4, PersistTo
<1>6. UNCHANGED <<run, rsp, net, leases, slot, wallet, txs, mishaps>>
  BY DEF CallerSaves, chain
<1> QED BY <1>1, <1>3, <1>5, <1>6

LEMMA UninstallThrowsDoes ==
  ASSUME TR, NEW r \in Runs, UninstallThrows(r)
  PROVE  /\ ini[r].pc = "mine"
         /\ ~CanUninstall(store[Caller(r)])
         /\ IniTo(r, "threw", Opening)
         /\ leases' = leases \ {r}
         /\ UNCHANGED <<store, run, rsp, net, slot, wallet, txs, mishaps>>
<1>0. Types /\ Caller(r) \in Parties BY RunFields DEF TR
<1>1. ini[r].pc = "mine" /\ ~CanUninstall(store[Caller(r)])
  BY DEF UninstallThrows, Handles, Awaited, IniWaits, RspWaits, Confirmed
<1>2. Leave(r, "threw")
  BY DEF UninstallThrows
<1>3. IniTo(r, "threw", Opening) /\ leases' = leases \ {r}
  BY <1>0, <1>2, LeaveTo
<1>4. UNCHANGED <<store, run, rsp, net, slot, wallet, txs, mishaps>>
  BY DEF UninstallThrows, chain
<1> QED BY <1>1, <1>3, <1>4

LEMMA WithdrawalThrowsDoes ==
  ASSUME TR, NEW r \in Runs, WithdrawalThrows(r)
  PROVE  /\ ini[r].pc = "queued"
         /\ run[r].call # "deposit"
         /\ (LockNames(run[r].call) => leases = {})
         /\ ~CanCharge(store[Caller(r)], Caller(r), run[r].amount)
         /\ IniTo(r, "threw", Opening)
         /\ leases' = leases \ {r}
         /\ UNCHANGED <<store, run, rsp, net, slot, wallet, txs, mishaps>>
<1>0. Types /\ Caller(r) \in Parties BY RunFields DEF TR
<1>1. ini[r].pc = "queued" /\ run[r].call # "deposit" /\ (LockNames(run[r].call) => leases = {}) /\ ~CanCharge(store[Caller(r)], Caller(r), run[r].amount)
  BY DEF WithdrawalThrows, Handles, Awaited, IniWaits, RspWaits, Confirmed
<1>2. Leave(r, "threw")
  BY DEF WithdrawalThrows
<1>3. IniTo(r, "threw", Opening) /\ leases' = leases \ {r}
  BY <1>0, <1>2, LeaveTo
<1>4. UNCHANGED <<store, run, rsp, net, slot, wallet, txs, mishaps>>
  BY DEF WithdrawalThrows, chain
<1> QED BY <1>1, <1>3, <1>4

LEMMA CallerTimesOutDoes ==
  ASSUME TR, NEW r \in Runs, CallerTimesOut(r)
  PROVE  /\ ini[r].pc \in IniWaits
         /\ Quiet(r)
         /\ IniTo(r, "threw", Opening)
         /\ leases' = leases \ {r}
         /\ UNCHANGED <<store, run, rsp, net, slot, wallet, txs, mishaps>>
<1>0. Types /\ Caller(r) \in Parties BY RunFields DEF TR
<1>1. ini[r].pc \in IniWaits /\ Quiet(r)
  BY DEF CallerTimesOut, Handles, Awaited, IniWaits, RspWaits, Confirmed
<1>2. Leave(r, "threw")
  BY DEF CallerTimesOut
<1>3. IniTo(r, "threw", Opening) /\ leases' = leases \ {r}
  BY <1>0, <1>2, LeaveTo
<1>4. UNCHANGED <<store, run, rsp, net, slot, wallet, txs, mishaps>>
  BY DEF CallerTimesOut, chain
<1> QED BY <1>1, <1>3, <1>4

LEMMA ResponderTimesOutDoes ==
  ASSUME TR, NEW r \in Runs, ResponderTimesOut(r)
  PROVE  /\ rsp[r].pc \in RspWaits
         /\ Quiet(r)
         /\ RspTo(r, "done", Opening)
         /\ UNCHANGED <<store, run, ini, net, leases, slot, wallet, txs, mishaps>>
<1>0. Types /\ Caller(r) \in Parties BY RunFields DEF TR
<1>1. rsp[r].pc \in RspWaits /\ Quiet(r)
  BY DEF ResponderTimesOut, Handles, Awaited, IniWaits, RspWaits, Confirmed
<1>2. RspGoes(r, Half("done", Opening))
  BY DEF ResponderTimesOut
<1>3. RspTo(r, "done", Opening)
  BY <1>0, <1>2, RspGoesTo
<1>4. UNCHANGED <<store, run, ini, net, leases, slot, wallet, txs, mishaps>>
  BY DEF ResponderTimesOut, chain
<1> QED BY <1>1, <1>3, <1>4

LEMMA WithdrawalReturnsDoes ==
  ASSUME TR, NEW r \in Runs, WithdrawalReturns(r)
  PROVE  /\ ini[r].pc = "submit"
         /\ IniTo(r, "returned", Opening)
         /\ leases' = leases \ {r}
         /\ txs' = txs \cup {Transaction(slot[Caller(r)], "withdrawal", 0, run[slot[Caller(r)]].amount)}
         /\ UNCHANGED <<store, run, rsp, net, slot, wallet, mishaps>>
<1>0. Types /\ Caller(r) \in Parties BY RunFields DEF TR
<1>1. ini[r].pc = "submit"
  BY DEF WithdrawalReturns, Handles, Awaited, IniWaits, RspWaits, Confirmed
<1>2. Leave(r, "returned")
  BY DEF WithdrawalReturns
<1>3. IniTo(r, "returned", Opening) /\ leases' = leases \ {r}
  BY <1>0, <1>2, LeaveTo
<1>4. txs' = txs \cup {Transaction(slot[Caller(r)], "withdrawal", 0, run[slot[Caller(r)]].amount)}
  BY DEF WithdrawalReturns
<1>5. UNCHANGED <<store, run, rsp, net, slot, wallet, mishaps>>
  BY DEF WithdrawalReturns, chain
<1> QED BY <1>1, <1>3, <1>4, <1>5

LEMMA UninstallBeginsDoes ==
  ASSUME TR, NEW r \in Runs, UninstallBegins(r)
  PROVE  LET a    == TheRefundApp(store[Caller(r)])
             post == Uninstall(store[Caller(r)], a.id, a.by, Outcome(a))
         IN  /\ Confirmed(r) /\ ini[r].pc = "mine" /\ CanUninstall(store[Caller(r)])
             /\ IniTo(r, "u2", post)
             /\ net' = net \cup {Message(r, "u1", Responder(r), {FreeBalance(post)})}
             /\ UNCHANGED <<store, run, rsp, leases, slot, wallet, txs, mishaps>>
<1> DEFINE a    == TheRefundApp(store[Caller(r)])
           post == Uninstall(store[Caller(r)], a.id, a.by, Outcome(a))
<1>1. Confirmed(r) /\ ini[r].pc = "mine" /\ CanUninstall(store[Caller(r)])
  BY DEF UninstallBegins, Confirmed
<1>2. IniGoes(r, Half("u2", post)) BY DEF UninstallBegins
<1>3. IniTo(r, "u2", post) BY <1>2, IniGoesTo DEF TR
<1>4. net' = net \cup {Message(r, "u1", Responder(r), {FreeBalance(post)})}
  BY DEF UninstallBegins
<1>5. UNCHANGED <<store, run, rsp, leases, slot, wallet, txs, mishaps>>
  BY DEF UninstallBegins, chain
<1> QED BY <1>1, <1>3, <1>4, <1>5

\* What the caller waits for after its first message.
FirstWait(n) == IF n = "i1" THEN "i2" ELSE "w2"

Renames(r) == IF NameTaken(store[Caller(r)]) THEN {"renamed"} ELSE {}

LEMMA BeginsDoes ==
  ASSUME TR, NEW r \in Runs, NEW post, NEW n, NEW t, Begins(r, post, n, t)
  PROVE  /\ ini[r].pc = "queued"
         /\ LockNames(run[r].call) => leases = {} /\ leases' = {r}
         /\ IniTo(r, FirstWait(n), post)
         /\ run' = [run EXCEPT ![r].threshold = t]
         /\ run'[r].by = run[r].by /\ run'[r].call = run[r].call
         /\ run'[r].amount = run[r].amount /\ run'[r].threshold = t
         /\ \A s \in Runs \ {r} : run'[s] = run[s]
         /\ net' = net \cup {Message(r, n, Responder(r), {Conditional(post)})}
         /\ mishaps' = mishaps \cup Renames(r)
         /\ UNCHANGED <<store, rsp, slot, wallet, txs>>
<1>1. IniGoes(r, Half(FirstWait(n), post)) BY DEF Begins, FirstWait
<1>2. IniTo(r, FirstWait(n), post) BY <1>1, IniGoesTo DEF TR
<1>3. run' = [run EXCEPT ![r].threshold = t] BY DEF Begins
<1>4. run \in [Runs -> Run] BY DEF TR, Types
<1>5. /\ run'[r].by = run[r].by /\ run'[r].call = run[r].call
      /\ run'[r].amount = run[r].amount /\ run'[r].threshold = t
      /\ \A s \in Runs \ {r} : run'[s] = run[s]
  BY <1>3, <1>4 DEF Run
<1>6. ini[r].pc = "queued" /\ (LockNames(run[r].call) => leases = {} /\ leases' = {r})
  BY DEF Begins
<1>7. /\ net' = net \cup {Message(r, n, Responder(r), {Conditional(post)})}
      /\ mishaps' = mishaps \cup Renames(r)
      /\ UNCHANGED <<store, rsp, slot, wallet, txs>>
  BY DEF Begins, chain, Renames
<1> QED BY <1>2, <1>3, <1>5, <1>6, <1>7

LEMMA CallDoes ==
  ASSUME TR, NEW r \in Runs, NEW p \in Parties, NEW call \in Calls, NEW amount \in Amounts,
         Call(r, p, call, amount)
  PROVE  /\ ini[r].pc = "idle" /\ IniTo(r, "queued", Opening)
         /\ run'[r].call = call /\ \A s \in Runs \ {r} : run'[s] = run[s]
         /\ UNCHANGED <<store, rsp, net, leases, slot, wallet, txs, mishaps>>
<1>1. IniGoes(r, Half("queued", Opening)) /\ ini[r].pc = "idle" BY DEF Call
<1>2. IniTo(r, "queued", Opening) BY <1>1, IniGoesTo DEF TR
<1> DEFINE new == [by |-> p, call |-> call, amount |-> amount, threshold |-> 0]
<1>3. run' = [run EXCEPT ![r] = new] /\ new.call = call BY DEF Call
<1> HIDE DEF new
<1>4. run'[r].call = call /\ \A s \in Runs \ {r} : run'[s] = run[s]
  BY <1>3 DEF TR, Types
<1>5. UNCHANGED <<store, rsp, net, leases, slot, wallet, txs, mishaps>> BY DEF Call, chain
<1> QED BY <1>1, <1>2, <1>4, <1>5

LEMMA DepositInstalledDoes ==
  ASSUME TR, NEW m \in net, DepositInstalled(m)
  PROVE  /\ m.n = "i4" /\ ini[m.run].pc = "i4"
         /\ IniTo(m.run, "send", Opening) /\ net' = net \ {m}
         /\ UNCHANGED <<store, run, rsp, leases, slot, wallet, txs, mishaps>>
<1> DEFINE h == [Half("send", Opening) EXCEPT !.tries = DEPOSIT_RETRY_COUNT]
<1>1. h.pc = "send" /\ h.post = Opening BY DEF Half
<1>2. ini' = [ini EXCEPT ![m.run] = h] BY DEF DepositInstalled, IniGoes
<1> HIDE DEF h
<1>3. IniTo(m.run, "send", Opening) BY <1>1, <1>2 DEF TR, Types, IniTo
<1>4. m.n = "i4" /\ ini[m.run].pc = "i4"
  BY DEF DepositInstalled, Handles, Awaited, IniWaits, RspWaits
<1>5. /\ net' = net \ {m}
      /\ UNCHANGED <<store, run, rsp, leases, slot, wallet, txs, mishaps>>
  BY DEF DepositInstalled, chain
<1> QED BY <1>3, <1>4, <1>5

LEMMA CallerStoresDoes ==
  ASSUME TR, NEW m \in net, CallerStoresWithdrawal(m)
  PROVE  /\ m.n = "w6" /\ ini[m.run].pc = "w6"
         /\ IniTo(m.run, "save", ini[m.run].post) /\ net' = net \ {m}
         /\ slot' = [slot EXCEPT ![Caller(m.run)] = m.run]
         /\ UNCHANGED <<store, run, rsp, leases, wallet, txs, mishaps>>
<1> DEFINE h == [ini[m.run] EXCEPT !.pc = "save"]
<1>0. m.run \in Runs BY DEF TR, Types
<1>1. h.pc = "save" /\ h.post = ini[m.run].post BY <1>0 DEF TR, Types, IniHalf
<1>2. ini' = [ini EXCEPT ![m.run] = h] BY DEF CallerStoresWithdrawal, IniGoes
<1> HIDE DEF h
<1>3. IniTo(m.run, "save", ini[m.run].post) BY <1>0, <1>1, <1>2 DEF TR, Types, IniTo
<1>4. m.n = "w6" /\ ini[m.run].pc = "w6"
  BY DEF CallerStoresWithdrawal, Handles, Awaited, IniWaits, RspWaits
<1>5. /\ net' = net \ {m} /\ slot' = [slot EXCEPT ![Caller(m.run)] = m.run]
      /\ UNCHANGED <<store, run, rsp, leases, wallet, txs, mishaps>>
  BY DEF CallerStoresWithdrawal, chain
<1> QED BY <1>3, <1>4, <1>5

LEMMA SendTransactionDoes ==
  ASSUME TR, NEW r \in Runs, SendTransaction(r)
  PROVE  /\ ini[r].pc = "send" /\ IniTo(r, "mine", ini[r].post)
         /\ ini'[r].tries = ini[r].tries
         /\ txs' = txs \cup {DepositTransaction(r)}
         /\ UNCHANGED <<store, run, rsp, net, leases, slot, wallet, mishaps>>
<1> DEFINE h == [ini[r] EXCEPT !.pc = "mine"]
<1>1. h.pc = "mine" /\ h.post = ini[r].post /\ h.tries = ini[r].tries
  BY DEF TR, Types, IniHalf
<1>2. ini' = [ini EXCEPT ![r] = h] BY DEF SendTransaction, IniGoes
<1> HIDE DEF h
<1>3. IniTo(r, "mine", ini[r].post) /\ ini'[r].tries = ini[r].tries
  BY <1>1, <1>2 DEF TR, Types, IniTo
<1>4. /\ ini[r].pc = "send" /\ txs' = txs \cup {DepositTransaction(r)}
      /\ UNCHANGED <<store, run, rsp, net, leases, slot, wallet, mishaps>>
  BY DEF SendTransaction
<1> QED BY <1>3, <1>4

LEMMA SendThrowsDoes ==
  ASSUME TR, NEW r \in Runs, SendThrows(r)
  PROVE  /\ "send" \in faults /\ ini[r].pc = "send"
         /\ txs' = txs \/ txs' = txs \cup {DepositTransaction(r)}
         /\ \/ IniTo(r, "threw", Opening) /\ leases' = leases \ {r}
            \/ IniTo(r, "send", ini[r].post) /\ UNCHANGED leases
         /\ UNCHANGED <<store, run, rsp, net, slot, wallet, mishaps>>
<1> DEFINE h == [ini[r] EXCEPT !.tries = @ - 1]
<1>1. h.pc = ini[r].pc /\ h.post = ini[r].post
  BY DEF TR, Types, IniHalf
<1>2. Leave(r, "threw") \/ (ini' = [ini EXCEPT ![r] = h] /\ UNCHANGED leases)
  BY DEF SendThrows, IniGoes
<1>3. /\ "send" \in faults /\ ini[r].pc = "send"
      /\ txs' = txs \/ txs' = txs \cup {DepositTransaction(r)}
      /\ UNCHANGED <<store, run, rsp, net, slot, wallet, mishaps>>
  BY DEF SendThrows
<1> HIDE DEF h
<1>4. CASE Leave(r, "threw") BY <1>3, <1>4, LeaveTo DEF TR
<1>5. CASE ini' = [ini EXCEPT ![r] = h] /\ UNCHANGED leases
  <2>1. IniTo(r, "send", ini[r].post) BY <1>1, <1>3, <1>5 DEF TR, Types, IniTo
  <2> QED BY <1>3, <1>5, <2>1
<1> QED BY <1>2, <1>4, <1>5

LEMMA RefuseDoes ==
  ASSUME TR, NEW m \in net, Refuse(m)
  PROVE  /\ Refused(m) /\ net' = net \ {m}
         /\ \/ IniTo(m.run, "threw", Opening) /\ leases' = leases \ {m.run}
               /\ ini[m.run].pc \in IniWaits
            \/ UNCHANGED <<ini, leases>>
         /\ (RspTo(m.run, "done", Opening) /\ rsp[m.run].pc \in RspWaits) \/ UNCHANGED rsp
         /\ UNCHANGED <<store, run, slot, wallet, txs, mishaps>>
<1>0. Types /\ m.run \in Runs BY NetRuns DEF TR
<1>1. \/ Leave(m.run, "threw") /\ Awaited(m) /\ m.n \in IniWaits
      \/ UNCHANGED <<ini, leases>>
  BY DEF Refuse
<1>2. \/ RspGoes(m.run, Half("done", Opening)) /\ Awaited(m) /\ m.n \in RspWaits
      \/ UNCHANGED rsp
  BY DEF Refuse
<1>3. \/ IniTo(m.run, "threw", Opening) /\ leases' = leases \ {m.run}
         /\ ini[m.run].pc \in IniWaits
      \/ UNCHANGED <<ini, leases>>
  <2>1. Awaited(m) /\ m.n \in IniWaits => ini[m.run].pc \in IniWaits
    BY DEF Awaited, IniWaits, RspWaits
  <2> QED BY <1>0, <1>1, <2>1, LeaveTo
<1>4. (RspTo(m.run, "done", Opening) /\ rsp[m.run].pc \in RspWaits) \/ UNCHANGED rsp
  <2>1. Awaited(m) /\ m.n \in RspWaits => rsp[m.run].pc \in RspWaits
    BY DEF Awaited, IniWaits, RspWaits
  <2> QED BY <1>0, <1>2, <2>1, RspGoesTo
<1>5. /\ Refused(m) /\ net' = net \ {m}
      /\ UNCHANGED <<store, run, slot, wallet, txs, mishaps>>
  BY DEF Refuse, chain
<1> QED BY <1>3, <1>4, <1>5

LEMMA CrashDoes ==
  ASSUME TR, NEW p \in Parties, Crash(p)
  PROVE  /\ "crash" \in faults
         /\ \A r \in Runs : \/ ini'[r] = ini[r]
                            \/ /\ ini'[r].pc = "crashed"
                               /\ IniGoing(r) \/ ini[r].pc = "queued"
         /\ \A r \in Runs : \/ rsp'[r] = rsp[r]
                            \/ rsp'[r].pc = "done" /\ rsp[r].pc \in RspWaits
         /\ UNCHANGED <<store, run, net, leases, slot, wallet, txs>>
         /\ mishaps' = mishaps \cup {"crashed"}
<1> DEFINE h == Half("crashed", Opening)
           k == Half("done", Opening)
<1>1. h.pc = "crashed" /\ k.pc = "done" BY DEF Half
<1>2. ini' = [r \in Runs |-> IF Caller(r) = p /\ (IniGoing(r) \/ ini[r].pc = "queued")
                               THEN h ELSE ini[r]]
  BY DEF Crash
<1>3. rsp' = [r \in Runs |-> IF Responder(r) = p /\ rsp[r].pc \in RspWaits
                               THEN k ELSE rsp[r]]
  BY DEF Crash
<1> HIDE DEF h, k
<1>4. \A r \in Runs : \/ ini'[r] = ini[r]
                      \/ /\ ini'[r].pc = "crashed"
                         /\ IniGoing(r) \/ ini[r].pc = "queued"
  BY <1>1, <1>2
<1>5. \A r \in Runs : \/ rsp'[r] = rsp[r]
                      \/ rsp'[r].pc = "done" /\ rsp[r].pc \in RspWaits
  BY <1>1, <1>3
<1>6. /\ "crash" \in faults /\ UNCHANGED <<store, run, net, leases, slot, wallet, txs>>
      /\ mishaps' = mishaps \cup {"crashed"}
  BY DEF Crash, chain
<1> QED BY <1>4, <1>5, <1>6

-----------------------------------------------------------------------------
(* The lock of the channel.                                                 *)

\* The regime of the theorems: the calls that take the lock of the channel, by
\* leases that last as long as their runs.
UnderLock ==
  /\ "withdraw" \notin Calls
  /\ \A F \in FaultCases : "expire" \notin F

Alone(r) == \A s \in Runs \ {r} : ini'[s] = ini[s] /\ rsp'[s] = rsp[s]

\* One run at a time holds it, and the messages on their way are one of that
\* run; none is while the caller does something by itself.
Lock ==
  /\ "expire" \notin faults /\ \A r \in Runs : run[r].call # "withdraw"
  /\ \A r, s \in leases : r = s
  /\ \A m, n \in net : m = n
  /\ \A m \in net : m.run \in leases
  /\ \A r \in Runs : IniGoing(r) => r \in leases
  /\ \A r \in Runs : ini[r].pc \in {"idle", "queued"} => rsp[r].pc = "idle" /\ r \notin leases
  /\ \A r \in Runs : ini[r].pc \in {"send", "mine", "save", "submit"} => net = {}

LEMMA LockedStep ==
  ASSUME TR, Lock, UNCHANGED <<faults, run>>, NEW r \in leases, Alone(r),
         leases' \subseteq leases, ini'[r].pc \notin {"idle", "queued"},
         IniGoing(r)' => r \in leases',
         \A m, n \in net' : m = n,
         \A m \in net' : m.run = r /\ r \in leases',
         ini'[r].pc \in {"send", "mine", "save", "submit"} => net' = {}
  PROVE  Lock'
<1>1. \A s \in Runs \ {r} : /\ s \notin leases /\ ~IniGoing(s)
                            /\ ini'[s] = ini[s] /\ rsp'[s] = rsp[s]
  BY DEF Lock, Alone
<1>2. \A s \in Runs \ {r} : ~IniGoing(s)' BY <1>1 DEF IniGoing
<1>3. \A s \in Runs : IniGoing(s)' => s \in leases' BY <1>2
<1>4. \A s \in Runs : ini'[s].pc \in {"idle", "queued"} => rsp'[s].pc = "idle" /\ s \notin leases'
  BY <1>1 DEF Lock
<1>5. \A s \in Runs : ini'[s].pc \in {"send", "mine", "save", "submit"} => net' = {}
  BY <1>1 DEF IniGoing
<1> QED BY <1>3, <1>4, <1>5 DEF Lock

LEMMA Holder ==
  ASSUME TR, Lock, NEW m \in net
  PROVE  /\ m.run \in leases /\ m.run \in Runs /\ leases = {m.run} /\ net = {m}
         /\ ini[m.run].pc \notin {"idle", "queued", "send", "mine", "save", "submit"}
BY DEF TR, Types, Lock

LEMMA HolderOf ==
  ASSUME TR, Lock, NEW r \in Runs, IniGoing(r)
  PROVE  r \in leases /\ leases = {r} /\ \A m \in net : m.run = r
BY DEF Lock

LEMMA HandlerLock ==
  ASSUME TR, Lock, UNCHANGED <<faults, run, leases>>, NEW m \in net,
         NEW n, NEW to, NEW sigs, NetTo(m, n, to, sigs), Alone(m.run),
         ini'[m.run] = ini[m.run] \/ ini'[m.run].pc \in IniWaits
  PROVE  Lock'
<1> DEFINE x == Message(m.run, n, to, sigs)
<1>1. /\ m.run \in leases /\ m.run \in Runs /\ leases = {m.run} /\ net = {m}
      /\ ini[m.run].pc \notin {"idle", "queued", "send", "mine", "save", "submit"}
  BY Holder
<1>2. x.run = m.run BY MessageIs
<1>3. net' = {x} BY <1>1 DEF NetTo
<1> HIDE DEF x
<1>4. ini'[m.run].pc \notin {"idle", "queued", "send", "mine", "save", "submit"}
  BY <1>1 DEF IniWaits
<1> QED BY <1>1, <1>2, <1>3, <1>4, LockedStep

\* Handlers that end the message they handle.
LEMMA TakenLock ==
  ASSUME TR, Lock, UNCHANGED <<faults, run>>, NEW m \in net, net' = net \ {m},
         Alone(m.run), ini'[m.run].pc \notin {"idle", "queued"},
         \/ UNCHANGED leases
         \/ leases' = leases \ {m.run} /\ ini'[m.run].pc \in Ends
  PROVE  Lock'
<1>1. /\ m.run \in leases /\ m.run \in Runs /\ leases = {m.run} /\ net = {m}
  BY Holder
<1>2. net' = {} BY <1>1
<1>3. IniGoing(m.run)' => m.run \in leases' BY <1>1 DEF IniGoing, Ends, IniWaits
<1> QED BY <1>1, <1>2, <1>3, LockedStep

LEMMA AloneIni ==
  ASSUME NEW r \in Runs, NEW pc, NEW post, IniTo(r, pc, post), UNCHANGED rsp
  PROVE  Alone(r)
BY DEF IniTo, Alone

LEMMA AloneRsp ==
  ASSUME NEW r \in Runs, NEW pc, NEW post, RspTo(r, pc, post), UNCHANGED ini
  PROVE  Alone(r)
BY DEF RspTo, Alone

LEMMA RspHandlerLock ==
  ASSUME TR, Lock, UNCHANGED <<faults, run, leases, ini>>, NEW m \in net,
         NEW n, NEW to, NEW sigs, NetTo(m, n, to, sigs),
         NEW pc, NEW post, RspTo(m.run, pc, post)
  PROVE  Lock'
<1>1. m.run \in Runs BY Holder
<1> QED BY <1>1, AloneRsp, HandlerLock

LEMMA IniHandlerLock ==
  ASSUME TR, Lock, UNCHANGED <<faults, run, leases, rsp>>, NEW m \in net,
         NEW n, NEW to, NEW sigs, NetTo(m, n, to, sigs),
         NEW pc \in IniWaits, NEW post, IniTo(m.run, pc, post)
  PROVE  Lock'
<1>1. m.run \in Runs BY Holder
<1>2. ini'[m.run].pc \in IniWaits BY DEF IniTo
<1> QED BY <1>1, <1>2, AloneIni, HandlerLock

\* A step of the caller by itself.
LEMMA CallerLock ==
  ASSUME TR, Lock, UNCHANGED <<faults, run, rsp>>, NEW r \in Runs, IniGoing(r),
         NEW pc, NEW post, IniTo(r, pc, post), pc \notin {"idle", "queued"},
         leases' = leases \/ (leases' = leases \ {r} /\ pc \in Ends),
         Quiet(r), net' = net
  PROVE  Lock'
<1>1. r \in leases /\ leases = {r} /\ net = {} BY HolderOf DEF Quiet
<1>2. Alone(r) /\ ini'[r].pc = pc BY AloneIni DEF IniTo
<1>3. IniGoing(r)' => r \in leases' BY <1>1, <1>2 DEF IniGoing, Ends, IniWaits
<1> QED BY <1>1, <1>2, <1>3, LockedStep

LEMMA BeginsLock ==
  ASSUME TR, Lock, UNCHANGED faults, NEW r \in Runs, NEW post, NEW n \in {"i1", "w1"},
         NEW t, Begins(r, post, n, t)
  PROVE  Lock'
<1> DEFINE x == Message(r, n, Responder(r), {Conditional(post)})
<1>1. /\ ini[r].pc = "queued"
      /\ LockNames(run[r].call) => leases = {} /\ leases' = {r}
      /\ IniTo(r, FirstWait(n), post)
      /\ run'[r].call = run[r].call
      /\ \A s \in Runs \ {r} : run'[s] = run[s]
      /\ net' = net \cup {Message(r, n, Responder(r), {Conditional(post)})}
      /\ UNCHANGED <<store, rsp, slot, wallet, txs>>
  BY BeginsDoes
<1>2. leases = {} /\ leases' = {r} BY <1>1 DEF Lock, LockNames
<1>3. net = {} /\ \A s \in Runs : ~IniGoing(s) BY <1>2 DEF Lock
<1>4. x.run = r BY MessageIs
<1> HIDE DEF x
<1>5. net' = {x} BY <1>1, <1>3 DEF x
<1>6. ini'[r].pc \in {"i2", "w2"} /\ \A s \in Runs \ {r} : ini'[s] = ini[s]
  BY <1>1 DEF IniTo, FirstWait
<1>7. \A s \in Runs : IniGoing(s)' => s \in leases' BY <1>2, <1>3, <1>6 DEF IniGoing
<1>8. \A s \in Runs : ini'[s].pc \in {"idle", "queued"} => rsp'[s].pc = "idle" /\ s \notin leases'
  BY <1>1, <1>2, <1>6 DEF Lock
<1>9. \A s \in Runs : ini'[s].pc \notin {"send", "mine", "save", "submit"}
  BY <1>3, <1>6 DEF IniGoing
<1>10. \A s \in Runs : run'[s].call # "withdraw" BY <1>1 DEF Lock
<1> QED BY <1>2, <1>4, <1>5, <1>7, <1>8, <1>9, <1>10 DEF Lock

LEMMA DepositBeginsLock ==
  ASSUME TR, Lock, UNCHANGED faults, NEW r \in Runs, DepositBegins(r)
  PROVE  Lock'
BY BeginsLock DEF DepositBegins

LEMMA WithdrawalBeginsLock ==
  ASSUME TR, Lock, UNCHANGED faults, NEW r \in Runs, WithdrawalBegins(r)
  PROVE  Lock'
BY BeginsLock DEF WithdrawalBegins

LEMMA CallLock ==
  ASSUME UnderLock, TR, Lock, UNCHANGED faults, NEW r \in Runs, NEW p \in Parties,
         NEW call \in Calls, NEW amount \in Amounts, Call(r, p, call, amount)
  PROVE  Lock'
<1>1. /\ ini[r].pc = "idle" /\ IniTo(r, "queued", Opening)
      /\ run'[r].call = call /\ \A s \in Runs \ {r} : run'[s] = run[s]
      /\ UNCHANGED <<store, rsp, net, leases, slot, wallet, txs, mishaps>>
  BY CallDoes
<1>2. ini'[r].pc = "queued" /\ \A s \in Runs \ {r} : ini'[s] = ini[s] BY <1>1 DEF IniTo
<1>3. \A s \in Runs : IniGoing(s)' => IniGoing(s) BY <1>2 DEF IniGoing, IniWaits
<1>4. call # "withdraw" BY DEF UnderLock
<1>5. \A s \in Runs : run'[s].call # "withdraw" BY <1>1, <1>4 DEF Lock
<1> QED BY <1>1, <1>2, <1>3, <1>5 DEF Lock

LEMMA WithdrawalThrowsLock ==
  ASSUME TR, Lock, UNCHANGED faults, NEW r \in Runs, WithdrawalThrows(r)
  PROVE  Lock'
<1>1. /\ ini[r].pc = "queued" /\ (LockNames(run[r].call) => leases = {})
      /\ IniTo(r, "threw", Opening) /\ leases' = leases \ {r}
      /\ UNCHANGED <<store, run, rsp, net, slot, wallet, txs, mishaps>>
  BY WithdrawalThrowsDoes
<1>2. leases = {} BY <1>1 DEF Lock, LockNames
<1>3. ini'[r].pc = "threw" /\ \A s \in Runs \ {r} : ini'[s] = ini[s] BY <1>1 DEF IniTo
<1>4. \A s \in Runs : IniGoing(s)' => IniGoing(s) BY <1>3 DEF IniGoing, IniWaits
<1> QED BY <1>1, <1>2, <1>3, <1>4 DEF Lock

\* Nothing of this changes.
LEMMA SameLock ==
  ASSUME Lock, UNCHANGED <<faults, run, ini, rsp, net, leases>>
  PROVE  Lock'
BY DEF Lock, IniGoing

LEMMA HandleLock ==
  ASSUME TR, Lock, UNCHANGED faults, NEW m \in net, Handle(m)
  PROVE  Lock'
<1>0. m.run \in Runs BY Holder
<1>1. CASE \E a, b, w \in {"i1", "i2", "i3", "w1", "w2", "w3"} : ResponderSigns(m, a, b, w)
  <2>1. PICK a, b, w \in {"i1", "i2", "i3", "w1", "w2", "w3"} : ResponderSigns(m, a, b, w)
    BY <1>1
  <2> DEFINE post == RefundAppAtResponder(m.run)
  <2>2. /\ RspTo(m.run, w, post)
        /\ NetTo(m, b, Caller(m.run), {Conditional(post), FreeBalance(post)})
        /\ UNCHANGED <<store, run, ini, leases, slot, wallet, txs, mishaps>>
    BY <2>1, ResponderSignsDoes
  <2> HIDE DEF post
  <2> QED BY <2>2, RspHandlerLock
<1>2. CASE CallerInstalls(m)
  <2>1. "i4" \in IniWaits BY DEF IniWaits
  <2> QED BY <1>2, <2>1, CallerInstallsDoes, IniHandlerLock
<1>3. CASE ResponderInstalls(m) BY <1>3, ResponderInstallsDoes, RspHandlerLock
<1>4. CASE DepositInstalled(m)
  <2>1. /\ IniTo(m.run, "send", Opening) /\ net' = net \ {m}
        /\ UNCHANGED <<store, run, rsp, leases, slot, wallet, txs, mishaps>>
    BY <1>4, DepositInstalledDoes
  <2>2. Alone(m.run) /\ ini'[m.run].pc = "send" BY <1>0, <2>1, AloneIni DEF IniTo
  <2> QED BY <2>1, <2>2, TakenLock
<1>5. CASE ResponderUninstalls(m) BY <1>5, ResponderUninstallsDoes, RspHandlerLock
<1>6. CASE DepositReturns(m)
  <2>1. /\ IniTo(m.run, "returned", Opening) /\ net' = net \ {m}
        /\ leases' = leases \ {m.run}
        /\ UNCHANGED <<run, rsp, slot, wallet, txs, mishaps>>
    BY <1>6, DepositReturnsDoes
  <2>2. Alone(m.run) /\ ini'[m.run].pc = "returned" BY <1>0, <2>1, AloneIni DEF IniTo
  <2> QED BY <2>1, <2>2, TakenLock DEF Ends
<1>7. CASE CallerCharges(m)
  <2>1. "w4" \in IniWaits BY DEF IniWaits
  <2> QED BY <1>7, <2>1, CallerChargesDoes, IniHandlerLock
<1>8. CASE ResponderReleases(m) BY <1>8, ResponderReleasesDoes, RspHandlerLock
<1>9. CASE CallerSettles(m)
  <2>1. "w6" \in IniWaits BY DEF IniWaits
  <2> QED BY <1>9, <2>1, CallerSettlesDoes, IniHandlerLock
<1>10. CASE ResponderSettles(m) BY <1>10, ResponderSettlesDoes, RspHandlerLock
<1>11. CASE CallerStoresWithdrawal(m)
  <2>1. /\ IniTo(m.run, "save", ini[m.run].post) /\ net' = net \ {m}
        /\ UNCHANGED <<store, run, rsp, leases, wallet, txs, mishaps>>
    BY <1>11, CallerStoresDoes
  <2>2. Alone(m.run) /\ ini'[m.run].pc = "save" BY <1>0, <2>1, AloneIni DEF IniTo
  <2> QED BY <2>1, <2>2, TakenLock
<1>12. CASE Refuse(m)
  <2>1. /\ net' = net \ {m}
        /\ \/ IniTo(m.run, "threw", Opening) /\ leases' = leases \ {m.run}
              /\ ini[m.run].pc \in IniWaits
           \/ UNCHANGED <<ini, leases>>
        /\ (RspTo(m.run, "done", Opening) /\ rsp[m.run].pc \in RspWaits) \/ UNCHANGED rsp
        /\ UNCHANGED <<store, run, slot, wallet, txs, mishaps>>
    BY <1>12, RefuseDoes
  <2>2. Alone(m.run) BY <1>0, <2>1 DEF Alone, IniTo, RspTo
  <2>3. ini[m.run].pc \notin {"idle", "queued"} BY Holder
  <2>4. ini'[m.run] = ini[m.run] \/ ini'[m.run].pc = "threw" BY <2>1 DEF IniTo
  <2>5. \/ UNCHANGED leases
        \/ leases' = leases \ {m.run} /\ ini'[m.run].pc \in Ends
    BY <2>1 DEF IniTo, Ends
  <2> QED BY <2>1, <2>2, <2>3, <2>4, <2>5, TakenLock
<1> QED
  BY <1>1, <1>2, <1>3, <1>4, <1>5, <1>6, <1>7, <1>8, <1>9, <1>10, <1>11, <1>12 DEF Handle

LEMMA StillQuiet ==
  ASSUME Lock, NEW r \in Runs, ini[r].pc \in {"send", "mine", "save", "submit"}
  PROVE  Quiet(r) /\ net = {} /\ IniGoing(r)
BY DEF Lock, Quiet, IniGoing

LEMMA ProceedLock ==
  ASSUME TR, Lock, UNCHANGED faults, NEW r \in Runs, Proceed(r)
  PROVE  Lock'
<1>1. CASE SendTransaction(r)
  <2>1. /\ ini[r].pc = "send" /\ IniTo(r, "mine", ini[r].post)
        /\ UNCHANGED <<store, run, rsp, net, leases, slot, wallet, mishaps>>
    BY <1>1, SendTransactionDoes
  <2> QED BY <2>1, StillQuiet, CallerLock
<1>2. CASE SendThrows(r)
  <2>1. /\ ini[r].pc = "send"
        /\ \/ IniTo(r, "threw", Opening) /\ leases' = leases \ {r}
           \/ IniTo(r, "send", ini[r].post) /\ UNCHANGED leases
        /\ UNCHANGED <<store, run, rsp, net, slot, wallet, mishaps>>
    BY <1>2, SendThrowsDoes
  <2>2. "threw" \in Ends BY DEF Ends
  <2>3. CASE IniTo(r, "threw", Opening) /\ leases' = leases \ {r}
    BY <2>1, <2>2, <2>3, StillQuiet, CallerLock
  <2>4. CASE IniTo(r, "send", ini[r].post) /\ UNCHANGED leases
    BY <2>1, <2>4, StillQuiet, CallerLock
  <2> QED BY <2>1, <2>3, <2>4
<1>3. CASE UninstallBegins(r)
  <2> DEFINE a    == TheRefundApp(store[Caller(r)])
             post == Uninstall(store[Caller(r)], a.id, a.by, Outcome(a))
             x    == Message(r, "u1", Responder(r), {FreeBalance(post)})
  <2>1. /\ ini[r].pc = "mine" /\ IniTo(r, "u2", post) /\ net' = net \cup {x}
        /\ UNCHANGED <<store, run, rsp, leases, slot, wallet, txs, mishaps>>
    BY <1>3, UninstallBeginsDoes
  <2>2. x.run = r BY MessageIs
  <2> HIDE DEF x, post
  <2>3. IniGoing(r) /\ net = {} BY <2>1, StillQuiet
  <2>4. net' = {x} BY <2>1, <2>3
  <2>5. r \in leases BY <2>3, HolderOf
  <2>6. Alone(r) /\ ini'[r].pc = "u2" BY <2>1, AloneIni DEF IniTo
  <2> QED BY <2>1, <2>2, <2>4, <2>5, <2>6, LockedStep
<1>4. CASE UninstallThrows(r)
  <2>1. "threw" \in Ends BY DEF Ends
  <2>2. /\ ini[r].pc = "mine" /\ IniTo(r, "threw", Opening) /\ leases' = leases \ {r}
        /\ UNCHANGED <<store, run, rsp, net, slot, wallet, txs, mishaps>>
    BY <1>4, UninstallThrowsDoes
  <2> QED BY <2>1, <2>2, StillQuiet, CallerLock
<1>5. CASE CallerSaves(r)
  <2>1. /\ ini[r].pc = "save" /\ IniTo(r, "submit", Opening)
        /\ UNCHANGED <<run, rsp, net, leases, slot, wallet, txs, mishaps>>
    BY <1>5, CallerSavesDoes
  <2> QED BY <2>1, StillQuiet, CallerLock
<1>6. CASE WithdrawalReturns(r)
  <2>1. "returned" \in Ends BY DEF Ends
  <2>2. /\ ini[r].pc = "submit" /\ IniTo(r, "returned", Opening) /\ leases' = leases \ {r}
        /\ UNCHANGED <<store, run, rsp, net, slot, wallet, mishaps>>
    BY <1>6, WithdrawalReturnsDoes
  <2> QED BY <2>1, <2>2, StillQuiet, CallerLock
<1> QED
  BY <1>1, <1>2, <1>3, <1>4, <1>5, <1>6, DepositBeginsLock, WithdrawalBeginsLock,
     WithdrawalThrowsLock DEF Proceed

LEMMA TimesOutLock ==
  ASSUME TR, Lock, UNCHANGED faults, NEW r \in Runs, TimesOut(r)
  PROVE  Lock'
<1>1. CASE CallerTimesOut(r)
  <2>1. "threw" \in Ends BY DEF Ends
  <2>2. /\ ini[r].pc \in IniWaits /\ Quiet(r)
        /\ IniTo(r, "threw", Opening) /\ leases' = leases \ {r}
        /\ UNCHANGED <<store, run, rsp, net, slot, wallet, txs, mishaps>>
    BY <1>1, CallerTimesOutDoes
  <2>3. IniGoing(r) BY <2>2 DEF IniGoing
  <2> QED BY <2>1, <2>2, <2>3, CallerLock
<1>2. CASE ResponderTimesOut(r)
  <2>1. /\ rsp[r].pc \in RspWaits /\ RspTo(r, "done", Opening)
        /\ UNCHANGED <<store, run, ini, net, leases, slot, wallet, txs, mishaps>>
    BY <1>2, ResponderTimesOutDoes
  <2>2. ini[r].pc \notin {"idle", "queued"} BY <2>1 DEF Lock, RspWaits
  <2>3. \A s \in Runs \ {r} : rsp'[s] = rsp[s] BY <2>1 DEF RspTo
  <2> QED BY <2>1, <2>2, <2>3 DEF Lock, IniGoing
<1>3. CASE LeaseExpires(r)
  <2>1. /\ r \in leases /\ ("expire" \in faults \/ (~IniGoing(r) /\ Quiet(r)))
        /\ leases' = leases \ {r}
        /\ UNCHANGED <<store, run, ini, rsp, net, slot, wallet, txs, mishaps>>
    BY <1>3 DEF LeaseExpires, chain
  <2>2. ~IniGoing(r) /\ Quiet(r) BY <2>1 DEF Lock
  <2>3. net = {} BY <2>1, <2>2 DEF Lock, Quiet
  <2> QED BY <2>1, <2>2, <2>3 DEF Lock, IniGoing
<1> QED BY <1>1, <1>2, <1>3 DEF TimesOut

LEMMA CrashLock ==
  ASSUME TR, Lock, UNCHANGED faults, NEW p \in Parties, Crash(p)
  PROVE  Lock'
<1>1. /\ \A r \in Runs : \/ ini'[r] = ini[r]
                         \/ /\ ini'[r].pc = "crashed"
                            /\ IniGoing(r) \/ ini[r].pc = "queued"
      /\ \A r \in Runs : \/ rsp'[r] = rsp[r]
                         \/ rsp'[r].pc = "done" /\ rsp[r].pc \in RspWaits
      /\ UNCHANGED <<store, run, net, leases, slot, wallet, txs>>
  BY CrashDoes
<1>2. \A s \in Runs : IniGoing(s)' => IniGoing(s) BY <1>1 DEF IniGoing, IniWaits
<1>3. \A s \in Runs : ini'[s].pc \in {"idle", "queued"} => rsp'[s].pc = "idle" /\ s \notin leases'
  BY <1>1 DEF Lock, RspWaits
<1>4. \A s \in Runs : ini'[s].pc \in {"send", "mine", "save", "submit"} => net' = {}
  BY <1>1 DEF Lock
<1> QED BY <1>1, <1>2, <1>3, <1>4 DEF Lock

LEMMA LoseLock ==
  ASSUME TR, Lock, UNCHANGED faults, NEW m \in net, Lose(m)
  PROVE  Lock'
<1>1. net' = net \ {m} /\ UNCHANGED <<store, run, ini, rsp, leases>> BY DEF Lose
<1>2. \A s \in Runs : net = {} => net' = {} BY <1>1
<1> QED BY <1>1 DEF Lock, IniGoing

LEMMA NextLock ==
  ASSUME UnderLock, TR, Lock, [Next]_vars
  PROVE  Lock'
<1>1. CASE Ask /\ UNCHANGED faults
  <2>1. CASE \E c : BothHave(c) BY <1>1, <2>1, SameLock DEF BothHave
  <2>2. \/ \E r \in Runs, p \in Parties, call \in Calls, amount \in Amounts :
             Call(r, p, call, amount)
        \/ \E c : BothHave(c)
    BY <1>1 DEF Ask, ProposeApp, InstallApp, UninstallApp
  <2> QED BY <1>1, <2>1, <2>2, CallLock
<1>2. ASSUME UNCHANGED faults, NEW t \in txs, Mine(t) PROVE Lock'
  BY <1>2, SameLock DEF Mine
<1>3. CASE UNCHANGED vars BY <1>3, SameLock DEF vars
<1> QED
  BY <1>1, <1>2, <1>3, ProceedLock, TimesOutLock, HandleLock, LoseLock, CrashLock
  DEF Next, Step

LEMMA InitLock ==
  ASSUME UnderLock, Init
  PROVE  Lock
<1>1. \A r \in Runs : ini[r].pc = "idle" /\ rsp[r].pc = "idle" /\ run[r].call = "deposit"
  BY DEF Init, Half
<1>2. faults \in FaultCases /\ net = {} /\ leases = {} BY DEF Init
<1> QED BY <1>1, <1>2 DEF Lock, UnderLock, IniGoing, IniWaits

LEMMA LockInvariance ==
  ASSUME UnderLock
  PROVE  Spec => [](TR /\ Lock)
<1>1. Init => TR /\ Lock BY InitTypes, InitLock
<1>2. TR /\ Lock /\ [Next]_vars => (TR /\ Lock)' BY NextTypes, NextLock
<1> QED BY <1>1, <1>2, PTL DEF Spec

-----------------------------------------------------------------------------
(* What the wallet owes.                                                    *)

AmountOf == [t \in Tx |-> t.amount]

Dues(S) == {t \in S : t.kind = "withdrawal"}

Due(S) == Total(AmountOf, Dues(S))

LEMMA AmountOfIs == \A t \in Tx : AmountOf[t] = t.amount /\ AmountOf[t] \in Nat
BY DEF AmountOf, Tx

LEMMA DuesAre ==
  ASSUME NEW S \in SUBSET Tx, IsFiniteSet(S)
  PROVE  /\ Dues(S) \in SUBSET Tx /\ IsFiniteSet(Dues(S))
         /\ \A t \in Dues(S) : AmountOf[t] \in Nat
<1>1. Dues(S) \in SUBSET S BY DEF Dues
<1> QED BY <1>1, FS_Subset, AmountOfIs

LEMMA AmountsAre ==
  ASSUME NEW S \in SUBSET Tx, IsFiniteSet(S)
  PROVE  MapThenSumSet(LAMBDA t : t.amount, S) = Total(AmountOf, S)
<1> DEFINE Is(g) == g = [s \in SUBSET S |-> IF s = {} THEN 0
                          ELSE (CHOOSE x \in s : TRUE).amount + g[s \ {CHOOSE x \in s : TRUE}]]
           h == CHOOSE g : Is(g)
<1>1. MapThenSumSet(LAMBDA t : t.amount, S) = h[S]
  BY Zenon DEF MapThenSumSet, MapThenFoldSet
<1>2. \A g : Is(g) <=> SumFn(g, AmountOf, S)
  <2> TAKE g
  <2> DEFINE left == [s \in SUBSET S |-> IF s = {} THEN 0
                        ELSE (CHOOSE x \in s : TRUE).amount + g[s \ {CHOOSE x \in s : TRUE}]]
             right == [s \in SUBSET S |-> IF s = {} THEN 0
                         ELSE AmountOf[Some(s)] + g[s \ {Some(s)}]]
  <2>1. \A s \in SUBSET S : s # {} => (CHOOSE x \in s : TRUE).amount = AmountOf[Some(s)]
    <3> TAKE s \in SUBSET S
    <3> HAVE s # {}
    <3>1. Some(s) \in Tx BY SomeIs
    <3>2. AmountOf[Some(s)] = Some(s).amount BY <3>1, AmountOfIs
    <3> QED BY <3>2 DEF Some
  <2>2. left = right BY <2>1 DEF Some
  <2> HIDE DEF left, right
  <2>3. Is(g) <=> g = left BY DEF left
  <2>4. SumFn(g, AmountOf, S) <=> g = right BY DEF SumFn, right
  <2> QED BY <2>2, <2>3, <2>4
<1> HIDE DEF Is
<1>3. \E g : Is(g)
  <2>1. PICK k : SumFn(k, AmountOf, S) BY SumFnExists
  <2> QED BY <1>2, <2>1
<1>4. Is(h) BY <1>3
<1> HIDE DEF h
<1>5. SumFn(h, AmountOf, S) BY <1>2, <1>4
<1>6. Total(AmountOf, S) = h[S]
  <2>1. S \in SUBSET S /\ \A x \in S : AmountOf[x] = AmountOf[x] OBVIOUS
  <2> QED BY <1>5, <2>1, TotalOn
<1> QED BY <1>1, <1>6

LEMMA OwedIs ==
  ASSUME Types
  PROVE  Owed = Due(txs) /\ Owed \in Nat
<1>1. txs \in SUBSET Tx /\ IsFiniteSet(txs) BY DEF Types
<1>2. Dues(txs) \in SUBSET Tx /\ IsFiniteSet(Dues(txs))
      /\ \A t \in Dues(txs) : AmountOf[t] \in Nat
  BY <1>1, DuesAre
<1>3. MapThenSumSet(LAMBDA t : t.amount, Dues(txs)) = Total(AmountOf, Dues(txs))
  BY <1>2, AmountsAre
<1>4. Owed = Due(txs) BY <1>3, Zenon DEF Owed, Due, Dues
<1> QED BY <1>2, <1>4, TotalType DEF Due

LEMMA OwedMeans == Types => Owed = Due(txs) /\ Owed \in Nat
BY OwedIs

LEMMA OwedAfter ==
  ASSUME Types'
  PROVE  Owed' = Due(txs') /\ Owed' \in Nat
<1>1. (Types => Owed = Due(txs) /\ Owed \in Nat)' BY OwedMeans, PTL
<1> QED BY <1>1

LEMMA DueAdded ==
  ASSUME NEW S \in SUBSET Tx, IsFiniteSet(S), NEW t \in Tx
  PROVE  /\ t.kind = "deposit" => Due(S \cup {t}) = Due(S)
         /\ t.kind = "withdrawal" => /\ Due(S \cup {t}) <= Due(S) + t.amount
                                     /\ t \notin S => Due(S \cup {t}) = Due(S) + t.amount
<1>1. Dues(S) \in SUBSET Tx /\ IsFiniteSet(Dues(S)) /\ \A u \in Dues(S) : AmountOf[u] \in Nat
  BY DuesAre
<1>2. AmountOf[t] = t.amount /\ t.amount \in Nat BY AmountOfIs
<1>3. Due(S) \in Nat BY <1>1, TotalType DEF Due
<1>4. CASE t.kind = "deposit"
  <2>1. Dues(S \cup {t}) = Dues(S) BY <1>4 DEF Dues
  <2> QED BY <1>4, <2>1 DEF Due
<1>5. CASE t.kind = "withdrawal" /\ t \notin S
  <2>1. Dues(S \cup {t}) = Dues(S) \cup {t} /\ t \notin Dues(S) BY <1>5 DEF Dues
  <2>2. \A u \in Dues(S) \cup {t} : AmountOf[u] \in Nat BY <1>1, <1>2
  <2>3. Total(AmountOf, Dues(S) \cup {t}) = AmountOf[t] + Total(AmountOf, Dues(S))
    BY <1>1, <2>1, <2>2, TotalAdded
  <2>5. Due(S \cup {t}) = Total(AmountOf, Dues(S) \cup {t}) BY <2>1 DEF Due
  <2>6. Due(S) = Total(AmountOf, Dues(S)) BY DEF Due
  <2>4. Due(S \cup {t}) = Due(S) + t.amount
    <3> DEFINE x == Due(S \cup {t})
               y == Due(S)
               z == t.amount
    <3>1. x = z + y BY <1>2, <2>3, <2>5, <2>6
    <3>2. y \in Nat /\ z \in Nat BY <1>2, <1>3
    <3> HIDE DEF x, y, z
    <3>3. x = y + z BY <3>1, <3>2
    <3> QED BY <3>3 DEF x, y, z
  <2>7. Due(S \cup {t}) <= Due(S) + t.amount
    <3> DEFINE x == Due(S \cup {t})
               y == Due(S)
               z == t.amount
    <3>2. x = y + z /\ y \in Nat /\ z \in Nat BY <1>2, <1>3, <2>4
    <3> HIDE DEF x, y, z
    <3>3. x <= y + z BY <3>2
    <3> QED BY <3>3 DEF x, y, z
  <2> QED BY <1>5, <2>4, <2>7
<1>6. CASE t.kind = "withdrawal" /\ t \in S
  <2>1. S \cup {t} = S BY <1>6
  <2>2. Due(S) <= Due(S) + t.amount
    <3> DEFINE y == Due(S)
               z == t.amount
    <3>2. y \in Nat /\ z \in Nat BY <1>2, <1>3
    <3> HIDE DEF y, z
    <3>3. y <= y + z BY <3>2
    <3> QED BY <3>3 DEF y, z
  <2> QED BY <1>6, <2>1, <2>2
<1>7. t.kind \in {"deposit", "withdrawal"} BY DEF Tx
<1> QED BY <1>4, <1>5, <1>6, <1>7

LEMMA DueTaken ==
  ASSUME NEW S \in SUBSET Tx, IsFiniteSet(S), NEW t \in S
  PROVE  /\ t.kind = "deposit" => Due(S \ {t}) = Due(S)
         /\ t.kind = "withdrawal" => Due(S \ {t}) + t.amount = Due(S)
<1>1. Dues(S) \in SUBSET Tx /\ IsFiniteSet(Dues(S)) /\ \A u \in Dues(S) : AmountOf[u] \in Nat
  BY DuesAre
<1>2. AmountOf[t] = t.amount /\ t.amount \in Nat BY AmountOfIs
<1>4. CASE t.kind = "deposit"
  <2>1. Dues(S \ {t}) = Dues(S) BY <1>4 DEF Dues
  <2> QED BY <1>4, <2>1 DEF Due
<1>5. CASE t.kind = "withdrawal"
  <2>1. Dues(S \ {t}) = Dues(S) \ {t} /\ t \in Dues(S) BY <1>5 DEF Dues
  <2>2. Total(AmountOf, Dues(S)) = AmountOf[t] + Total(AmountOf, Dues(S) \ {t})
    BY <1>1, <2>1, TotalAt
  <2>3. IsFiniteSet(Dues(S) \ {t}) BY <1>1, FS_Subset
  <2>4. Total(AmountOf, Dues(S) \ {t}) \in Nat BY <1>1, <2>3, TotalType
  <2>5. Due(S) = Total(AmountOf, Dues(S)) BY DEF Due
  <2>6. Due(S \ {t}) = Total(AmountOf, Dues(S) \ {t}) BY <2>1 DEF Due
  <2>7. Due(S \ {t}) + t.amount = Due(S)
    <3> DEFINE x == Due(S \ {t})
               y == Due(S)
               z == t.amount
    <3>1. y = z + x BY <1>2, <2>2, <2>5, <2>6
    <3>2. x \in Nat /\ z \in Nat BY <1>2, <2>4, <2>6
    <3> HIDE DEF x, y, z
    <3>3. x + z = y BY <3>1, <3>2
    <3> QED BY <3>3 DEF x, y, z
  <2> QED BY <1>5, <2>7
<1>6. t.kind \in {"deposit", "withdrawal"} BY DEF Tx
<1> QED BY <1>4, <1>5, <1>6

-----------------------------------------------------------------------------
(* The room a wallet leaves.                                                *)

\* The wallet, with balance b and owing o, can pay what the channel promises
\* and x more; and so could it, when a deposit began whose refund app is still
\* installed.  No refund app of a withdrawal is.
RoomAt(c, x, o, b) ==
  /\ Worth(c) + x + o <= b
  /\ \A a \in c.apps : a.kind # "app" =>
       a.kind = "deposit" /\ Worth(c) + x + o <= a.threshold

LEMMA RoomMoves ==
  ASSUME NEW c \in Books, NEW x \in Nat, NEW o \in Nat, NEW b \in Nat, RoomAt(c, x, o, b),
         NEW y \in Nat, NEW o2 \in Nat, NEW b2 \in Nat, y + o2 <= x + o,
         y + o2 + b <= x + o + b2
  PROVE  RoomAt(c, y, o2, b2)
<1>1. Worth(c) \in Nat BY WorthIs
<1>2. \A a \in c.apps : a.threshold \in Nat BY BooksFields DEF App
<1> QED BY <1>1, <1>2 DEF RoomAt

LEMMA RoomShrinks ==
  ASSUME NEW c \in Books, NEW d \in Books, NEW x \in Nat, NEW y \in Nat, NEW o \in Nat,
         NEW b \in Nat, RoomAt(c, x, o, b), Worth(d) + y <= Worth(c) + x,
         \A a \in d.apps : a.kind = "app" \/ a \in c.apps
  PROVE  RoomAt(d, y, o, b)
<1>1. Worth(c) \in Nat /\ Worth(d) \in Nat BY WorthIs
<1>2. \A a \in c.apps : a.threshold \in Nat BY BooksFields DEF App
<1> QED BY <1>1, <1>2 DEF RoomAt

LEMMA UninstallDrops ==
  ASSUME NEW c \in Books, NEW id, NEW p \in Parties, NEW x \in Nat
  PROVE  Uninstall(c, id, p, x) \in Books /\ Uninstall(c, id, p, x).apps = Without(c.apps, id)
<1>1. /\ Uninstall(c, id, p, x) \in Books
      /\ Uninstall(c, id, p, x).np = c.np
      /\ Uninstall(c, id, p, x).props = c.props
      /\ Uninstall(c, id, p, x).apps = Without(c.apps, id)
      /\ Uninstall(c, id, p, x).ver = c.ver + 2
      /\ Uninstall(c, id, p, x).bal = [c.bal EXCEPT ![p] = c.bal[p] + x]
  BY UninstallIs
<1> QED BY <1>1

LEMMA InstallRoom ==
  ASSUME NEW c \in Books, NEW a \in App, a.pot <= c.bal[a.by], NEW o \in Nat, NEW b \in Nat,
         RoomAt(c, 0, o, b),
         a.kind # "app" => a.kind = "deposit" /\ Worth(c) + o <= a.threshold
  PROVE  RoomAt(InstallAs(c, a), 0, o, b)
<1> DEFINE d == InstallAs(c, a)
<1>1. d \in Books /\ d.apps = Without(c.apps, a.id) \cup {a} BY InstallAsIs
<1>2. Worth(d) <= Worth(c) BY InstallWorth
<1>3. \A e \in d.apps : e = a \/ e \in c.apps BY <1>1 DEF Without
<1> HIDE DEF d
<1>4. Worth(c) \in Nat /\ Worth(d) \in Nat BY <1>1, WorthIs
<1>5. \A e \in c.apps : e.threshold \in Nat BY BooksFields DEF App
<1>6. a.threshold \in Nat BY DEF App
<1>7. RoomAt(d, 0, o, b) BY <1>2, <1>3, <1>4, <1>5, <1>6 DEF RoomAt
<1> QED BY <1>7 DEF d

\* The refund app of a withdrawal makes room for it.
LEMMA ChargeRoom ==
  ASSUME NEW c \in Books, NEW p \in Parties, NEW amount \in Nat, NEW t \in Nat,
         amount <= c.bal[p], NEW o \in Nat, NEW b \in Nat, RoomAt(c, 0, o, b)
  PROVE  LET post == InstallRefundApp(c, "withdrawal", p, amount, t)
         IN  RoomAt(Uninstall(post, post.np, p, 0), amount, o, b)
<1> DEFINE a == [id |-> c.np, kind |-> "withdrawal", by |-> p, pot |-> amount, threshold |-> t]
           post == InstallRefundApp(c, "withdrawal", p, amount, t)
           d == Uninstall(post, post.np, p, 0)
<1>0. "withdrawal" \in Kinds BY DEF Kinds
<1>1. /\ a \in App /\ a.id = c.np /\ a.by = p /\ a.pot = amount
      /\ post = InstallAs(c, a)
  BY <1>0, RefundIs
<1> HIDE DEF a, post
<1>2. /\ post \in Books /\ post.np = c.np
      /\ post.apps = Without(c.apps, a.id) \cup {a}
  BY <1>1, InstallAsIs
<1>3. Worth(post) <= Worth(c) BY <1>1, InstallWorth
<1>4. a \in post.apps /\ a.id = post.np BY <1>1, <1>2
<1>5. Worth(Uninstall(post, a.id, p, 0)) + a.pot <= Worth(post) + 0
  BY <1>2, <1>4, UninstallWorth
<1>6. d \in Books /\ d.apps = Without(post.apps, post.np)
  <2> DEFINE none == 0
             id == post.np
  <2>1. none \in Nat OBVIOUS
  <2> HIDE DEF none, id
  <2>2. /\ Uninstall(post, id, p, none) \in Books
        /\ Uninstall(post, id, p, none).apps = Without(post.apps, id)
    BY <1>2, <2>1, UninstallDrops
  <2> QED BY <2>2 DEF none, id
<1>7. \A e \in d.apps : e \in c.apps BY <1>1, <1>2, <1>6 DEF Without
<1>8. Worth(d) + a.pot <= Worth(post) + 0 BY <1>4, <1>5
<1> HIDE DEF d
<1>9. Worth(d) \in Nat /\ Worth(post) \in Nat /\ Worth(c) \in Nat BY <1>2, <1>6, WorthIs
<1>10. Worth(d) + amount <= Worth(c) + 0 BY <1>1, <1>3, <1>8, <1>9
<1>11. RoomAt(d, amount, o, b) BY <1>6, <1>7, <1>10, RoomShrinks
<1> QED BY <1>11 DEF d, post

LEMMA RefundRoom ==
  ASSUME NEW c \in Books, CanUninstall(c), wallet.balance \in Nat, NEW o \in Nat,
         RoomAt(c, 0, o, wallet.balance)
  PROVE  LET a == TheRefundApp(c)
         IN  RoomAt(Uninstall(c, a.id, a.by, Outcome(a)), 0, o, wallet.balance)
<1> DEFINE a == TheRefundApp(c)
           x == Outcome(a)
           d == Uninstall(c, a.id, a.by, x)
<1>1. /\ a \in c.apps /\ a \in App /\ a.by \in Parties /\ a.kind # "app"
      /\ \A b \in c.apps : b.kind # "app" => b = a
      /\ a.threshold \in Nat /\ x \in Nat /\ x + a.threshold = wallet.balance
  BY RefundApp
<1> HIDE DEF a, x
<1>2. d \in Books /\ d.apps = Without(c.apps, a.id) BY <1>1, UninstallDrops
<1>3. Worth(d) + a.pot <= Worth(c) + x BY <1>1, UninstallWorth
<1>4. a.pot \in Nat BY <1>1 DEF App
<1>5. \A e \in d.apps : e.kind = "app" BY <1>1, <1>2 DEF Without
<1>6. Worth(c) + 0 + o <= a.threshold BY <1>1 DEF RoomAt
<1> HIDE DEF d
<1>7. Worth(d) \in Nat /\ Worth(c) \in Nat BY <1>2, WorthIs
<1>8. Worth(d) + 0 + o <= wallet.balance BY <1>1, <1>3, <1>4, <1>6, <1>7
<1>9. RoomAt(d, 0, o, wallet.balance) BY <1>5, <1>8 DEF RoomAt
<1> QED BY <1>9 DEF a, d, x

LEMMA UninstallAppRoom ==
  ASSUME NEW c \in Books, NEW a \in c.apps, NEW p \in Parties, NEW o \in Nat, NEW b \in Nat,
         RoomAt(c, 0, o, b)
  PROVE  RoomAt(Uninstall(c, a.id, p, a.pot), 0, o, b)
<1> DEFINE d == Uninstall(c, a.id, p, a.pot)
<1>1. a \in App /\ a.pot \in Nat BY BooksFields DEF App
<1>2. d \in Books /\ d.apps = Without(c.apps, a.id) BY <1>1, UninstallDrops
<1>3. Worth(d) + a.pot <= Worth(c) + a.pot BY <1>1, UninstallWorth
<1>4. \A e \in d.apps : e \in c.apps BY <1>2 DEF Without
<1> HIDE DEF d
<1>5. Worth(d) \in Nat /\ Worth(c) \in Nat BY <1>2, WorthIs
<1>6. Worth(d) + 0 <= Worth(c) + 0 BY <1>1, <1>3, <1>5
<1>7. RoomAt(d, 0, o, b) BY <1>2, <1>4, <1>6, RoomShrinks
<1> QED BY <1>7 DEF d

LEMMA ProposedRoom ==
  ASSUME NEW c \in Books, NEW p \in Parties, NEW pot \in Nat, NEW o \in Nat, NEW b \in Nat,
         RoomAt(c, 0, o, b)
  PROVE  RoomAt(Proposed(c, p, pot), 0, o, b)
<1> DEFINE d == Proposed(c, p, pot)
<1>1. d \in Books /\ d.apps = c.apps /\ d.bal = c.bal BY ProposedIs
<1> HIDE DEF d
<1>2. Worth(d) = Worth(c) BY <1>1, WorthIs DEF Held
<1>3. Worth(c) \in Nat BY WorthIs
<1>4. RoomAt(d, 0, o, b) BY <1>1, <1>2, <1>3, RoomShrinks
<1> QED BY <1>4 DEF d

-----------------------------------------------------------------------------
(* A step of a channel leaves room for what is owed.                        *)

LEMMA DepositRoom ==
  ASSUME NEW c \in Books, NEW p \in Parties, NEW t \in Nat, NEW o \in Nat, NEW b \in Nat,
         RoomAt(c, 0, o, b), Worth(c) + o <= t
  PROVE  RoomAt(InstallRefundApp(c, "deposit", p, 0, t), 0, o, b)
<1> DEFINE none == 0
           a == [id |-> c.np, kind |-> "deposit", by |-> p, pot |-> none, threshold |-> t]
<1>1. none \in Nat /\ none <= c.bal[p] BY NothingCharged
<1>2. "deposit" \in Kinds BY DEF Kinds
<1> HIDE DEF none
<1>3. /\ a \in App /\ a.kind = "deposit" /\ a.by = p /\ a.pot = none /\ a.threshold = t
      /\ InstallRefundApp(c, "deposit", p, none, t) = InstallAs(c, a)
  BY <1>1, <1>2, RefundIs
<1> HIDE DEF a
<1>4. a.pot <= c.bal[a.by] BY <1>1, <1>3
<1>5. a.kind # "app" => a.kind = "deposit" /\ Worth(c) + o <= a.threshold BY <1>3
<1>6. RoomAt(InstallAs(c, a), 0, o, b) BY <1>3, <1>4, <1>5, InstallRoom
<1> QED BY <1>3, <1>6 DEF none

-----------------------------------------------------------------------------
(* Every channel that a party has or computes leaves room for what the      *)
(* wallet owes, and for the withdrawal under way.                           *)

\* The channel that the caller keeps; that of a withdrawal leaves room for it
\* once the app is uninstalled.
IniRoom(r, o, b) ==
  /\ ini[r].pc \in {"i2", "u2"} => RoomAt(ini[r].post, 0, o, b)
  /\ ini[r].pc \in {"w2", "w4"} => RoomAt(Uncharged(r, ini[r].post), run[r].amount, o, b)
  /\ ini[r].pc \in {"w6", "save"} => RoomAt(ini[r].post, run[r].amount, o, b)
  /\ ini[r].pc \in {"save", "submit"} => /\ slot[Caller(r)] = r
                                         /\ RoomAt(store[Responder(r)], run[r].amount, o, b)
  /\ ini[r].pc = "submit" => RoomAt(store[Caller(r)], run[r].amount, o, b)

\* The channel that the responder keeps.
RspRoom(r, o, b) ==
  /\ rsp[r].pc = "i3" => RoomAt(rsp[r].post, 0, o, b)
  /\ rsp[r].pc = "w3" => RoomAt(Uncharged(r, rsp[r].post), run[r].amount, o, b)
  /\ rsp[r].pc = "w5" => RoomAt(rsp[r].post, run[r].amount, o, b)

\* What a message tells of its run.
NetRoom(o, b) ==
  \A m \in net :
    /\ m.n = "i1" => /\ run[m.run].call = "deposit"
                     /\ Worth(store[Responder(m.run)]) + o <= run[m.run].threshold
    /\ m.n = "w1" => run[m.run].call # "deposit"
    /\ m.n = "w6" => RoomAt(store[Responder(m.run)], run[m.run].amount, o, b)

StoreRoom(o, b) == \A p \in Parties : RoomAt(store[p], 0, o, b)

Rooms(o, b) ==
  /\ StoreRoom(o, b)
  /\ \A r \in leases : IniRoom(r, o, b) /\ RspRoom(r, o, b)
  /\ NetRoom(o, b)

HasRoom == Rooms(Owed, wallet.balance)

LEMMA RoomsKept ==
  ASSUME NEW o, NEW b, Rooms(o, b)', Owed' = o, wallet'.balance = b
  PROVE  HasRoom'
BY DEF HasRoom, Rooms, StoreRoom, IniRoom, RspRoom, NetRoom

LEMMA RoomStep ==
  ASSUME NEW o, NEW b, NEW r \in Runs, leases' \subseteq {r}, StoreRoom(o, b)',
         r \in leases' => IniRoom(r, o, b)' /\ RspRoom(r, o, b)', NetRoom(o, b)'
  PROVE  Rooms(o, b)'
BY DEF Rooms

LEMMA IniSame ==
  ASSUME NEW o, NEW b, NEW r \in Runs, UNCHANGED run, ini'[r] = ini[r], IniRoom(r, o, b),
         ini[r].pc \notin {"save", "submit"}
  PROVE  IniRoom(r, o, b)'
BY DEF IniRoom, Uncharged, Caller, Responder

LEMMA IniFree ==
  ASSUME NEW o, NEW b, NEW r \in Runs, NEW pc, NEW post, IniTo(r, pc, post),
         pc \notin {"i2", "u2", "w2", "w4", "w6", "save", "submit"}
  PROVE  IniRoom(r, o, b)'
BY DEF IniRoom, IniTo

LEMMA RspSame ==
  ASSUME NEW o, NEW b, NEW r \in Runs, UNCHANGED run, rsp'[r] = rsp[r], RspRoom(r, o, b)
  PROVE  RspRoom(r, o, b)'
BY DEF RspRoom, Uncharged, Caller, Responder

LEMMA RspFree ==
  ASSUME NEW o, NEW b, NEW r \in Runs, rsp'[r].pc \notin {"i3", "w3", "w5"}
  PROVE  RspRoom(r, o, b)'
BY DEF RspRoom

LEMMA NetNone ==
  ASSUME NEW o, NEW b, net' = {}
  PROVE  NetRoom(o, b)'
BY DEF NetRoom

LEMMA NetOne ==
  ASSUME NEW o, NEW b, NEW r, NEW n, NEW to, NEW sigs, net' = {Message(r, n, to, sigs)},
         n \notin {"i1", "w1", "w6"}
  PROVE  NetRoom(o, b)'
BY MessageIs DEF NetRoom

LEMMA NetFewer ==
  ASSUME NEW o, NEW b, NetRoom(o, b), net' \subseteq net, UNCHANGED <<run, store>>
  PROVE  NetRoom(o, b)'
BY DEF NetRoom, Caller, Responder

LEMMA StoreSame ==
  ASSUME NEW o, NEW b, Rooms(o, b), UNCHANGED store
  PROVE  StoreRoom(o, b)'
BY DEF Rooms, StoreRoom

LEMMA StoreGoes ==
  ASSUME NEW o, NEW b, Rooms(o, b), NEW p \in Parties, NEW c, StoreTo(p, c), RoomAt(c, 0, o, b)
  PROVE  StoreRoom(o, b)'
BY DEF Rooms, StoreRoom, StoreTo

\* What the holder of the lock, whose message m is, knows.
LEMMA HolderRoom ==
  ASSUME TR, Lock, NEW o, NEW b, Rooms(o, b), NEW m \in net
  PROVE  /\ m.run \in Runs /\ leases = {m.run} /\ net = {m}
         /\ IniRoom(m.run, o, b) /\ RspRoom(m.run, o, b)
         /\ \A p \in Parties : RoomAt(store[p], 0, o, b)
         /\ ini[m.run].pc \notin {"save", "submit"}
         /\ m.n = "i1" => /\ run[m.run].call = "deposit"
                          /\ Worth(store[Responder(m.run)]) + o <= run[m.run].threshold
         /\ m.n = "w1" => run[m.run].call # "deposit"
         /\ m.n = "w6" => RoomAt(store[Responder(m.run)], run[m.run].amount, o, b)
<1>1. /\ m.run \in leases /\ m.run \in Runs /\ leases = {m.run} /\ net = {m}
      /\ ini[m.run].pc \notin {"idle", "queued", "send", "mine", "save", "submit"}
  BY Holder
<1> QED BY <1>1 DEF Rooms, NetRoom, StoreRoom

\* More room than needed.
LEMMA RoomEnough ==
  ASSUME NEW c \in Books, NEW x \in Nat, NEW o \in Nat, NEW b \in Nat, RoomAt(c, x, o, b)
  PROVE  RoomAt(c, 0, o, b)
<1> DEFINE none == 0
<1>1. none \in Nat /\ none + o <= x + o /\ none + o + b <= x + o + b OBVIOUS
<1> HIDE DEF none
<1>2. RoomAt(c, none, o, b) BY <1>1, RoomMoves
<1> QED BY <1>2 DEF none

-----------------------------------------------------------------------------
(* The handlers.                                                            *)

LEMMA HandlerRoom ==
  ASSUME NEW o, NEW b, NEW m \in net, m.run \in Runs, net = {m}, leases = {m.run},
         UNCHANGED leases, NEW n, NEW to, NEW sigs, NetTo(m, n, to, sigs),
         n \notin {"i1", "w1", "w6"}, StoreRoom(o, b)',
         IniRoom(m.run, o, b)', RspRoom(m.run, o, b)'
  PROVE  Rooms(o, b)'
<1>1. net' = {Message(m.run, n, to, sigs)} BY DEF NetTo
<1>2. NetRoom(o, b)' BY <1>1, NetOne
<1> QED BY <1>2, RoomStep

LEMMA DepositSignedRoom ==
  ASSUME TR, Lock, NEW o \in Nat, NEW b \in Nat, Rooms(o, b), NEW m \in net,
         ResponderSigns(m, "i1", "i2", "i3")
  PROVE  Rooms(o, b)'
<1> DEFINE r == m.run
           post == RefundAppAtResponder(r)
           c == store[Responder(r)]
           p == Caller(r)
           t == run[r].threshold
<1>1. /\ m.n = "i1" /\ RspTo(r, "i3", post)
      /\ NetTo(m, "i2", Caller(r), {Conditional(post), FreeBalance(post)})
      /\ UNCHANGED <<store, run, ini, leases, slot, wallet, txs, mishaps>>
  BY ResponderSignsDoes
<1>2. /\ r \in Runs /\ leases = {r} /\ net = {m} /\ IniRoom(r, o, b)
      /\ \A q \in Parties : RoomAt(store[q], 0, o, b)
      /\ ini[r].pc \notin {"save", "submit"}
      /\ run[r].call = "deposit" /\ Worth(c) + o <= t
  BY <1>1, HolderRoom
<1>3. c \in Books /\ p \in Parties /\ t \in Nat /\ Responder(r) \in Parties
  BY <1>2, RunFields DEF TR
<1>4. post = InstallRefundApp(c, "deposit", p, 0, t) BY <1>2 DEF RefundAppAtResponder
<1>5. RoomAt(c, 0, o, b) BY <1>2, <1>3
<1> HIDE DEF c, p, t, post
<1>6. RoomAt(post, 0, o, b) BY <1>2, <1>3, <1>4, <1>5, DepositRoom
<1>7. RspRoom(r, o, b)' BY <1>1, <1>6 DEF RspRoom, RspTo
<1>8. IniRoom(r, o, b)' BY <1>1, <1>2, IniSame
<1>9. StoreRoom(o, b)' BY <1>1, StoreSame
<1> QED BY <1>1, <1>2, <1>7, <1>8, <1>9, HandlerRoom

LEMMA WithdrawalSignedRoom ==
  ASSUME TR, Lock, NEW o \in Nat, NEW b \in Nat, Rooms(o, b), NEW m \in net,
         ResponderSigns(m, "w1", "w2", "w3")
  PROVE  Rooms(o, b)'
<1> DEFINE r == m.run
           post == RefundAppAtResponder(r)
           c == store[Responder(r)]
           p == Caller(r)
           t == run[r].threshold
           pot == run[r].amount
<1>1. /\ m.n = "w1" /\ CanSign(m) /\ RspTo(r, "w3", post)
      /\ NetTo(m, "w2", Caller(r), {Conditional(post), FreeBalance(post)})
      /\ UNCHANGED <<store, run, ini, leases, slot, wallet, txs, mishaps>>
  BY ResponderSignsDoes
<1>2. /\ r \in Runs /\ leases = {r} /\ net = {m} /\ IniRoom(r, o, b)
      /\ \A q \in Parties : RoomAt(store[q], 0, o, b)
      /\ ini[r].pc \notin {"save", "submit"} /\ run[r].call # "deposit"
  BY <1>1, HolderRoom
<1>3. c \in Books /\ p \in Parties /\ t \in Nat /\ pot \in Nat /\ Responder(r) \in Parties
  BY <1>2, RunFields DEF TR
<1>4. post = InstallRefundApp(c, "withdrawal", p, pot, t) BY <1>2 DEF RefundAppAtResponder
<1>5. RoomAt(c, 0, o, b) /\ pot <= c.bal[p] BY <1>1, <1>2, <1>3 DEF CanSign, CanCharge
<1>6. RoomAt(Uninstall(post, post.np, p, 0), pot, o, b)
  <2> HIDE DEF c, p, t, pot, post
  <2> QED BY <1>3, <1>4, <1>5, ChargeRoom
<1>7. RspRoom(r, o, b)'
  <2>1. run'[r].amount = pot /\ Caller(r)' = p BY <1>1 DEF Caller
  <2>2. rsp'[r].pc = "w3" /\ rsp'[r].post = post BY <1>1 DEF RspTo
  <2>3. Uncharged(r, rsp[r].post)' = Uninstall(post, post.np, p, 0)
    BY <2>1, <2>2 DEF Uncharged
  <2> HIDE DEF c, p, t, pot, post
  <2> QED BY <1>6, <2>1, <2>2, <2>3 DEF RspRoom
<1>8. IniRoom(r, o, b)' BY <1>1, <1>2, IniSame
<1>9. StoreRoom(o, b)' BY <1>1, StoreSame
<1> HIDE DEF post
<1> QED BY <1>1, <1>2, <1>7, <1>8, <1>9, HandlerRoom

LEMMA CallerInstallsRoom ==
  ASSUME TR, Lock, NEW o \in Nat, NEW b \in Nat, Rooms(o, b), NEW m \in net, CallerInstalls(m)
  PROVE  Rooms(o, b)'
<1> DEFINE r == m.run
           post == ini[r].post
<1>1. /\ ini[r].pc = "i2" /\ IniTo(r, "i4", post) /\ StoreTo(Caller(r), post)
      /\ NetTo(m, "i3", Responder(r), {FreeBalance(post)})
      /\ UNCHANGED <<run, rsp, leases, slot, wallet, txs, mishaps>>
  BY CallerInstallsDoes
<1>2. r \in Runs /\ leases = {r} /\ net = {m} /\ IniRoom(r, o, b) /\ RspRoom(r, o, b)
  BY HolderRoom
<1>3. RoomAt(post, 0, o, b) BY <1>1, <1>2 DEF IniRoom
<1>4. Caller(r) \in Parties BY <1>2, RunFields DEF TR
<1> HIDE DEF post
<1>5. StoreRoom(o, b)' BY <1>1, <1>3, <1>4, StoreGoes
<1>6. IniRoom(r, o, b)' BY <1>1, <1>2, IniFree
<1>7. RspRoom(r, o, b)' BY <1>1, <1>2, RspSame
<1> QED BY <1>1, <1>2, <1>5, <1>6, <1>7, HandlerRoom

LEMMA ResponderInstallsRoom ==
  ASSUME TR, Lock, NEW o \in Nat, NEW b \in Nat, Rooms(o, b), NEW m \in net, ResponderInstalls(m)
  PROVE  Rooms(o, b)'
<1> DEFINE r == m.run
           post == rsp[r].post
<1>1. /\ rsp[r].pc = "i3" /\ RspTo(r, "done", Opening) /\ StoreTo(Responder(r), post)
      /\ NetTo(m, "i4", Caller(r), {})
      /\ UNCHANGED <<run, ini, leases, slot, wallet, txs, mishaps>>
  BY ResponderInstallsDoes
<1>2. /\ r \in Runs /\ leases = {r} /\ net = {m} /\ IniRoom(r, o, b) /\ RspRoom(r, o, b)
      /\ ini[r].pc \notin {"save", "submit"}
  BY HolderRoom
<1>3. RoomAt(post, 0, o, b) BY <1>1, <1>2 DEF RspRoom
<1>4. Responder(r) \in Parties BY <1>2, RunFields DEF TR
<1> HIDE DEF post
<1>5. StoreRoom(o, b)' BY <1>1, <1>3, <1>4, StoreGoes
<1>6. IniRoom(r, o, b)' BY <1>1, <1>2, IniSame
<1>7. RspRoom(r, o, b)' BY <1>1, <1>2, RspFree DEF RspTo
<1> QED BY <1>1, <1>2, <1>5, <1>6, <1>7, HandlerRoom

LEMMA ResponderUninstallsRoom ==
  ASSUME TR, Lock, NEW o \in Nat, NEW b \in Nat, b = wallet.balance, Rooms(o, b),
         NEW m \in net, ResponderUninstalls(m)
  PROVE  Rooms(o, b)'
<1> DEFINE r == m.run
           post == UninstalledAtResponder(r)
           c == store[Responder(r)]
<1>1. /\ CanCountersign(m) /\ RspTo(r, "done", Opening) /\ StoreTo(Responder(r), post)
      /\ NetTo(m, "u2", Caller(r), {FreeBalance(post)})
      /\ UNCHANGED <<run, ini, leases, slot, wallet, txs, mishaps>>
  BY ResponderUninstallsDoes
<1>2. /\ r \in Runs /\ leases = {r} /\ net = {m} /\ IniRoom(r, o, b)
      /\ \A q \in Parties : RoomAt(store[q], 0, o, b)
      /\ ini[r].pc \notin {"save", "submit"}
  BY HolderRoom
<1>3. c \in Books /\ Responder(r) \in Parties /\ wallet.balance \in Nat
  BY <1>2, RunFields, WalletFields DEF TR
<1>4. CanUninstall(c) BY <1>1 DEF CanCountersign
<1>5. RoomAt(post, 0, o, b)
  <2>1. RoomAt(c, 0, o, wallet.balance) BY <1>2, <1>3
  <2> DEFINE a == TheRefundApp(c)
  <2>2. post = Uninstall(c, a.id, a.by, Outcome(a)) BY DEF UninstalledAtResponder
  <2> HIDE DEF c, post
  <2>3. RoomAt(Uninstall(c, a.id, a.by, Outcome(a)), 0, o, wallet.balance)
    BY <1>3, <1>4, <2>1, RefundRoom
  <2> QED BY <2>2, <2>3
<1> HIDE DEF post
<1>6. StoreRoom(o, b)' BY <1>1, <1>3, <1>5, StoreGoes
<1>7. IniRoom(r, o, b)' BY <1>1, <1>2, IniSame
<1>8. RspRoom(r, o, b)' BY <1>1, <1>2, RspFree DEF RspTo
<1> QED BY <1>1, <1>2, <1>6, <1>7, <1>8, HandlerRoom

LEMMA CallerChargesRoom ==
  ASSUME TR, Lock, NEW o \in Nat, NEW b \in Nat, Rooms(o, b), NEW m \in net, CallerCharges(m)
  PROVE  Rooms(o, b)'
<1> DEFINE r == m.run
           post == ini[r].post
<1>1. /\ ini[r].pc = "w2" /\ IniTo(r, "w4", post)
      /\ NetTo(m, "w3", Responder(r), {FreeBalance(post), Withdrawal(r)})
      /\ UNCHANGED <<store, run, rsp, leases, slot, wallet, txs, mishaps>>
  BY CallerChargesDoes
<1>2. r \in Runs /\ leases = {r} /\ net = {m} /\ IniRoom(r, o, b) /\ RspRoom(r, o, b)
  BY HolderRoom
<1>3. RoomAt(Uncharged(r, post), run[r].amount, o, b) BY <1>1, <1>2 DEF IniRoom
<1>4. IniRoom(r, o, b)'
  <2>1. ini'[r].pc = "w4" /\ ini'[r].post = post BY <1>1 DEF IniTo
  <2>2. Uncharged(r, ini[r].post)' = Uncharged(r, post) BY <1>1, <2>1 DEF Uncharged, Caller
  <2> HIDE DEF post
  <2> QED BY <1>1, <1>3, <2>1, <2>2 DEF IniRoom
<1>5. RspRoom(r, o, b)' BY <1>1, <1>2, RspSame
<1>6. StoreRoom(o, b)' BY <1>1, StoreSame
<1> HIDE DEF post
<1> QED BY <1>1, <1>2, <1>4, <1>5, <1>6, HandlerRoom

LEMMA ResponderReleasesRoom ==
  ASSUME TR, Lock, NEW o \in Nat, NEW b \in Nat, Rooms(o, b), NEW m \in net, ResponderReleases(m)
  PROVE  Rooms(o, b)'
<1> DEFINE r == m.run
           post == Uncharged(r, rsp[r].post)
<1>1. /\ rsp[r].pc = "w3" /\ RspTo(r, "w5", post)
      /\ NetTo(m, "w4", Caller(r), {Withdrawal(r), FreeBalance(post)})
      /\ UNCHANGED <<store, run, ini, leases, wallet, txs, mishaps>>
  BY ResponderReleasesDoes
<1>2. /\ r \in Runs /\ leases = {r} /\ net = {m} /\ IniRoom(r, o, b) /\ RspRoom(r, o, b)
      /\ ini[r].pc \notin {"save", "submit"}
  BY HolderRoom
<1>3. RoomAt(post, run[r].amount, o, b) BY <1>1, <1>2 DEF RspRoom
<1> HIDE DEF post
<1>4. RspRoom(r, o, b)' BY <1>1, <1>3 DEF RspRoom, RspTo
<1>5. IniRoom(r, o, b)' BY <1>1, <1>2, IniSame
<1>6. StoreRoom(o, b)' BY <1>1, StoreSame
<1> QED BY <1>1, <1>2, <1>4, <1>5, <1>6, HandlerRoom

LEMMA CallerSettlesRoom ==
  ASSUME TR, Lock, NEW o \in Nat, NEW b \in Nat, Rooms(o, b), NEW m \in net, CallerSettles(m)
  PROVE  Rooms(o, b)'
<1> DEFINE r == m.run
           post == Uncharged(r, ini[r].post)
<1>1. /\ ini[r].pc = "w4" /\ IniTo(r, "w6", post)
      /\ NetTo(m, "w5", Responder(r), {FreeBalance(post)})
      /\ UNCHANGED <<store, run, rsp, leases, slot, wallet, txs, mishaps>>
  BY CallerSettlesDoes
<1>2. r \in Runs /\ leases = {r} /\ net = {m} /\ IniRoom(r, o, b) /\ RspRoom(r, o, b)
  BY HolderRoom
<1>3. RoomAt(post, run[r].amount, o, b) BY <1>1, <1>2 DEF IniRoom
<1> HIDE DEF post
<1>4. IniRoom(r, o, b)' BY <1>1, <1>3 DEF IniRoom, IniTo
<1>5. RspRoom(r, o, b)' BY <1>1, <1>2, RspSame
<1>6. StoreRoom(o, b)' BY <1>1, StoreSame
<1> QED BY <1>1, <1>2, <1>4, <1>5, <1>6, HandlerRoom

LEMMA ResponderSettlesRoom ==
  ASSUME TR, Lock, NEW o \in Nat, NEW b \in Nat, Rooms(o, b), NEW m \in net, ResponderSettles(m)
  PROVE  Rooms(o, b)'
<1> DEFINE r == m.run
           post == rsp[r].post
           x == run[r].amount
           k == Message(r, "w6", Caller(r), {})
<1>1. /\ rsp[r].pc = "w5" /\ RspTo(r, "done", Opening) /\ StoreTo(Responder(r), post)
      /\ NetTo(m, "w6", Caller(r), {})
      /\ UNCHANGED <<run, ini, leases, slot, wallet, txs, mishaps>>
  BY ResponderSettlesDoes
<1>2. /\ r \in Runs /\ leases = {r} /\ net = {m} /\ IniRoom(r, o, b) /\ RspRoom(r, o, b)
      /\ ini[r].pc \notin {"save", "submit"}
  BY HolderRoom
<1>3. RoomAt(post, x, o, b) BY <1>1, <1>2 DEF RspRoom
<1>4. post \in Books /\ x \in Nat /\ Responder(r) \in Parties BY <1>2, RunFields DEF TR
<1>5. x = run'[r].amount /\ store'[Responder(r)'] = post
  BY <1>1 DEF StoreTo, Responder
<1>6. net' = {k} BY <1>1, <1>2 DEF NetTo
<1> HIDE DEF post, x, k
<1>7. RoomAt(post, 0, o, b) BY <1>3, <1>4, RoomEnough
<1>8. StoreRoom(o, b)' BY <1>1, <1>4, <1>7, StoreGoes
<1>9. IniRoom(r, o, b)' BY <1>1, <1>2, IniSame
<1>10. RspRoom(r, o, b)' BY <1>1, <1>2, RspFree DEF RspTo
<1>11. k.run = r /\ k.n = "w6" BY MessageIs DEF k
<1>12. NetRoom(o, b)' BY <1>3, <1>5, <1>6, <1>11 DEF NetRoom
<1> QED BY <1>1, <1>2, <1>8, <1>9, <1>10, <1>12, RoomStep

\* Handlers that end their message, with the run or not.
LEMMA TakenRoom ==
  ASSUME NEW o, NEW b, NEW m \in net, m.run \in Runs, net = {m}, leases = {m.run},
         leases' \subseteq leases, net' = net \ {m}, StoreRoom(o, b)',
         m.run \in leases' => IniRoom(m.run, o, b)' /\ RspRoom(m.run, o, b)'
  PROVE  Rooms(o, b)'
<1>1. net' = {} OBVIOUS
<1> QED BY <1>1, NetNone, RoomStep

LEMMA DepositInstalledRoom ==
  ASSUME TR, Lock, NEW o \in Nat, NEW b \in Nat, Rooms(o, b), NEW m \in net, DepositInstalled(m)
  PROVE  Rooms(o, b)'
<1> DEFINE r == m.run
<1>1. /\ IniTo(r, "send", Opening) /\ net' = net \ {m}
      /\ UNCHANGED <<store, run, rsp, leases, slot, wallet, txs, mishaps>>
  BY DepositInstalledDoes
<1>2. r \in Runs /\ leases = {r} /\ net = {m} /\ RspRoom(r, o, b) BY HolderRoom
<1>3. IniRoom(r, o, b)' BY <1>1, <1>2, IniFree
<1>4. RspRoom(r, o, b)' BY <1>1, <1>2, RspSame
<1>5. StoreRoom(o, b)' BY <1>1, StoreSame
<1> QED BY <1>1, <1>2, <1>3, <1>4, <1>5, TakenRoom

LEMMA DepositReturnsRoom ==
  ASSUME TR, Lock, NEW o \in Nat, NEW b \in Nat, Rooms(o, b), NEW m \in net, DepositReturns(m)
  PROVE  Rooms(o, b)'
<1> DEFINE r == m.run
           post == ini[r].post
<1>1. /\ ini[r].pc = "u2" /\ leases' = leases \ {r} /\ StoreTo(Caller(r), post)
      /\ net' = net \ {m}
  BY DepositReturnsDoes
<1>2. r \in Runs /\ leases = {r} /\ net = {m} /\ IniRoom(r, o, b) BY HolderRoom
<1>3. RoomAt(post, 0, o, b) BY <1>1, <1>2 DEF IniRoom
<1>4. Caller(r) \in Parties BY <1>2, RunFields DEF TR
<1> HIDE DEF post
<1>5. StoreRoom(o, b)' BY <1>1, <1>3, <1>4, StoreGoes
<1>6. leases' = {} BY <1>1, <1>2
<1> QED BY <1>1, <1>2, <1>5, <1>6, TakenRoom

LEMMA CallerStoresRoom ==
  ASSUME TR, Lock, NEW o \in Nat, NEW b \in Nat, Rooms(o, b), NEW m \in net,
         CallerStoresWithdrawal(m)
  PROVE  Rooms(o, b)'
<1> DEFINE r == m.run
           post == ini[r].post
<1>1. /\ m.n = "w6" /\ ini[r].pc = "w6" /\ IniTo(r, "save", post) /\ net' = net \ {m}
      /\ slot' = [slot EXCEPT ![Caller(r)] = r]
      /\ UNCHANGED <<store, run, rsp, leases, wallet, txs, mishaps>>
  BY CallerStoresDoes
<1>2. /\ r \in Runs /\ leases = {r} /\ net = {m} /\ IniRoom(r, o, b) /\ RspRoom(r, o, b)
      /\ RoomAt(store[Responder(r)], run[r].amount, o, b)
  BY <1>1, HolderRoom
<1>3. RoomAt(post, run[r].amount, o, b) BY <1>1, <1>2 DEF IniRoom
<1>4. slot'[Caller(r)] = r
  <2>1. Caller(r) \in Parties BY <1>2, RunFields DEF TR
  <2> QED BY <1>1, <2>1 DEF TR, Types
<1>5. Caller(r)' = Caller(r) /\ Responder(r)' = Responder(r) BY <1>1 DEF Caller, Responder
<1> HIDE DEF post
<1>6. IniRoom(r, o, b)' BY <1>1, <1>2, <1>3, <1>4, <1>5 DEF IniRoom, IniTo
<1>7. RspRoom(r, o, b)' BY <1>1, <1>2, RspSame
<1>8. StoreRoom(o, b)' BY <1>1, StoreSame
<1> QED BY <1>1, <1>2, <1>6, <1>7, <1>8, TakenRoom

LEMMA RefuseRoom ==
  ASSUME TR, Lock, NEW o \in Nat, NEW b \in Nat, Rooms(o, b), NEW m \in net, Refuse(m)
  PROVE  Rooms(o, b)'
<1> DEFINE r == m.run
<1>1. /\ net' = net \ {m}
      /\ \/ IniTo(r, "threw", Opening) /\ leases' = leases \ {r}
         \/ UNCHANGED <<ini, leases>>
      /\ (RspTo(r, "done", Opening) /\ rsp[r].pc \in RspWaits) \/ UNCHANGED rsp
      /\ UNCHANGED <<store, run, slot, wallet, txs, mishaps>>
  BY RefuseDoes
<1>2. /\ r \in Runs /\ leases = {r} /\ net = {m} /\ IniRoom(r, o, b) /\ RspRoom(r, o, b)
      /\ ini[r].pc \notin {"save", "submit"}
  BY HolderRoom
<1>3. r \in leases' => IniRoom(r, o, b)' BY <1>1, <1>2, IniSame
<1>4. RspRoom(r, o, b)' BY <1>1, <1>2, RspSame, RspFree DEF RspTo
<1>5. StoreRoom(o, b)' BY <1>1, StoreSame
<1>6. leases' \subseteq leases BY <1>1
<1> QED BY <1>1, <1>2, <1>3, <1>4, <1>5, <1>6, TakenRoom

LEMMA HandleRoom ==
  ASSUME TR, Lock, NEW o \in Nat, NEW b \in Nat, b = wallet.balance, Rooms(o, b), NEW m \in net,
         Handle(m)
  PROVE  Rooms(o, b)'
BY DepositSignedRoom, WithdrawalSignedRoom, CallerInstallsRoom, ResponderInstallsRoom,
   DepositInstalledRoom, ResponderUninstallsRoom, DepositReturnsRoom, CallerChargesRoom,
   ResponderReleasesRoom, CallerSettlesRoom, ResponderSettlesRoom, CallerStoresRoom, RefuseRoom
DEF Handle

-----------------------------------------------------------------------------
(* What a call does by itself.                                              *)

\* The holder of the lock goes on while no message is on its way.
LEMMA QuietRoom ==
  ASSUME TR, Lock, NEW o, NEW b, Rooms(o, b), NEW r \in Runs,
         ini[r].pc \in {"send", "mine", "save", "submit"}
  PROVE  /\ leases = {r} /\ net = {} /\ IniRoom(r, o, b) /\ RspRoom(r, o, b)
         /\ \A p \in Parties : RoomAt(store[p], 0, o, b)
<1>1. net = {} /\ IniGoing(r) BY StillQuiet
<1>2. leases = {r} BY <1>1, HolderOf
<1> QED BY <1>1, <1>2 DEF Rooms, StoreRoom

\* The run starts with a message.
LEMMA BeginsRoom ==
  ASSUME TR, Lock, NEW o, NEW b, Rooms(o, b), NEW r \in Runs, NEW post, NEW n, NEW t,
         Begins(r, post, n, t),
         \/ /\ n = "i1" /\ RoomAt(post, 0, o, b)
            /\ run[r].call = "deposit" /\ Worth(store[Responder(r)]) + o <= t
         \/ /\ n = "w1" /\ RoomAt(Uncharged(r, post), run[r].amount, o, b)
            /\ run[r].call # "deposit"
  PROVE  Rooms(o, b)'
<1> DEFINE x == Message(r, n, Responder(r), {Conditional(post)})
<1>1. /\ ini[r].pc = "queued"
      /\ LockNames(run[r].call) => leases = {} /\ leases' = {r}
      /\ IniTo(r, FirstWait(n), post)
      /\ run' = [run EXCEPT ![r].threshold = t]
      /\ run'[r].by = run[r].by /\ run'[r].call = run[r].call
      /\ run'[r].amount = run[r].amount /\ run'[r].threshold = t
      /\ \A s \in Runs \ {r} : run'[s] = run[s]
      /\ net' = net \cup {x}
      /\ mishaps' = mishaps \cup Renames(r)
      /\ UNCHANGED <<store, rsp, slot, wallet, txs>>
  BY BeginsDoes
<1>2. leases = {} /\ leases' = {r} BY <1>1 DEF Lock, LockNames
<1>3. net = {} BY <1>2 DEF Lock
<1>4. x.run = r /\ x.n = n BY MessageIs
<1>5. net' = {x} BY <1>1, <1>3
<1> HIDE DEF x
<1>6. Caller(r)' = Caller(r) /\ Responder(r)' = Responder(r) BY <1>1 DEF Caller, Responder
<1>7. rsp'[r].pc = "idle" BY <1>1 DEF Lock
<1>8. RspRoom(r, o, b)' BY <1>7, RspFree
<1>9. StoreRoom(o, b)' BY <1>1, StoreSame
<1>10. ini'[r].pc = FirstWait(n) /\ ini'[r].post = post BY <1>1 DEF IniTo
<1>11. Uncharged(r, ini[r].post)' = Uncharged(r, post) BY <1>6, <1>10 DEF Uncharged
<1>12. IniRoom(r, o, b)'
  <2>1. CASE n = "i1" BY <1>10, <2>1 DEF IniRoom, FirstWait
  <2>2. CASE n = "w1" BY <1>1, <1>10, <1>11, <2>2 DEF IniRoom, FirstWait
  <2> QED BY <2>1, <2>2
<1>13. NetRoom(o, b)'
  <2>1. CASE n = "i1" BY <1>1, <1>4, <1>5, <1>6, <2>1 DEF NetRoom
  <2>2. CASE n = "w1" BY <1>1, <1>4, <1>5, <2>2 DEF NetRoom
  <2> QED BY <2>1, <2>2
<1> QED BY <1>2, <1>8, <1>9, <1>12, <1>13, RoomStep

LEMMA DepositBeginsRoom ==
  ASSUME TR, Lock, NEW o \in Nat, NEW b \in Nat, b = wallet.balance, Rooms(o, b),
         NEW r \in Runs, DepositBegins(r)
  PROVE  Rooms(o, b)'
<1> DEFINE p == Caller(r)
           t == Threshold(p)
           c == store[p]
           d == store[Responder(r)]
           post == InstallRefundApp(c, "deposit", p, 0, t)
<1>1. run[r].call = "deposit" /\ Begins(r, post, "i1", t) BY DEF DepositBegins
<1>2. t = b BY DEF Threshold
<1>3. c \in Books /\ d \in Books /\ p \in Parties /\ Responder(r) \in Parties
  BY RunFields DEF TR
<1>4. RoomAt(c, 0, o, b) /\ RoomAt(d, 0, o, b) BY <1>3 DEF Rooms, StoreRoom
<1>5. Worth(c) + o <= b /\ Worth(d) + o <= b
  <2>1. Worth(c) + 0 + o <= b /\ Worth(d) + 0 + o <= b BY <1>4 DEF RoomAt
  <2>2. Worth(c) \in Nat /\ Worth(d) \in Nat BY <1>3, WorthIs
  <2> HIDE DEF c, d
  <2> QED BY <2>1, <2>2
<1>6. RoomAt(post, 0, o, b)
  <2> HIDE DEF p, t, c
  <2> QED BY <1>2, <1>3, <1>4, <1>5, DepositRoom
<1>7. Worth(store[Responder(r)]) + o <= t BY <1>2, <1>5
<1> HIDE DEF post, t, c, d, p
<1> QED BY <1>1, <1>6, <1>7, BeginsRoom

LEMMA WithdrawalBeginsRoom ==
  ASSUME TR, Lock, NEW o \in Nat, NEW b \in Nat, Rooms(o, b), NEW r \in Runs,
         WithdrawalBegins(r)
  PROVE  Rooms(o, b)'
<1> DEFINE p == Caller(r)
           pot == run[r].amount
           c == store[p]
           none == 0
           post == InstallRefundApp(c, "withdrawal", p, pot, none)
<1>1. /\ run[r].call # "deposit" /\ CanCharge(c, p, pot) /\ Begins(r, post, "w1", 0)
  BY DEF WithdrawalBegins
<1>2. c \in Books /\ p \in Parties /\ pot \in Nat /\ none \in Nat BY RunFields DEF TR
<1>3. RoomAt(c, 0, o, b) BY <1>2 DEF Rooms, StoreRoom
<1>4. pot <= c.bal[p] BY <1>1 DEF CanCharge
<1>5. RoomAt(Uninstall(post, post.np, p, 0), pot, o, b)
  <2> HIDE DEF p, pot, c, none
  <2> QED BY <1>2, <1>3, <1>4, ChargeRoom
<1>6. RoomAt(Uncharged(r, post), run[r].amount, o, b) BY <1>5 DEF Uncharged
<1> HIDE DEF post, c, p, pot
<1> QED BY <1>1, <1>6, BeginsRoom

\* A step of the holder that sends nothing.
LEMMA AloneRoom ==
  ASSUME NEW o, NEW b, NEW r \in Runs, leases = {r}, leases' \subseteq leases,
         net = {}, net' = net, StoreRoom(o, b)',
         r \in leases' => IniRoom(r, o, b)' /\ RspRoom(r, o, b)'
  PROVE  Rooms(o, b)'
BY NetNone, RoomStep

LEMMA SendsRoom ==
  ASSUME TR, Lock, NEW o \in Nat, NEW b \in Nat, Rooms(o, b), NEW r \in Runs,
         SendTransaction(r) \/ SendThrows(r)
  PROVE  Rooms(o, b)' /\ wallet' = wallet
         /\ (txs' = txs \/ txs' = txs \cup {DepositTransaction(r)})
<1>1. /\ ini[r].pc = "send"
      /\ txs' = txs \/ txs' = txs \cup {DepositTransaction(r)}
      /\ \/ IniTo(r, "mine", ini[r].post) /\ UNCHANGED leases
         \/ IniTo(r, "threw", Opening) /\ leases' = leases \ {r}
         \/ IniTo(r, "send", ini[r].post) /\ UNCHANGED leases
      /\ UNCHANGED <<store, run, rsp, net, slot, wallet, mishaps>>
  BY SendTransactionDoes, SendThrowsDoes
<1>2. /\ leases = {r} /\ net = {} /\ IniRoom(r, o, b) /\ RspRoom(r, o, b)
  BY <1>1, QuietRoom
<1>3. r \in leases' => IniRoom(r, o, b)' BY <1>1, <1>2, IniFree
<1>4. RspRoom(r, o, b)' BY <1>1, <1>2, RspSame
<1>5. StoreRoom(o, b)' BY <1>1, StoreSame
<1>6. leases' \subseteq leases BY <1>1
<1> QED BY <1>1, <1>2, <1>3, <1>4, <1>5, <1>6, AloneRoom

LEMMA UninstallBeginsRoom ==
  ASSUME TR, Lock, NEW o \in Nat, NEW b \in Nat, b = wallet.balance, Rooms(o, b),
         NEW r \in Runs, UninstallBegins(r)
  PROVE  Rooms(o, b)'
<1> DEFINE c    == store[Caller(r)]
           a    == TheRefundApp(c)
           post == Uninstall(c, a.id, a.by, Outcome(a))
<1>1. /\ ini[r].pc = "mine" /\ CanUninstall(c)
      /\ IniTo(r, "u2", post)
      /\ net' = net \cup {Message(r, "u1", Responder(r), {FreeBalance(post)})}
      /\ UNCHANGED <<store, run, rsp, leases, slot, wallet, txs, mishaps>>
  BY UninstallBeginsDoes
<1>2. /\ leases = {r} /\ net = {} /\ RspRoom(r, o, b)
      /\ \A p \in Parties : RoomAt(store[p], 0, o, b)
  BY <1>1, QuietRoom
<1>3. c \in Books /\ Caller(r) \in Parties /\ wallet.balance \in Nat
  BY RunFields, WalletFields DEF TR
<1>4. RoomAt(post, 0, o, b)
  <2>1. RoomAt(c, 0, o, wallet.balance) BY <1>2, <1>3
  <2> HIDE DEF c
  <2>2. RoomAt(post, 0, o, wallet.balance) BY <1>1, <1>3, <2>1, RefundRoom
  <2> QED BY <2>2
<1> HIDE DEF post
<1>5. IniRoom(r, o, b)' BY <1>1, <1>4 DEF IniRoom, IniTo
<1>6. RspRoom(r, o, b)' BY <1>1, <1>2, RspSame
<1>7. StoreRoom(o, b)' BY <1>1, StoreSame
<1>8. net' = {Message(r, "u1", Responder(r), {FreeBalance(post)})} BY <1>1, <1>2
<1>9. NetRoom(o, b)' BY <1>8, NetOne
<1> QED BY <1>1, <1>2, <1>5, <1>6, <1>7, <1>9, RoomStep

LEMMA CallerSavesRoom ==
  ASSUME TR, Lock, NEW o \in Nat, NEW b \in Nat, Rooms(o, b), NEW r \in Runs, CallerSaves(r)
  PROVE  Rooms(o, b)'
<1> DEFINE post == ini[r].post
           x == run[r].amount
<1>1. /\ ini[r].pc = "save" /\ IniTo(r, "submit", Opening) /\ StoreTo(Caller(r), post)
      /\ UNCHANGED <<run, rsp, net, leases, slot, wallet, txs, mishaps>>
  BY CallerSavesDoes
<1>2. leases = {r} /\ net = {} /\ IniRoom(r, o, b) /\ RspRoom(r, o, b) BY <1>1, QuietRoom
<1>3. /\ RoomAt(post, x, o, b) /\ slot[Caller(r)] = r
      /\ RoomAt(store[Responder(r)], x, o, b)
  BY <1>1, <1>2 DEF IniRoom
<1>4. /\ post \in Books /\ x \in Nat /\ Caller(r) \in Parties /\ Responder(r) \in Parties
      /\ Responder(r) # Caller(r)
  BY RunFields DEF TR
<1>5. /\ Caller(r)' = Caller(r) /\ Responder(r)' = Responder(r) /\ run'[r].amount = x
  BY <1>1 DEF Caller, Responder
<1>6. store'[Caller(r)] = post /\ store'[Responder(r)] = store[Responder(r)]
  BY <1>1, <1>4 DEF StoreTo
<1> HIDE DEF post, x
<1>7. RoomAt(post, 0, o, b) BY <1>3, <1>4, RoomEnough
<1>8. StoreRoom(o, b)' BY <1>1, <1>4, <1>7, StoreGoes
<1>9. ini'[r].pc = "submit" BY <1>1 DEF IniTo
<1>10. IniRoom(r, o, b)' BY <1>1, <1>3, <1>5, <1>6, <1>9 DEF IniRoom
<1>11. RspRoom(r, o, b)' BY <1>1, <1>2, RspSame
<1> QED BY <1>1, <1>2, <1>8, <1>10, <1>11, AloneRoom

LEMMA LeavesRoom ==
  ASSUME NEW o, NEW b, Rooms(o, b), NEW r \in Runs, leases' = leases \ {r},
         \A s \in leases : s = r, NetRoom(o, b)', StoreRoom(o, b)'
  PROVE  Rooms(o, b)'
<1>1. leases' = {} OBVIOUS
<1> QED BY <1>1, RoomStep

\* The withdrawal that is now owed is the one there was room for.
LEMMA WithdrawalReturnsRoom ==
  ASSUME TR, Lock, NEW o \in Nat, NEW b \in Nat, o = Owed, b = wallet.balance, Rooms(o, b),
         NEW r \in Runs, WithdrawalReturns(r), TR'
  PROVE  HasRoom'
<1> DEFINE x == run[r].amount
           t == Transaction(r, "withdrawal", 0, x)
<1>1. /\ ini[r].pc = "submit" /\ leases' = leases \ {r}
      /\ txs' = txs \cup {Transaction(slot[Caller(r)], "withdrawal", 0,
                                      run[slot[Caller(r)]].amount)}
      /\ UNCHANGED <<store, run, rsp, net, slot, wallet, mishaps>>
  BY WithdrawalReturnsDoes
<1>2. leases = {r} /\ net = {} /\ IniRoom(r, o, b) BY <1>1, QuietRoom
<1>3. slot[Caller(r)] = r BY <1>1, <1>2 DEF IniRoom
<1>4. RoomAt(store[Caller(r)], x, o, b) /\ RoomAt(store[Responder(r)], x, o, b)
  BY <1>1, <1>2 DEF IniRoom
<1>5. Parties = {Caller(r), Responder(r)} /\ x \in Nat BY RunFields DEF TR
<1>6. \A p \in Parties : RoomAt(store[p], x, o, b) BY <1>4, <1>5
<1>7. t \in Tx /\ t.kind = "withdrawal" /\ t.amount = x
  BY <1>5 DEF Transaction, Tx
<1>8. txs' = txs \cup {t} BY <1>1, <1>3
<1> HIDE DEF t, x
<1>9. txs \in SUBSET Tx /\ IsFiniteSet(txs) BY DEF TR, Types
<1>10. Due(txs) = o BY OwedIs DEF TR
<1>11. Due(txs \cup {t}) <= Due(txs) + t.amount BY <1>7, <1>9, DueAdded
<1>12. PICK o2 \in Nat : o2 = Owed' /\ o2 <= o + x
  <2>1. Owed' = Due(txs') /\ Owed' \in Nat BY OwedAfter DEF TR
  <2>2. Due(txs') <= o + x BY <1>7, <1>8, <1>10, <1>11
  <2> QED BY <2>1, <2>2
<1>13. \A p \in Parties : RoomAt(store[p], 0, o2, b)
  <2> TAKE p \in Parties
  <2> DEFINE c == store[p]
             none == 0
  <2>1. c \in Books BY DEF TR, Types
  <2>2. RoomAt(c, x, o, b) BY <1>6
  <2>3. none \in Nat /\ none + o2 <= x + o /\ none + o2 + b <= x + o + b
    <3>1. x \in Nat /\ o2 \in Nat /\ o2 <= o + x BY <1>5, <1>12
    <3> QED BY ONLY <3>1, o \in Nat, b \in Nat
  <2> HIDE DEF c, none
  <2>4. RoomAt(c, none, o2, b) BY <1>5, <1>12, <2>1, <2>2, <2>3, RoomMoves
  <2> QED BY <2>4 DEF c, none
<1>14. StoreRoom(o2, b)' BY <1>1, <1>13 DEF StoreRoom
<1>15. NetRoom(o2, b)' BY <1>1, <1>2, NetNone
<1>16. leases' = {} BY <1>1, <1>2
<1>17. Rooms(o2, b)' BY <1>14, <1>15, <1>16, RoomStep
<1> QED BY <1>1, <1>12, <1>17, RoomsKept

-----------------------------------------------------------------------------
(* What goes wrong.                                                         *)

\* Halves that end, messages and leases that are lost.
LEMMA LostRoom ==
  ASSUME NEW o, NEW b, Rooms(o, b), UNCHANGED <<run, store, slot>>, leases' \subseteq leases,
         leases \in SUBSET Runs, net' \subseteq net,
         \A r \in leases' : ini'[r] = ini[r] \/ ini'[r].pc \in Ends,
         \A r \in leases' : rsp'[r] = rsp[r] \/ rsp'[r].pc = "done"
  PROVE  Rooms(o, b)'
<1>1. StoreRoom(o, b)' BY StoreSame
<1>2. NetRoom(o, b)' BY NetFewer DEF Rooms
<1>3. ASSUME NEW r \in leases' PROVE IniRoom(r, o, b)' /\ RspRoom(r, o, b)'
  <2>1. IniRoom(r, o, b) /\ RspRoom(r, o, b) BY <1>3 DEF Rooms
  <2>2. IniRoom(r, o, b)'
    BY <1>3, <2>1 DEF IniRoom, Uncharged, Caller, Responder, Ends
  <2>3. RspRoom(r, o, b)' BY <1>3, <2>1, RspSame, RspFree
  <2> QED BY <2>2, <2>3
<1> QED BY <1>1, <1>2, <1>3 DEF Rooms

LEMMA TimesOutRoom ==
  ASSUME TR, Lock, NEW o, NEW b, Rooms(o, b), NEW r \in Runs, TimesOut(r)
  PROVE  Rooms(o, b)' /\ UNCHANGED <<wallet, txs>>
<1>0. leases \in SUBSET Runs BY DEF TR, Types
<1>1. CASE CallerTimesOut(r)
  <2>1. /\ IniTo(r, "threw", Opening) /\ leases' = leases \ {r}
        /\ UNCHANGED <<store, run, rsp, net, slot, wallet, txs, mishaps>>
    BY <1>1, CallerTimesOutDoes
  <2>2. \A s \in leases' : ini'[s] = ini[s] BY <1>0, <2>1 DEF IniTo
  <2> QED BY <1>0, <2>1, <2>2, LostRoom
<1>2. CASE ResponderTimesOut(r)
  <2>1. /\ RspTo(r, "done", Opening)
        /\ UNCHANGED <<store, run, ini, net, leases, slot, wallet, txs, mishaps>>
    BY <1>2, ResponderTimesOutDoes
  <2>2. \A s \in leases' : rsp'[s] = rsp[s] \/ rsp'[s].pc = "done"
    BY <1>0, <2>1 DEF RspTo
  <2> QED BY <1>0, <2>1, <2>2, LostRoom
<1>3. CASE LeaseExpires(r)
  <2>1. /\ leases' = leases \ {r}
        /\ UNCHANGED <<store, run, ini, rsp, net, slot, wallet, txs, mishaps>>
    BY <1>3 DEF LeaseExpires, chain
  <2> QED BY <1>0, <2>1, LostRoom
<1> QED BY <1>1, <1>2, <1>3 DEF TimesOut

LEMMA LoseRoom ==
  ASSUME TR, NEW o, NEW b, Rooms(o, b), NEW m \in net, Lose(m)
  PROVE  Rooms(o, b)' /\ UNCHANGED <<wallet, txs>>
<1>1. /\ net' \subseteq net
      /\ UNCHANGED <<store, run, ini, rsp, leases, slot, wallet, txs, mishaps>>
  BY DEF Lose, chain
<1>2. leases \in SUBSET Runs BY DEF TR, Types
<1> QED BY <1>1, <1>2, LostRoom

LEMMA CrashRoom ==
  ASSUME TR, NEW o, NEW b, Rooms(o, b), NEW p \in Parties, Crash(p)
  PROVE  Rooms(o, b)' /\ UNCHANGED <<wallet, txs>>
<1>1. /\ \A r \in Runs : ini'[r] = ini[r] \/ ini'[r].pc = "crashed"
      /\ \A r \in Runs : rsp'[r] = rsp[r] \/ rsp'[r].pc = "done"
      /\ UNCHANGED <<store, run, net, leases, slot, wallet, txs>>
  BY CrashDoes
<1>2. leases \in SUBSET Runs BY DEF TR, Types
<1>3. "crashed" \in Ends BY DEF Ends
<1>4. \A r \in leases' : ini'[r] = ini[r] \/ ini'[r].pc \in Ends BY <1>1, <1>2, <1>3
<1>5. \A r \in leases' : rsp'[r] = rsp[r] \/ rsp'[r].pc = "done" BY <1>1, <1>2
<1> QED BY <1>1, <1>2, <1>4, <1>5, LostRoom

-----------------------------------------------------------------------------
(* What the applications ask for.                                           *)

LEMMA CallRoom ==
  ASSUME TR, Lock, NEW o, NEW b, Rooms(o, b), NEW r \in Runs, NEW p \in Parties,
         NEW call \in Calls, NEW amount \in Amounts, Call(r, p, call, amount)
  PROVE  Rooms(o, b)' /\ UNCHANGED <<wallet, txs>>
<1>1. /\ ini[r].pc = "idle" /\ IniTo(r, "queued", Opening)
      /\ \A s \in Runs \ {r} : run'[s] = run[s]
      /\ UNCHANGED <<store, rsp, net, leases, slot, wallet, txs, mishaps>>
  BY CallDoes
<1>2. r \notin leases /\ leases \in SUBSET Runs BY <1>1 DEF TR, Types, Lock
<1>3. \A s \in leases : run'[s] = run[s] /\ ini'[s] = ini[s] BY <1>1, <1>2 DEF IniTo
<1>4. \A m \in net : m.run \in leases BY DEF Lock
<1>5. StoreRoom(o, b)' BY <1>1, StoreSame
<1>6. NetRoom(o, b)' BY <1>1, <1>3, <1>4 DEF Rooms, NetRoom, Responder
<1>7. ASSUME NEW s \in leases PROVE IniRoom(s, o, b)' /\ RspRoom(s, o, b)'
  <2>1. IniRoom(s, o, b) /\ RspRoom(s, o, b) BY <1>7 DEF Rooms
  <2>2. run'[s] = run[s] /\ ini'[s] = ini[s] /\ UNCHANGED <<store, rsp, slot>>
    BY <1>1, <1>3, <1>7
  <2>3. IniRoom(s, o, b)' BY <2>1, <2>2 DEF IniRoom, Uncharged, Caller, Responder
  <2>4. RspRoom(s, o, b)' BY <2>1, <2>2 DEF RspRoom, Uncharged, Caller
  <2> QED BY <2>3, <2>4
<1> QED BY <1>1, <1>5, <1>6, <1>7 DEF Rooms

\* The protocols of other apps, which hold the lock.
LEMMA BothHaveRoom ==
  ASSUME Lock, NEW o, NEW b, NEW c, BothHave(c), RoomAt(c, 0, o, b)
  PROVE  Rooms(o, b)' /\ UNCHANGED <<wallet, txs>>
<1>1. /\ leases = {} /\ store' = [p \in Parties |-> c]
      /\ UNCHANGED <<run, ini, rsp, net, leases, slot, wallet, txs, mishaps>>
  BY DEF BothHave, chain
<1>2. net = {} BY <1>1 DEF Lock
<1>3. \A p \in Parties : store'[p] = c BY <1>1
<1>4. StoreRoom(o, b)' BY <1>3 DEF StoreRoom
<1>5. NetRoom(o, b)' BY <1>1, <1>2, NetNone
<1> QED BY <1>1, <1>4, <1>5 DEF Rooms

LEMMA ProposeAppRoom ==
  ASSUME TR, Lock, NEW o \in Nat, NEW b \in Nat, Rooms(o, b), NEW p \in Parties,
         NEW pot \in Nat, ProposeApp(p, pot)
  PROVE  Rooms(o, b)' /\ UNCHANGED <<wallet, txs>>
<1> DEFINE c == store[p]
<1>1. BothHave(Proposed(c, p, pot)) BY DEF ProposeApp, Proposed
<1>2. c \in Books /\ RoomAt(c, 0, o, b) BY DEF TR, Types, Rooms, StoreRoom
<1> HIDE DEF c
<1>3. RoomAt(Proposed(c, p, pot), 0, o, b) BY <1>2, ProposedRoom
<1> QED BY <1>1, <1>3, BothHaveRoom

LEMMA UninstallAppKeepsRoom ==
  ASSUME TR, Lock, NEW o \in Nat, NEW b \in Nat, Rooms(o, b), NEW p \in Parties,
         NEW a \in store[Alice].apps, UninstallApp(a, p)
  PROVE  Rooms(o, b)' /\ UNCHANGED <<wallet, txs>>
<1> DEFINE c == store[p]
           d == Uninstall(c, a.id, p, a.pot)
<1>1. BothHave(d) /\ store[Alice] = store[Bob] BY DEF UninstallApp, BothHave
<1>2. c \in Books /\ RoomAt(c, 0, o, b) BY DEF TR, Types, Rooms, StoreRoom
<1>3. a \in c.apps BY <1>1 DEF Parties
<1> HIDE DEF c
<1>4. RoomAt(d, 0, o, b) BY <1>2, <1>3, UninstallAppRoom
<1> HIDE DEF d
<1> QED BY <1>1, <1>4, BothHaveRoom

LEMMA InstallAppRoom ==
  ASSUME TR, Lock, NEW o \in Nat, NEW b \in Nat, Rooms(o, b),
         NEW q \in store[Alice].props, InstallApp(q)
  PROVE  Rooms(o, b)' /\ UNCHANGED <<wallet, txs>>
<1> DEFINE c == store[q.by]
           a == AppOf(q)
<1>1. store[Alice] \in Books BY Couple DEF TR, Types
<1>2. q \in Proposal BY <1>1, BooksFields
<1>3. /\ a \in App /\ a.kind = "app" /\ a.by = q.by /\ a.pot = q.pot /\ q.by \in Parties
  BY <1>2, AppOfIs
<1>4. c \in Books /\ RoomAt(c, 0, o, b) BY <1>3 DEF TR, Types, Rooms, StoreRoom
<1>5. BothHave(InstallAs(c, a)) /\ q.pot <= c.bal[q.by]
  BY DEF InstallApp, AppOf, CanCharge
<1>6. a.pot <= c.bal[a.by] BY <1>3, <1>5
<1> HIDE DEF c, a
<1>7. RoomAt(InstallAs(c, a), 0, o, b) BY <1>3, <1>4, <1>6, InstallRoom
<1> QED BY <1>5, <1>7, BothHaveRoom

LEMMA AskRoom ==
  ASSUME TR, Lock, NEW o \in Nat, NEW b \in Nat, Rooms(o, b), Ask
  PROVE  Rooms(o, b)' /\ UNCHANGED <<wallet, txs>>
<1>1. Amounts \subseteq Nat BY FundingConstants
<1> QED BY <1>1, CallRoom, ProposeAppRoom, InstallAppRoom, UninstallAppKeepsRoom DEF Ask

-----------------------------------------------------------------------------
(* The chain.                                                               *)

LEMMA RoomsMove ==
  ASSUME TR, NEW o \in Nat, NEW b \in Nat, NEW o2 \in Nat, NEW b2 \in Nat, Rooms(o, b),
         o2 <= o, o2 + b <= o + b2,
         UNCHANGED <<store, run, ini, rsp, net, leases, slot>>
  PROVE  Rooms(o2, b2)'
<1>0. leases \in SUBSET Runs /\ Types BY DEF TR, Types
<1>1. ASSUME NEW c \in Books, NEW x \in Nat, RoomAt(c, x, o, b) PROVE RoomAt(c, x, o2, b2)
  <2>1. x + o2 <= x + o /\ x + o2 + b <= x + o + b2 OBVIOUS
  <2> QED BY <1>1, <2>1, RoomMoves
<1>2. \A p \in Parties : RoomAt(store[p], 0, o2, b2)
  <2> TAKE p \in Parties
  <2> DEFINE c == store[p]
             none == 0
  <2>1. c \in Books /\ none \in Nat /\ RoomAt(c, none, o, b) BY <1>0 DEF Types, Rooms, StoreRoom
  <2> HIDE DEF c, none
  <2>2. RoomAt(c, none, o2, b2) BY <1>1, <2>1
  <2> QED BY <2>2 DEF c, none
<1>3. ASSUME NEW r \in leases PROVE IniRoom(r, o2, b2)' /\ RspRoom(r, o2, b2)'
  <2> DEFINE x == run[r].amount
             i == ini[r].post
             k == rsp[r].post
             iu == Uncharged(r, i)
             ku == Uncharged(r, k)
             c == store[Caller(r)]
             d == store[Responder(r)]
  <2>1. r \in Runs BY <1>0, <1>3
  <2>2. i \in Books /\ k \in Books /\ c \in Books /\ d \in Books /\ x \in Nat
    BY <1>0, <2>1, RunFields
  <2>3. iu \in Books /\ ku \in Books
    <3> HIDE DEF i, k
    <3> QED BY <1>0, <2>1, <2>2, UnchargedBooks
  <2>4. IniRoom(r, o, b) /\ RspRoom(r, o, b) BY <1>3 DEF Rooms
  <2>5. IniRoom(r, o, b)' /\ RspRoom(r, o, b)'
    BY <2>4 DEF IniRoom, RspRoom, Uncharged, Caller, Responder
  <2>6. \A e \in {i, k, iu, ku, c, d} : RoomAt(e, x, o, b) => RoomAt(e, x, o2, b2)
    <3> HIDE DEF i, k, iu, ku, c, d, x
    <3> QED BY <1>1, <2>2, <2>3
  <2>7. \A e \in {i, k} : RoomAt(e, 0, o, b) => RoomAt(e, 0, o2, b2)
    <3> DEFINE none == 0
    <3>1. none \in Nat OBVIOUS
    <3> HIDE DEF i, k, none
    <3>2. \A e \in {i, k} : RoomAt(e, none, o, b) => RoomAt(e, none, o2, b2)
      BY <1>1, <2>2, <3>1
    <3> QED BY <3>2 DEF none
  <2>8. IniRoom(r, o2, b2) BY <2>4, <2>6, <2>7 DEF IniRoom
  <2>9. RspRoom(r, o2, b2) BY <2>4, <2>6, <2>7 DEF RspRoom
  <2> HIDE DEF x, i, k, iu, ku, c, d
  <2>10. IniRoom(r, o2, b2)' BY <2>8 DEF IniRoom, Uncharged, Caller, Responder
  <2>11. RspRoom(r, o2, b2)' BY <2>9 DEF RspRoom, Uncharged, Caller, Responder
  <2> QED BY <2>10, <2>11
<1>4. NetRoom(o2, b2)
  <2> SUFFICES ASSUME NEW m \in net
               PROVE  /\ m.n = "i1" => /\ run[m.run].call = "deposit"
                                       /\ Worth(store[Responder(m.run)]) + o2 <= run[m.run].threshold
                      /\ m.n = "w1" => run[m.run].call # "deposit"
                      /\ m.n = "w6" => RoomAt(store[Responder(m.run)], run[m.run].amount, o2, b2)
    BY DEF NetRoom
  <2> DEFINE c == store[Responder(m.run)]
             x == run[m.run].amount
             t == run[m.run].threshold
             w == Worth(c)
  <2>1. /\ m.n = "i1" => run[m.run].call = "deposit" /\ w + o <= t
        /\ m.n = "w1" => run[m.run].call # "deposit"
        /\ m.n = "w6" => RoomAt(c, x, o, b)
    BY DEF Rooms, NetRoom
  <2>2. m.run \in Runs BY <1>0, NetRuns
  <2>3. c \in Books /\ x \in Nat /\ t \in Nat BY <1>0, <2>2, RunFields
  <2> HIDE DEF c
  <2>4. w \in Nat BY <2>3, WorthIs
  <2> HIDE DEF x, t, w
  <2>5. w + o <= t => w + o2 <= t BY <2>3, <2>4
  <2>6. RoomAt(c, x, o, b) => RoomAt(c, x, o2, b2) BY <1>1, <2>3
  <2> QED BY <2>1, <2>5, <2>6 DEF c, x, t, w
<1>5. NetRoom(o2, b2)' BY <1>4 DEF NetRoom, Responder
<1>6. StoreRoom(o2, b2)' BY <1>2 DEF StoreRoom
<1> QED BY <1>3, <1>5, <1>6 DEF Rooms

\* What the wallet no longer owes it has paid, or refused to pay.
LEMMA MineRoom ==
  ASSUME TR, TR', NEW o \in Nat, NEW b \in Nat, o = Owed, b = wallet.balance, Rooms(o, b),
         NEW t \in txs, Mine(t)
  PROVE  HasRoom'
<1>1. UNCHANGED <<store, run, ini, rsp, net, leases, slot>> BY DEF Mine
<1>2. txs \in SUBSET Tx /\ IsFiniteSet(txs) BY DEF TR, Types
<1>3. t \in Tx /\ t.amount \in Nat BY <1>2 DEF Tx
<1>4. txs' = txs \ {t} BY DEF Mine, MineDeposit, MineWithdrawal, RevertWithdrawal
<1>5. o = Due(txs) /\ Owed' = Due(txs \ {t}) /\ Owed' \in Nat
  BY <1>4, OwedIs, OwedAfter DEF TR
<1>6. /\ t.kind = "deposit" => Owed' = o
      /\ t.kind = "withdrawal" => Owed' + t.amount = o
  BY <1>2, <1>5, DueTaken
<1>7. wallet'.balance \in Nat BY WalletFields DEF TR, Types, Wallet
<1>8. wallet = [balance |-> b, executed |-> wallet.executed, reverted |-> wallet.reverted]
  BY WalletFields DEF TR
<1> DEFINE x == t.amount
<1>9. \/ t.kind = "deposit" /\ wallet'.balance = b + x
      \/ t.kind = "withdrawal" /\ x <= b /\ wallet'.balance = b - x
      \/ t.kind = "withdrawal" /\ wallet'.balance = b
  <2>1. CASE MineDeposit(t) BY <1>8, <2>1 DEF MineDeposit
  <2>2. CASE MineWithdrawal(t) BY <1>8, <2>2 DEF MineWithdrawal
  <2>3. CASE RevertWithdrawal(t) BY <1>8, <2>3 DEF RevertWithdrawal
  <2> QED BY <2>1, <2>2, <2>3 DEF Mine
<1>10. PICK o2 \in Nat : o2 = Owed' BY <1>5
<1>11. PICK b2 \in Nat : b2 = wallet'.balance BY <1>7
<1>12. /\ t.kind = "deposit" => o2 = o
       /\ t.kind = "withdrawal" => o2 + x = o
  BY <1>6, <1>10
<1>13. \/ t.kind = "deposit" /\ b2 = b + x
       \/ t.kind = "withdrawal" /\ x <= b /\ b2 = b - x
       \/ t.kind = "withdrawal" /\ b2 = b
  BY <1>9, <1>11
<1>14. x \in Nat BY <1>3
<1> HIDE DEF x
<1>15. o2 <= o /\ o2 + b <= o + b2
  BY ONLY <1>12, <1>13, <1>14, o \in Nat, b \in Nat, o2 \in Nat, b2 \in Nat
<1>16. Rooms(o2, b2)' BY <1>1, <1>15, RoomsMove
<1> QED BY <1>10, <1>11, <1>16, RoomsKept

-----------------------------------------------------------------------------
(* Solvency.                                                                *)

LEMMA ProceedRoom ==
  ASSUME TR, TR', Lock, NEW o \in Nat, NEW b \in Nat, o = Owed, b = wallet.balance,
         Rooms(o, b), NEW r \in Runs, Proceed(r)
  PROVE  HasRoom'
<1>1. ASSUME Rooms(o, b)', UNCHANGED <<wallet, txs>> PROVE HasRoom'
  <2>1. Owed' = o BY <1>1, OwedIs, OwedAfter DEF TR
  <2> QED BY <1>1, <2>1, RoomsKept
<1>2. CASE DepositBegins(r)
  BY <1>1, <1>2, DepositBeginsRoom DEF DepositBegins, Begins, chain
<1>3. CASE WithdrawalBegins(r)
  BY <1>1, <1>3, WithdrawalBeginsRoom DEF WithdrawalBegins, Begins, chain
<1>4. CASE WithdrawalThrows(r)
  <2>1. /\ ini[r].pc = "queued" /\ run[r].call # "deposit"
        /\ (LockNames(run[r].call) => leases = {})
        /\ ~CanCharge(store[Caller(r)], Caller(r), run[r].amount)
        /\ IniTo(r, "threw", Opening) /\ leases' = leases \ {r}
        /\ UNCHANGED <<store, run, rsp, net, slot, wallet, txs, mishaps>>
    BY <1>4, WithdrawalThrowsDoes
  <2>2. leases = {} BY <2>1 DEF Lock, LockNames
  <2>3. Rooms(o, b)' BY <2>1, <2>2, LostRoom
  <2> QED BY <1>1, <2>1, <2>3
<1>5. CASE SendTransaction(r) \/ SendThrows(r)
  <2> DEFINE t == DepositTransaction(r)
  <2>1. /\ Rooms(o, b)' /\ wallet' = wallet
        /\ (txs' = txs \/ txs' = txs \cup {t})
    BY <1>5, SendsRoom
  <2>2. t \in Tx /\ t.kind = "deposit"
    BY RunFields DEF TR, DepositTransaction, Transaction, Tx, IniHalf
  <2> HIDE DEF t
  <2>3. txs \in SUBSET Tx /\ IsFiniteSet(txs) BY DEF TR, Types
  <2>4. Due(txs') = Due(txs) BY <2>1, <2>2, <2>3, DueAdded
  <2>5. Owed' = o BY <2>4, OwedIs, OwedAfter DEF TR
  <2> QED BY <2>1, <2>5, RoomsKept
<1>6. CASE UninstallBegins(r)
  BY <1>1, <1>6, UninstallBeginsRoom DEF UninstallBegins, chain
<1>7. CASE UninstallThrows(r)
  <2>1. /\ ini[r].pc = "mine" /\ ~CanUninstall(store[Caller(r)])
        /\ IniTo(r, "threw", Opening) /\ leases' = leases \ {r}
        /\ UNCHANGED <<store, run, rsp, net, slot, wallet, txs, mishaps>>
    BY <1>7, UninstallThrowsDoes
  <2>2. leases = {r} BY <2>1, QuietRoom
  <2>3. leases' = {} /\ leases \in SUBSET Runs BY <2>1, <2>2
  <2>4. Rooms(o, b)' BY <2>1, <2>3, LostRoom
  <2> QED BY <1>1, <2>1, <2>4
<1>8. CASE CallerSaves(r)
  BY <1>1, <1>8, CallerSavesRoom DEF CallerSaves, chain
<1>9. CASE WithdrawalReturns(r) BY <1>9, WithdrawalReturnsRoom
<1> QED
  BY <1>2, <1>3, <1>4, <1>5, <1>6, <1>7, <1>8, <1>9 DEF Proceed

LEMMA NextRoom ==
  ASSUME TR, TR', Lock, HasRoom, [Next]_vars
  PROVE  HasRoom'
<1>1. PICK o \in Nat : o = Owed BY OwedIs DEF TR
<1>2. PICK b \in Nat : b = wallet.balance BY WalletFields DEF TR
<1>3. Rooms(o, b) BY <1>1, <1>2 DEF HasRoom
<1>4. ASSUME Rooms(o, b)', UNCHANGED <<wallet, txs>> PROVE HasRoom'
  <2>1. Owed' = o BY <1>1, <1>4, OwedIs, OwedAfter DEF TR
  <2> QED BY <1>2, <1>4, <2>1, RoomsKept
<1>5. CASE Ask BY <1>3, <1>4, <1>5, AskRoom
<1>6. ASSUME NEW r \in Runs, Proceed(r) PROVE HasRoom'
  BY <1>1, <1>2, <1>3, <1>6, ProceedRoom
<1>7. ASSUME NEW r \in Runs, TimesOut(r) PROVE HasRoom'
  BY <1>3, <1>4, <1>7, TimesOutRoom
<1>8. ASSUME NEW m \in net, Handle(m) PROVE HasRoom'
  <2>1. UNCHANGED <<wallet, txs>>
    BY <1>8 DEF Handle, ResponderSigns, CallerInstalls, ResponderInstalls, DepositInstalled,
       ResponderUninstalls, DepositReturns, CallerCharges, ResponderReleases, CallerSettles,
       ResponderSettles, CallerStoresWithdrawal, Refuse, chain
  <2> QED BY <1>2, <1>3, <1>4, <1>8, <2>1, HandleRoom
<1>9. ASSUME NEW m \in net, Lose(m) PROVE HasRoom' BY <1>3, <1>4, <1>9, LoseRoom
<1>10. ASSUME NEW t \in txs, Mine(t) PROVE HasRoom' BY <1>1, <1>2, <1>3, <1>10, MineRoom
<1>11. ASSUME NEW p \in Parties, Crash(p) PROVE HasRoom' BY <1>3, <1>4, <1>11, CrashRoom
<1>12. CASE UNCHANGED vars
  <2>1. Rooms(o, b)' BY <1>3, <1>12
    DEF vars, Rooms, StoreRoom, IniRoom, RspRoom, NetRoom, Uncharged, Caller, Responder
  <2> QED BY <1>4, <1>12, <2>1 DEF vars, chain
<1> QED
  BY <1>5, <1>6, <1>7, <1>8, <1>9, <1>10, <1>11, <1>12 DEF Next, Step

LEMMA InitRoom ==
  ASSUME Init
  PROVE  HasRoom
<1> DEFINE w == Worth(Opening)
<1>1. TR BY InitTypes
<1>2. txs = {} /\ leases = {} /\ net = {} /\ wallet.balance = w
      /\ \A p \in Parties : store[p] = Opening
  BY DEF Init
<1>3. Owed = 0
  <2>1. Owed = Due(txs) BY <1>1, OwedIs DEF TR
  <2>2. Dues({}) = {} BY DEF Dues
  <2> QED BY <1>2, <2>1, <2>2, TotalEmpty DEF Due
<1>4. w \in Nat BY OpeningBooks, WorthIs
<1>5. w + 0 + 0 <= w BY <1>4
<1>6. \A a \in Opening.apps : a.kind = "app" BY OpeningNumbered
<1>7. RoomAt(Opening, 0, 0, w) BY <1>5, <1>6 DEF RoomAt
<1> HIDE DEF w
<1>8. StoreRoom(0, w) BY <1>2, <1>7 DEF StoreRoom
<1>9. NetRoom(0, w) BY <1>2 DEF NetRoom
<1> QED BY <1>2, <1>3, <1>8, <1>9 DEF HasRoom, Rooms

LEMMA RoomSolvent ==
  ASSUME TR, HasRoom
  PROVE  Solvent
<1> SUFFICES ASSUME NEW p \in Parties PROVE Worth(store[p]) + Owed <= wallet.balance
  BY DEF Solvent
<1>1. RoomAt(store[p], 0, Owed, wallet.balance) BY DEF HasRoom, Rooms, StoreRoom
<1>2. store[p] \in Books BY DEF TR, Types
<1> DEFINE w == Worth(store[p])
           o == Owed
           b == wallet.balance
<1>3. w \in Nat /\ o \in Nat BY <1>2, WorthIs, OwedIs DEF TR
<1>4. w + 0 + o <= b BY <1>1 DEF RoomAt
<1> HIDE DEF w, o, b
<1>5. w + o <= b BY <1>3, <1>4
<1> QED BY <1>5 DEF w, o, b

\* Under the lock of the channel the books of neither party promise more than
\* the wallet has after the withdrawals on their way, whatever is lost or
\* crashes, and however often a deposit is sent: a channel is never persisted
\* before the wallet has what it promises, because a deposit credits only what
\* is above the balance it began with, and a withdrawal is owed only when both
\* have persisted the channel without it.
THEOREM WalletCoversBooks ==
  ASSUME UnderLock
  PROVE  Spec => []Solvent
<1>1. Init => TR /\ Lock /\ HasRoom BY InitTypes, InitLock, InitRoom
<1>2. TR /\ Lock /\ HasRoom /\ [Next]_vars => (TR /\ Lock /\ HasRoom)'
  <2> SUFFICES ASSUME TR, Lock, HasRoom, [Next]_vars PROVE (TR /\ Lock /\ HasRoom)'
    OBVIOUS
  <2>1. TR' BY NextTypes
  <2>2. Lock' BY NextLock
  <2> QED BY <2>1, <2>2, NextRoom
<1>3. TR /\ HasRoom => Solvent BY RoomSolvent
<1> QED BY <1>1, <1>2, <1>3, PTL DEF Spec

LEMMA TypesOK ==
  ASSUME TR
  PROVE  TypeOK
<1>1. /\ store \in [Parties -> Channel] /\ run \in [Runs -> Run]
      /\ leases \subseteq Runs /\ slot \in [Parties -> Runs \cup {0}]
      /\ mishaps \subseteq {"raced", "renamed", "crashed"}
  BY DEF TR, Types, Books
<1>2. wallet.balance \in Nat /\ wallet.reverted \in Nat BY WalletFields DEF TR
<1>3. ASSUME NEW r \in Runs
      PROVE  /\ ini[r].pc \in {"idle", "queued"} \cup Ends \/ IniGoing(r)
             /\ rsp[r].pc \in {"idle", "done"} \cup RspWaits
             /\ ini[r].post \in Channel /\ rsp[r].post \in Channel
  <2>1. ini[r].pc \in IniPc /\ ini[r].post \in Books /\ rsp[r].pc \in RspPc
        /\ rsp[r].post \in Books
    BY <1>3, RunFields DEF TR
  <2> QED BY <2>1 DEF IniPc, RspPc, IniGoing, Books
<1> QED BY <1>1, <1>2, <1>3 DEF TypeOK, Run

\* Whatever is lost or crashes, and whether calls take the lock or not, no free
\* balance is ever overdrawn.
THEOREM BalancesAreNatural == Spec => []TypeOK
<1>1. TR => TypeOK BY TypesOK
<1> QED BY <1>1, TypesInvariance, PTL

-----------------------------------------------------------------------------
(* The two parties' books when nothing goes wrong.                          *)

CallerHas(r) == store[Caller(r)]
ResponderHas(r) == store[Responder(r)]

Names == {"i1", "i2", "i3", "i4", "u1", "u2", "w1", "w2", "w3", "w4", "w5", "w6"}

\* The refund app that a run uninstalls.
Refunded(c, x) == Uninstall(c, TheRefundApp(c).id, TheRefundApp(c).by, x)

\* What a message means: how far the halves of its run are, that both compute
\* the same channel, and that all signatures are there.
InstallTalk(m, r, post) ==
  /\ m.n = "i1" => ini[r].pc = "i2" /\ post = RefundAppAtResponder(r) /\ CanSign(m)
  /\ m.n = "i2" => /\ ini[r].pc = "i2" /\ rsp[r].pc = "i3" /\ rsp[r].post = post
                   /\ m.sigs = {Conditional(post), FreeBalance(post)}
  /\ m.n = "i3" => /\ ini[r].pc = "i4" /\ rsp[r].pc = "i3" /\ rsp[r].post = CallerHas(r)
                   /\ m.sigs = {FreeBalance(rsp[r].post)}
  /\ m.n = "i4" => ini[r].pc = "i4"

UninstallTalk(m, r, post) ==
  /\ m.n = "u1" => /\ ini[r].pc = "u2" /\ m.sigs = {FreeBalance(post)}
                   /\ \E x \in Nat : post = Refunded(CallerHas(r), x)
  /\ m.n = "u2" => /\ ini[r].pc = "u2" /\ ResponderHas(r) = post
                   /\ m.sigs = {FreeBalance(post)}

WithdrawTalk(m, r, post) ==
  /\ m.n = "w1" => ini[r].pc = "w2" /\ post = RefundAppAtResponder(r) /\ CanSign(m)
  /\ m.n = "w2" => /\ ini[r].pc = "w2" /\ rsp[r].pc = "w3" /\ rsp[r].post = post
                   /\ m.sigs = {Conditional(post), FreeBalance(post)}
  /\ m.n = "w3" => /\ ini[r].pc = "w4" /\ rsp[r].pc = "w3" /\ rsp[r].post = post
                   /\ m.sigs = {FreeBalance(post), Withdrawal(r)}
  /\ m.n = "w4" => /\ ini[r].pc = "w4" /\ rsp[r].pc = "w5"
                   /\ rsp[r].post = Uncharged(r, post)
                   /\ m.sigs = {Withdrawal(r), FreeBalance(rsp[r].post)}
  /\ m.n = "w5" => /\ ini[r].pc = "w6" /\ rsp[r].pc = "w5" /\ rsp[r].post = post
                   /\ m.sigs = {FreeBalance(post)}
  /\ m.n = "w6" => ini[r].pc = "w6" /\ ResponderHas(r) = post

Talk(m) ==
  /\ m.n \in Names
  /\ m.n \notin {"i3", "u2", "w6"} => CallerHas(m.run) = ResponderHas(m.run)
  /\ InstallTalk(m, m.run, ini[m.run].post)
  /\ UninstallTalk(m, m.run, ini[m.run].post)
  /\ WithdrawTalk(m, m.run, ini[m.run].post)

\* What the caller does while no message is on its way; or its offer to
\* uninstall has been refused.
Silent(r) ==
  /\ ini[r].pc \in {"send", "mine", "save", "submit", "u2"}
  /\ ini[r].pc = "save" => ResponderHas(r) = ini[r].post
  /\ ini[r].pc # "save" => CallerHas(r) = ResponderHas(r)

Agreeing ==
  /\ leases = {} => store[Alice] = store[Bob]
  /\ \A m \in net : Talk(m)
  /\ net = {} => \A r \in leases : Silent(r)

Agreed == faults = {} => Agreeing

LEMMA TalkSame ==
  ASSUME NEW m, Talk(m), UNCHANGED store, run'[m.run] = run[m.run],
         ini'[m.run] = ini[m.run], rsp'[m.run] = rsp[m.run]
  PROVE  Talk(m)'
<1>1. /\ Caller(m.run)' = Caller(m.run) /\ Responder(m.run)' = Responder(m.run)
      /\ Withdrawal(m.run)' = Withdrawal(m.run)
      /\ ini[m.run].post' = ini[m.run].post
  BY DEF Caller, Responder, Withdrawal
<1>2. /\ CallerHas(m.run)' = CallerHas(m.run) /\ ResponderHas(m.run)' = ResponderHas(m.run)
  BY <1>1 DEF CallerHas, ResponderHas
<1>3. RefundAppAtResponder(m.run)' = RefundAppAtResponder(m.run)
  BY <1>1 DEF RefundAppAtResponder
<1>4. CanSign(m) => CanSign(m)' BY <1>1, <1>3 DEF CanSign
<1>5. InstallTalk(m, m.run, ini[m.run].post)'
  BY <1>1, <1>2, <1>3, <1>4 DEF Talk, InstallTalk
<1>6. UninstallTalk(m, m.run, ini[m.run].post)' BY <1>1, <1>2 DEF Talk, UninstallTalk
<1>7. WithdrawTalk(m, m.run, ini[m.run].post)'
  BY <1>1, <1>2, <1>3, <1>4 DEF Talk, WithdrawTalk, Uncharged
<1> QED BY <1>2, <1>5, <1>6, <1>7 DEF Talk

\* The parties of a run are the two.
LEMMA BothAgree ==
  ASSUME Types, NEW r \in Runs
  PROVE  CallerHas(r) = ResponderHas(r) <=> store[Alice] = store[Bob]
<1>1. Parties = {Caller(r), Responder(r)} /\ Caller(r) # Responder(r) BY RunFields
<1>2. Alice # Bob BY Couple
<1> QED BY <1>1, <1>2 DEF Parties, CallerHas, ResponderHas

LEMMA TalkOf ==
  ASSUME TR, Lock, Agreeing, NEW m \in net
  PROVE  /\ m.run \in Runs /\ leases = {m.run} /\ net = {m} /\ Talk(m)
BY Holder DEF Agreeing

\* The message that is sent is the only one.
LEMMA TalkGoes ==
  ASSUME NEW r, leases' = {r}, NEW k, net' = {k}, Talk(k)'
  PROVE  Agreeing'
BY DEF Agreeing

LEMMA SilentGoes ==
  ASSUME NEW r, leases' = {r}, net' = {}, Silent(r)'
  PROVE  Agreeing'
BY DEF Agreeing

LEMMA EndGoes ==
  ASSUME leases' = {}, net' = {}, store'[Alice] = store'[Bob]
  PROVE  Agreeing'
BY DEF Agreeing

\* The halves of a run, after a step.
LEMMA NextHas ==
  ASSUME Types, NEW r \in Runs, run'[r].by = run[r].by
  PROVE  /\ Caller(r)' = Caller(r) /\ Responder(r)' = Responder(r)
         /\ CallerHas(r)' = store'[Caller(r)] /\ ResponderHas(r)' = store'[Responder(r)]
         /\ Caller(r) \in Parties /\ Responder(r) \in Parties /\ Responder(r) # Caller(r)
BY RunFields DEF Caller, Responder, CallerHas, ResponderHas

-----------------------------------------------------------------------------
(* The install and the uninstall protocol.                                  *)

LEMMA DepositSignedAgrees ==
  ASSUME TR, Lock, Agreeing, NEW m \in net, ResponderSigns(m, "i1", "i2", "i3")
  PROVE  Agreeing'
<1> DEFINE r == m.run
<1>1. PICK post : post = RefundAppAtResponder(r) OBVIOUS
<1>2. /\ m.n = "i1" /\ RspTo(r, "i3", post)
      /\ NetTo(m, "i2", Caller(r), {Conditional(post), FreeBalance(post)})
      /\ UNCHANGED <<store, run, ini, leases, slot, wallet, txs, mishaps>>
  BY <1>1, ResponderSignsDoes
<1>3. r \in Runs /\ leases = {r} /\ net = {m} /\ Talk(m) BY TalkOf
<1>4. PICK k : k = Message(r, "i2", Caller(r), {Conditional(post), FreeBalance(post)})
  OBVIOUS
<1>5. k.run = r /\ k.n = "i2" /\ k.sigs = {Conditional(post), FreeBalance(post)}
  BY <1>4, MessageIs
<1>6. net' = {k} BY <1>2, <1>3, <1>4 DEF NetTo
<1>7. ini[r].pc = "i2" /\ ini[r].post = post /\ CallerHas(r) = ResponderHas(r)
  BY <1>1, <1>2, <1>3 DEF Talk, InstallTalk
<1>8. CallerHas(r)' = ResponderHas(r)' BY <1>2, <1>3, <1>7, NextHas DEF TR, CallerHas, ResponderHas
<1>9. Talk(k)'
  BY <1>2, <1>5, <1>7, <1>8 DEF Talk, Names, InstallTalk, UninstallTalk, WithdrawTalk, RspTo
<1> QED BY <1>2, <1>3, <1>6, <1>9, TalkGoes

LEMMA CallerInstallsAgrees ==
  ASSUME TR, Lock, Agreeing, NEW m \in net, CallerInstalls(m)
  PROVE  Agreeing'
<1> DEFINE r == m.run
<1>1. PICK post : post = ini[r].post OBVIOUS
<1>2. /\ m.n = "i2" /\ IniTo(r, "i4", post) /\ StoreTo(Caller(r), post)
      /\ NetTo(m, "i3", Responder(r), {FreeBalance(post)})
      /\ UNCHANGED <<run, rsp, leases, slot, wallet, txs, mishaps>>
  BY <1>1, CallerInstallsDoes
<1>3. r \in Runs /\ leases = {r} /\ net = {m} /\ Talk(m) BY TalkOf
<1>4. PICK k : k = Message(r, "i3", Responder(r), {FreeBalance(post)}) OBVIOUS
<1>5. k.run = r /\ k.n = "i3" /\ k.sigs = {FreeBalance(post)} BY <1>4, MessageIs
<1>6. net' = {k} BY <1>2, <1>3, <1>4 DEF NetTo
<1>7. rsp[r].pc = "i3" /\ rsp[r].post = post BY <1>1, <1>2, <1>3 DEF Talk, InstallTalk
<1>8. CallerHas(r)' = post BY <1>2, <1>3, NextHas DEF TR, StoreTo
<1>9. Talk(k)'
  BY <1>2, <1>5, <1>7, <1>8 DEF Talk, Names, InstallTalk, UninstallTalk, WithdrawTalk, IniTo
<1> QED BY <1>2, <1>3, <1>6, <1>9, TalkGoes

LEMMA ResponderInstallsAgrees ==
  ASSUME TR, Lock, Agreeing, NEW m \in net, ResponderInstalls(m)
  PROVE  Agreeing'
<1> DEFINE r == m.run
<1>1. PICK post : post = rsp[r].post OBVIOUS
<1>2. /\ m.n = "i3" /\ RspTo(r, "done", Opening) /\ StoreTo(Responder(r), post)
      /\ NetTo(m, "i4", Caller(r), {})
      /\ UNCHANGED <<run, ini, leases, slot, wallet, txs, mishaps>>
  BY <1>1, ResponderInstallsDoes
<1>3. r \in Runs /\ leases = {r} /\ net = {m} /\ Talk(m) BY TalkOf
<1>4. PICK k : k = Message(r, "i4", Caller(r), {}) OBVIOUS
<1>5. k.run = r /\ k.n = "i4" BY <1>4, MessageIs
<1>6. net' = {k} BY <1>2, <1>3, <1>4 DEF NetTo
<1>7. ini[r].pc = "i4" /\ CallerHas(r) = post BY <1>1, <1>2, <1>3 DEF Talk, InstallTalk
<1>8. CallerHas(r)' = post /\ ResponderHas(r)' = post
  BY <1>2, <1>3, <1>7, NextHas DEF TR, StoreTo, CallerHas
<1>9. Talk(k)'
  BY <1>2, <1>5, <1>7, <1>8 DEF Talk, Names, InstallTalk, UninstallTalk, WithdrawTalk
<1> QED BY <1>2, <1>3, <1>6, <1>9, TalkGoes

LEMMA DepositInstalledAgrees ==
  ASSUME TR, Lock, Agreeing, NEW m \in net, DepositInstalled(m)
  PROVE  Agreeing'
<1> DEFINE r == m.run
<1>1. /\ m.n = "i4" /\ IniTo(r, "send", Opening) /\ net' = net \ {m}
      /\ UNCHANGED <<store, run, rsp, leases, slot, wallet, txs, mishaps>>
  BY DepositInstalledDoes
<1>2. r \in Runs /\ leases = {r} /\ net = {m} /\ Talk(m) BY TalkOf
<1>3. CallerHas(r)' = ResponderHas(r)'
  BY <1>1, <1>2, NextHas DEF TR, Talk, CallerHas, ResponderHas
<1>4. Silent(r)' BY <1>1, <1>3 DEF Silent, IniTo
<1>5. net' = {} /\ leases' = {r} BY <1>1, <1>2
<1> QED BY <1>4, <1>5, SilentGoes

LEMMA SilentOf ==
  ASSUME TR, Lock, Agreeing, NEW r \in Runs, ini[r].pc \in {"send", "mine", "save", "submit"}
  PROVE  leases = {r} /\ net = {} /\ Silent(r)
<1>1. net = {} /\ IniGoing(r) BY StillQuiet
<1>2. leases = {r} BY <1>1, HolderOf
<1> QED BY <1>1, <1>2 DEF Agreeing

LEMMA SendTransactionAgrees ==
  ASSUME TR, Lock, Agreeing, NEW r \in Runs, SendTransaction(r)
  PROVE  Agreeing'
<1>1. /\ ini[r].pc = "send" /\ IniTo(r, "mine", ini[r].post)
      /\ UNCHANGED <<store, run, rsp, net, leases, slot, wallet, mishaps>>
  BY SendTransactionDoes
<1>2. leases = {r} /\ net = {} /\ Silent(r) BY <1>1, SilentOf
<1>3. CallerHas(r)' = ResponderHas(r)'
  BY <1>1, <1>2, NextHas DEF TR, Silent, CallerHas, ResponderHas
<1>4. Silent(r)' BY <1>1, <1>3 DEF Silent, IniTo
<1> QED BY <1>1, <1>2, <1>4, SilentGoes

LEMMA UninstallBeginsAgrees ==
  ASSUME TR, Lock, Agreeing, NEW r \in Runs, UninstallBegins(r)
  PROVE  Agreeing'
<1> DEFINE c == store[Caller(r)]
           a == TheRefundApp(c)
<1>1. PICK x \in Nat : x = Outcome(a)
  <2>1. CanUninstall(c) BY DEF UninstallBegins
  <2>2. c \in Books /\ wallet.balance \in Nat BY RunFields, WalletFields DEF TR
  <2> HIDE DEF c
  <2>3. Outcome(a) \in Nat BY <2>1, <2>2, RefundApp
  <2> QED BY <2>3
<1>2. PICK post : post = Uninstall(c, a.id, a.by, x) OBVIOUS
<1>3. PICK k : k = Message(r, "u1", Responder(r), {FreeBalance(post)}) OBVIOUS
<1>4. /\ ini[r].pc = "mine" /\ IniTo(r, "u2", post) /\ net' = net \cup {k}
      /\ UNCHANGED <<store, run, rsp, leases, slot, wallet, txs, mishaps>>
  BY <1>1, <1>2, <1>3, UninstallBeginsDoes
<1>5. leases = {r} /\ net = {} /\ Silent(r) BY <1>4, SilentOf
<1>6. k.run = r /\ k.n = "u1" /\ k.sigs = {FreeBalance(post)} BY <1>3, MessageIs
<1>7. CallerHas(r)' = ResponderHas(r)' /\ CallerHas(r)' = CallerHas(r)
  BY <1>4, <1>5, NextHas DEF TR, Silent, CallerHas, ResponderHas
<1>8. post = Refunded(CallerHas(r), x) BY <1>2 DEF Refunded, CallerHas
<1>9. Talk(k)'
  BY <1>4, <1>6, <1>7, <1>8 DEF Talk, Names, InstallTalk, UninstallTalk, WithdrawTalk, IniTo
<1> QED BY <1>4, <1>5, <1>9, TalkGoes

\* Two refunds with equal free balances are equal.
LEMMA RefundedSame ==
  ASSUME NEW c \in Books, CanUninstall(c), wallet.balance \in Nat,
         NEW x \in Nat, NEW y \in Nat, FreeBalance(Refunded(c, x)) = FreeBalance(Refunded(c, y))
  PROVE  Refunded(c, x) = Refunded(c, y)
<1> DEFINE id == TheRefundApp(c).id
           p == TheRefundApp(c).by
           d == Refunded(c, x)
           e == Refunded(c, y)
<1>1. p \in Parties BY RefundApp
<1> HIDE DEF id, p
<1>2. /\ d \in Books /\ d.np = c.np /\ d.props = c.props /\ d.apps = Without(c.apps, id)
      /\ d.ver = c.ver + 2 /\ d.bal = [c.bal EXCEPT ![p] = c.bal[p] + x]
  BY <1>1, UninstallIs DEF Refunded, id, p
<1>3. /\ e \in Books /\ e.np = c.np /\ e.props = c.props /\ e.apps = Without(c.apps, id)
      /\ e.ver = c.ver + 2 /\ e.bal = [c.bal EXCEPT ![p] = c.bal[p] + y]
  BY <1>1, UninstallIs DEF Refunded, id, p
<1>4. d.bal = e.bal BY DEF FreeBalance
<1>5. /\ d = [np |-> d.np, props |-> d.props, apps |-> d.apps, ver |-> d.ver, bal |-> d.bal]
      /\ e = [np |-> e.np, props |-> e.props, apps |-> e.apps, ver |-> e.ver, bal |-> e.bal]
  BY <1>2, <1>3, BooksFields
<1> HIDE DEF d, e
<1>6. d = e BY <1>2, <1>3, <1>4, <1>5
<1> QED BY <1>6 DEF d, e

LEMMA ResponderUninstallsAgrees ==
  ASSUME TR, Lock, Agreeing, NEW m \in net, ResponderUninstalls(m)
  PROVE  Agreeing'
<1> DEFINE r == m.run
           c == ResponderHas(r)
<1>1. PICK post : post = UninstalledAtResponder(r) OBVIOUS
<1>2. /\ m.n = "u1" /\ CanCountersign(m) /\ RspTo(r, "done", Opening)
      /\ StoreTo(Responder(r), post)
      /\ NetTo(m, "u2", Caller(r), {FreeBalance(post)})
      /\ UNCHANGED <<run, ini, leases, slot, wallet, txs, mishaps>>
  BY <1>1, ResponderUninstallsDoes
<1>3. r \in Runs /\ leases = {r} /\ net = {m} /\ Talk(m) BY TalkOf
<1>4. PICK k : k = Message(r, "u2", Caller(r), {FreeBalance(post)}) OBVIOUS
<1>5. k.run = r /\ k.n = "u2" /\ k.sigs = {FreeBalance(post)} BY <1>4, MessageIs
<1>6. net' = {k} BY <1>2, <1>3, <1>4 DEF NetTo
<1>7. /\ ini[r].pc = "u2" /\ m.sigs = {FreeBalance(ini[r].post)}
      /\ \E x \in Nat : ini[r].post = Refunded(c, x)
  BY <1>2, <1>3 DEF Talk, UninstallTalk
<1>8. PICK x \in Nat : ini[r].post = Refunded(c, x) BY <1>7
<1>9. c \in Books /\ CanUninstall(c) /\ wallet.balance \in Nat
  BY <1>2, <1>3, RunFields, WalletFields DEF TR, CanCountersign, ResponderHas
<1>10. PICK y \in Nat : post = Refunded(c, y)
  <2>1. Outcome(TheRefundApp(c)) \in Nat
    <3> HIDE DEF c
    <3> QED BY <1>9, RefundApp
  <2>2. post = Refunded(c, Outcome(TheRefundApp(c)))
    BY <1>1 DEF UninstalledAtResponder, Refunded, ResponderHas
  <2> QED BY <2>1, <2>2
<1>11. FreeBalance(post) = FreeBalance(ini[r].post) BY <1>1, <1>2, <1>7 DEF CanCountersign
<1>12. ini[r].post = post
  <2> HIDE DEF c
  <2> QED BY <1>8, <1>9, <1>10, <1>11, RefundedSame
<1>13. ResponderHas(r)' = post BY <1>2, <1>3, NextHas DEF TR, StoreTo
<1>14. Talk(k)'
  BY <1>2, <1>5, <1>7, <1>12, <1>13 DEF Talk, Names, InstallTalk, UninstallTalk, WithdrawTalk
<1> QED BY <1>2, <1>3, <1>6, <1>14, TalkGoes

LEMMA DepositReturnsAgrees ==
  ASSUME TR, Lock, Agreeing, NEW m \in net, DepositReturns(m)
  PROVE  Agreeing'
<1> DEFINE r == m.run
<1>1. PICK post : post = ini[r].post OBVIOUS
<1>2. /\ m.n = "u2" /\ leases' = leases \ {r} /\ StoreTo(Caller(r), post)
      /\ net' = net \ {m}
      /\ UNCHANGED <<run, rsp, slot, wallet, txs, mishaps>>
  BY <1>1, DepositReturnsDoes
<1>3. r \in Runs /\ leases = {r} /\ net = {m} /\ Talk(m) BY TalkOf
<1>4. ResponderHas(r) = post BY <1>1, <1>2, <1>3 DEF Talk, UninstallTalk
<1>5. CallerHas(r)' = post /\ ResponderHas(r)' = post
  BY <1>2, <1>3, <1>4, NextHas DEF TR, StoreTo, ResponderHas
<1>6. store'[Alice] = store'[Bob]
  <2>1. Parties = {Caller(r), Responder(r)} BY <1>3, RunFields DEF TR
  <2>2. store'[Caller(r)] = post /\ store'[Responder(r)] = post
    BY <1>2, <1>3, <1>5, NextHas DEF TR
  <2> QED BY <2>1, <2>2 DEF Parties
<1>7. leases' = {} /\ net' = {} BY <1>2, <1>3
<1> QED BY <1>6, <1>7, EndGoes

-----------------------------------------------------------------------------
(* The calls' first steps, and the withdraw protocol.                       *)

LEMMA StartAgrees ==
  ASSUME TR, Lock, Agreeing, NEW r \in Runs, NEW post, NEW n, NEW t, NEW w,
         Begins(r, post, n, t), w = FirstWait(n),
         \/ n = "i1" /\ w = "i2"
         \/ n = "w1" /\ w = "w2",
         store[Caller(r)] = store[Responder(r)] => post = RefundAppAtResponder(r)',
         run[r].call # "deposit" => CanCharge(store[Caller(r)], Caller(r), run[r].amount)
  PROVE  Agreeing'
<1>1. PICK k : k = Message(r, n, Responder(r), {Conditional(post)}) OBVIOUS
<1>2. /\ LockNames(run[r].call) => leases = {} /\ leases' = {r}
      /\ IniTo(r, w, post)
      /\ run'[r].by = run[r].by /\ run'[r].call = run[r].call
      /\ run'[r].amount = run[r].amount
      /\ net' = net \cup {k}
      /\ UNCHANGED <<store, rsp, slot, wallet, txs>>
  BY <1>1, BeginsDoes
<1>3. leases = {} /\ leases' = {r} BY <1>2 DEF Lock, LockNames
<1>4. net = {} /\ store[Alice] = store[Bob] BY <1>3 DEF Lock, Agreeing
<1>5. store[Caller(r)] = store[Responder(r)]
  BY <1>4, BothAgree DEF TR, CallerHas, ResponderHas
<1>6. k.run = r /\ k.n = n /\ k.sigs = {Conditional(post)} BY <1>1, MessageIs
<1>7. Caller(r)' = Caller(r) /\ Responder(r)' = Responder(r) BY <1>2 DEF Caller, Responder
<1>8. CallerHas(r)' = ResponderHas(r)' BY <1>2, <1>5, <1>7 DEF CallerHas, ResponderHas
<1>9. post = RefundAppAtResponder(r)' BY <1>5
<1>10. CanSign(k)'
  <2>1. run'[r].call # "deposit" =>
          CanCharge(store'[Responder(r)'], Caller(r)', run'[r].amount)
    BY <1>2, <1>5, <1>7
  <2>2. (Conditional(RefundAppAtResponder(r)))' \in k.sigs BY <1>6, <1>9 DEF Conditional
  <2> QED BY <1>6, <2>1, <2>2 DEF CanSign
<1>11. ini'[r].pc = w /\ ini'[r].post = post BY <1>2 DEF IniTo
<1>12. InstallTalk(k, r, post)' BY <1>6, <1>9, <1>10, <1>11 DEF InstallTalk
<1>13. WithdrawTalk(k, r, post)' BY <1>6, <1>9, <1>10, <1>11 DEF WithdrawTalk
<1>14. UninstallTalk(k, r, post)' BY <1>6 DEF UninstallTalk
<1>15. Talk(k)' BY <1>6, <1>8, <1>11, <1>12, <1>13, <1>14 DEF Talk, Names
<1>16. net' = {k} BY <1>2, <1>4
<1> QED BY <1>3, <1>15, <1>16, TalkGoes

LEMMA DepositBeginsAgrees ==
  ASSUME TR, Lock, Agreeing, NEW r \in Runs, DepositBegins(r)
  PROVE  Agreeing'
<1>1. PICK t : t = Threshold(Caller(r)) OBVIOUS
<1>2. PICK post : post = InstallRefundApp(store[Caller(r)], "deposit", Caller(r), 0, t)
  OBVIOUS
<1>3. run[r].call = "deposit" /\ Begins(r, post, "i1", t) BY <1>1, <1>2 DEF DepositBegins
<1>4. /\ ini[r].pc = "queued"
      /\ LockNames(run[r].call) => leases = {} /\ leases' = {r}
      /\ IniTo(r, FirstWait("i1"), post)
      /\ run' = [run EXCEPT ![r].threshold = t]
      /\ run'[r].by = run[r].by /\ run'[r].call = run[r].call
      /\ run'[r].amount = run[r].amount /\ run'[r].threshold = t
      /\ \A s \in Runs \ {r} : run'[s] = run[s]
      /\ net' = net \cup {Message(r, "i1", Responder(r), {Conditional(post)})}
      /\ mishaps' = mishaps \cup Renames(r)
      /\ UNCHANGED <<store, rsp, slot, wallet, txs>>
  BY <1>3, BeginsDoes
<1>5. Caller(r)' = Caller(r) /\ Responder(r)' = Responder(r) BY <1>4 DEF Caller, Responder
<1>6. store[Caller(r)] = store[Responder(r)] => post = RefundAppAtResponder(r)'
  BY <1>2, <1>3, <1>4, <1>5, Zenon DEF RefundAppAtResponder
<1>7. PICK w : w = FirstWait("i1") OBVIOUS
<1>8. w = "i2" BY <1>7 DEF FirstWait
<1> QED BY <1>3, <1>6, <1>7, <1>8, StartAgrees

LEMMA WithdrawalBeginsAgrees ==
  ASSUME TR, Lock, Agreeing, NEW r \in Runs, WithdrawalBegins(r)
  PROVE  Agreeing'
<1>1. PICK t : t = 0 OBVIOUS
<1>2. PICK post : post = InstallRefundApp(store[Caller(r)], "withdrawal", Caller(r), run[r].amount, t)
  OBVIOUS
<1>3. /\ run[r].call # "deposit" /\ Begins(r, post, "w1", t)
      /\ CanCharge(store[Caller(r)], Caller(r), run[r].amount)
  BY <1>1, <1>2 DEF WithdrawalBegins
<1>4. /\ ini[r].pc = "queued"
      /\ LockNames(run[r].call) => leases = {} /\ leases' = {r}
      /\ IniTo(r, FirstWait("w1"), post)
      /\ run' = [run EXCEPT ![r].threshold = t]
      /\ run'[r].by = run[r].by /\ run'[r].call = run[r].call
      /\ run'[r].amount = run[r].amount /\ run'[r].threshold = t
      /\ \A s \in Runs \ {r} : run'[s] = run[s]
      /\ net' = net \cup {Message(r, "w1", Responder(r), {Conditional(post)})}
      /\ mishaps' = mishaps \cup Renames(r)
      /\ UNCHANGED <<store, rsp, slot, wallet, txs>>
  BY <1>3, BeginsDoes
<1>5. Caller(r)' = Caller(r) /\ Responder(r)' = Responder(r) BY <1>4 DEF Caller, Responder
<1>6. store[Caller(r)] = store[Responder(r)] => post = RefundAppAtResponder(r)'
  BY <1>2, <1>3, <1>4, <1>5, Zenon DEF RefundAppAtResponder
<1>7. PICK w : w = FirstWait("w1") OBVIOUS
<1>8. w = "w2" BY <1>7 DEF FirstWait
<1> QED BY <1>3, <1>6, <1>7, <1>8, StartAgrees

LEMMA WithdrawalSignedAgrees ==
  ASSUME TR, Lock, Agreeing, NEW m \in net, ResponderSigns(m, "w1", "w2", "w3")
  PROVE  Agreeing'
<1> DEFINE r == m.run
<1>1. PICK post : post = RefundAppAtResponder(r) OBVIOUS
<1>2. /\ m.n = "w1" /\ RspTo(r, "w3", post)
      /\ NetTo(m, "w2", Caller(r), {Conditional(post), FreeBalance(post)})
      /\ UNCHANGED <<store, run, ini, leases, slot, wallet, txs, mishaps>>
  BY <1>1, ResponderSignsDoes
<1>3. r \in Runs /\ leases = {r} /\ net = {m} /\ Talk(m) BY TalkOf
<1>4. PICK k : k = Message(r, "w2", Caller(r), {Conditional(post), FreeBalance(post)})
  OBVIOUS
<1>5. k.run = r /\ k.n = "w2" /\ k.sigs = {Conditional(post), FreeBalance(post)}
  BY <1>4, MessageIs
<1>6. net' = {k} BY <1>2, <1>3, <1>4 DEF NetTo
<1>7. ini[r].pc = "w2" /\ ini[r].post = post /\ CallerHas(r) = ResponderHas(r)
  BY <1>1, <1>2, <1>3 DEF Talk, WithdrawTalk
<1>8. CallerHas(r)' = ResponderHas(r)' BY <1>2, <1>3, <1>7, NextHas DEF TR, CallerHas, ResponderHas
<1>9. Talk(k)'
  BY <1>2, <1>5, <1>7, <1>8 DEF Talk, Names, InstallTalk, UninstallTalk, WithdrawTalk, RspTo
<1> QED BY <1>2, <1>3, <1>6, <1>9, TalkGoes

LEMMA CallerChargesAgrees ==
  ASSUME TR, Lock, Agreeing, NEW m \in net, CallerCharges(m)
  PROVE  Agreeing'
<1> DEFINE r == m.run
<1>1. PICK post : post = ini[r].post OBVIOUS
<1>a. PICK wd : wd = Withdrawal(r) OBVIOUS
<1>2. /\ m.n = "w2" /\ IniTo(r, "w4", post)
      /\ NetTo(m, "w3", Responder(r), {FreeBalance(post), wd})
      /\ UNCHANGED <<store, run, rsp, leases, slot, wallet, txs, mishaps>>
  BY <1>1, <1>a, CallerChargesDoes
<1>b. wd = Withdrawal(r)' BY <1>2, <1>a DEF Withdrawal
<1>3. r \in Runs /\ leases = {r} /\ net = {m} /\ Talk(m) BY TalkOf
<1>4. PICK k : k = Message(r, "w3", Responder(r), {FreeBalance(post), wd}) OBVIOUS
<1>5. k.run = r /\ k.n = "w3" /\ k.sigs = {FreeBalance(post), wd} BY <1>4, MessageIs
<1>6. net' = {k} BY <1>2, <1>3, <1>4 DEF NetTo
<1>7. rsp[r].pc = "w3" /\ rsp[r].post = post /\ CallerHas(r) = ResponderHas(r)
  BY <1>1, <1>2, <1>3 DEF Talk, WithdrawTalk
<1>8. CallerHas(r)' = ResponderHas(r)' BY <1>2, <1>3, <1>7, NextHas DEF TR, CallerHas, ResponderHas
<1>9. Talk(k)'
  BY <1>2, <1>b, <1>5, <1>7, <1>8 DEF Talk, Names, InstallTalk, UninstallTalk, WithdrawTalk, IniTo
<1> QED BY <1>2, <1>3, <1>6, <1>9, TalkGoes

LEMMA ResponderReleasesAgrees ==
  ASSUME TR, Lock, Agreeing, NEW m \in net, ResponderReleases(m)
  PROVE  Agreeing'
<1> DEFINE r == m.run
<1>1. PICK post : post = Uncharged(r, rsp[r].post) OBVIOUS
<1>a. PICK wd : wd = Withdrawal(r) OBVIOUS
<1>2. /\ m.n = "w3" /\ RspTo(r, "w5", post)
      /\ NetTo(m, "w4", Caller(r), {wd, FreeBalance(post)})
      /\ UNCHANGED <<store, run, ini, leases, wallet, txs, mishaps>>
  BY <1>1, <1>a, ResponderReleasesDoes
<1>b. wd = Withdrawal(r)' BY <1>2, <1>a DEF Withdrawal
<1>3. r \in Runs /\ leases = {r} /\ net = {m} /\ Talk(m) BY TalkOf
<1>4. PICK k : k = Message(r, "w4", Caller(r), {wd, FreeBalance(post)}) OBVIOUS
<1>5. k.run = r /\ k.n = "w4" /\ k.sigs = {wd, FreeBalance(post)} BY <1>4, MessageIs
<1>6. net' = {k} BY <1>2, <1>3, <1>4 DEF NetTo
<1>7. ini[r].pc = "w4" /\ post = Uncharged(r, ini[r].post) /\ CallerHas(r) = ResponderHas(r)
  BY <1>1, <1>2, <1>3 DEF Talk, WithdrawTalk
<1>8. CallerHas(r)' = ResponderHas(r)' BY <1>2, <1>3, <1>7, NextHas DEF TR, CallerHas, ResponderHas
<1>9. post = Uncharged(r, ini[r].post)' BY <1>2, <1>7 DEF Uncharged, Caller
<1>10. Talk(k)'
  BY <1>2, <1>b, <1>5, <1>7, <1>8, <1>9 DEF Talk, Names, InstallTalk, UninstallTalk, WithdrawTalk, RspTo
<1> QED BY <1>2, <1>3, <1>6, <1>10, TalkGoes

LEMMA CallerSettlesAgrees ==
  ASSUME TR, Lock, Agreeing, NEW m \in net, CallerSettles(m)
  PROVE  Agreeing'
<1> DEFINE r == m.run
<1>1. PICK post : post = Uncharged(r, ini[r].post) OBVIOUS
<1>2. /\ m.n = "w4" /\ IniTo(r, "w6", post)
      /\ NetTo(m, "w5", Responder(r), {FreeBalance(post)})
      /\ UNCHANGED <<store, run, rsp, leases, slot, wallet, txs, mishaps>>
  BY <1>1, CallerSettlesDoes
<1>3. r \in Runs /\ leases = {r} /\ net = {m} /\ Talk(m) BY TalkOf
<1>4. PICK k : k = Message(r, "w5", Responder(r), {FreeBalance(post)}) OBVIOUS
<1>5. k.run = r /\ k.n = "w5" /\ k.sigs = {FreeBalance(post)} BY <1>4, MessageIs
<1>6. net' = {k} BY <1>2, <1>3, <1>4 DEF NetTo
<1>7. rsp[r].pc = "w5" /\ rsp[r].post = post /\ CallerHas(r) = ResponderHas(r)
  BY <1>1, <1>2, <1>3 DEF Talk, WithdrawTalk
<1>8. CallerHas(r)' = ResponderHas(r)' BY <1>2, <1>3, <1>7, NextHas DEF TR, CallerHas, ResponderHas
<1>9. Talk(k)'
  BY <1>2, <1>5, <1>7, <1>8 DEF Talk, Names, InstallTalk, UninstallTalk, WithdrawTalk, IniTo
<1> QED BY <1>2, <1>3, <1>6, <1>9, TalkGoes

LEMMA ResponderSettlesAgrees ==
  ASSUME TR, Lock, Agreeing, NEW m \in net, ResponderSettles(m)
  PROVE  Agreeing'
<1> DEFINE r == m.run
<1>1. PICK post : post = rsp[r].post OBVIOUS
<1>2. /\ m.n = "w5" /\ RspTo(r, "done", Opening) /\ StoreTo(Responder(r), post)
      /\ NetTo(m, "w6", Caller(r), {})
      /\ UNCHANGED <<run, ini, leases, slot, wallet, txs, mishaps>>
  BY <1>1, ResponderSettlesDoes
<1>3. r \in Runs /\ leases = {r} /\ net = {m} /\ Talk(m) BY TalkOf
<1>4. PICK k : k = Message(r, "w6", Caller(r), {}) OBVIOUS
<1>5. k.run = r /\ k.n = "w6" BY <1>4, MessageIs
<1>6. net' = {k} BY <1>2, <1>3, <1>4 DEF NetTo
<1>7. ini[r].pc = "w6" /\ ini[r].post = post BY <1>1, <1>2, <1>3 DEF Talk, WithdrawTalk
<1>8. ResponderHas(r)' = post BY <1>2, <1>3, NextHas DEF TR, StoreTo
<1>9. Talk(k)'
  BY <1>2, <1>5, <1>7, <1>8 DEF Talk, Names, InstallTalk, UninstallTalk, WithdrawTalk
<1> QED BY <1>2, <1>3, <1>6, <1>9, TalkGoes

LEMMA CallerStoresAgrees ==
  ASSUME TR, Lock, Agreeing, NEW m \in net, CallerStoresWithdrawal(m)
  PROVE  Agreeing'
<1> DEFINE r == m.run
<1>1. PICK post : post = ini[r].post OBVIOUS
<1>2. /\ m.n = "w6" /\ IniTo(r, "save", post) /\ net' = net \ {m}
      /\ UNCHANGED <<store, run, rsp, leases, wallet, txs, mishaps>>
  BY <1>1, CallerStoresDoes
<1>3. r \in Runs /\ leases = {r} /\ net = {m} /\ Talk(m) BY TalkOf
<1>4. ResponderHas(r) = post BY <1>1, <1>2, <1>3 DEF Talk, WithdrawTalk
<1>5. ResponderHas(r)' = post BY <1>2, <1>3, <1>4, NextHas DEF TR, ResponderHas
<1>6. Silent(r)' BY <1>2, <1>5 DEF Silent, IniTo
<1>7. net' = {} /\ leases' = {r} BY <1>2, <1>3
<1> QED BY <1>6, <1>7, SilentGoes

LEMMA CallerSavesAgrees ==
  ASSUME TR, Lock, Agreeing, NEW r \in Runs, CallerSaves(r)
  PROVE  Agreeing'
<1>1. PICK post : post = ini[r].post OBVIOUS
<1>2. /\ ini[r].pc = "save" /\ IniTo(r, "submit", Opening) /\ StoreTo(Caller(r), post)
      /\ UNCHANGED <<run, rsp, net, leases, slot, wallet, txs, mishaps>>
  BY <1>1, CallerSavesDoes
<1>3. leases = {r} /\ net = {} /\ Silent(r) BY <1>2, SilentOf
<1>4. ResponderHas(r) = post BY <1>1, <1>2, <1>3 DEF Silent
<1>5. CallerHas(r)' = ResponderHas(r)'
  BY <1>2, <1>4, NextHas DEF TR, StoreTo, ResponderHas
<1>6. Silent(r)' BY <1>2, <1>5 DEF Silent, IniTo
<1> QED BY <1>2, <1>3, <1>6, SilentGoes

-----------------------------------------------------------------------------
(* How calls end.                                                           *)

LEMMA LeavesAgree ==
  ASSUME TR, Lock, Agreeing, NEW r \in Runs, UNCHANGED store, leases' = leases \ {r},
         leases \subseteq {r}, net' = {}, CallerHas(r) = ResponderHas(r)
  PROVE  Agreeing'
<1>1. store'[Alice] = store'[Bob] BY BothAgree DEF TR
<1> QED BY <1>1, EndGoes

LEMMA WithdrawalReturnsAgrees ==
  ASSUME TR, Lock, Agreeing, NEW r \in Runs, WithdrawalReturns(r)
  PROVE  Agreeing'
<1>1. /\ ini[r].pc = "submit" /\ leases' = leases \ {r}
      /\ UNCHANGED <<store, run, rsp, net, slot, wallet, mishaps>>
  BY WithdrawalReturnsDoes
<1>2. leases = {r} /\ net = {} /\ Silent(r) BY <1>1, SilentOf
<1>3. CallerHas(r) = ResponderHas(r) BY <1>1, <1>2 DEF Silent
<1> QED BY <1>1, <1>2, <1>3, LeavesAgree

LEMMA UninstallThrowsAgrees ==
  ASSUME TR, Lock, Agreeing, NEW r \in Runs, UninstallThrows(r)
  PROVE  Agreeing'
<1>1. /\ ini[r].pc = "mine" /\ leases' = leases \ {r}
      /\ UNCHANGED <<store, run, rsp, net, slot, wallet, txs, mishaps>>
  BY UninstallThrowsDoes
<1>2. leases = {r} /\ net = {} /\ Silent(r) BY <1>1, SilentOf
<1>3. CallerHas(r) = ResponderHas(r) BY <1>1, <1>2 DEF Silent
<1> QED BY <1>1, <1>2, <1>3, LeavesAgree

LEMMA WithdrawalThrowsAgrees ==
  ASSUME TR, Lock, Agreeing, NEW r \in Runs, WithdrawalThrows(r)
  PROVE  Agreeing'
<1>1. /\ LockNames(run[r].call) => leases = {}
      /\ leases' = leases \ {r}
      /\ UNCHANGED <<store, run, rsp, net, slot, wallet, txs, mishaps>>
  BY WithdrawalThrowsDoes
<1>2. leases = {} BY <1>1 DEF Lock, LockNames
<1>3. net = {} /\ store[Alice] = store[Bob] BY <1>2 DEF Lock, Agreeing
<1> QED BY <1>1, <1>2, <1>3, EndGoes

LEMMA CallerTimesOutAgrees ==
  ASSUME TR, Lock, Agreeing, NEW r \in Runs, CallerTimesOut(r)
  PROVE  Agreeing'
<1>1. /\ ini[r].pc \in IniWaits /\ Quiet(r) /\ leases' = leases \ {r}
      /\ UNCHANGED <<store, run, rsp, net, slot, wallet, txs, mishaps>>
  BY CallerTimesOutDoes
<1>2. IniGoing(r) BY <1>1 DEF IniGoing
<1>3. leases = {r} /\ \A m \in net : m.run = r BY <1>2, HolderOf
<1>4. net = {} BY <1>1, <1>3 DEF Quiet
<1>5. Silent(r) BY <1>3, <1>4 DEF Agreeing
<1>6. ini[r].pc # "save" BY <1>1 DEF IniWaits
<1>7. CallerHas(r) = ResponderHas(r) BY <1>5, <1>6 DEF Silent
<1> QED BY <1>1, <1>3, <1>4, <1>7, LeavesAgree

\* Of messages on their way only the offer to uninstall can be refused: the
\* chain may show the two parties different balances.
LEMMA RefusedIs ==
  ASSUME NEW m, Talk(m), Refused(m)
  PROVE  m.n = "u1"
<1> DEFINE r == m.run
<1> SUFFICES ASSUME m.n # "u1" PROVE FALSE OBVIOUS
<1>1. m.n \in Names BY DEF Talk
<1>2. m.n \notin {"i1", "w1"} BY DEF Talk, InstallTalk, WithdrawTalk, Refused
<1>3. ~(Awaited(m) /\ Valid(m)) BY <1>2 DEF Refused
<1>4. CASE m.n \in {"i2", "i3", "i4"}
  <2>1. Awaited(m) BY <1>4 DEF Talk, InstallTalk, Awaited, IniWaits, RspWaits
  <2>2. Valid(m) BY <1>4 DEF Talk, InstallTalk, Valid, Expected
  <2> QED BY <1>3, <2>1, <2>2
<1>5. CASE m.n = "u2"
  <2>1. Awaited(m) BY <1>5 DEF Talk, UninstallTalk, Awaited, IniWaits
  <2>2. Valid(m) BY <1>5 DEF Talk, UninstallTalk, Valid, Expected
  <2> QED BY <1>3, <2>1, <2>2
<1>6. CASE m.n \in {"w2", "w3", "w4", "w5", "w6"}
  <2>1. Awaited(m) BY <1>6 DEF Talk, WithdrawTalk, Awaited, IniWaits, RspWaits
  <2>2. Valid(m) BY <1>6 DEF Talk, WithdrawTalk, Valid, Expected
  <2> QED BY <1>3, <2>1, <2>2
<1> QED BY <1>1, <1>2, <1>4, <1>5, <1>6 DEF Names

LEMMA RefuseAgrees ==
  ASSUME TR, Lock, Agreeing, NEW m \in net, Refuse(m)
  PROVE  Agreeing'
<1> DEFINE r == m.run
<1>1. r \in Runs /\ leases = {r} /\ net = {m} /\ Talk(m) BY TalkOf
<1>2. m.n = "u1" BY <1>1, RefusedIs DEF Refuse
<1>3. net' = {} /\ UNCHANGED <<store, run, ini, rsp, leases>>
  BY <1>1, <1>2 DEF Refuse, IniWaits, RspWaits
<1>4. ini[r].pc = "u2" /\ CallerHas(r) = ResponderHas(r)
  BY <1>1, <1>2 DEF Talk, UninstallTalk
<1>5. CallerHas(r)' = ResponderHas(r)'
  BY <1>1, <1>3, <1>4, NextHas DEF TR, CallerHas, ResponderHas
<1>6. Silent(r)' BY <1>3, <1>4, <1>5 DEF Silent
<1> QED BY <1>1, <1>3, <1>6, SilentGoes

-----------------------------------------------------------------------------
(* Steps of others.                                                         *)

LEMMA OthersAgree ==
  ASSUME TR, Agreeing, UNCHANGED <<store, net, leases>>,
         \A m \in net : /\ run'[m.run] = run[m.run] /\ ini'[m.run] = ini[m.run]
                        /\ rsp'[m.run] = rsp[m.run],
         \A s \in leases : run'[s] = run[s] /\ ini'[s] = ini[s]
  PROVE  Agreeing'
<1>1. \A m \in net' : Talk(m)'
  <2> SUFFICES ASSUME NEW m \in net' PROVE Talk(m)' OBVIOUS
  <2>1. m \in net /\ Talk(m) BY DEF Agreeing
  <2> QED BY <2>1, TalkSame
<1>2. net' = {} => \A s \in leases' : Silent(s)'
  <2> SUFFICES ASSUME net' = {}, NEW s \in leases' PROVE Silent(s)' OBVIOUS
  <2>1. s \in leases /\ Silent(s) BY DEF Agreeing
  <2>2. /\ CallerHas(s)' = CallerHas(s) /\ ResponderHas(s)' = ResponderHas(s)
        /\ ini[s]' = ini[s]
    BY <2>1 DEF CallerHas, ResponderHas, Caller, Responder
  <2> QED BY <2>1, <2>2 DEF Silent
<1>3. leases' = {} => store'[Alice] = store'[Bob] BY DEF Agreeing
<1> QED BY <1>1, <1>2, <1>3 DEF Agreeing

LEMMA ResponderTimesOutAgrees ==
  ASSUME TR, Lock, Agreeing, NEW r \in Runs, ResponderTimesOut(r)
  PROVE  Agreeing'
<1>1. /\ Quiet(r) /\ RspTo(r, "done", Opening)
      /\ UNCHANGED <<store, run, ini, net, leases, slot, wallet, txs, mishaps>>
  BY ResponderTimesOutDoes
<1>2. \A m \in net : m.run \in Runs \ {r} BY <1>1 DEF TR, Types, Quiet
<1>3. \A m \in net : rsp'[m.run] = rsp[m.run] BY <1>1, <1>2 DEF RspTo
<1> QED BY <1>1, <1>3, OthersAgree

LEMMA CallAgrees ==
  ASSUME TR, Lock, Agreeing, NEW r \in Runs, NEW p \in Parties, NEW call \in Calls,
         NEW amount \in Amounts, Call(r, p, call, amount)
  PROVE  Agreeing'
<1>1. /\ ini[r].pc = "idle" /\ IniTo(r, "queued", Opening)
      /\ run'[r].call = call /\ \A s \in Runs \ {r} : run'[s] = run[s]
      /\ UNCHANGED <<store, rsp, net, leases, slot, wallet, txs, mishaps>>
  BY CallDoes
<1>2. r \notin leases BY <1>1 DEF Lock
<1>3. \A s \in leases : s \in Runs \ {r} BY <1>2 DEF TR, Types
<1>4. \A m \in net : m.run \in leases BY DEF Lock
<1>5. \A s \in leases : run'[s] = run[s] /\ ini'[s] = ini[s] BY <1>1, <1>3 DEF IniTo
<1> QED BY <1>1, <1>4, <1>5, OthersAgree

LEMMA BothHaveAgree ==
  ASSUME TR, Lock, NEW c, BothHave(c)
  PROVE  Agreeing'
<1>1. leases' = {} /\ net' = net /\ store' = [p \in Parties |-> c] BY DEF BothHave
<1>2. net = {} BY DEF BothHave, Lock
<1>3. store'[Alice] = store'[Bob] BY <1>1, Couple
<1> QED BY <1>1, <1>2, <1>3, EndGoes

LEMMA AskAgrees ==
  ASSUME TR, Lock, Agreeing, Ask
  PROVE  Agreeing'
<1>1. \/ \E r \in Runs, p \in Parties, call \in Calls, amount \in Amounts :
           Call(r, p, call, amount)
      \/ \E c : BothHave(c)
  BY DEF Ask, ProposeApp, InstallApp, UninstallApp
<1> QED BY <1>1, CallAgrees, BothHaveAgree

LEMMA LeaseExpiresNot ==
  ASSUME TR, Lock, Agreeing, faults = {}, NEW r \in Runs, LeaseExpires(r)
  PROVE  FALSE
<1>1. r \in leases /\ ~IniGoing(r) /\ Quiet(r) BY DEF LeaseExpires
<1>2. net = {} BY <1>1 DEF Lock, Quiet
<1>3. Silent(r) BY <1>1, <1>2 DEF Agreeing
<1>4. IniGoing(r) BY <1>3 DEF Silent, IniGoing, IniWaits
<1> QED BY <1>1, <1>4

-----------------------------------------------------------------------------

LEMMA ProceedAgrees ==
  ASSUME TR, Lock, Agreeing, faults = {}, NEW r \in Runs, Proceed(r)
  PROVE  Agreeing'
<1>1. ~SendThrows(r) BY SendThrowsDoes
<1> QED
  BY <1>1, DepositBeginsAgrees, WithdrawalBeginsAgrees, WithdrawalThrowsAgrees,
     SendTransactionAgrees, UninstallBeginsAgrees, UninstallThrowsAgrees,
     CallerSavesAgrees, WithdrawalReturnsAgrees
  DEF Proceed

LEMMA HandleAgrees ==
  ASSUME TR, Lock, Agreeing, NEW m \in net, Handle(m)
  PROVE  Agreeing'
BY DepositSignedAgrees, WithdrawalSignedAgrees, CallerInstallsAgrees,
   ResponderInstallsAgrees, DepositInstalledAgrees, ResponderUninstallsAgrees,
   DepositReturnsAgrees, CallerChargesAgrees, ResponderReleasesAgrees,
   CallerSettlesAgrees, ResponderSettlesAgrees, CallerStoresAgrees, RefuseAgrees
DEF Handle

LEMMA NextAgreed ==
  ASSUME TR, Lock, Agreed, [Next]_vars
  PROVE  Agreed'
<1> SUFFICES ASSUME faults' = {} PROVE Agreeing' BY DEF Agreed
<1>1. UNCHANGED faults BY DEF Next, vars
<1>2. faults = {} /\ Agreeing BY <1>1 DEF Agreed
<1>3. CASE Ask BY <1>2, <1>3, AskAgrees
<1>4. ASSUME NEW r \in Runs, Proceed(r) PROVE Agreeing' BY <1>2, <1>4, ProceedAgrees
<1>5. ASSUME NEW r \in Runs, TimesOut(r) PROVE Agreeing'
  BY <1>2, <1>5, CallerTimesOutAgrees, ResponderTimesOutAgrees, LeaseExpiresNot DEF TimesOut
<1>6. ASSUME NEW m \in net, Handle(m) PROVE Agreeing' BY <1>2, <1>6, HandleAgrees
<1>7. \A m \in net : ~Lose(m) BY <1>2 DEF Lose
<1>8. \A p \in Parties : ~Crash(p) BY <1>2 DEF Crash
<1>9. ASSUME NEW t \in txs, Mine(t) PROVE Agreeing' BY <1>2, <1>9, OthersAgree DEF Mine
<1>10. CASE UNCHANGED vars BY <1>2, <1>10, OthersAgree DEF vars
<1> QED BY <1>3, <1>4, <1>5, <1>6, <1>7, <1>8, <1>9, <1>10 DEF Next, Step

LEMMA InitAgreed ==
  ASSUME Init
  PROVE  Agreed
<1>1. store[Alice] = store[Bob] /\ net = {} /\ leases = {} BY Couple DEF Init
<1> QED BY <1>1 DEF Agreed, Agreeing

LEMMA AgreedBooks ==
  ASSUME TR, Agreed
  PROVE  BooksAgree
<1> SUFFICES ASSUME faults = {}, AtRest PROVE store[Alice] = store[Bob] BY DEF BooksAgree
<1>1. Agreeing /\ net = {} BY DEF Agreed, AtRest
<1>2. \A r \in leases : Silent(r) BY <1>1 DEF Agreeing
<1>3. \A r \in leases : r \in Runs BY DEF TR, Types
<1>4. leases = {} BY <1>2, <1>3 DEF Silent, AtRest, Ends
<1> QED BY <1>1, <1>4 DEF Agreeing

\* When nothing is lost and no one restarts, the two parties agree about their
\* channel whenever no call is on its way, in whatever order the messages of
\* installs, uninstalls and withdrawals are handled: no run of a protocol ends
\* after one party has persisted and before the other has.
THEOREM BooksAgreed ==
  ASSUME UnderLock
  PROVE  Spec => []BooksAgree
<1>1. Init => Agreed BY InitAgreed
<1>2. (TR /\ Lock) /\ Agreed /\ [Next]_vars => Agreed' BY NextAgreed
<1>3. Spec => [](TR /\ Lock) BY LockInvariance
<1>4. TR /\ Agreed => BooksAgree BY AgreedBooks
<1> QED BY <1>1, <1>2, <1>3, <1>4, PTL DEF Spec

-----------------------------------------------------------------------------
(* What a deposit credits.                                                  *)

\* The refund app of the deposit is in the channel.
Claims(c, r) ==
  \E a \in c.apps : a.kind # "app" /\ a.by = Caller(r) /\ a.threshold = run[r].threshold

\* The call's way to the increment: its app knows a balance that the wallet has
\* not gone below, the transaction has added the amount to it, and the caller's
\* new books credit the difference.
Claiming(r) ==
  /\ ini[r].pc \in {"i2", "i4", "send", "mine"} =>
       run[r].call = "deposit" /\ run[r].threshold <= wallet.balance
  /\ ini[r].pc = "i2" => Claims(ini[r].post, r)
  /\ ini[r].pc \in {"i4", "send", "mine"} => Claims(CallerHas(r), r)
  /\ ini[r].pc = "mine" /\ DepositTransaction(r) \notin txs =>
       run[r].threshold + run[r].amount <= wallet.balance
  /\ ini[r].pc = "u2" =>
       CallerHas(r).bal[Caller(r)] + run[r].amount <= ini[r].post.bal[Caller(r)]

Crediting(r) ==
  /\ ini[r].pc \in {"w2", "w4", "w6", "save", "submit"} => run[r].call # "deposit"
  /\ "raced" \notin mishaps => Claiming(r)

\* The responder's answer is about the books it has persisted.
Countersigned ==
  \A m \in net : m.n = "u2" => m.sigs = {FreeBalance(ResponderHas(m.run))}

Credits == (\A r \in leases : Crediting(r)) /\ Countersigned

LEMMA SameCrediting ==
  ASSUME NEW r, Crediting(r), UNCHANGED <<wallet, txs>>, run'[r] = run[r], ini'[r] = ini[r],
         store'[Caller(r)] = store[Caller(r)], "raced" \in mishaps => "raced" \in mishaps'
  PROVE  Crediting(r)'
<1>1. Caller(r)' = Caller(r) /\ ini[r].post' = ini[r].post BY DEF Caller
<1>2. CallerHas(r)' = CallerHas(r) BY <1>1 DEF CallerHas
<1>3. DepositTransaction(r)' = DepositTransaction(r) BY DEF DepositTransaction
<1>4. Claiming(r) => Claiming(r)'
  BY <1>1, <1>2, <1>3 DEF Claiming, Claims
<1> QED BY <1>4 DEF Crediting

LEMMA OtherCrediting ==
  ASSUME NEW r, ini'[r].pc \notin {"i2", "i4", "send", "mine", "u2"},
         ini'[r].pc \in {"w2", "w4", "w6", "save", "submit"} => run'[r].call # "deposit"
  PROVE  Crediting(r)'
BY DEF Crediting, Claiming

\* The holder of the lock takes the step.
LEMMA HolderCredits ==
  ASSUME NEW r, leases' \subseteq {r}, r \in leases' => Crediting(r)', Countersigned'
  PROVE  Credits'
BY DEF Credits

LEMMA NotCountersigned ==
  ASSUME \A m \in net' : m.n # "u2"
  PROVE  Countersigned'
BY DEF Countersigned

LEMMA StillCountersigned ==
  ASSUME Countersigned, UNCHANGED store, \A m \in net' : m \in net,
         \A m \in net : run'[m.run].by = run[m.run].by
  PROVE  Countersigned'
<1>1. \A m \in net : ResponderHas(m.run)' = ResponderHas(m.run)
  BY DEF ResponderHas, Responder
<1> QED BY <1>1 DEF Countersigned

\* A step that only answers m.
LEMMA AnswerCredits ==
  ASSUME TR, Lock, NEW m \in net, UNCHANGED leases, NEW n, NEW to, NEW sigs,
         NetTo(m, n, to, sigs), n # "u2", Crediting(m.run)'
  PROVE  Credits'
<1>1. leases = {m.run} /\ net = {m} BY Holder
<1>2. PICK k : k = Message(m.run, n, to, sigs) OBVIOUS
<1>3. net' = {k} /\ k.n # "u2" BY <1>1, <1>2, MessageIs DEF NetTo
<1> QED BY <1>1, <1>3, NotCountersigned, HolderCredits

LEMMA HolderCrediting ==
  ASSUME TR, Lock, Credits, NEW m \in net
  PROVE  m.run \in Runs /\ leases = {m.run} /\ net = {m} /\ Crediting(m.run)
BY Holder DEF Credits

LEMMA DepositBeginsCredits ==
  ASSUME TR, Lock, Credits, NEW r \in Runs, DepositBegins(r)
  PROVE  Credits'
<1>1. PICK t : t = Threshold(Caller(r)) OBVIOUS
<1>2. PICK post : post = InstallRefundApp(store[Caller(r)], "deposit", Caller(r), 0, t)
  OBVIOUS
<1>3. run[r].call = "deposit" /\ Begins(r, post, "i1", t) BY <1>1, <1>2 DEF DepositBegins
<1>4. PICK k : k = Message(r, "i1", Responder(r), {Conditional(post)}) OBVIOUS
<1>5. /\ ini[r].pc = "queued"
      /\ LockNames(run[r].call) => leases = {} /\ leases' = {r}
      /\ IniTo(r, FirstWait("i1"), post)
      /\ run' = [run EXCEPT ![r].threshold = t]
      /\ run'[r].by = run[r].by /\ run'[r].call = run[r].call
      /\ run'[r].amount = run[r].amount /\ run'[r].threshold = t
      /\ \A s \in Runs \ {r} : run'[s] = run[s]
      /\ net' = net \cup {Message(r, "i1", Responder(r), {Conditional(post)})}
      /\ mishaps' = mishaps \cup Renames(r)
      /\ UNCHANGED <<store, rsp, slot, wallet, txs>>
  BY <1>3, BeginsDoes
<1>6. leases = {} /\ leases' = {r} BY <1>5 DEF Lock, LockNames
<1>7. net' = {k} /\ k.n # "u2" BY <1>4, <1>5, <1>6, MessageIs DEF Lock
<1>8. ini'[r].pc = "i2" /\ ini'[r].post = post BY <1>5 DEF IniTo, FirstWait
<1>9. Caller(r)' = Caller(r) BY <1>5 DEF Caller
<1>10. t = wallet.balance /\ t \in Nat BY <1>1, WalletFields DEF TR, Threshold
<1>11. \E a \in post.apps : a.kind # "app" /\ a.by = Caller(r) /\ a.threshold = t
  <2> DEFINE c == store[Caller(r)]
             p == Caller(r)
             kind == "deposit"
             pot == 0
  <2>1. c \in Books /\ p \in Parties /\ kind \in Kinds /\ pot \in Nat /\ pot <= c.bal[p]
    BY RunFields, NothingCharged DEF TR, Kinds
  <2>2. kind = "deposit" /\ post = InstallRefundApp(c, kind, p, pot, t) BY <1>2
  <2> HIDE DEF c, p, kind, pot
  <2> DEFINE a == [id |-> c.np, kind |-> kind, by |-> p, pot |-> pot, threshold |-> t]
  <2>3. /\ a \in App /\ a.id = c.np /\ a.kind = kind /\ a.by = p /\ a.pot = pot
        /\ a.threshold = t /\ post = InstallAs(c, a)
    BY <1>10, <2>1, <2>2, RefundIs
  <2> HIDE DEF a
  <2>4. a \in post.apps
    <3>1. a.pot <= c.bal[a.by] BY <2>1, <2>3
    <3>2. InstallAs(c, a).apps = Without(c.apps, a.id) \cup {a}
      BY <2>1, <2>3, <3>1, InstallAsIs
    <3> QED BY <2>3, <3>2
  <2>5. a.kind # "app" BY <2>2, <2>3
  <2>6. a.by = Caller(r) BY <2>3 DEF p
  <2> QED BY <2>3, <2>4, <2>5, <2>6
<1>12. Claims(ini[r].post, r)' BY <1>5, <1>8, <1>9, <1>11 DEF Claims
<1>13. run'[r].threshold <= wallet'.balance BY <1>5, <1>10
<1>14. Crediting(r)' BY <1>3, <1>5, <1>8, <1>12, <1>13 DEF Crediting, Claiming
<1> QED BY <1>6, <1>7, <1>14, NotCountersigned, HolderCredits

LEMMA WithdrawalBeginsCredits ==
  ASSUME TR, Lock, Credits, NEW r \in Runs, WithdrawalBegins(r)
  PROVE  Credits'
<1>1. PICK t : t = 0 OBVIOUS
<1>2. PICK post : post = InstallRefundApp(store[Caller(r)], "withdrawal", Caller(r), run[r].amount, t)
  OBVIOUS
<1>3. run[r].call # "deposit" /\ Begins(r, post, "w1", t) BY <1>1, <1>2 DEF WithdrawalBegins
<1>4. PICK k : k = Message(r, "w1", Responder(r), {Conditional(post)}) OBVIOUS
<1>5. /\ ini[r].pc = "queued"
      /\ LockNames(run[r].call) => leases = {} /\ leases' = {r}
      /\ IniTo(r, FirstWait("w1"), post)
      /\ run' = [run EXCEPT ![r].threshold = t]
      /\ run'[r].by = run[r].by /\ run'[r].call = run[r].call
      /\ run'[r].amount = run[r].amount /\ run'[r].threshold = t
      /\ \A s \in Runs \ {r} : run'[s] = run[s]
      /\ net' = net \cup {Message(r, "w1", Responder(r), {Conditional(post)})}
      /\ mishaps' = mishaps \cup Renames(r)
      /\ UNCHANGED <<store, rsp, slot, wallet, txs>>
  BY <1>3, BeginsDoes
<1>6. leases = {} /\ leases' = {r} BY <1>5 DEF Lock, LockNames
<1>7. net' = {k} /\ k.n # "u2" BY <1>4, <1>5, <1>6, MessageIs DEF Lock
<1>8. ini'[r].pc = "w2" BY <1>5 DEF IniTo, FirstWait
<1>9. Crediting(r)' BY <1>3, <1>5, <1>8, OtherCrediting
<1> QED BY <1>6, <1>7, <1>9, NotCountersigned, HolderCredits

LEMMA CallerInstallsCredits ==
  ASSUME TR, Lock, Credits, NEW m \in net, CallerInstalls(m)
  PROVE  Credits'
<1> DEFINE r == m.run
<1>1. PICK post : post = ini[r].post OBVIOUS
<1>2. /\ m.n = "i2" /\ ini[r].pc = "i2" /\ IniTo(r, "i4", post) /\ StoreTo(Caller(r), post)
      /\ NetTo(m, "i3", Responder(r), {FreeBalance(post)})
      /\ UNCHANGED <<run, rsp, leases, slot, wallet, txs, mishaps>>
  BY <1>1, CallerInstallsDoes
<1>3. r \in Runs /\ Crediting(r) BY HolderCrediting
<1>4. Caller(r)' = Caller(r) /\ CallerHas(r)' = post
  BY <1>2, <1>3, NextHas DEF TR, StoreTo
<1>5. ini'[r].pc = "i4" BY <1>2 DEF IniTo
<1>6. Claims(post, r) => Claims(CallerHas(r), r)' BY <1>2, <1>4 DEF Claims
<1>7. Crediting(r)' BY <1>1, <1>2, <1>3, <1>5, <1>6 DEF Crediting, Claiming
<1> QED BY <1>2, <1>7, AnswerCredits

LEMMA DepositInstalledCredits ==
  ASSUME TR, Lock, Credits, NEW m \in net, DepositInstalled(m)
  PROVE  Credits'
<1> DEFINE r == m.run
<1>1. /\ m.n = "i4" /\ ini[r].pc = "i4" /\ IniTo(r, "send", Opening) /\ net' = net \ {m}
      /\ UNCHANGED <<store, run, rsp, leases, slot, wallet, txs, mishaps>>
  BY DepositInstalledDoes
<1>2. r \in Runs /\ leases = {r} /\ net = {m} /\ Crediting(r) BY HolderCrediting
<1>3. Caller(r)' = Caller(r) /\ CallerHas(r)' = CallerHas(r) BY <1>1 DEF Caller, CallerHas
<1>4. ini'[r].pc = "send" BY <1>1 DEF IniTo
<1>5. Claims(CallerHas(r), r) => Claims(CallerHas(r), r)' BY <1>1, <1>3 DEF Claims
<1>6. Crediting(r)' BY <1>1, <1>2, <1>4, <1>5 DEF Crediting, Claiming
<1> QED BY <1>1, <1>2, <1>6, NotCountersigned, HolderCredits

LEMMA HolderOfCredits ==
  ASSUME TR, Lock, Credits, NEW r \in Runs, ini[r].pc \in {"send", "mine", "save", "submit"}
  PROVE  leases = {r} /\ net = {} /\ Crediting(r)
<1>1. net = {} /\ IniGoing(r) BY StillQuiet
<1>2. leases = {r} BY <1>1, HolderOf
<1> QED BY <1>1, <1>2 DEF Credits

LEMMA SendTransactionCredits ==
  ASSUME TR, Lock, Credits, NEW r \in Runs, SendTransaction(r)
  PROVE  Credits'
<1>1. /\ ini[r].pc = "send" /\ IniTo(r, "mine", ini[r].post) /\ ini'[r].tries = ini[r].tries
      /\ txs' = txs \cup {DepositTransaction(r)}
      /\ UNCHANGED <<store, run, rsp, net, leases, slot, wallet, mishaps>>
  BY SendTransactionDoes
<1>2. leases = {r} /\ net = {} /\ Crediting(r) BY <1>1, HolderOfCredits
<1>3. Caller(r)' = Caller(r) /\ CallerHas(r)' = CallerHas(r) BY <1>1 DEF Caller, CallerHas
<1>4. ini'[r].pc = "mine" BY <1>1 DEF IniTo
<1>5. Claims(CallerHas(r), r) => Claims(CallerHas(r), r)' BY <1>1, <1>3 DEF Claims
<1>6. DepositTransaction(r)' \in txs' BY <1>1 DEF DepositTransaction
<1>7. Crediting(r)' BY <1>1, <1>2, <1>4, <1>5, <1>6 DEF Crediting, Claiming
<1> QED BY <1>1, <1>2, <1>7, NotCountersigned, HolderCredits

LEMMA SendThrowsCredits ==
  ASSUME TR, Lock, Credits, NEW r \in Runs, SendThrows(r)
  PROVE  Credits'
<1>1. /\ ini[r].pc = "send"
      /\ \/ IniTo(r, "threw", Opening) /\ leases' = leases \ {r}
         \/ IniTo(r, "send", ini[r].post) /\ UNCHANGED leases
      /\ UNCHANGED <<store, run, rsp, net, slot, wallet, mishaps>>
  BY SendThrowsDoes
<1>2. leases = {r} /\ net = {} /\ Crediting(r) BY <1>1, HolderOfCredits
<1>3. Caller(r)' = Caller(r) /\ CallerHas(r)' = CallerHas(r) BY <1>1 DEF Caller, CallerHas
<1>4. Claims(CallerHas(r), r) => Claims(CallerHas(r), r)' BY <1>1, <1>3 DEF Claims
<1>5. r \in leases' => ini'[r].pc = "send" BY <1>1 DEF IniTo
<1>6. r \in leases' => Crediting(r)' BY <1>1, <1>2, <1>4, <1>5 DEF Crediting, Claiming
<1> QED BY <1>1, <1>2, <1>6, NotCountersigned, HolderCredits

LEMMA UninstallBeginsCredits ==
  ASSUME TR, Lock, Credits, NEW r \in Runs, UninstallBegins(r)
  PROVE  Credits'
<1> DEFINE c == store[Caller(r)]
           a == TheRefundApp(c)
<1>a. CanUninstall(c) BY DEF UninstallBegins
<1>b. c \in Books /\ wallet.balance \in Nat /\ run[r].amount \in Nat /\ run[r].threshold \in Nat
      /\ Caller(r) \in Parties
  BY RunFields, WalletFields DEF TR
<1>c. /\ a \in c.apps /\ a \in App /\ a.by \in Parties /\ a.kind # "app"
      /\ \A b \in c.apps : b.kind # "app" => b = a
      /\ a.threshold \in Nat /\ a.threshold < wallet.balance /\ Outcome(a) \in Nat
      /\ Outcome(a) + a.threshold = wallet.balance
  <2> HIDE DEF c
  <2> QED BY <1>a, <1>b, RefundApp
<1>1. PICK x \in Nat : x = Outcome(a) BY <1>c
<1>2. PICK post : post = Uninstall(c, a.id, a.by, x) OBVIOUS
<1>3. PICK k : k = Message(r, "u1", Responder(r), {FreeBalance(post)}) OBVIOUS
<1>4. /\ Confirmed(r) /\ ini[r].pc = "mine" /\ IniTo(r, "u2", post) /\ net' = net \cup {k}
      /\ UNCHANGED <<store, run, rsp, leases, slot, wallet, txs, mishaps>>
  BY <1>1, <1>2, <1>3, UninstallBeginsDoes
<1>5. leases = {r} /\ net = {} /\ Crediting(r) BY <1>4, HolderOfCredits
<1>6. k.n # "u2" BY <1>3, MessageIs
<1>7. ini'[r].pc = "u2" /\ ini'[r].post = post BY <1>4 DEF IniTo
<1>8. Caller(r)' = Caller(r) /\ CallerHas(r)' = CallerHas(r) BY <1>4 DEF Caller, CallerHas
<1>9. ASSUME "raced" \notin mishaps
      PROVE  CallerHas(r).bal[Caller(r)] + run[r].amount <= post.bal[Caller(r)]
  <2>1. /\ Claims(c, r) /\ run[r].threshold + run[r].amount <= wallet.balance
    BY <1>4, <1>5, <1>9 DEF Crediting, Claiming, Confirmed, CallerHas
  <2>2. a.by = Caller(r) /\ a.threshold = run[r].threshold BY <1>c, <2>1 DEF Claims
  <2>3. run[r].amount <= x BY <1>1, <1>b, <1>c, <2>1, <2>2
  <2>4. post.bal = [c.bal EXCEPT ![a.by] = c.bal[a.by] + x]
    <3> DEFINE id == a.id
               p == a.by
    <3>1. p \in Parties /\ post = Uninstall(c, id, p, x) BY <1>2, <1>c
    <3> HIDE DEF id, p, c
    <3>2. post.bal = [c.bal EXCEPT ![p] = c.bal[p] + x] BY <1>b, <3>1, UninstallIs
    <3> QED BY <3>2 DEF p
  <2>5. c.bal \in [Parties -> Nat] BY <1>b, BooksFields
  <2>6. post.bal[Caller(r)] = c.bal[Caller(r)] + x BY <1>b, <2>2, <2>4, <2>5
  <2>7. c.bal[Caller(r)] \in Nat BY <1>b, <2>5
  <2> QED BY <1>b, <2>3, <2>6, <2>7 DEF CallerHas
<1>10. Crediting(r)' BY <1>4, <1>7, <1>8, <1>9 DEF Crediting, Claiming
<1> QED BY <1>4, <1>5, <1>6, <1>10, NotCountersigned, HolderCredits

\* The responder's half goes on.
LEMMA ResponderCredits ==
  ASSUME TR, Lock, Credits, NEW m \in net, NEW n, NEW to, NEW sigs, NetTo(m, n, to, sigs),
         n # "u2", UNCHANGED <<run, ini, leases, wallet, txs, mishaps>>,
         store'[Caller(m.run)] = store[Caller(m.run)]
  PROVE  Credits'
<1>1. m.run \in Runs /\ Crediting(m.run) BY HolderCrediting
<1>2. Crediting(m.run)' BY <1>1, SameCrediting
<1> QED BY <1>2, AnswerCredits

LEMMA SignsCredits ==
  ASSUME TR, Lock, Credits, NEW m \in net, NEW first, NEW answer, NEW wait, answer # "u2",
         ResponderSigns(m, first, answer, wait)
  PROVE  Credits'
<1>1. PICK post : post = RefundAppAtResponder(m.run) OBVIOUS
<1>2. PICK sigs : sigs = {Conditional(post), FreeBalance(post)} OBVIOUS
<1>3. /\ NetTo(m, answer, Caller(m.run), sigs)
      /\ UNCHANGED <<store, run, ini, leases, slot, wallet, txs, mishaps>>
  BY <1>1, <1>2, ResponderSignsDoes
<1> QED BY <1>3, ResponderCredits

LEMMA ResponderInstallsCredits ==
  ASSUME TR, Lock, Credits, NEW m \in net, ResponderInstalls(m)
  PROVE  Credits'
<1>1. /\ StoreTo(Responder(m.run), rsp[m.run].post) /\ NetTo(m, "i4", Caller(m.run), {})
      /\ UNCHANGED <<run, ini, leases, slot, wallet, txs, mishaps>>
  BY ResponderInstallsDoes
<1>2. m.run \in Runs BY HolderCrediting
<1>3. store'[Caller(m.run)] = store[Caller(m.run)] BY <1>1, <1>2, RunFields DEF TR, StoreTo
<1> QED BY <1>1, <1>3, ResponderCredits

LEMMA ResponderSettlesCredits ==
  ASSUME TR, Lock, Credits, NEW m \in net, ResponderSettles(m)
  PROVE  Credits'
<1>1. /\ StoreTo(Responder(m.run), rsp[m.run].post) /\ NetTo(m, "w6", Caller(m.run), {})
      /\ UNCHANGED <<run, ini, leases, slot, wallet, txs, mishaps>>
  BY ResponderSettlesDoes
<1>2. m.run \in Runs BY HolderCrediting
<1>3. store'[Caller(m.run)] = store[Caller(m.run)] BY <1>1, <1>2, RunFields DEF TR, StoreTo
<1> QED BY <1>1, <1>3, ResponderCredits

LEMMA ResponderReleasesCredits ==
  ASSUME TR, Lock, Credits, NEW m \in net, ResponderReleases(m)
  PROVE  Credits'
<1>1. PICK sigs : sigs = {Withdrawal(m.run), FreeBalance(Uncharged(m.run, rsp[m.run].post))}
  OBVIOUS
<1>2. /\ NetTo(m, "w4", Caller(m.run), sigs)
      /\ UNCHANGED <<store, run, ini, leases, wallet, txs, mishaps>>
  BY <1>1, ResponderReleasesDoes
<1> QED BY <1>2, ResponderCredits

LEMMA ResponderUninstallsCredits ==
  ASSUME TR, Lock, Credits, NEW m \in net, ResponderUninstalls(m)
  PROVE  Credits'
<1> DEFINE r == m.run
<1>1. PICK post : post = UninstalledAtResponder(r) OBVIOUS
<1>2. /\ StoreTo(Responder(r), post) /\ NetTo(m, "u2", Caller(r), {FreeBalance(post)})
      /\ UNCHANGED <<run, ini, leases, slot, wallet, txs, mishaps>>
  BY <1>1, ResponderUninstallsDoes
<1>3. r \in Runs /\ leases = {r} /\ net = {m} /\ Crediting(r) BY HolderCrediting
<1>4. store'[Caller(r)] = store[Caller(r)] BY <1>2, <1>3, RunFields DEF TR, StoreTo
<1>5. Crediting(r)' BY <1>2, <1>3, <1>4, SameCrediting
<1>6. PICK k : k = Message(r, "u2", Caller(r), {FreeBalance(post)}) OBVIOUS
<1>7. k.run = r /\ k.sigs = {FreeBalance(post)} /\ net' = {k}
  BY <1>2, <1>3, <1>6, MessageIs DEF NetTo
<1>8. ResponderHas(r)' = post BY <1>2, <1>3, NextHas DEF TR, StoreTo
<1>9. Countersigned' BY <1>7, <1>8 DEF Countersigned
<1> QED BY <1>2, <1>3, <1>5, <1>9, HolderCredits

LEMMA CallerChargesCredits ==
  ASSUME TR, Lock, Credits, NEW m \in net, CallerCharges(m)
  PROVE  Credits'
<1>1. PICK sigs : sigs = {FreeBalance(ini[m.run].post), Withdrawal(m.run)} OBVIOUS
<1>2. /\ ini[m.run].pc = "w2" /\ IniTo(m.run, "w4", ini[m.run].post)
      /\ NetTo(m, "w3", Responder(m.run), sigs)
      /\ UNCHANGED <<store, run, rsp, leases, slot, wallet, txs, mishaps>>
  BY <1>1, CallerChargesDoes
<1>3. Crediting(m.run) BY HolderCrediting
<1>4. ini'[m.run].pc = "w4" BY <1>2 DEF IniTo
<1>5. Crediting(m.run)' BY <1>2, <1>3, <1>4, OtherCrediting DEF Crediting
<1> QED BY <1>2, <1>5, AnswerCredits

LEMMA CallerSettlesCredits ==
  ASSUME TR, Lock, Credits, NEW m \in net, CallerSettles(m)
  PROVE  Credits'
<1>1. PICK sigs : sigs = {FreeBalance(Uncharged(m.run, ini[m.run].post))} OBVIOUS
<1>2. /\ ini[m.run].pc = "w4" /\ IniTo(m.run, "w6", Uncharged(m.run, ini[m.run].post))
      /\ NetTo(m, "w5", Responder(m.run), sigs)
      /\ UNCHANGED <<store, run, rsp, leases, slot, wallet, txs, mishaps>>
  BY <1>1, CallerSettlesDoes
<1>3. Crediting(m.run) BY HolderCrediting
<1>4. ini'[m.run].pc = "w6" BY <1>2 DEF IniTo
<1>5. Crediting(m.run)' BY <1>2, <1>3, <1>4, OtherCrediting DEF Crediting
<1> QED BY <1>2, <1>5, AnswerCredits

LEMMA CallerStoresCredits ==
  ASSUME TR, Lock, Credits, NEW m \in net, CallerStoresWithdrawal(m)
  PROVE  Credits'
<1>1. /\ ini[m.run].pc = "w6" /\ IniTo(m.run, "save", ini[m.run].post) /\ net' = net \ {m}
      /\ UNCHANGED <<store, run, rsp, leases, wallet, txs, mishaps>>
  BY CallerStoresDoes
<1>2. leases = {m.run} /\ net = {m} /\ Crediting(m.run) BY HolderCrediting
<1>3. ini'[m.run].pc = "save" BY <1>1 DEF IniTo
<1>4. Crediting(m.run)' BY <1>1, <1>2, <1>3, OtherCrediting DEF Crediting
<1> QED BY <1>1, <1>2, <1>4, NotCountersigned, HolderCredits

LEMMA CallerSavesCredits ==
  ASSUME TR, Lock, Credits, NEW r \in Runs, CallerSaves(r)
  PROVE  Credits'
<1>1. /\ ini[r].pc = "save" /\ IniTo(r, "submit", Opening)
      /\ UNCHANGED <<run, rsp, net, leases, slot, wallet, txs, mishaps>>
  BY CallerSavesDoes
<1>2. leases = {r} /\ net = {} /\ Crediting(r) BY <1>1, HolderOfCredits
<1>3. ini'[r].pc = "submit" BY <1>1 DEF IniTo
<1>4. Crediting(r)' BY <1>1, <1>2, <1>3, OtherCrediting DEF Crediting
<1> QED BY <1>1, <1>2, <1>4, NotCountersigned, HolderCredits

-----------------------------------------------------------------------------
(* How calls end, and steps of others.                                      *)

LEMMA NoLeaseCredits ==
  ASSUME leases' = {}, Countersigned'
  PROVE  Credits'
BY DEF Credits

LEMMA DepositReturnsCredits ==
  ASSUME TR, Lock, Credits, NEW m \in net, DepositReturns(m)
  PROVE  Credits'
<1>1. leases' = leases \ {m.run} /\ net' = net \ {m} BY DepositReturnsDoes
<1>2. leases' = {} /\ net' = {} BY <1>1, HolderCrediting
<1> QED BY <1>2, NotCountersigned, NoLeaseCredits

\* A call is given up.
LEMMA ThrownCredits ==
  ASSUME TR, Lock, Credits, NEW r \in Runs, UNCHANGED store, leases' = leases \ {r},
         leases \subseteq {r}, net' \subseteq net, UNCHANGED run
  PROVE  Credits'
<1>1. leases' = {} OBVIOUS
<1>2. Countersigned' BY StillCountersigned DEF Credits
<1> QED BY <1>1, <1>2, NoLeaseCredits

LEMMA LeavesCredits ==
  ASSUME TR, Lock, Credits, NEW r \in Runs,
         WithdrawalReturns(r) \/ UninstallThrows(r) \/ WithdrawalThrows(r) \/ CallerTimesOut(r)
  PROVE  Credits'
<1>1. CASE WithdrawalReturns(r)
  <2>1. /\ ini[r].pc = "submit" /\ leases' = leases \ {r}
        /\ UNCHANGED <<store, run, rsp, net, slot, wallet, mishaps>>
    BY <1>1, WithdrawalReturnsDoes
  <2>2. leases = {r} BY <2>1, HolderOfCredits
  <2> QED BY <2>1, <2>2, ThrownCredits
<1>2. CASE UninstallThrows(r)
  <2>1. /\ ini[r].pc = "mine" /\ leases' = leases \ {r}
        /\ UNCHANGED <<store, run, rsp, net, slot, wallet, txs, mishaps>>
    BY <1>2, UninstallThrowsDoes
  <2>2. leases = {r} BY <2>1, HolderOfCredits
  <2> QED BY <2>1, <2>2, ThrownCredits
<1>3. CASE WithdrawalThrows(r)
  <2>1. /\ LockNames(run[r].call) => leases = {}
        /\ leases' = leases \ {r}
        /\ UNCHANGED <<store, run, rsp, net, slot, wallet, txs, mishaps>>
    BY <1>3, WithdrawalThrowsDoes
  <2>2. leases = {} BY <2>1 DEF Lock, LockNames
  <2> QED BY <2>1, <2>2, ThrownCredits
<1>4. CASE CallerTimesOut(r)
  <2>1. /\ ini[r].pc \in IniWaits /\ leases' = leases \ {r}
        /\ UNCHANGED <<store, run, rsp, net, slot, wallet, txs, mishaps>>
    BY <1>4, CallerTimesOutDoes
  <2>2. leases = {r} BY <2>1, HolderOf DEF IniGoing
  <2> QED BY <2>1, <2>2, ThrownCredits
<1> QED BY <1>1, <1>2, <1>3, <1>4

LEMMA OthersCredit ==
  ASSUME TR, Credits, UNCHANGED <<store, wallet, txs>>, leases' \subseteq leases,
         net' \subseteq net, \A m \in net : run'[m.run].by = run[m.run].by,
         \A s \in leases : \/ run'[s] = run[s] /\ ini'[s] = ini[s]
                           \/ ini'[s].pc \in {"threw", "crashed"},
         "raced" \in mishaps => "raced" \in mishaps'
  PROVE  Credits'
<1>1. Countersigned' BY StillCountersigned DEF Credits
<1>2. ASSUME NEW s \in leases PROVE Crediting(s)'
  <2>1. Crediting(s) BY DEF Credits
  <2>2. CASE run'[s] = run[s] /\ ini'[s] = ini[s] BY <2>1, <2>2, SameCrediting
  <2>3. CASE ini'[s].pc \in {"threw", "crashed"} BY <2>3, OtherCrediting
  <2> QED BY <2>2, <2>3
<1> QED BY <1>1, <1>2 DEF Credits

LEMMA RefuseCredits ==
  ASSUME TR, Lock, Credits, NEW m \in net, Refuse(m)
  PROVE  Credits'
<1>1. /\ net' = net \ {m}
      /\ \/ IniTo(m.run, "threw", Opening) /\ leases' = leases \ {m.run}
            /\ ini[m.run].pc \in IniWaits
         \/ UNCHANGED <<ini, leases>>
      /\ UNCHANGED <<store, run, slot, wallet, txs, mishaps>>
  BY RefuseDoes
<1>2. leases = {m.run} BY HolderCrediting
<1>3. \A s \in leases : ini'[s] = ini[s] \/ ini'[s].pc = "threw" BY <1>1, <1>2 DEF IniTo
<1> QED BY <1>1, <1>3, OthersCredit

LEMMA CrashCredits ==
  ASSUME TR, Lock, Credits, NEW p \in Parties, Crash(p)
  PROVE  Credits'
<1>1. /\ \A r \in Runs : \/ ini'[r] = ini[r]
                         \/ /\ ini'[r].pc = "crashed"
                            /\ IniGoing(r) \/ ini[r].pc = "queued"
      /\ UNCHANGED <<store, run, net, leases, slot, wallet, txs>>
      /\ mishaps' = mishaps \cup {"crashed"}
  BY CrashDoes
<1>2. \A s \in leases : s \in Runs BY DEF TR, Types
<1> QED BY <1>1, <1>2, OthersCredit

LEMMA CallCredits ==
  ASSUME TR, Lock, Credits, NEW r \in Runs, NEW p \in Parties, NEW call \in Calls,
         NEW amount \in Amounts, Call(r, p, call, amount)
  PROVE  Credits'
<1>1. /\ ini[r].pc = "idle" /\ IniTo(r, "queued", Opening)
      /\ run'[r].call = call /\ \A s \in Runs \ {r} : run'[s] = run[s]
      /\ UNCHANGED <<store, rsp, net, leases, slot, wallet, txs, mishaps>>
  BY CallDoes
<1>2. r \notin leases BY <1>1 DEF Lock
<1>3. \A s \in leases : s \in Runs \ {r} BY <1>2 DEF TR, Types
<1>4. \A m \in net : m.run \in leases BY DEF Lock
<1>5. \A s \in leases : run'[s] = run[s] /\ ini'[s] = ini[s] BY <1>1, <1>3 DEF IniTo
<1> QED BY <1>1, <1>4, <1>5, OthersCredit

LEMMA BothHaveCredits ==
  ASSUME TR, Lock, NEW c, BothHave(c)
  PROVE  Credits'
<1>1. leases' = {} /\ net' = {} BY DEF BothHave, Lock
<1> QED BY <1>1, NotCountersigned, NoLeaseCredits

LEMMA MineCredits ==
  ASSUME TR, TR', Lock, Credits, NEW t \in txs, Mine(t)
  PROVE  Credits'
<1>1. UNCHANGED <<store, run, ini, rsp, net, leases, slot>> BY DEF Mine
<1>2. Countersigned' BY <1>1, StillCountersigned DEF Credits
<1>3. txs' = txs \ {t} BY DEF Mine, MineDeposit, MineWithdrawal, RevertWithdrawal
<1>4. ASSUME NEW r \in leases PROVE Crediting(r)'
  <2>1. r \in Runs /\ Crediting(r) BY <1>4 DEF TR, Types, Credits
  <2>2. Caller(r)' = Caller(r) /\ CallerHas(r)' = CallerHas(r) /\ ini[r].post' = ini[r].post
    BY <1>1 DEF Caller, CallerHas
  <2>3. /\ Claims(CallerHas(r), r) => Claims(CallerHas(r), r)'
        /\ Claims(ini[r].post, r) => Claims(ini[r].post, r)'
    BY <1>1, <2>2 DEF Claims
  <2>4. DepositTransaction(r)' = DepositTransaction(r) BY <1>1 DEF DepositTransaction
  <2>5. /\ run[r].threshold \in Nat /\ run[r].amount \in Nat /\ wallet.balance \in Nat
        /\ t.amount \in Nat
    BY <2>1, RunFields, WalletFields DEF TR, Types, Tx
  <2>6. CASE MineDeposit(t)
    <3>1. wallet'.balance = wallet.balance + t.amount
      BY <2>6, WalletFields DEF MineDeposit, TR
    <3>2. UNCHANGED mishaps BY <2>6 DEF MineDeposit
    <3>3. t = DepositTransaction(r) => t.amount = run[r].amount
      BY DEF DepositTransaction, Transaction
    <3>4. /\ run[r].threshold <= wallet.balance => run[r].threshold <= wallet'.balance
          /\ run[r].threshold + run[r].amount <= wallet.balance =>
               run[r].threshold + run[r].amount <= wallet'.balance
          /\ run[r].threshold <= wallet.balance /\ t.amount = run[r].amount =>
               run[r].threshold + run[r].amount <= wallet'.balance
      BY <2>5, <3>1
    <3>5. Claiming(r) => Claiming(r)'
      BY <1>1, <1>3, <2>2, <2>3, <2>4, <3>3, <3>4 DEF Claiming
    <3> QED BY <1>1, <2>1, <3>2, <3>5 DEF Crediting
  <2>7. CASE RevertWithdrawal(t)
    <3>1. wallet'.balance = wallet.balance /\ UNCHANGED mishaps
      BY <2>7, WalletFields DEF RevertWithdrawal, TR
    <3>2. t # DepositTransaction(r) BY <2>7 DEF RevertWithdrawal, DepositTransaction, Transaction
    <3>3. Claiming(r) => Claiming(r)'
      BY <1>1, <1>3, <2>2, <2>3, <2>4, <3>1, <3>2 DEF Claiming
    <3> QED BY <1>1, <2>1, <3>1, <3>3 DEF Crediting
  <2>8. CASE MineWithdrawal(t)
    <3>1. t # DepositTransaction(r) BY <2>8 DEF MineWithdrawal, DepositTransaction, Transaction
    <3>2. "raced" \notin mishaps' => ~Depositing(r) /\ "raced" \notin mishaps
      BY <2>1, <2>8 DEF MineWithdrawal
    <3>3. Claiming(r) /\ ~Depositing(r) => Claiming(r)'
      <4> SUFFICES ASSUME Claiming(r), ~Depositing(r) PROVE Claiming(r)' OBVIOUS
      <4>1. ini[r].pc \notin {"i2", "i4", "send", "mine"}
        BY DEF Claiming, Depositing, IniGoing, IniWaits
      <4> QED BY <1>1, <2>2, <4>1 DEF Claiming
    <3> QED BY <1>1, <2>1, <3>2, <3>3 DEF Crediting
  <2> QED BY <2>6, <2>7, <2>8 DEF Mine
<1> QED BY <1>1, <1>2, <1>4 DEF Credits

LEMMA NextCredits ==
  ASSUME TR, TR', Lock, Credits, [Next]_vars
  PROVE  Credits'
<1>1. CASE Ask
  <2>1. \/ \E r \in Runs, p \in Parties, call \in Calls, amount \in Amounts :
             Call(r, p, call, amount)
        \/ \E c : BothHave(c)
    BY <1>1 DEF Ask, ProposeApp, InstallApp, UninstallApp
  <2> QED BY <2>1, CallCredits, BothHaveCredits
<1>2. ASSUME NEW r \in Runs, Proceed(r) PROVE Credits'
  BY <1>2, DepositBeginsCredits, WithdrawalBeginsCredits, SendTransactionCredits,
     SendThrowsCredits, UninstallBeginsCredits, CallerSavesCredits, LeavesCredits
  DEF Proceed
<1>3. ASSUME NEW r \in Runs, TimesOut(r) PROVE Credits'
  <2>1. CASE CallerTimesOut(r) BY <2>1, LeavesCredits
  <2>2. CASE ResponderTimesOut(r)
    <3>1. UNCHANGED <<store, run, ini, net, leases, slot, wallet, txs, mishaps>>
      BY <2>2, ResponderTimesOutDoes
    <3> QED BY <3>1, OthersCredit
  <2>3. CASE LeaseExpires(r)
    <3>1. /\ leases' \subseteq leases
          /\ UNCHANGED <<store, run, ini, rsp, net, slot, wallet, txs, mishaps>>
      BY <2>3 DEF LeaseExpires, chain
    <3> QED BY <3>1, OthersCredit
  <2> QED BY <1>3, <2>1, <2>2, <2>3 DEF TimesOut
<1>4. ASSUME NEW m \in net, Handle(m) PROVE Credits'
  BY <1>4, SignsCredits, CallerInstallsCredits, ResponderInstallsCredits,
     DepositInstalledCredits, ResponderUninstallsCredits, DepositReturnsCredits,
     CallerChargesCredits, ResponderReleasesCredits, CallerSettlesCredits,
     ResponderSettlesCredits, CallerStoresCredits, RefuseCredits
  DEF Handle
<1>5. ASSUME NEW m \in net, Lose(m) PROVE Credits'
  <2>1. /\ net' \subseteq net
        /\ UNCHANGED <<store, run, ini, rsp, leases, slot, wallet, txs, mishaps>>
    BY <1>5 DEF Lose, chain
  <2> QED BY <2>1, OthersCredit
<1>6. CASE UNCHANGED vars
  <2>1. UNCHANGED <<store, run, ini, rsp, net, leases, slot, wallet, txs, mishaps>>
    BY <1>6 DEF vars, chain
  <2> QED BY <2>1, OthersCredit
<1> QED
  BY <1>1, <1>2, <1>3, <1>4, <1>5, <1>6, MineCredits, CrashCredits DEF Next, Step

LEMMA InitCredits ==
  ASSUME Init
  PROVE  Credits
BY DEF Init, Credits, Countersigned

\* A run whose other half, or another run, takes a step.
LEMMA StaysCalled ==
  ASSUME NEW r \in Runs, NEW s \in Runs, NEW pc, NEW post, IniTo(s, pc, post),
         pc # "returned", ini[r].pc # "returned"
  PROVE  ini'[r].pc # "returned"
BY DEF IniTo

LEMMA OnlyReturns ==
  ASSUME NEW r \in Runs, NEW s \in Runs, NEW pc, NEW post, IniTo(s, pc, post),
         ini[r].pc # "returned", ini'[r].pc = "returned"
  PROVE  r = s
BY DEF IniTo

LEMMA HandlerReturns ==
  ASSUME TR, Lock, NEW m \in net, Handle(m), NEW r \in Runs,
         ini[r].pc # "returned", ini'[r].pc = "returned"
  PROVE  DepositReturns(m) /\ m.run = r
<1> DEFINE s == m.run
<1>0. s \in Runs BY Holder
<1>1. CASE \E a, b, w \in {"i1", "i2", "i3", "w1", "w2", "w3"} : ResponderSigns(m, a, b, w)
  <2>1. UNCHANGED ini BY <1>1 DEF ResponderSigns
  <2> QED BY <2>1
<1>2. CASE CallerInstalls(m)
  <2>1. IniTo(s, "i4", ini[s].post) BY <1>2, CallerInstallsDoes
  <2> QED BY <1>0, <2>1, StaysCalled
<1>3. CASE ResponderInstalls(m) BY <1>3 DEF ResponderInstalls
<1>4. CASE DepositInstalled(m)
  <2>1. IniTo(s, "send", Opening) BY <1>4, DepositInstalledDoes
  <2> QED BY <1>0, <2>1, StaysCalled
<1>5. CASE ResponderUninstalls(m) BY <1>5 DEF ResponderUninstalls
<1>6. CASE DepositReturns(m)
  <2>1. IniTo(s, "returned", Opening) BY <1>6, DepositReturnsDoes
  <2> QED BY <1>0, <1>6, <2>1, OnlyReturns
<1>7. CASE CallerCharges(m)
  <2>1. IniTo(s, "w4", ini[s].post) BY <1>7, CallerChargesDoes
  <2> QED BY <1>0, <2>1, StaysCalled
<1>8. CASE ResponderReleases(m) BY <1>8 DEF ResponderReleases
<1>9. CASE CallerSettles(m)
  <2>1. IniTo(s, "w6", Uncharged(s, ini[s].post)) BY <1>9, CallerSettlesDoes
  <2> QED BY <1>0, <2>1, StaysCalled
<1>10. CASE ResponderSettles(m) BY <1>10 DEF ResponderSettles
<1>11. CASE CallerStoresWithdrawal(m)
  <2>1. IniTo(s, "save", ini[s].post) BY <1>11, CallerStoresDoes
  <2> QED BY <1>0, <2>1, StaysCalled
<1>12. CASE Refuse(m)
  <2>1. IniTo(s, "threw", Opening) \/ UNCHANGED ini BY <1>12, RefuseDoes
  <2> QED BY <1>0, <2>1, StaysCalled
<1> QED
  BY <1>1, <1>2, <1>3, <1>4, <1>5, <1>6, <1>7, <1>8, <1>9, <1>10, <1>11, <1>12 DEF Handle

LEMMA CallerReturns ==
  ASSUME TR, Lock, NEW s \in Runs, Proceed(s) \/ TimesOut(s), NEW r \in Runs,
         ini[r].pc # "returned", ini'[r].pc = "returned"
  PROVE  r = s /\ ini[r].pc = "submit"
<1>1. ASSUME NEW post, NEW n \in {"i1", "w1"}, NEW t, Begins(s, post, n, t) PROVE FALSE
  <2>1. IniTo(s, FirstWait(n), post) BY <1>1, BeginsDoes
  <2>2. FirstWait(n) # "returned" BY DEF FirstWait
  <2> QED BY <2>1, <2>2, StaysCalled
<1>2. CASE DepositBegins(s) BY <1>1, <1>2 DEF DepositBegins
<1>3. CASE WithdrawalBegins(s) BY <1>1, <1>3 DEF WithdrawalBegins
<1>4. CASE WithdrawalThrows(s)
  <2>1. IniTo(s, "threw", Opening) BY <1>4, WithdrawalThrowsDoes
  <2> QED BY <2>1, StaysCalled
<1>5. CASE SendTransaction(s)
  <2>1. IniTo(s, "mine", ini[s].post) BY <1>5, SendTransactionDoes
  <2> QED BY <2>1, StaysCalled
<1>6. CASE SendThrows(s)
  <2>1. IniTo(s, "threw", Opening) \/ IniTo(s, "send", ini[s].post) BY <1>6, SendThrowsDoes
  <2> QED BY <2>1, StaysCalled
<1>7. CASE UninstallBegins(s)
  <2>1. PICK post : IniTo(s, "u2", post) BY <1>7, UninstallBeginsDoes
  <2> QED BY <2>1, StaysCalled
<1>8. CASE UninstallThrows(s)
  <2>1. IniTo(s, "threw", Opening) BY <1>8, UninstallThrowsDoes
  <2> QED BY <2>1, StaysCalled
<1>9. CASE CallerSaves(s)
  <2>1. IniTo(s, "submit", Opening) BY <1>9, CallerSavesDoes
  <2> QED BY <2>1, StaysCalled
<1>10. CASE WithdrawalReturns(s)
  <2>1. ini[s].pc = "submit" /\ IniTo(s, "returned", Opening) BY <1>10, WithdrawalReturnsDoes
  <2> QED BY <2>1, OnlyReturns
<1>11. CASE CallerTimesOut(s)
  <2>1. IniTo(s, "threw", Opening) BY <1>11, CallerTimesOutDoes
  <2> QED BY <2>1, StaysCalled
<1>12. CASE ResponderTimesOut(s) \/ LeaseExpires(s)
  BY <1>12 DEF ResponderTimesOut, LeaseExpires
<1> QED
  BY <1>2, <1>3, <1>4, <1>5, <1>6, <1>7, <1>8, <1>9, <1>10, <1>11, <1>12
  DEF Proceed, TimesOut

\* A deposit returns in one way.
LEMMA ReturnsByUninstall ==
  ASSUME TR, Lock, Credits, [Next]_vars, NEW r \in Runs, run[r].call = "deposit",
         ini[r].pc # "returned", ini'[r].pc = "returned"
  PROVE  \E m \in net : m.run = r /\ DepositReturns(m)
<1>1. CASE Ask
  <2>1. CASE \E s \in Runs, p \in Parties, call \in Calls, amount \in Amounts :
               Call(s, p, call, amount)
    <3>1. PICK s \in Runs : IniTo(s, "queued", Opening) BY <2>1, CallDoes
    <3> QED BY <3>1, StaysCalled
  <2>2. CASE \E c : BothHave(c) BY <2>2 DEF BothHave
  <2> QED BY <1>1, <2>1, <2>2 DEF Ask, ProposeApp, InstallApp, UninstallApp
<1>2. ASSUME NEW s \in Runs, Proceed(s) \/ TimesOut(s) PROVE FALSE
  <2>1. ini[r].pc = "submit" BY <1>2, CallerReturns
  <2>2. Crediting(r) BY <2>1, HolderOfCredits
  <2> QED BY <2>1, <2>2 DEF Crediting
<1>3. ASSUME NEW m \in net, Handle(m) PROVE m.run = r /\ DepositReturns(m)
  BY <1>3, HandlerReturns
<1>4. CASE \E m \in net : Lose(m) BY <1>4 DEF Lose
<1>5. CASE \E t \in txs : Mine(t) BY <1>5 DEF Mine
<1>6. ASSUME NEW p \in Parties, Crash(p) PROVE FALSE
  <2>1. ini'[r] = ini[r] \/ ini'[r].pc = "crashed" BY <1>6, CrashDoes
  <2> QED BY <2>1
<1>7. CASE UNCHANGED vars BY <1>7 DEF vars
<1> QED BY <1>1, <1>2, <1>3, <1>4, <1>5, <1>6, <1>7 DEF Next, Step

LEMMA ReturnsCredit ==
  ASSUME TR, Lock, Credits, NEW m \in net, DepositReturns(m), "raced" \notin mishaps
  PROVE  LET p == Caller(m.run)
         IN  /\ store'[p].bal[p] >= store[p].bal[p] + run[m.run].amount
             /\ store'[Other(p)].bal = store'[p].bal
<1> DEFINE r == m.run
<1>1. PICK post : post = ini[r].post OBVIOUS
<1>2. /\ Handles(m, "u2") /\ m.n = "u2" /\ ini[r].pc = "u2" /\ StoreTo(Caller(r), post)
  <2>1. Handles(m, "u2") BY DEF DepositReturns
  <2>2. StoreTo(Caller(r), post) /\ m.n = "u2" BY <1>1, DepositReturnsDoes
  <2> QED BY <2>1, <2>2 DEF Handles, Awaited, RspWaits
<1>3. r \in Runs /\ Crediting(r) BY HolderCrediting
<1>4. m.sigs = {FreeBalance(ResponderHas(r))} BY <1>2 DEF Credits, Countersigned
<1>5. FreeBalance(post) = FreeBalance(ResponderHas(r))
  BY <1>1, <1>2, <1>4 DEF Handles, Valid, Expected
<1>6. post.bal = ResponderHas(r).bal BY <1>5 DEF FreeBalance
<1>7. store[Caller(r)].bal[Caller(r)] + run[r].amount <= post.bal[Caller(r)]
  BY <1>1, <1>2, <1>3 DEF Crediting, Claiming, CallerHas
<1>8. Caller(r) \in Parties /\ Other(Caller(r)) = Responder(r) /\ Responder(r) \in Parties \ {Caller(r)}
  BY <1>3, RunFields DEF TR, Caller, Responder
<1>9. store'[Caller(r)] = post /\ store'[Responder(r)] = ResponderHas(r)
  BY <1>2, <1>8 DEF StoreTo, ResponderHas
<1>10. /\ store[Caller(r)].bal[Caller(r)] \in Nat /\ run[r].amount \in Nat
       /\ post.bal[Caller(r)] \in Nat
  <2>1. store[Caller(r)] \in Books /\ post \in Books BY <1>1, <1>3, RunFields DEF TR
  <2> QED BY <1>3, <1>8, <2>1, BooksFields, RunFields DEF TR
<1> QED BY <1>6, <1>7, <1>8, <1>9, <1>10

CreditedStep ==
  \A r \in Runs :
       LET p == Caller(r)
       IN  /\ run[r].call = "deposit"
           /\ ini[r].pc # "returned" /\ ini'[r].pc = "returned"
           /\ "raced" \notin mishaps
           => /\ store'[p].bal[p] >= store[p].bal[p] + run[r].amount
              /\ store'[Other(p)].bal = store'[p].bal

LEMMA NextCredited ==
  ASSUME TR, Lock, Credits, [Next]_vars
  PROVE  CreditedStep
<1> SUFFICES ASSUME NEW r \in Runs, run[r].call = "deposit", ini[r].pc # "returned",
                    ini'[r].pc = "returned", "raced" \notin mishaps
             PROVE  LET p == Caller(r)
                    IN  /\ store'[p].bal[p] >= store[p].bal[p] + run[r].amount
                        /\ store'[Other(p)].bal = store'[p].bal
  BY DEF CreditedStep
<1>1. PICK m \in net : m.run = r /\ DepositReturns(m) BY ReturnsByUninstall
<1> QED BY <1>1, ReturnsCredit

\* A deposit that returns has credited its caller with what was asked for, and
\* both parties have the same balances then, whatever was lost, retried or
\* restarted before, unless a withdrawal was mined meanwhile.
THEOREM DepositsCredited ==
  ASSUME UnderLock
  PROVE  Spec => DepositCredited
<1>1. Init => Credits BY InitCredits
<1>2. TR /\ TR' /\ Lock /\ Credits /\ [Next]_vars => Credits' BY NextCredits
<1>3. Spec => [](TR /\ Lock) BY LockInvariance
<1>4. TR /\ Lock /\ Credits /\ [Next]_vars => [CreditedStep]_vars BY NextCredited
<1>5. Spec => [][CreditedStep]_vars BY <1>1, <1>2, <1>3, <1>4, PTL DEF Spec
<1> QED BY <1>5 DEF DepositCredited, CreditedStep

-----------------------------------------------------------------------------
(* Channels in which no number is used twice.                               *)

Numbered(c) ==
  /\ \A a \in c.apps : a.id <= c.np
  /\ \A a, b \in c.apps : a.id = b.id => a = b
  /\ \A q \in c.props : q.id <= c.np
  /\ \A q \in c.props, a \in c.apps : q.id # a.id

\* No refund app is installed, or the one of a deposit of p that began when
\* the wallet had t.
Plain(c) == Numbered(c) /\ \A a \in c.apps : a.kind = "app"

Refunding(c, p, t) ==
  /\ Numbered(c)
  /\ \E a \in c.apps : /\ a.kind = "deposit" /\ a.by = p /\ a.pot = 0 /\ a.threshold = t
                       /\ \A b \in c.apps : b.kind # "app" => b = a

\* Every coin of a wallet with balance b is in the books, or is the x that the
\* channel no longer has, the o still owed, or the v it refused to pay.
EvenAt(c, x, o, v, b) == Worth(c) + x + o + v = b

LEMMA EvenMoves ==
  ASSUME NEW c \in Books, NEW x \in Nat, NEW o \in Nat, NEW v \in Nat, NEW b \in Nat,
         EvenAt(c, x, o, v, b), NEW y \in Nat, NEW o2 \in Nat, NEW v2 \in Nat, NEW b2 \in Nat,
         y + o2 + v2 + b = x + o + v + b2
  PROVE  EvenAt(c, y, o2, v2, b2)
<1>1. Worth(c) \in Nat BY WorthIs
<1> QED BY <1>1 DEF EvenAt

LEMMA EvenWorth ==
  ASSUME NEW c \in Books, NEW d \in Books, NEW x \in Nat, NEW y \in Nat, NEW o \in Nat,
         NEW v \in Nat, NEW b \in Nat, EvenAt(c, x, o, v, b), Worth(d) + y = Worth(c) + x
  PROVE  EvenAt(d, y, o, v, b)
<1>1. Worth(c) \in Nat /\ Worth(d) \in Nat BY WorthIs
<1> QED BY <1>1 DEF EvenAt

\* A number that no app has.
LEMMA InstallNumbered ==
  ASSUME NEW c \in Books, NEW a \in App, a.pot <= c.bal[a.by], Numbered(c), a.id <= c.np
  PROVE  /\ Numbered(InstallAs(c, a))
         /\ a \in InstallAs(c, a).apps
         /\ \A b \in InstallAs(c, a).apps : b = a \/ b \in c.apps
<1> DEFINE d == InstallAs(c, a)
<1>1. /\ d.np = c.np /\ d.props = {q \in c.props : q.id # a.id}
      /\ d.apps = Without(c.apps, a.id) \cup {a}
  BY InstallAsIs
<1>2. \A b \in d.apps : b = a \/ (b \in c.apps /\ b.id # a.id) BY <1>1 DEF Without
<1>3. \A q \in d.props : q \in c.props /\ q.id # a.id BY <1>1
<1> HIDE DEF d
<1>4. Numbered(d) BY <1>1, <1>2, <1>3 DEF Numbered
<1>5. a \in d.apps BY <1>1
<1> QED BY <1>2, <1>4, <1>5 DEF d

LEMMA UninstallNumbered ==
  ASSUME NEW c \in Books, NEW id, NEW p \in Parties, NEW x \in Nat, Numbered(c)
  PROVE  /\ Numbered(Uninstall(c, id, p, x))
         /\ \A b \in Uninstall(c, id, p, x).apps : b \in c.apps /\ b.id # id
<1> DEFINE d == Uninstall(c, id, p, x)
<1>1. /\ d \in Books
      /\ d.np = c.np
      /\ d.props = c.props
      /\ d.apps = Without(c.apps, id)
      /\ d.ver = c.ver + 2
      /\ d.bal = [c.bal EXCEPT ![p] = c.bal[p] + x]
  BY UninstallIs
<1>2. \A b \in d.apps : b \in c.apps /\ b.id # id BY <1>1 DEF Without
<1> HIDE DEF d
<1>3. Numbered(d) BY <1>1, <1>2 DEF Numbered
<1> QED BY <1>2, <1>3 DEF d

LEMMA DepositRefunding ==
  ASSUME NEW c \in Books, Plain(c), ~NameTaken(c), NEW p \in Parties, NEW t \in Nat
  PROVE  LET d == InstallRefundApp(c, "deposit", p, 0, t)
         IN  d \in Books /\ Refunding(d, p, t) /\ Worth(d) = Worth(c)
<1> DEFINE kind == "deposit"
           pot == 0
<1>1. kind \in Kinds /\ pot \in Nat /\ pot <= c.bal[p] /\ kind = "deposit" /\ kind # "app" /\ pot = 0
  BY NothingCharged DEF Kinds
<1> HIDE DEF kind, pot
<1> DEFINE a == [id |-> c.np, kind |-> kind, by |-> p, pot |-> pot, threshold |-> t]
           d == InstallRefundApp(c, kind, p, pot, t)
<1>2. /\ a \in App /\ a.id = c.np /\ a.kind = kind /\ a.by = p /\ a.pot = pot
      /\ a.threshold = t /\ d = InstallAs(c, a) /\ d \in Books
  BY <1>1, RefundIs
<1> HIDE DEF a, d
<1>3. c.np \in Nat BY BooksFields
<1>4. a.pot <= c.bal[a.by] /\ a.id <= c.np /\ Numbered(c) BY <1>1, <1>2, <1>3 DEF Plain
<1>5. /\ Numbered(d) /\ a \in d.apps /\ \A b \in d.apps : b = a \/ b \in c.apps
  BY <1>2, <1>4, InstallNumbered
<1>6. Worth(d) = Worth(c)
  <2>1. \A b \in c.apps : b.id # a.id BY <1>2 DEF NameTaken
  <2> QED BY <1>2, <1>4, <2>1, InstallWorth
<1>7. \A b \in d.apps : b.kind # "app" => b = a BY <1>5 DEF Plain
<1>8. Refunding(d, p, t) BY <1>1, <1>2, <1>5, <1>7 DEF Refunding
<1> QED BY <1>2, <1>6, <1>8 DEF d, kind, pot

LEMMA WithdrawalPlain ==
  ASSUME NEW c \in Books, Plain(c), ~NameTaken(c), NEW p \in Parties, NEW amount \in Nat,
         amount <= c.bal[p], NEW t \in Nat
  PROVE  LET post == InstallRefundApp(c, "withdrawal", p, amount, t)
             d    == Uninstall(post, post.np, p, 0)
         IN  d \in Books /\ Plain(d) /\ Worth(d) + amount = Worth(c)
<1> DEFINE kind == "withdrawal"
           none == 0
<1>1. kind \in Kinds /\ none \in Nat /\ none = 0 BY DEF Kinds
<1> HIDE DEF kind, none
<1> DEFINE a == [id |-> c.np, kind |-> kind, by |-> p, pot |-> amount, threshold |-> t]
           post == InstallRefundApp(c, kind, p, amount, t)
<1>2. /\ a \in App /\ a.id = c.np /\ a.kind = kind /\ a.by = p /\ a.pot = amount
      /\ a.threshold = t /\ post = InstallAs(c, a) /\ post \in Books
  BY <1>1, RefundIs
<1> HIDE DEF a, post
<1>3. c.np \in Nat BY BooksFields
<1>4. a.pot <= c.bal[a.by] /\ a.id <= c.np /\ Numbered(c) BY <1>2, <1>3 DEF Plain
<1>5. /\ Numbered(post) /\ a \in post.apps /\ \A b \in post.apps : b = a \/ b \in c.apps
  BY <1>2, <1>4, InstallNumbered
<1>6. post.np = c.np BY <1>2, <1>4, InstallAsIs
<1>7. Worth(post) = Worth(c)
  <2>1. \A b \in c.apps : b.id # a.id BY <1>2 DEF NameTaken
  <2> QED BY <1>2, <1>4, <2>1, InstallWorth
<1> DEFINE id == a.id
           d == Uninstall(post, id, p, none)
<1>8. /\ Numbered(d) /\ \A b \in d.apps : b \in post.apps /\ b.id # id
  BY <1>1, <1>2, <1>5, UninstallNumbered
<1>9. d \in Books
  <2> HIDE DEF id
  <2> QED BY <1>1, <1>2, UninstallDrops
<1>10. Worth(d) + a.pot = Worth(post) + none
  <2>1. \A b \in post.apps : b.id = a.id => b = a BY <1>5 DEF Numbered
  <2> QED BY <1>1, <1>2, <1>5, <2>1, UninstallWorth
<1>11. Plain(d) BY <1>5, <1>8 DEF Plain
<1>12. Worth(d) \in Nat /\ Worth(c) \in Nat BY <1>9, WorthIs
<1>13. Worth(d) + amount = Worth(c)
  <2> HIDE DEF d
  <2> QED BY <1>1, <1>2, <1>7, <1>10, <1>12
<1>14. d = Uninstall(post, post.np, p, none) BY <1>2, <1>6
<1> HIDE DEF d
<1> QED BY <1>9, <1>11, <1>13, <1>14 DEF post, kind, none

LEMMA RefundPlain ==
  ASSUME NEW c \in Books, NEW p \in Parties, NEW t \in Nat, Refunding(c, p, t),
         CanUninstall(c), wallet.balance \in Nat
  PROVE  LET a == TheRefundApp(c)
             d == Uninstall(c, a.id, a.by, Outcome(a))
         IN  d \in Books /\ Plain(d) /\ Worth(d) + t = Worth(c) + wallet.balance
<1> DEFINE a == TheRefundApp(c)
           x == Outcome(a)
           d == Uninstall(c, a.id, a.by, x)
<1>1. /\ a \in c.apps /\ a \in App /\ a.by \in Parties /\ a.kind # "app"
      /\ \A b \in c.apps : b.kind # "app" => b = a
      /\ a.threshold \in Nat /\ x \in Nat /\ x + a.threshold = wallet.balance
  BY RefundApp
<1> HIDE DEF a, x
<1>2. a.pot = 0 /\ a.threshold = t BY <1>1 DEF Refunding
<1>3. Numbered(c) BY DEF Refunding
<1>4. d \in Books /\ d.apps = Without(c.apps, a.id) BY <1>1, UninstallDrops
<1>5. Worth(d) + a.pot = Worth(c) + x
  <2>1. \A b \in c.apps : b.id = a.id => b = a BY <1>1, <1>3 DEF Numbered
  <2> QED BY <1>1, <2>1, UninstallWorth
<1>6. Numbered(d) /\ \A b \in d.apps : b \in c.apps /\ b.id # a.id
  BY <1>1, <1>3, UninstallNumbered
<1> HIDE DEF d
<1>7. Plain(d) BY <1>1, <1>6 DEF Plain
<1>8. Worth(d) \in Nat /\ Worth(c) \in Nat BY <1>4, WorthIs
<1>9. Worth(d) + t = Worth(c) + wallet.balance BY <1>1, <1>2, <1>5, <1>8
<1> QED BY <1>4, <1>7, <1>9 DEF a, d, x

-----------------------------------------------------------------------------
(* Other apps.                                                              *)

LEMMA ProposedPlain ==
  ASSUME NEW c \in Books, Plain(c), NEW p \in Parties, NEW pot \in Nat
  PROVE  LET d == Proposed(c, p, pot)
         IN  d \in Books /\ Plain(d) /\ Worth(d) = Worth(c)
<1> DEFINE d == Proposed(c, p, pot)
           new == [id |-> c.np + 1, by |-> p, pot |-> pot]
<1>1. /\ d \in Books /\ d.np = c.np + 1 /\ d.apps = c.apps /\ d.bal = c.bal
      /\ d.props = c.props \cup {new}
  BY ProposedIs
<1>2. new.id = c.np + 1 OBVIOUS
<1> HIDE DEF d, new
<1>3. c.np \in Nat /\ \A a \in c.apps : a.id \in Nat BY BooksFields DEF App
<1>4. \A q \in c.props : q.id \in Nat BY BooksFields DEF Proposal
<1>5. \A a \in d.apps : a.id <= d.np BY <1>1, <1>3 DEF Plain, Numbered
<1>6. \A q \in d.props : q.id <= d.np BY <1>1, <1>2, <1>3, <1>4 DEF Plain, Numbered
<1>7. \A a \in d.apps : a.id # new.id BY <1>1, <1>2, <1>3 DEF Plain, Numbered
<1>8. Plain(d) BY <1>1, <1>5, <1>6, <1>7 DEF Plain, Numbered
<1>9. Worth(d) = Worth(c) BY <1>1, WorthIs DEF Held
<1> QED BY <1>1, <1>8, <1>9 DEF d

LEMMA InstalledPlain ==
  ASSUME NEW c \in Books, Plain(c), NEW q \in c.props, q.pot <= c.bal[q.by]
  PROVE  LET d == InstallAs(c, AppOf(q))
         IN  d \in Books /\ Plain(d) /\ Worth(d) = Worth(c)
<1> DEFINE a == AppOf(q)
           d == InstallAs(c, a)
<1>1. q \in Proposal BY BooksFields
<1>2. a \in App /\ a.id = q.id /\ a.kind = "app" /\ a.by = q.by /\ a.pot = q.pot
  BY <1>1, AppOfIs
<1> HIDE DEF a
<1>3. a.pot <= c.bal[a.by] /\ a.id <= c.np /\ Numbered(c) BY <1>2 DEF Plain, Numbered
<1>4. /\ Numbered(d) /\ a \in d.apps /\ \A b \in d.apps : b = a \/ b \in c.apps
  BY <1>2, <1>3, InstallNumbered
<1>5. d \in Books BY <1>2, <1>3, InstallAsIs
<1>6. Worth(d) = Worth(c)
  <2>1. \A b \in c.apps : b.id # a.id BY <1>2 DEF Plain, Numbered
  <2> QED BY <1>2, <1>3, <2>1, InstallWorth
<1>7. Plain(d) BY <1>2, <1>4 DEF Plain
<1> QED BY <1>5, <1>6, <1>7 DEF a

LEMMA UninstalledPlain ==
  ASSUME NEW c \in Books, Plain(c), NEW a \in c.apps, NEW p \in Parties
  PROVE  LET d == Uninstall(c, a.id, p, a.pot)
         IN  d \in Books /\ Plain(d) /\ Worth(d) = Worth(c)
<1> DEFINE d == Uninstall(c, a.id, p, a.pot)
<1>1. a \in App /\ a.pot \in Nat BY BooksFields DEF App
<1>2. d \in Books /\ d.apps = Without(c.apps, a.id) BY <1>1, UninstallDrops
<1>3. Numbered(c) BY DEF Plain
<1>4. Worth(d) + a.pot = Worth(c) + a.pot
  <2>1. \A b \in c.apps : b.id = a.id => b = a BY <1>3 DEF Numbered
  <2> QED BY <1>1, <2>1, UninstallWorth
<1>5. Numbered(d) /\ \A b \in d.apps : b \in c.apps /\ b.id # a.id
  BY <1>1, <1>3, UninstallNumbered
<1> HIDE DEF d
<1>6. Plain(d) BY <1>5 DEF Plain
<1>7. Worth(d) \in Nat /\ Worth(c) \in Nat BY <1>2, WorthIs
<1>8. Worth(d) = Worth(c) BY <1>1, <1>4, <1>7
<1> QED BY <1>2, <1>6, <1>8 DEF d

LEMMA OpeningPlain == Plain(Opening)
BY OpeningNumbered DEF Plain, Numbered

-----------------------------------------------------------------------------
(* Where every coin is, when nothing goes wrong.                            *)

Even(c, x) == EvenAt(c, x, Owed, wallet.reverted, wallet.balance)

Plainly(c, x) == Plain(c) /\ Even(c, x)

InstallNumbers(m, r, post) ==
  /\ m.n \in {"i1", "i2", "i3", "i4"} =>
       run[r].call = "deposit" /\ run[r].threshold = wallet.balance /\ Even(CallerHas(r), 0)
  /\ m.n \in {"i1", "i2"} => Refunding(post, Caller(r), run[r].threshold) /\ Even(post, 0)
  /\ m.n \in {"i3", "i4"} => Refunding(CallerHas(r), Caller(r), run[r].threshold)

UninstallNumbers(m, r, post) ==
  /\ m.n = "u1" => CanUninstall(ResponderHas(r)) /\ post = UninstalledAtResponder(r)
  /\ m.n \in {"u1", "u2"} => run[r].call = "deposit" /\ Plainly(post, 0)

WithdrawNumbers(m, r, post) ==
  /\ m.n \in {"w1", "w2", "w3", "w4", "w5", "w6"} => run[r].call # "deposit"
  /\ m.n \in {"w1", "w2", "w3", "w4"} => Plainly(Uncharged(r, post), run[r].amount)
  /\ m.n \in {"w5", "w6"} => Plainly(post, run[r].amount)

Numbers(m) ==
  /\ InstallNumbers(m, m.run, ini[m.run].post)
  /\ UninstallNumbers(m, m.run, ini[m.run].post)
  /\ WithdrawNumbers(m, m.run, ini[m.run].post)

\* No message is on its way.
Sole(r) ==
  /\ ini[r].pc # "u2"
  /\ ini[r].pc = "save" => Plainly(ini[r].post, run[r].amount)
  /\ ini[r].pc = "submit" => Plainly(CallerHas(r), run[r].amount)
  /\ ini[r].pc \in {"save", "submit"} => run[r].call # "deposit" /\ slot[Caller(r)] = r
  /\ ini[r].pc \in {"send", "mine"} =>
       run[r].call = "deposit" /\ Refunding(CallerHas(r), Caller(r), run[r].threshold)
  /\ ini[r].pc = "send" \/ (ini[r].pc = "mine" /\ DepositTransaction(r) \in txs) =>
       run[r].threshold = wallet.balance /\ Even(CallerHas(r), 0)
  /\ ini[r].pc = "mine" /\ DepositTransaction(r) \notin txs =>
       /\ run[r].threshold + run[r].amount = wallet.balance
       /\ Even(CallerHas(r), run[r].amount)

Sent ==
  \A t \in txs :
    /\ t.kind = "deposit" => ini[t.run].pc = "mine" /\ t = DepositTransaction(t.run)
    /\ t.kind = "withdrawal" => ini[t.run].pc = "returned"

Exacting ==
  /\ leases = {} => \A p \in Parties : Plainly(store[p], 0)
  /\ \A m \in net : Numbers(m)
  /\ net = {} => \A r \in leases : Sole(r)
  /\ Sent

Fine == faults = {} /\ mishaps = {} /\ \A r \in Runs : ini[r].pc # "threw"

Exact == Fine => Exacting

\* What the proofs assume of a step.
Before == TR /\ TR' /\ Lock /\ Agreeing /\ Exacting

LEMMA StillOwed ==
  ASSUME TR, TR', UNCHANGED <<wallet, txs>>
  PROVE  Owed' = Owed /\ Owed \in Nat
BY OwedIs, OwedAfter DEF TR

LEMMA EvenNext ==
  ASSUME TR, TR', UNCHANGED <<wallet, txs>>, NEW c, NEW x, Even(c, x)
  PROVE  Even(c, x)'
BY StillOwed DEF Even

LEMMA PlainlyNext ==
  ASSUME TR, TR', UNCHANGED <<wallet, txs>>, NEW c, NEW x, Plainly(c, x)
  PROVE  Plainly(c, x)'
BY EvenNext DEF Plainly

LEMMA EvenAs ==
  ASSUME TR, NEW c \in Books, NEW d \in Books, NEW x \in Nat, NEW y \in Nat, Even(c, x),
         Worth(d) + y = Worth(c) + x
  PROVE  Even(d, y)
<1>1. Owed \in Nat /\ wallet.reverted \in Nat /\ wallet.balance \in Nat
  BY OwedIs, WalletFields DEF TR
<1> QED BY <1>1, EvenWorth DEF Even

LEMMA SentStays ==
  ASSUME TR, Sent, UNCHANGED txs, NEW r \in Runs,
         \A s \in Runs \ {r} : ini'[s] = ini[s] /\ run'[s] = run[s],
         \/ ini'[r] = ini[r] /\ run'[r] = run[r]
         \/ ini[r].pc \notin {"mine", "returned"}
         \/ ini[r].pc = "mine" /\ DepositTransaction(r) \notin txs
  PROVE  Sent'
<1> SUFFICES ASSUME NEW t \in txs
             PROVE  /\ t.kind = "deposit" => /\ ini'[t.run].pc = "mine"
                                             /\ t = DepositTransaction(t.run)'
                    /\ t.kind = "withdrawal" => ini'[t.run].pc = "returned"
  BY DEF Sent
<1>1. t.run \in Runs /\ t.kind \in {"deposit", "withdrawal"} BY DEF TR, Types, Tx
<1>2. t.run = r => ini'[r] = ini[r] /\ run'[r] = run[r] BY <1>1 DEF Sent
<1>3. ini'[t.run] = ini[t.run] /\ run'[t.run] = run[t.run] BY <1>1, <1>2
<1>4. DepositTransaction(t.run)' = DepositTransaction(t.run) BY <1>3 DEF DepositTransaction
<1> QED BY <1>3, <1>4 DEF Sent

LEMMA NumbersGo ==
  ASSUME NEW r, leases' = {r}, NEW k, net' = {k}, Numbers(k)', Sent'
  PROVE  Exacting'
BY DEF Exacting

LEMMA SoleGoes ==
  ASSUME NEW r, leases' = {r}, net' = {}, Sole(r)', Sent'
  PROVE  Exacting'
BY DEF Exacting

LEMMA EndNumbers ==
  ASSUME leases' = {}, net' = {}, \A p \in Parties : Plainly(store[p], 0)', Sent'
  PROVE  Exacting'
BY DEF Exacting

LEMMA NumbersOf ==
  ASSUME TR, Lock, Agreeing, Exacting, NEW m \in net
  PROVE  /\ m.run \in Runs /\ leases = {m.run} /\ net = {m} /\ Talk(m) /\ Numbers(m) /\ Sent
BY TalkOf DEF Exacting

LEMMA SoleOf ==
  ASSUME TR, Lock, Agreeing, Exacting, NEW r \in Runs,
         ini[r].pc \in {"send", "mine", "save", "submit"}
  PROVE  leases = {r} /\ net = {} /\ Silent(r) /\ Sole(r) /\ Sent
<1>1. leases = {r} /\ net = {} /\ Silent(r) BY SilentOf
<1> QED BY <1>1 DEF Exacting

\* The responder's half goes on.
LEMMA AnswerNumbers ==
  ASSUME TR, Lock, Agreeing, Exacting, NEW m \in net, UNCHANGED <<run, leases, txs>>,
         \A s \in Runs \ {m.run} : ini'[s] = ini[s],
         ini'[m.run] = ini[m.run] \/ ini[m.run].pc \in IniWaits,
         NEW k, net' = {k}, Numbers(k)'
  PROVE  Exacting'
<1>1. m.run \in Runs /\ leases = {m.run} /\ Sent BY NumbersOf
<1>2. Sent' BY <1>1, SentStays DEF IniWaits
<1> QED BY <1>1, <1>2, NumbersGo

-----------------------------------------------------------------------------
(* Deposits.                                                                *)

LEMMA DepositBeginsExact ==
  ASSUME Before, NEW r \in Runs, DepositBegins(r), mishaps' = {}
  PROVE  Exacting'
<1>0. TR /\ TR' /\ Lock /\ Agreeing /\ Exacting BY DEF Before
<1>1. PICK t : t = Threshold(Caller(r)) OBVIOUS
<1>2. PICK post : post = InstallRefundApp(store[Caller(r)], "deposit", Caller(r), 0, t)
  OBVIOUS
<1>3. run[r].call = "deposit" /\ Begins(r, post, "i1", t) BY <1>1, <1>2 DEF DepositBegins
<1>4. PICK k : k = Message(r, "i1", Responder(r), {Conditional(post)}) OBVIOUS
<1>5. /\ ini[r].pc = "queued"
      /\ LockNames(run[r].call) => leases = {} /\ leases' = {r}
      /\ IniTo(r, FirstWait("i1"), post)
      /\ run' = [run EXCEPT ![r].threshold = t]
      /\ run'[r].by = run[r].by /\ run'[r].call = run[r].call
      /\ run'[r].amount = run[r].amount /\ run'[r].threshold = t
      /\ \A s \in Runs \ {r} : run'[s] = run[s]
      /\ net' = net \cup {Message(r, "i1", Responder(r), {Conditional(post)})}
      /\ mishaps' = mishaps \cup Renames(r)
      /\ UNCHANGED <<store, rsp, slot, wallet, txs>>
  BY <1>0, <1>3, BeginsDoes
<1>6. leases = {} /\ leases' = {r} BY <1>0, <1>5 DEF Lock, LockNames
<1>7. net' = {k} BY <1>0, <1>4, <1>5, <1>6 DEF Lock
<1>8. k.run = r /\ k.n = "i1" BY <1>4, MessageIs
<1>9. PICK c : c = store[Caller(r)] OBVIOUS
<1>10. c \in Books /\ Caller(r) \in Parties BY <1>0, <1>9, RunFields DEF TR
<1>11. Plain(c) /\ Even(c, 0) BY <1>0, <1>6, <1>9, <1>10 DEF Exacting, Plainly
<1>12. ~NameTaken(c) BY <1>5, <1>9 DEF Renames
<1>13. t = wallet.balance /\ t \in Nat BY <1>0, <1>1, WalletFields DEF TR, Threshold
<1>14. post \in Books /\ Refunding(post, Caller(r), t) /\ Worth(post) = Worth(c)
  BY <1>2, <1>9, <1>10, <1>11, <1>12, <1>13, DepositRefunding
<1>15. Even(post, 0)
  <2> DEFINE none == 0
  <2>1. none \in Nat OBVIOUS
  <2> HIDE DEF none
  <2>2. Worth(post) + none = Worth(c) + none BY <1>14
  <2>3. Even(c, none) BY <1>11 DEF none
  <2>4. Even(post, none) BY <1>0, <1>10, <1>14, <2>1, <2>2, <2>3, EvenAs
  <2> QED BY <2>4 DEF none
<1>16. PICK none : none = 0 OBVIOUS
<1>17. Even(c, none)' /\ Even(post, none)' BY <1>0, <1>5, <1>11, <1>15, <1>16, EvenNext
<1>18. /\ Caller(r)' = Caller(r) /\ CallerHas(r)' = c
       /\ ini'[r].post = post /\ ini'[r].pc = "i2"
  BY <1>5, <1>9 DEF Caller, CallerHas, IniTo, FirstWait
<1>19. Numbers(k)'
  BY <1>3, <1>5, <1>8, <1>13, <1>14, <1>16, <1>17, <1>18
  DEF Numbers, InstallNumbers, UninstallNumbers, WithdrawNumbers
<1>20. Sent'
  <2>1. \A s \in Runs \ {r} : ini'[s] = ini[s] BY <1>5 DEF IniTo
  <2>2. Sent BY <1>0 DEF Exacting
  <2> QED BY <1>0, <1>5, <2>1, <2>2, SentStays
<1> QED BY <1>6, <1>7, <1>19, <1>20, NumbersGo

LEMMA DepositSignedExact ==
  ASSUME Before, NEW m \in net, ResponderSigns(m, "i1", "i2", "i3")
  PROVE  Exacting'
<1> DEFINE r == m.run
<1>0. TR /\ TR' /\ Lock /\ Agreeing /\ Exacting BY DEF Before
<1>1. PICK sigs : sigs = {Conditional(RefundAppAtResponder(r)), FreeBalance(RefundAppAtResponder(r))}
  OBVIOUS
<1>2. /\ m.n = "i1" /\ NetTo(m, "i2", Caller(r), sigs)
      /\ UNCHANGED <<store, run, ini, leases, slot, wallet, txs, mishaps>>
  BY <1>0, <1>1, ResponderSignsDoes
<1>3. r \in Runs /\ net = {m} /\ Numbers(m) BY <1>0, NumbersOf
<1>4. PICK k : k = Message(r, "i2", Caller(r), sigs) OBVIOUS
<1>5. k.run = r /\ k.n = "i2" /\ net' = {k} BY <1>2, <1>3, <1>4, MessageIs DEF NetTo
<1>6. PICK c : c = CallerHas(r) OBVIOUS
<1>7. PICK post : post = ini[r].post OBVIOUS
<1>8. PICK none : none = 0 OBVIOUS
<1>9. /\ run[r].call = "deposit" /\ run[r].threshold = wallet.balance /\ Even(c, none)
      /\ Refunding(post, Caller(r), run[r].threshold) /\ Even(post, none)
  BY <1>2, <1>3, <1>6, <1>7, <1>8 DEF Numbers, InstallNumbers
<1>10. Even(c, none)' /\ Even(post, none)' BY <1>0, <1>2, <1>9, EvenNext
<1>11. Caller(r)' = Caller(r) /\ CallerHas(r)' = c /\ ini'[r].post = post
  BY <1>2, <1>6, <1>7 DEF Caller, CallerHas
<1>12. Numbers(k)'
  BY <1>2, <1>5, <1>8, <1>9, <1>10, <1>11
  DEF Numbers, InstallNumbers, UninstallNumbers, WithdrawNumbers
<1> QED BY <1>0, <1>2, <1>5, <1>12, AnswerNumbers

LEMMA CallerInstallsExact ==
  ASSUME Before, NEW m \in net, CallerInstalls(m)
  PROVE  Exacting'
<1> DEFINE r == m.run
<1>0. TR /\ TR' /\ Lock /\ Agreeing /\ Exacting BY DEF Before
<1>1. PICK post : post = ini[r].post OBVIOUS
<1>2. /\ m.n = "i2" /\ ini[r].pc = "i2" /\ IniTo(r, "i4", post) /\ StoreTo(Caller(r), post)
      /\ NetTo(m, "i3", Responder(r), {FreeBalance(post)})
      /\ UNCHANGED <<run, rsp, leases, slot, wallet, txs, mishaps>>
  BY <1>0, <1>1, CallerInstallsDoes
<1>3. r \in Runs /\ net = {m} /\ Numbers(m) BY <1>0, NumbersOf
<1>4. PICK k : k = Message(r, "i3", Responder(r), {FreeBalance(post)}) OBVIOUS
<1>5. k.run = r /\ k.n = "i3" /\ net' = {k} BY <1>2, <1>3, <1>4, MessageIs DEF NetTo
<1>8. PICK none : none = 0 OBVIOUS
<1>9. /\ run[r].call = "deposit" /\ run[r].threshold = wallet.balance
      /\ Refunding(post, Caller(r), run[r].threshold) /\ Even(post, none)
  BY <1>1, <1>2, <1>3, <1>8 DEF Numbers, InstallNumbers
<1>10. Even(post, none)' BY <1>0, <1>2, <1>9, EvenNext
<1>11. Caller(r)' = Caller(r) /\ CallerHas(r)' = post
  BY <1>0, <1>2, <1>3, NextHas DEF TR, StoreTo
<1>12. Numbers(k)'
  BY <1>2, <1>5, <1>8, <1>9, <1>10, <1>11
  DEF Numbers, InstallNumbers, UninstallNumbers, WithdrawNumbers
<1> QED BY <1>0, <1>2, <1>5, <1>12, AnswerNumbers DEF IniTo, IniWaits

LEMMA ResponderInstallsExact ==
  ASSUME Before, NEW m \in net, ResponderInstalls(m)
  PROVE  Exacting'
<1> DEFINE r == m.run
<1>0. TR /\ TR' /\ Lock /\ Agreeing /\ Exacting BY DEF Before
<1>2. /\ m.n = "i3" /\ StoreTo(Responder(r), rsp[r].post)
      /\ NetTo(m, "i4", Caller(r), {})
      /\ UNCHANGED <<run, ini, leases, slot, wallet, txs, mishaps>>
  BY <1>0, ResponderInstallsDoes
<1>3. r \in Runs /\ net = {m} /\ Numbers(m) BY <1>0, NumbersOf
<1>4. PICK k : k = Message(r, "i4", Caller(r), {}) OBVIOUS
<1>5. k.run = r /\ k.n = "i4" /\ net' = {k} BY <1>2, <1>3, <1>4, MessageIs DEF NetTo
<1>6. PICK c : c = CallerHas(r) OBVIOUS
<1>8. PICK none : none = 0 OBVIOUS
<1>9. /\ run[r].call = "deposit" /\ run[r].threshold = wallet.balance /\ Even(c, none)
      /\ Refunding(c, Caller(r), run[r].threshold)
  BY <1>2, <1>3, <1>6, <1>8 DEF Numbers, InstallNumbers
<1>10. Even(c, none)' BY <1>0, <1>2, <1>9, EvenNext
<1>11. Caller(r)' = Caller(r) /\ CallerHas(r)' = c
  BY <1>0, <1>2, <1>3, <1>6, NextHas DEF TR, StoreTo, CallerHas
<1>12. Numbers(k)'
  BY <1>2, <1>5, <1>8, <1>9, <1>10, <1>11
  DEF Numbers, InstallNumbers, UninstallNumbers, WithdrawNumbers
<1> QED BY <1>0, <1>2, <1>5, <1>12, AnswerNumbers

LEMMA DepositInstalledExact ==
  ASSUME Before, NEW m \in net, DepositInstalled(m)
  PROVE  Exacting'
<1> DEFINE r == m.run
<1>0. TR /\ TR' /\ Lock /\ Agreeing /\ Exacting BY DEF Before
<1>2. /\ m.n = "i4" /\ ini[r].pc = "i4" /\ IniTo(r, "send", Opening) /\ net' = net \ {m}
      /\ UNCHANGED <<store, run, rsp, leases, slot, wallet, txs, mishaps>>
  BY <1>0, DepositInstalledDoes
<1>3. r \in Runs /\ leases = {r} /\ net = {m} /\ Numbers(m) /\ Sent BY <1>0, NumbersOf
<1>6. PICK c : c = CallerHas(r) OBVIOUS
<1>8. PICK none : none = 0 OBVIOUS
<1>9. /\ run[r].call = "deposit" /\ run[r].threshold = wallet.balance /\ Even(c, none)
      /\ Refunding(c, Caller(r), run[r].threshold)
  BY <1>2, <1>3, <1>6, <1>8 DEF Numbers, InstallNumbers
<1>10. Even(c, none)' BY <1>0, <1>2, <1>9, EvenNext
<1>11. Caller(r)' = Caller(r) /\ CallerHas(r)' = c BY <1>2, <1>6 DEF Caller, CallerHas
<1>12. ini'[r].pc = "send" BY <1>2 DEF IniTo
<1>13. Sole(r)' BY <1>2, <1>8, <1>9, <1>10, <1>11, <1>12 DEF Sole
<1>14. Sent' BY <1>0, <1>2, <1>3, SentStays DEF IniTo
<1> QED BY <1>2, <1>3, <1>13, <1>14, SoleGoes

LEMMA SendTransactionExact ==
  ASSUME Before, NEW r \in Runs, SendTransaction(r)
  PROVE  Exacting'
<1>0. TR /\ TR' /\ Lock /\ Agreeing /\ Exacting BY DEF Before
<1>1. PICK t : t = DepositTransaction(r) OBVIOUS
<1>2. /\ ini[r].pc = "send" /\ IniTo(r, "mine", ini[r].post) /\ ini'[r].tries = ini[r].tries
      /\ txs' = txs \cup {t}
      /\ UNCHANGED <<store, run, rsp, net, leases, slot, wallet, mishaps>>
  BY <1>0, <1>1, SendTransactionDoes
<1>3. leases = {r} /\ net = {} /\ Sole(r) /\ Sent BY <1>0, <1>2, SoleOf
<1>4. t = DepositTransaction(r)' BY <1>1, <1>2 DEF DepositTransaction
<1>5. t \in Tx /\ t.kind = "deposit" /\ t.run = r
  <2>1. t \in txs' /\ txs' \in SUBSET Tx BY <1>0, <1>2 DEF TR, Types
  <2> QED BY <1>1, <2>1 DEF DepositTransaction, Transaction
<1>6. Owed' = Owed
  <2>1. txs \in SUBSET Tx /\ IsFiniteSet(txs) BY <1>0 DEF TR, Types
  <2>2. Due(txs \cup {t}) = Due(txs) BY <1>5, <2>1, DueAdded
  <2> QED BY <1>0, <1>2, <2>2, OwedIs, OwedAfter DEF TR
<1>7. PICK c : c = CallerHas(r) OBVIOUS
<1>8. PICK none : none = 0 OBVIOUS
<1>9. /\ run[r].call = "deposit" /\ run[r].threshold = wallet.balance /\ Even(c, none)
      /\ Refunding(c, Caller(r), run[r].threshold)
  BY <1>2, <1>3, <1>7, <1>8 DEF Sole
<1>10. Even(c, none)' BY <1>2, <1>6, <1>9 DEF Even
<1>11. Caller(r)' = Caller(r) /\ CallerHas(r)' = c BY <1>2, <1>7 DEF Caller, CallerHas
<1>12. ini'[r].pc = "mine" BY <1>2 DEF IniTo
<1>13. Sole(r)' BY <1>2, <1>4, <1>8, <1>9, <1>10, <1>11, <1>12 DEF Sole
<1>14. Sent'
  <2> SUFFICES ASSUME NEW u \in txs'
               PROVE  /\ u.kind = "deposit" => /\ ini'[u.run].pc = "mine"
                                               /\ u = DepositTransaction(u.run)'
                      /\ u.kind = "withdrawal" => ini'[u.run].pc = "returned"
    BY DEF Sent
  <2>1. CASE u = t BY <1>4, <1>5, <1>12, <2>1
  <2>2. CASE u # t
    <3>1. u \in txs /\ u.run \in Runs /\ u.kind \in {"deposit", "withdrawal"}
      BY <1>0, <1>2, <2>2 DEF TR, Types, Tx
    <3>2. u.kind # "deposit"
      <4>1. u.kind = "deposit" => IniGoing(u.run) BY <1>3, <3>1 DEF Sent, IniGoing
      <4>2. u.kind = "deposit" => u.run = r BY <1>0, <1>3, <3>1, <4>1 DEF Lock
      <4> QED BY <1>2, <1>3, <3>1, <4>2 DEF Sent
    <3>3. u.run # r BY <1>2, <1>3, <3>1, <3>2 DEF Sent
    <3> QED BY <1>2, <1>3, <3>1, <3>2, <3>3 DEF Sent, IniTo
  <2> QED BY <2>1, <2>2
<1> QED BY <1>2, <1>3, <1>13, <1>14, SoleGoes

LEMMA UninstallBeginsExact ==
  ASSUME Before, NEW r \in Runs, UninstallBegins(r)
  PROVE  Exacting'
<1>0. TR /\ TR' /\ Lock /\ Agreeing /\ Exacting BY DEF Before
<1>1. PICK c : c = store[Caller(r)] OBVIOUS
<1>2. PICK post : post = Uninstall(c, TheRefundApp(c).id, TheRefundApp(c).by,
                                   Outcome(TheRefundApp(c)))
  OBVIOUS
<1>3. PICK k : k = Message(r, "u1", Responder(r), {FreeBalance(post)}) OBVIOUS
<1>4. /\ Confirmed(r) /\ ini[r].pc = "mine" /\ CanUninstall(c)
      /\ IniTo(r, "u2", post) /\ net' = net \cup {k}
      /\ UNCHANGED <<store, run, rsp, leases, slot, wallet, txs, mishaps>>
  BY <1>0, <1>1, <1>2, <1>3, UninstallBeginsDoes
<1>5. leases = {r} /\ net = {} /\ Silent(r) /\ Sole(r) /\ Sent BY <1>0, <1>4, SoleOf
<1>6. k.run = r /\ k.n = "u1" BY <1>3, MessageIs
<1>7. /\ run[r].call = "deposit" /\ Refunding(c, Caller(r), run[r].threshold)
      /\ run[r].threshold + run[r].amount = wallet.balance /\ Even(c, run[r].amount)
  BY <1>1, <1>4, <1>5 DEF Sole, Confirmed, CallerHas
<1>8. /\ c \in Books /\ Caller(r) \in Parties /\ wallet.balance \in Nat
      /\ run[r].threshold \in Nat /\ run[r].amount \in Nat
  BY <1>0, <1>1, RunFields, WalletFields DEF TR
<1>9. /\ post \in Books /\ Plain(post)
      /\ Worth(post) + run[r].threshold = Worth(c) + wallet.balance
  BY <1>2, <1>4, <1>7, <1>8, RefundPlain
<1>10. PICK none : none = 0 OBVIOUS
<1>11. Worth(post) + none = Worth(c) + run[r].amount
  <2>1. Worth(post) \in Nat /\ Worth(c) \in Nat BY <1>8, <1>9, WorthIs
  <2> QED BY <1>7, <1>8, <1>9, <1>10, <2>1
<1>12. Plainly(post, none)
  <2>1. none \in Nat BY <1>10
  <2> QED BY <1>0, <1>7, <1>8, <1>9, <1>11, <2>1, EvenAs DEF Plainly
<1>13. Plainly(post, none)' BY <1>0, <1>4, <1>12, PlainlyNext
<1>14. ResponderHas(r)' = c
  BY <1>1, <1>4, <1>5 DEF Silent, CallerHas, ResponderHas, Responder
<1>15. CanUninstall(c)' BY <1>4 DEF CanUninstall, HasOutcome
<1>16. CanUninstall(ResponderHas(r))' BY <1>4, <1>14, <1>15 DEF CanUninstall, HasOutcome
<1>17. post = UninstalledAtResponder(r)'
  BY <1>2, <1>4, <1>14 DEF UninstalledAtResponder, ResponderHas, Outcome
<1>18. ini'[r].post = post BY <1>4 DEF IniTo
<1>19. Numbers(k)'
  BY <1>4, <1>6, <1>7, <1>10, <1>13, <1>16, <1>17, <1>18
  DEF Numbers, InstallNumbers, UninstallNumbers, WithdrawNumbers
<1>20. Sent' BY <1>0, <1>4, <1>5, SentStays DEF IniTo, Confirmed
<1>21. leases' = {r} /\ net' = {k} BY <1>4, <1>5
<1> QED BY <1>19, <1>20, <1>21, NumbersGo

LEMMA ResponderUninstallsExact ==
  ASSUME Before, NEW m \in net, ResponderUninstalls(m)
  PROVE  Exacting'
<1> DEFINE r == m.run
<1>0. TR /\ TR' /\ Lock /\ Agreeing /\ Exacting BY DEF Before
<1>1. PICK sigs : sigs = {FreeBalance(UninstalledAtResponder(r))} OBVIOUS
<1>2. /\ m.n = "u1" /\ NetTo(m, "u2", Caller(r), sigs)
      /\ UNCHANGED <<run, ini, leases, slot, wallet, txs, mishaps>>
  BY <1>0, <1>1, ResponderUninstallsDoes
<1>3. r \in Runs /\ net = {m} /\ Numbers(m) BY <1>0, NumbersOf
<1>4. PICK k : k = Message(r, "u2", Caller(r), sigs) OBVIOUS
<1>5. k.run = r /\ k.n = "u2" /\ net' = {k} BY <1>2, <1>3, <1>4, MessageIs DEF NetTo
<1>6. PICK post : post = ini[r].post OBVIOUS
<1>7. PICK none : none = 0 OBVIOUS
<1>8. run[r].call = "deposit" /\ Plainly(post, none)
  BY <1>2, <1>3, <1>6, <1>7 DEF Numbers, UninstallNumbers
<1>9. Plainly(post, none)' BY <1>0, <1>2, <1>8, PlainlyNext
<1>10. Numbers(k)'
  BY <1>2, <1>5, <1>6, <1>7, <1>8, <1>9
  DEF Numbers, InstallNumbers, UninstallNumbers, WithdrawNumbers
<1> QED BY <1>0, <1>2, <1>5, <1>10, AnswerNumbers

LEMMA DepositReturnsExact ==
  ASSUME Before, NEW m \in net, DepositReturns(m)
  PROVE  Exacting'
<1> DEFINE r == m.run
<1>0. TR /\ TR' /\ Lock /\ Agreeing /\ Exacting BY DEF Before
<1>1. PICK post : post = ini[r].post OBVIOUS
<1>2. /\ m.n = "u2" /\ IniTo(r, "returned", Opening) /\ leases' = leases \ {r}
      /\ StoreTo(Caller(r), post) /\ net' = net \ {m}
      /\ UNCHANGED <<run, rsp, slot, wallet, txs, mishaps>>
  BY <1>0, <1>1, DepositReturnsDoes
<1>3. r \in Runs /\ leases = {r} /\ net = {m} /\ Talk(m) /\ Numbers(m) /\ Sent
  BY <1>0, NumbersOf
<1>4. ini[r].pc = "u2" /\ ResponderHas(r) = post BY <1>1, <1>2, <1>3 DEF Talk, UninstallTalk
<1>5. PICK none : none = 0 OBVIOUS
<1>6. Plainly(post, none)
  BY <1>1, <1>2, <1>3, <1>5 DEF Numbers, UninstallNumbers
<1>7. Plainly(post, none)' BY <1>0, <1>2, <1>6, PlainlyNext
<1>8. \A p \in Parties : store'[p] = post
  BY <1>0, <1>2, <1>3, <1>4, RunFields DEF TR, StoreTo, ResponderHas
<1>9. \A p \in Parties : Plainly(store[p], 0)' BY <1>5, <1>7, <1>8
<1>10. Sent' BY <1>0, <1>2, <1>3, <1>4, SentStays DEF IniTo
<1> QED BY <1>2, <1>3, <1>9, <1>10, EndNumbers

-----------------------------------------------------------------------------
(* Withdrawals.                                                             *)

LEMMA WithdrawalBeginsExact ==
  ASSUME Before, NEW r \in Runs, WithdrawalBegins(r), mishaps' = {}
  PROVE  Exacting'
<1>0. TR /\ TR' /\ Lock /\ Agreeing /\ Exacting BY DEF Before
<1>1. PICK t : t = 0 OBVIOUS
<1>2. PICK post : post = InstallRefundApp(store[Caller(r)], "withdrawal", Caller(r), run[r].amount, t)
  OBVIOUS
<1>3. /\ run[r].call # "deposit" /\ Begins(r, post, "w1", t)
      /\ CanCharge(store[Caller(r)], Caller(r), run[r].amount)
  BY <1>1, <1>2 DEF WithdrawalBegins
<1>4. PICK k : k = Message(r, "w1", Responder(r), {Conditional(post)}) OBVIOUS
<1>5. /\ ini[r].pc = "queued"
      /\ LockNames(run[r].call) => leases = {} /\ leases' = {r}
      /\ IniTo(r, FirstWait("w1"), post)
      /\ run' = [run EXCEPT ![r].threshold = t]
      /\ run'[r].by = run[r].by /\ run'[r].call = run[r].call
      /\ run'[r].amount = run[r].amount /\ run'[r].threshold = t
      /\ \A s \in Runs \ {r} : run'[s] = run[s]
      /\ net' = net \cup {Message(r, "w1", Responder(r), {Conditional(post)})}
      /\ mishaps' = mishaps \cup Renames(r)
      /\ UNCHANGED <<store, rsp, slot, wallet, txs>>
  BY <1>0, <1>3, BeginsDoes
<1>6. leases = {} /\ leases' = {r} BY <1>0, <1>5 DEF Lock, LockNames
<1>7. net' = {k} BY <1>0, <1>4, <1>5, <1>6 DEF Lock
<1>8. k.run = r /\ k.n = "w1" BY <1>4, MessageIs
<1>9. PICK c : c = store[Caller(r)] OBVIOUS
<1>10. c \in Books /\ Caller(r) \in Parties /\ run[r].amount \in Nat
  BY <1>0, <1>9, RunFields DEF TR
<1>11. Plain(c) /\ Even(c, 0) BY <1>0, <1>6, <1>9, <1>10 DEF Exacting, Plainly
<1>12. ~NameTaken(c) BY <1>5, <1>9 DEF Renames
<1>13. t \in Nat /\ run[r].amount <= c.bal[Caller(r)] BY <1>1, <1>3, <1>9 DEF CanCharge
<1>14. PICK d : d = Uncharged(r, post) OBVIOUS
<1>15. d \in Books /\ Plain(d) /\ Worth(d) + run[r].amount = Worth(c)
  BY <1>2, <1>9, <1>10, <1>11, <1>12, <1>13, <1>14, WithdrawalPlain DEF Uncharged
<1>16. PICK x : x = run[r].amount OBVIOUS
<1>17. Even(d, x)
  <2> DEFINE none == 0
  <2>1. none \in Nat /\ x \in Nat BY <1>10, <1>16
  <2> HIDE DEF none
  <2>2. Worth(d) + x = Worth(c) + none
    <3>1. Worth(c) \in Nat BY <1>10, WorthIs
    <3> QED BY <1>15, <1>16, <3>1 DEF none
  <2>3. Even(c, none) BY <1>11 DEF none
  <2> QED BY <1>0, <1>10, <1>15, <2>1, <2>2, <2>3, EvenAs
<1>18. Plainly(d, x)' BY <1>0, <1>5, <1>15, <1>17, PlainlyNext DEF Plainly
<1>19. ini'[r].post = post BY <1>5 DEF IniTo
<1>20. d = Uncharged(r, post)' BY <1>5, <1>14 DEF Uncharged, Caller
<1>21. Numbers(k)'
  BY <1>3, <1>5, <1>8, <1>16, <1>18, <1>19, <1>20
  DEF Numbers, InstallNumbers, UninstallNumbers, WithdrawNumbers
<1>22. Sent'
  <2>1. \A s \in Runs \ {r} : ini'[s] = ini[s] BY <1>5 DEF IniTo
  <2>2. Sent BY <1>0 DEF Exacting
  <2> QED BY <1>0, <1>5, <2>1, <2>2, SentStays
<1> QED BY <1>6, <1>7, <1>21, <1>22, NumbersGo

LEMMA WithdrawalSignedExact ==
  ASSUME Before, NEW m \in net, ResponderSigns(m, "w1", "w2", "w3")
  PROVE  Exacting'
<1> DEFINE r == m.run
<1>0. TR /\ TR' /\ Lock /\ Agreeing /\ Exacting BY DEF Before
<1>1. PICK sigs : sigs = {Conditional(RefundAppAtResponder(r)), FreeBalance(RefundAppAtResponder(r))}
  OBVIOUS
<1>2. /\ m.n = "w1" /\ NetTo(m, "w2", Caller(r), sigs)
      /\ UNCHANGED <<store, run, ini, leases, slot, wallet, txs, mishaps>>
  BY <1>0, <1>1, ResponderSignsDoes
<1>3. r \in Runs /\ net = {m} /\ Numbers(m) BY <1>0, NumbersOf
<1>4. PICK k : k = Message(r, "w2", Caller(r), sigs) OBVIOUS
<1>5. k.run = r /\ k.n = "w2" /\ net' = {k} BY <1>2, <1>3, <1>4, MessageIs DEF NetTo
<1>6. PICK post : post = ini[r].post OBVIOUS
<1>7. PICK d : d = Uncharged(r, post) OBVIOUS
<1>8. run[r].call # "deposit" /\ Plainly(d, run[r].amount)
  BY <1>2, <1>3, <1>6, <1>7 DEF Numbers, WithdrawNumbers
<1>9. PICK x : x = run[r].amount OBVIOUS
<1>10. Plainly(d, x)' BY <1>0, <1>2, <1>8, <1>9, PlainlyNext
<1>11. ini'[r].post = post /\ d = Uncharged(r, post)' BY <1>2, <1>6, <1>7 DEF Uncharged, Caller
<1>12. Numbers(k)'
  BY <1>2, <1>5, <1>8, <1>9, <1>10, <1>11
  DEF Numbers, InstallNumbers, UninstallNumbers, WithdrawNumbers
<1> QED BY <1>0, <1>2, <1>5, <1>12, AnswerNumbers

LEMMA CallerChargesExact ==
  ASSUME Before, NEW m \in net, CallerCharges(m)
  PROVE  Exacting'
<1> DEFINE r == m.run
<1>0. TR /\ TR' /\ Lock /\ Agreeing /\ Exacting BY DEF Before
<1>1. PICK post : post = ini[r].post OBVIOUS
<1>a. PICK sigs : sigs = {FreeBalance(post), Withdrawal(r)} OBVIOUS
<1>2. /\ m.n = "w2" /\ ini[r].pc = "w2" /\ IniTo(r, "w4", post)
      /\ NetTo(m, "w3", Responder(r), sigs)
      /\ UNCHANGED <<store, run, rsp, leases, slot, wallet, txs, mishaps>>
  BY <1>0, <1>1, <1>a, CallerChargesDoes
<1>3. r \in Runs /\ net = {m} /\ Numbers(m) BY <1>0, NumbersOf
<1>4. PICK k : k = Message(r, "w3", Responder(r), sigs) OBVIOUS
<1>5. k.run = r /\ k.n = "w3" /\ net' = {k} BY <1>2, <1>3, <1>4, MessageIs DEF NetTo
<1>7. PICK d : d = Uncharged(r, post) OBVIOUS
<1>8. run[r].call # "deposit" /\ Plainly(d, run[r].amount)
  BY <1>1, <1>2, <1>3, <1>7 DEF Numbers, WithdrawNumbers
<1>9. PICK x : x = run[r].amount OBVIOUS
<1>10. Plainly(d, x)' BY <1>0, <1>2, <1>8, <1>9, PlainlyNext
<1>11. ini'[r].post = post /\ d = Uncharged(r, post)' BY <1>2, <1>7 DEF IniTo, Uncharged, Caller
<1>12. Numbers(k)'
  BY <1>2, <1>5, <1>8, <1>9, <1>10, <1>11
  DEF Numbers, InstallNumbers, UninstallNumbers, WithdrawNumbers
<1> QED BY <1>0, <1>2, <1>5, <1>12, AnswerNumbers DEF IniTo, IniWaits

LEMMA ResponderReleasesExact ==
  ASSUME Before, NEW m \in net, ResponderReleases(m)
  PROVE  Exacting'
<1> DEFINE r == m.run
<1>0. TR /\ TR' /\ Lock /\ Agreeing /\ Exacting BY DEF Before
<1>1. PICK sigs : sigs = {Withdrawal(r), FreeBalance(Uncharged(r, rsp[r].post))} OBVIOUS
<1>2. /\ m.n = "w3" /\ NetTo(m, "w4", Caller(r), sigs)
      /\ UNCHANGED <<store, run, ini, leases, wallet, txs, mishaps>>
  BY <1>0, <1>1, ResponderReleasesDoes
<1>3. r \in Runs /\ net = {m} /\ Numbers(m) BY <1>0, NumbersOf
<1>4. PICK k : k = Message(r, "w4", Caller(r), sigs) OBVIOUS
<1>5. k.run = r /\ k.n = "w4" /\ net' = {k} BY <1>2, <1>3, <1>4, MessageIs DEF NetTo
<1>6. PICK post : post = ini[r].post OBVIOUS
<1>7. PICK d : d = Uncharged(r, post) OBVIOUS
<1>8. run[r].call # "deposit" /\ Plainly(d, run[r].amount)
  BY <1>2, <1>3, <1>6, <1>7 DEF Numbers, WithdrawNumbers
<1>9. PICK x : x = run[r].amount OBVIOUS
<1>10. Plainly(d, x)' BY <1>0, <1>2, <1>8, <1>9, PlainlyNext
<1>11. ini'[r].post = post /\ d = Uncharged(r, post)' BY <1>2, <1>6, <1>7 DEF Uncharged, Caller
<1>12. Numbers(k)'
  BY <1>2, <1>5, <1>8, <1>9, <1>10, <1>11
  DEF Numbers, InstallNumbers, UninstallNumbers, WithdrawNumbers
<1> QED BY <1>0, <1>2, <1>5, <1>12, AnswerNumbers

LEMMA CallerSettlesExact ==
  ASSUME Before, NEW m \in net, CallerSettles(m)
  PROVE  Exacting'
<1> DEFINE r == m.run
<1>0. TR /\ TR' /\ Lock /\ Agreeing /\ Exacting BY DEF Before
<1>1. PICK post : post = Uncharged(r, ini[r].post) OBVIOUS
<1>2. /\ m.n = "w4" /\ ini[r].pc = "w4" /\ IniTo(r, "w6", post)
      /\ NetTo(m, "w5", Responder(r), {FreeBalance(post)})
      /\ UNCHANGED <<store, run, rsp, leases, slot, wallet, txs, mishaps>>
  BY <1>0, <1>1, CallerSettlesDoes
<1>3. r \in Runs /\ net = {m} /\ Numbers(m) BY <1>0, NumbersOf
<1>4. PICK k : k = Message(r, "w5", Responder(r), {FreeBalance(post)}) OBVIOUS
<1>5. k.run = r /\ k.n = "w5" /\ net' = {k} BY <1>2, <1>3, <1>4, MessageIs DEF NetTo
<1>8. run[r].call # "deposit" /\ Plainly(post, run[r].amount)
  BY <1>1, <1>2, <1>3 DEF Numbers, WithdrawNumbers
<1>9. PICK x : x = run[r].amount OBVIOUS
<1>10. Plainly(post, x)' BY <1>0, <1>2, <1>8, <1>9, PlainlyNext
<1>11. ini'[r].post = post BY <1>2 DEF IniTo
<1>12. Numbers(k)'
  BY <1>2, <1>5, <1>8, <1>9, <1>10, <1>11
  DEF Numbers, InstallNumbers, UninstallNumbers, WithdrawNumbers
<1> QED BY <1>0, <1>2, <1>5, <1>12, AnswerNumbers DEF IniTo, IniWaits

LEMMA ResponderSettlesExact ==
  ASSUME Before, NEW m \in net, ResponderSettles(m)
  PROVE  Exacting'
<1> DEFINE r == m.run
<1>0. TR /\ TR' /\ Lock /\ Agreeing /\ Exacting BY DEF Before
<1>2. /\ m.n = "w5" /\ NetTo(m, "w6", Caller(r), {})
      /\ UNCHANGED <<run, ini, leases, slot, wallet, txs, mishaps>>
  BY <1>0, ResponderSettlesDoes
<1>3. r \in Runs /\ net = {m} /\ Numbers(m) BY <1>0, NumbersOf
<1>4. PICK k : k = Message(r, "w6", Caller(r), {}) OBVIOUS
<1>5. k.run = r /\ k.n = "w6" /\ net' = {k} BY <1>2, <1>3, <1>4, MessageIs DEF NetTo
<1>6. PICK post : post = ini[r].post OBVIOUS
<1>8. run[r].call # "deposit" /\ Plainly(post, run[r].amount)
  BY <1>2, <1>3, <1>6 DEF Numbers, WithdrawNumbers
<1>9. PICK x : x = run[r].amount OBVIOUS
<1>10. Plainly(post, x)' BY <1>0, <1>2, <1>8, <1>9, PlainlyNext
<1>11. ini'[r].post = post BY <1>2, <1>6
<1>12. Numbers(k)'
  BY <1>2, <1>5, <1>8, <1>9, <1>10, <1>11
  DEF Numbers, InstallNumbers, UninstallNumbers, WithdrawNumbers
<1> QED BY <1>0, <1>2, <1>5, <1>12, AnswerNumbers

LEMMA CallerStoresExact ==
  ASSUME Before, NEW m \in net, CallerStoresWithdrawal(m)
  PROVE  Exacting'
<1> DEFINE r == m.run
<1>0. TR /\ TR' /\ Lock /\ Agreeing /\ Exacting BY DEF Before
<1>1. PICK post : post = ini[r].post OBVIOUS
<1>2. /\ m.n = "w6" /\ ini[r].pc = "w6" /\ IniTo(r, "save", post) /\ net' = net \ {m}
      /\ slot' = [slot EXCEPT ![Caller(r)] = r]
      /\ UNCHANGED <<store, run, rsp, leases, wallet, txs, mishaps>>
  BY <1>0, <1>1, CallerStoresDoes
<1>3. r \in Runs /\ leases = {r} /\ net = {m} /\ Numbers(m) /\ Sent BY <1>0, NumbersOf
<1>8. run[r].call # "deposit" /\ Plainly(post, run[r].amount)
  BY <1>1, <1>2, <1>3 DEF Numbers, WithdrawNumbers
<1>9. PICK x : x = run[r].amount OBVIOUS
<1>10. Plainly(post, x)' BY <1>0, <1>2, <1>8, <1>9, PlainlyNext
<1>11. ini'[r].post = post /\ ini'[r].pc = "save" BY <1>2 DEF IniTo
<1>12. slot'[Caller(r)] = r /\ Caller(r)' = Caller(r)
  BY <1>0, <1>2, <1>3, RunFields DEF TR, Types, Caller
<1>13. Sole(r)' BY <1>2, <1>8, <1>9, <1>10, <1>11, <1>12 DEF Sole
<1>14. Sent' BY <1>0, <1>2, <1>3, SentStays DEF IniTo
<1> QED BY <1>2, <1>3, <1>13, <1>14, SoleGoes

LEMMA CallerSavesExact ==
  ASSUME Before, NEW r \in Runs, CallerSaves(r)
  PROVE  Exacting'
<1>0. TR /\ TR' /\ Lock /\ Agreeing /\ Exacting BY DEF Before
<1>1. PICK post : post = ini[r].post OBVIOUS
<1>2. /\ ini[r].pc = "save" /\ IniTo(r, "submit", Opening) /\ StoreTo(Caller(r), post)
      /\ UNCHANGED <<run, rsp, net, leases, slot, wallet, txs, mishaps>>
  BY <1>0, <1>1, CallerSavesDoes
<1>3. leases = {r} /\ net = {} /\ Sole(r) /\ Sent BY <1>0, <1>2, SoleOf
<1>4. run[r].call # "deposit" /\ slot[Caller(r)] = r /\ Plainly(post, run[r].amount)
  BY <1>1, <1>2, <1>3 DEF Sole
<1>5. PICK x : x = run[r].amount OBVIOUS
<1>6. Plainly(post, x)' BY <1>0, <1>2, <1>4, <1>5, PlainlyNext
<1>7. Caller(r)' = Caller(r) /\ CallerHas(r)' = post
  BY <1>0, <1>2, NextHas DEF TR, StoreTo
<1>8. ini'[r].pc = "submit" BY <1>2 DEF IniTo
<1>9. Sole(r)' BY <1>2, <1>4, <1>5, <1>6, <1>7, <1>8 DEF Sole
<1>10. Sent' BY <1>0, <1>2, <1>3, SentStays DEF IniTo
<1> QED BY <1>2, <1>3, <1>9, <1>10, SoleGoes

LEMMA WithdrawalReturnsExact ==
  ASSUME Before, NEW r \in Runs, WithdrawalReturns(r)
  PROVE  Exacting'
<1>0. TR /\ TR' /\ Lock /\ Agreeing /\ Exacting BY DEF Before
<1>1. PICK w : w = slot[Caller(r)] OBVIOUS
<1>2. PICK t : t = Transaction(w, "withdrawal", 0, run[w].amount) OBVIOUS
<1>3. /\ ini[r].pc = "submit" /\ IniTo(r, "returned", Opening) /\ leases' = leases \ {r}
      /\ txs' = txs \cup {t}
      /\ UNCHANGED <<store, run, rsp, net, slot, wallet, mishaps>>
  BY <1>0, <1>1, <1>2, WithdrawalReturnsDoes
<1>4. leases = {r} /\ net = {} /\ Silent(r) /\ Sole(r) /\ Sent BY <1>0, <1>3, SoleOf
<1>5. PICK c : c = CallerHas(r) OBVIOUS
<1>6. PICK x : x = run[r].amount OBVIOUS
<1>7. w = r /\ Plainly(c, x) BY <1>1, <1>3, <1>4, <1>5, <1>6 DEF Sole
<1>8. t.run = r /\ t.kind = "withdrawal" /\ t.amount = x
  BY <1>2, <1>6, <1>7 DEF Transaction
<1>9. t \in Tx /\ t \notin txs
  <2>1. t \in txs' /\ txs' \in SUBSET Tx BY <1>0, <1>3 DEF TR, Types
  <2>2. t \notin txs BY <1>3, <1>4, <1>8 DEF Sent
  <2> QED BY <2>1, <2>2
<1>10. Owed' = Owed + x /\ Owed \in Nat /\ Owed' \in Nat
  <2>1. txs \in SUBSET Tx /\ IsFiniteSet(txs) BY <1>0 DEF TR, Types
  <2>2. Due(txs \cup {t}) = Due(txs) + x BY <1>8, <1>9, <2>1, DueAdded
  <2> QED BY <1>0, <1>3, <2>2, OwedIs, OwedAfter DEF TR
<1>11. c \in Books /\ x \in Nat BY <1>0, <1>5, <1>6, RunFields DEF TR, CallerHas
<1>12. PICK none : none = 0 OBVIOUS
<1>13. Even(c, none)'
  <2>1. wallet.reverted \in Nat /\ wallet.balance \in Nat BY <1>0, WalletFields DEF TR
  <2>2. Worth(c) + x + Owed + wallet.reverted = wallet.balance BY <1>7 DEF Plainly, Even, EvenAt
  <2>3. Worth(c) \in Nat BY <1>11, WorthIs
  <2>4. Worth(c) + none + Owed' + wallet.reverted = wallet.balance
    BY <1>10, <1>11, <1>12, <2>1, <2>2, <2>3
  <2> QED BY <1>3, <2>4 DEF Even, EvenAt
<1>14. Plainly(c, none)' BY <1>7, <1>13 DEF Plainly
<1>15. \A p \in Parties : store'[p] = c
  BY <1>0, <1>3, <1>4, <1>5, RunFields DEF TR, Silent, CallerHas, ResponderHas
<1>16. \A p \in Parties : Plainly(store[p], 0)' BY <1>12, <1>14, <1>15
<1>17. Sent'
  <2> SUFFICES ASSUME NEW u \in txs'
               PROVE  /\ u.kind = "deposit" => /\ ini'[u.run].pc = "mine"
                                               /\ u = DepositTransaction(u.run)'
                      /\ u.kind = "withdrawal" => ini'[u.run].pc = "returned"
    BY DEF Sent
  <2>1. CASE u = t BY <1>3, <1>8, <2>1 DEF IniTo
  <2>2. CASE u # t
    <3>1. u \in txs /\ u.run \in Runs /\ u.kind \in {"deposit", "withdrawal"}
      BY <1>0, <1>3, <2>2 DEF TR, Types, Tx
    <3>2. u.run # r BY <1>3, <1>4, <3>1 DEF Sent
    <3>3. ini'[u.run] = ini[u.run] BY <1>3, <3>1, <3>2 DEF IniTo
    <3>4. DepositTransaction(u.run)' = DepositTransaction(u.run)
      BY <1>3, <3>3 DEF DepositTransaction
    <3> QED BY <1>4, <3>1, <3>3, <3>4 DEF Sent
  <2> QED BY <2>1, <2>2
<1> QED BY <1>3, <1>4, <1>16, <1>17, EndNumbers

-----------------------------------------------------------------------------
(* Steps that leave the halves of the holder as they are.                   *)

EvenStays == \A c \in Books, x \in Nat : Even(c, x) => Even(c, x)'

LEMMA EvenAlways ==
  ASSUME TR, TR', UNCHANGED <<wallet, txs>>
  PROVE  EvenStays
BY EvenNext DEF EvenStays

LEMMA EvenOn ==
  ASSUME TR, TR',
         Owed' + wallet'.reverted + wallet.balance = Owed + wallet.reverted + wallet'.balance
  PROVE  EvenStays
<1> SUFFICES ASSUME NEW c \in Books, NEW x \in Nat, Even(c, x) PROVE Even(c, x)'
  BY DEF EvenStays
<1>1. /\ Owed \in Nat /\ Owed' \in Nat /\ wallet.reverted \in Nat /\ wallet.balance \in Nat
      /\ wallet'.reverted \in Nat /\ wallet'.balance \in Nat
  BY OwedIs, OwedAfter, WalletFields DEF TR, Types, Wallet
<1>2. PICK o \in Nat : o = Owed BY <1>1
<1>3. PICK o2 \in Nat : o2 = Owed' BY <1>1
<1>4. PICK v \in Nat : v = wallet.reverted BY <1>1
<1>5. PICK v2 \in Nat : v2 = wallet'.reverted BY <1>1
<1>6. PICK b \in Nat : b = wallet.balance BY <1>1
<1>7. PICK b2 \in Nat : b2 = wallet'.balance BY <1>1
<1>8. EvenAt(c, x, o, v, b) BY <1>2, <1>4, <1>6 DEF Even
<1>9. x + o2 + v2 + b = x + o + v + b2
  <2>1. o2 + v2 + b = o + v + b2 BY <1>2, <1>3, <1>4, <1>5, <1>6, <1>7
  <2> QED BY ONLY <2>1, x \in Nat, o \in Nat, o2 \in Nat, v \in Nat, v2 \in Nat, b \in Nat, b2 \in Nat
<1>10. EvenAt(c, x, o2, v2, b2) BY <1>8, <1>9, EvenMoves
<1> QED BY <1>3, <1>5, <1>7, <1>10 DEF Even

LEMMA NumbersOn ==
  ASSUME TR, NEW m, m.run \in Runs, Numbers(m), EvenStays, UNCHANGED store,
         run'[m.run] = run[m.run], ini'[m.run] = ini[m.run],
         wallet'.balance = wallet.balance \/ run[m.run].call # "deposit"
  PROVE  Numbers(m)'
<1> DEFINE r == m.run
<1>1. PICK c : c = CallerHas(r) OBVIOUS
<1>2. PICK post : post = ini[r].post OBVIOUS
<1>3. PICK d : d = Uncharged(r, post) OBVIOUS
<1>4. PICK x : x = run[r].amount OBVIOUS
<1>5. PICK none : none = 0 OBVIOUS
<1>6. PICK e : e = ResponderHas(r) OBVIOUS
<1>7. c \in Books /\ post \in Books /\ d \in Books /\ x \in Nat /\ none \in Nat
  BY <1>1, <1>2, <1>3, <1>4, <1>5, RunFields, UnchargedBooks DEF TR, CallerHas
<1>8. /\ Even(c, none) => Even(c, none)'
      /\ Even(post, none) => Even(post, none)'
      /\ Even(post, x) => Even(post, x)'
      /\ Even(d, x) => Even(d, x)'
  BY <1>7 DEF EvenStays
<1>9. /\ Caller(r)' = Caller(r) /\ CallerHas(r)' = c /\ ResponderHas(r)' = e
      /\ ini'[r].post = post /\ d = Uncharged(r, post)'
  BY <1>1, <1>2, <1>3, <1>6 DEF Caller, Responder, CallerHas, ResponderHas, Uncharged
<1>10. InstallNumbers(m, r, post)'
  BY <1>1, <1>2, <1>5, <1>8, <1>9 DEF Numbers, InstallNumbers
<1>11. WithdrawNumbers(m, r, post)'
  BY <1>2, <1>3, <1>4, <1>8, <1>9 DEF Numbers, WithdrawNumbers, Plainly
<1>12. UninstallNumbers(m, r, post)'
  <2>1. CASE m.n \notin {"u1", "u2"} BY <2>1 DEF UninstallNumbers
  <2>2. CASE m.n \in {"u1", "u2"}
    <3>1. run[r].call = "deposit" /\ Plainly(post, none)
      BY <1>2, <1>5, <2>2 DEF Numbers, UninstallNumbers
    <3>2. wallet'.balance = wallet.balance BY <3>1
    <3>3. CanUninstall(e) => CanUninstall(e)' BY <3>2 DEF CanUninstall, HasOutcome
    <3>4. UninstalledAtResponder(r)' = UninstalledAtResponder(r)
      BY <1>6, <1>9, <3>2 DEF UninstalledAtResponder, ResponderHas, Outcome
    <3>5. m.n = "u1" => CanUninstall(ResponderHas(r))' /\ post = UninstalledAtResponder(r)'
      BY <1>2, <1>6, <1>9, <3>3, <3>4 DEF Numbers, UninstallNumbers, CanUninstall, HasOutcome
    <3>6. Plainly(post, none)' BY <1>8, <3>1 DEF Plainly
    <3> QED BY <1>5, <3>1, <3>5, <3>6 DEF UninstallNumbers
  <2> QED BY <2>1, <2>2
<1> QED BY <1>9, <1>10, <1>11, <1>12 DEF Numbers

LEMMA SoleOn ==
  ASSUME TR, NEW r \in Runs, Sole(r), EvenStays, UNCHANGED store,
         run'[r] = run[r], ini'[r] = ini[r], slot' = slot,
         DepositTransaction(r) \in txs' <=> DepositTransaction(r) \in txs,
         wallet'.balance = wallet.balance \/ run[r].call # "deposit"
  PROVE  Sole(r)'
<1>1. PICK c : c = CallerHas(r) OBVIOUS
<1>2. PICK post : post = ini[r].post OBVIOUS
<1>4. PICK x : x = run[r].amount OBVIOUS
<1>5. PICK none : none = 0 OBVIOUS
<1>7. c \in Books /\ post \in Books /\ x \in Nat /\ none \in Nat
  BY <1>1, <1>2, <1>4, <1>5, RunFields DEF TR, CallerHas
<1>8. /\ Even(c, none) => Even(c, none)'
      /\ Even(c, x) => Even(c, x)'
      /\ Even(post, x) => Even(post, x)'
  BY <1>7 DEF EvenStays
<1>9. /\ Caller(r)' = Caller(r) /\ CallerHas(r)' = c /\ ini'[r].post = post
  BY <1>1, <1>2 DEF Caller, CallerHas
<1>10. DepositTransaction(r)' = DepositTransaction(r) BY DEF DepositTransaction
<1>11. ini'[r].pc # "u2" BY DEF Sole
<1>12. /\ ini'[r].pc = "save" => Plainly(ini[r].post, run[r].amount)'
       /\ ini'[r].pc = "submit" => Plainly(CallerHas(r), run[r].amount)'
       /\ ini'[r].pc \in {"save", "submit"} => run'[r].call # "deposit" /\ slot'[Caller(r)'] = r
  BY <1>1, <1>2, <1>4, <1>8, <1>9 DEF Sole, Plainly
<1>13. ini'[r].pc \in {"send", "mine"} =>
         run'[r].call = "deposit" /\ Refunding(CallerHas(r), Caller(r), run[r].threshold)'
  BY <1>1, <1>9 DEF Sole
<1>14. ini'[r].pc = "send" \/ (ini'[r].pc = "mine" /\ DepositTransaction(r)' \in txs') =>
         run'[r].threshold = wallet'.balance /\ Even(CallerHas(r), 0)'
  BY <1>1, <1>5, <1>8, <1>9, <1>10 DEF Sole
<1>15. ini'[r].pc = "mine" /\ DepositTransaction(r)' \notin txs' =>
         /\ run'[r].threshold + run'[r].amount = wallet'.balance
         /\ Even(CallerHas(r), run[r].amount)'
  BY <1>1, <1>4, <1>8, <1>9, <1>10 DEF Sole
<1> QED BY <1>11, <1>12, <1>13, <1>14, <1>15 DEF Sole

\* A step that changes nothing the holder of the lock looks at.
LEMMA ExactOn ==
  ASSUME Before, EvenStays, Sent', UNCHANGED <<store, net, leases, slot>>,
         \A r \in leases : /\ run'[r] = run[r] /\ ini'[r] = ini[r]
                           /\ wallet'.balance = wallet.balance \/ run[r].call # "deposit"
                           /\ DepositTransaction(r) \in txs' <=> DepositTransaction(r) \in txs
  PROVE  Exacting'
<1>0. TR /\ TR' /\ Lock /\ Agreeing /\ Exacting BY DEF Before
<1>1. leases' = {} => \A p \in Parties : Plainly(store[p], 0)'
  <2> SUFFICES ASSUME leases = {}, NEW p \in Parties PROVE Plainly(store[p], 0)' OBVIOUS
  <2>1. PICK c : c = store[p] OBVIOUS
  <2>2. PICK none : none = 0 OBVIOUS
  <2>3. Plainly(c, none) BY <1>0, <2>1, <2>2 DEF Exacting
  <2>4. c \in Books /\ none \in Nat BY <1>0, <2>1, <2>2 DEF TR, Types
  <2>5. Plainly(c, none)' BY <2>3, <2>4 DEF Plainly, EvenStays
  <2> QED BY <2>1, <2>2, <2>5
<1>2. ASSUME NEW m \in net' PROVE Numbers(m)'
  <2>1. m \in net BY <1>2
  <2>2. m.run \in leases /\ m.run \in Runs /\ Numbers(m) BY <1>0, <2>1, NumbersOf
  <2> QED BY <1>0, <2>2, NumbersOn
<1>3. ASSUME net' = {}, NEW r \in leases' PROVE Sole(r)'
  <2>1. r \in leases /\ r \in Runs /\ Sole(r) BY <1>0, <1>3 DEF Exacting, TR, Types
  <2> QED BY <1>0, <2>1, SoleOn
<1> QED BY <1>1, <1>2, <1>3 DEF Exacting

\* Nothing but the responder's half changes, if that.
LEMMA QuietExact ==
  ASSUME Before, UNCHANGED <<store, run, ini, net, leases, slot, wallet, txs>>
  PROVE  Exacting'
<1>0. TR /\ TR' /\ Exacting BY DEF Before
<1>1. EvenStays BY <1>0, EvenAlways
<1>2. Sent'
  <2>1. \A t \in txs : DepositTransaction(t.run)' = DepositTransaction(t.run)
    BY DEF DepositTransaction
  <2> QED BY <1>0, <2>1 DEF Exacting, Sent
<1> QED BY <1>1, <1>2, ExactOn

LEMMA CallExact ==
  ASSUME Before, NEW r \in Runs, NEW p \in Parties, NEW call \in Calls, NEW amount \in Amounts,
         Call(r, p, call, amount)
  PROVE  Exacting'
<1>0. TR /\ TR' /\ Lock /\ Exacting BY DEF Before
<1>1. /\ ini[r].pc = "idle" /\ IniTo(r, "queued", Opening)
      /\ run'[r].call = call /\ \A s \in Runs \ {r} : run'[s] = run[s]
      /\ UNCHANGED <<store, rsp, net, leases, slot, wallet, txs, mishaps>>
  BY <1>0, CallDoes
<1>2. EvenStays BY <1>0, <1>1, EvenAlways
<1>3. Sent' BY <1>0, <1>1, SentStays DEF IniTo, Exacting
<1>4. r \notin leases BY <1>0, <1>1 DEF Lock
<1>5. \A s \in leases : s \in Runs \ {r} BY <1>0, <1>4 DEF TR, Types
<1> QED BY <1>1, <1>2, <1>3, <1>5, ExactOn DEF IniTo

-----------------------------------------------------------------------------
(* Other apps.                                                              *)

LEMMA BothHaveExact ==
  ASSUME Before, NEW p \in Parties, NEW d \in Books, BothHave(d), Plain(store[p]) => Plain(d),
         Worth(d) = Worth(store[p])
  PROVE  Exacting'
<1>0. TR /\ TR' /\ Lock /\ Exacting BY DEF Before
<1>1. /\ leases = {} /\ leases' = {} /\ net' = net /\ store' = [q \in Parties |-> d]
      /\ UNCHANGED <<run, ini, wallet, txs>>
  BY DEF BothHave, chain
<1>2. net' = {} BY <1>0, <1>1 DEF Lock
<1>3. PICK c : c = store[p] OBVIOUS
<1>4. PICK none : none = 0 OBVIOUS
<1>5. Plain(c) /\ Even(c, none) BY <1>0, <1>1, <1>3, <1>4 DEF Exacting, Plainly
<1>6. c \in Books /\ none \in Nat BY <1>0, <1>3, <1>4 DEF TR, Types
<1>7. Even(d, none)
  <2>1. Worth(d) + none = Worth(c) + none BY <1>3
  <2> QED BY <1>0, <1>5, <1>6, <2>1, EvenAs
<1>8. Plainly(d, none)' BY <1>0, <1>1, <1>3, <1>5, <1>7, PlainlyNext DEF Plainly
<1>9. \A q \in Parties : Plainly(store[q], 0)' BY <1>1, <1>4, <1>8
<1>10. Sent'
  <2>1. \A t \in txs : DepositTransaction(t.run)' = DepositTransaction(t.run)
    BY <1>1 DEF DepositTransaction
  <2> QED BY <1>0, <1>1, <2>1 DEF Exacting, Sent
<1> QED BY <1>1, <1>2, <1>9, <1>10, EndNumbers

LEMMA FreeBooks ==
  ASSUME Before, leases = {}, NEW p \in Parties
  PROVE  store[p] \in Books /\ Plain(store[p])
BY DEF Before, TR, Types, Exacting, Plainly

LEMMA ProposeAppExact ==
  ASSUME Before, NEW p \in Parties, NEW pot \in Nat, ProposeApp(p, pot)
  PROVE  Exacting'
<1>1. PICK c : c = store[p] OBVIOUS
<1>2. PICK d : d = Proposed(c, p, pot) OBVIOUS
<1>3. BothHave(d) BY <1>1, <1>2 DEF ProposeApp, Proposed
<1>4. c \in Books /\ Plain(c) BY <1>1, <1>3, FreeBooks DEF BothHave
<1>5. d \in Books /\ Plain(d) /\ Worth(d) = Worth(c) BY <1>2, <1>4, ProposedPlain
<1> QED BY <1>1, <1>3, <1>5, BothHaveExact

LEMMA InstallAppExact ==
  ASSUME Before, NEW q \in store[Alice].props, InstallApp(q)
  PROVE  Exacting'
<1>1. PICK p : p = q.by OBVIOUS
<1>2. PICK c : c = store[p] OBVIOUS
<1>3. PICK d : d = InstallAs(c, AppOf(q)) OBVIOUS
<1>4. BothHave(d) /\ CanCharge(c, p, q.pot) BY <1>1, <1>2, <1>3 DEF InstallApp, AppOf
<1>5. leases = {} /\ store[Alice] = store[Bob] BY <1>4 DEF BothHave
<1>6. store[Alice] \in Books BY <1>5, Couple, FreeBooks
<1>7. q \in Proposal BY <1>6, BooksFields
<1>8. p \in Parties BY <1>1, <1>7, AppOfIs
<1>9. c = store[Alice] BY <1>2, <1>5, <1>8 DEF Parties
<1>10. c \in Books /\ Plain(c) BY <1>2, <1>5, <1>8, FreeBooks
<1>11. q \in c.props /\ q.pot <= c.bal[q.by] BY <1>1, <1>4, <1>9 DEF CanCharge
<1>12. d \in Books /\ Plain(d) /\ Worth(d) = Worth(c) BY <1>3, <1>10, <1>11, InstalledPlain
<1> QED BY <1>2, <1>4, <1>8, <1>12, BothHaveExact

LEMMA UninstallAppExact ==
  ASSUME Before, NEW p \in Parties, NEW a \in store[Alice].apps, UninstallApp(a, p)
  PROVE  Exacting'
<1>1. PICK c : c = store[p] OBVIOUS
<1>2. PICK d : d = Uninstall(c, a.id, p, a.pot) OBVIOUS
<1>3. BothHave(d) BY <1>1, <1>2 DEF UninstallApp
<1>4. leases = {} /\ store[Alice] = store[Bob] BY <1>3 DEF BothHave
<1>5. c \in Books /\ Plain(c) BY <1>1, <1>4, FreeBooks
<1>6. a \in c.apps BY <1>1, <1>4 DEF Parties
<1>7. d \in Books /\ Plain(d) /\ Worth(d) = Worth(c) BY <1>2, <1>5, <1>6, UninstalledPlain
<1> QED BY <1>1, <1>3, <1>7, BothHaveExact

LEMMA AskExact ==
  ASSUME Before, Ask
  PROVE  Exacting'
<1>1. Amounts \in SUBSET Nat BY FundingConstants
<1>2. CASE \E r \in Runs, p \in Parties, call \in Calls, amount \in Amounts :
             Call(r, p, call, amount)
  BY <1>2, CallExact
<1>3. CASE \E p \in Parties, pot \in Amounts : ProposeApp(p, pot)
  BY <1>1, <1>3, ProposeAppExact
<1>4. CASE \E p \in Parties, q \in store[Alice].props : InstallApp(q)
  BY <1>4, InstallAppExact
<1>5. CASE \E p \in Parties, a \in store[Alice].apps : UninstallApp(a, p)
  BY <1>5, UninstallAppExact
<1> QED BY <1>2, <1>3, <1>4, <1>5 DEF Ask

-----------------------------------------------------------------------------
(* The chain.                                                               *)

LEMMA MineIs ==
  ASSUME TR, TR', NEW t \in txs, Mine(t)
  PROVE  /\ UNCHANGED <<store, run, ini, rsp, net, leases, slot>>
         /\ txs' = txs \ {t} /\ t \in Tx /\ t.run \in Runs /\ t.amount \in Nat
         /\ t.kind = "deposit" => Owed' = Owed
         /\ t.kind = "withdrawal" => Owed' + t.amount = Owed
         /\ Owed \in Nat /\ Owed' \in Nat
<1>1. UNCHANGED <<store, run, ini, rsp, net, leases, slot>> BY DEF Mine
<1>2. txs \in SUBSET Tx /\ IsFiniteSet(txs) BY DEF TR, Types
<1>3. t \in Tx /\ t.amount \in Nat /\ t.run \in Runs BY <1>2 DEF Tx
<1>4. txs' = txs \ {t} BY DEF Mine, MineDeposit, MineWithdrawal, RevertWithdrawal
<1>5. Owed = Due(txs) /\ Owed' = Due(txs \ {t}) /\ Owed \in Nat /\ Owed' \in Nat
  BY <1>4, OwedIs, OwedAfter DEF TR
<1>6. /\ t.kind = "deposit" => Owed' = Owed
      /\ t.kind = "withdrawal" => Owed' + t.amount = Owed
  BY <1>2, <1>5, DueTaken
<1> QED BY <1>1, <1>3, <1>4, <1>5, <1>6

LEMMA SentMined ==
  ASSUME Sent, UNCHANGED <<run, ini>>, txs' \subseteq txs
  PROVE  Sent'
<1>1. \A t \in txs : DepositTransaction(t.run)' = DepositTransaction(t.run)
  BY DEF DepositTransaction
<1> QED BY <1>1 DEF Sent

\* A withdrawal leaves no transaction of a deposit.
LEMMA OtherTransaction ==
  ASSUME NEW t, t.kind = "withdrawal", NEW r
  PROVE  DepositTransaction(r) # t
<1>1. DepositTransaction(r).kind = "deposit" BY DEF DepositTransaction, Transaction
<1> QED BY <1>1

LEMMA MineWithdrawalExact ==
  ASSUME Before, NEW t \in txs, Mine(t), MineWithdrawal(t), mishaps' = {}
  PROVE  Exacting'
<1>0. TR /\ TR' /\ Lock /\ Agreeing /\ Exacting BY DEF Before
<1>1. /\ UNCHANGED <<store, run, ini, rsp, net, leases, slot>>
      /\ txs' = txs \ {t} /\ t.amount \in Nat
      /\ t.kind = "withdrawal" => Owed' + t.amount = Owed
      /\ Owed \in Nat /\ Owed' \in Nat
  BY <1>0, MineIs
<1>2. t.kind = "withdrawal" /\ t.amount <= wallet.balance
      /\ \A r \in Runs : ~Depositing(r)
  BY DEF MineWithdrawal
<1>3. /\ wallet'.balance = wallet.balance - t.amount /\ wallet'.reverted = wallet.reverted
      /\ wallet.balance \in Nat /\ wallet.reverted \in Nat
  <2>1. wallet = [balance |-> wallet.balance, executed |-> wallet.executed,
                  reverted |-> wallet.reverted]
    BY <1>0, WalletFields DEF TR
  <2> QED BY <1>0, <2>1, WalletFields DEF MineWithdrawal, TR
<1>4. EvenStays
  <2>1. PICK o : o = Owed OBVIOUS
  <2>2. PICK o2 : o2 = Owed' OBVIOUS
  <2>3. Owed' + wallet'.reverted + wallet.balance = Owed + wallet.reverted + wallet'.balance
    BY <1>1, <1>2, <1>3, <2>1, <2>2
  <2> QED BY <1>0, <2>3, EvenOn
<1>5. Sent' BY <1>0, <1>1, SentMined DEF Exacting
<1>6. ASSUME NEW r \in leases PROVE run[r].call # "deposit"
  <2>1. r \in Runs BY <1>0, <1>6 DEF TR, Types
  <2>2. IniGoing(r)
    <3>1. CASE net = {} BY <1>0, <3>1 DEF Agreeing, Silent, IniGoing, IniWaits
    <3>2. CASE net # {}
      <4>1. PICK m : m \in net BY <3>2
      <4>2. leases = {m.run} /\ Talk(m) BY <1>0, <4>1, TalkOf
      <4>3. m.run = r BY <4>2
      <4>4. ini[r].pc \in IniWaits
        BY <4>2, <4>3
        DEF Talk, Names, InstallTalk, UninstallTalk, WithdrawTalk, IniWaits
      <4> QED BY <4>4 DEF IniGoing
    <3> QED BY <3>1, <3>2
  <2> QED BY <1>2, <2>1, <2>2 DEF Depositing
<1>7. \A r \in leases : DepositTransaction(r) \in txs' <=> DepositTransaction(r) \in txs
  BY <1>1, <1>2, OtherTransaction
<1> QED BY <1>1, <1>4, <1>5, <1>6, <1>7, ExactOn

LEMMA RevertWithdrawalExact ==
  ASSUME Before, NEW t \in txs, Mine(t), RevertWithdrawal(t)
  PROVE  Exacting'
<1>0. TR /\ TR' /\ Lock /\ Agreeing /\ Exacting BY DEF Before
<1>1. /\ UNCHANGED <<store, run, ini, rsp, net, leases, slot>>
      /\ txs' = txs \ {t} /\ t.amount \in Nat
      /\ t.kind = "withdrawal" => Owed' + t.amount = Owed
      /\ Owed \in Nat /\ Owed' \in Nat
  BY <1>0, MineIs
<1>2. t.kind = "withdrawal" BY DEF RevertWithdrawal
<1>3. /\ wallet'.balance = wallet.balance /\ wallet'.reverted = wallet.reverted + t.amount
      /\ wallet.balance \in Nat /\ wallet.reverted \in Nat
  <2>1. wallet = [balance |-> wallet.balance, executed |-> wallet.executed,
                  reverted |-> wallet.reverted]
    BY <1>0, WalletFields DEF TR
  <2> QED BY <1>0, <2>1, WalletFields DEF RevertWithdrawal, TR
<1>4. EvenStays
  <2>1. PICK o : o = Owed OBVIOUS
  <2>2. PICK o2 : o2 = Owed' OBVIOUS
  <2>3. Owed' + wallet'.reverted + wallet.balance = Owed + wallet.reverted + wallet'.balance
    BY <1>1, <1>2, <1>3, <2>1, <2>2
  <2> QED BY <1>0, <2>3, EvenOn
<1>5. Sent' BY <1>0, <1>1, SentMined DEF Exacting
<1>7. \A r \in leases : DepositTransaction(r) \in txs' <=> DepositTransaction(r) \in txs
  BY <1>1, <1>2, OtherTransaction
<1> QED BY <1>1, <1>3, <1>4, <1>5, <1>7, ExactOn

LEMMA MineDepositExact ==
  ASSUME Before, NEW t \in txs, Mine(t), MineDeposit(t)
  PROVE  Exacting'
<1>0. TR /\ TR' /\ Lock /\ Agreeing /\ Exacting BY DEF Before
<1> DEFINE r == t.run
<1>1. /\ UNCHANGED <<store, run, ini, rsp, net, leases, slot>>
      /\ txs' = txs \ {t} /\ t.amount \in Nat /\ r \in Runs
      /\ t.kind = "deposit" => Owed' = Owed
      /\ Owed \in Nat /\ Owed' \in Nat
  BY <1>0, MineIs
<1>2. t.kind = "deposit" BY DEF MineDeposit
<1>3. ini[r].pc = "mine" /\ t = DepositTransaction(r) BY <1>0, <1>2 DEF Exacting, Sent
<1>4. leases = {r} /\ net = {} /\ Sole(r) /\ Sent BY <1>0, <1>1, <1>3, SoleOf
<1>5. PICK c : c = CallerHas(r) OBVIOUS
<1>6. PICK x : x = run[r].amount OBVIOUS
<1>7. PICK none : none = 0 OBVIOUS
<1>8. t.amount = x BY <1>3, <1>6 DEF DepositTransaction, Transaction
<1>9. /\ run[r].call = "deposit" /\ Refunding(c, Caller(r), run[r].threshold)
      /\ run[r].threshold = wallet.balance /\ Even(c, none)
  BY <1>3, <1>4, <1>5, <1>7 DEF Sole
<1>10. /\ wallet'.balance = wallet.balance + x /\ wallet'.reverted = wallet.reverted
       /\ wallet.balance \in Nat /\ wallet.reverted \in Nat
  <2>1. wallet = [balance |-> wallet.balance, executed |-> wallet.executed,
                  reverted |-> wallet.reverted]
    BY <1>0, WalletFields DEF TR
  <2> QED BY <1>0, <1>8, <2>1, WalletFields DEF MineDeposit, TR
<1>11. c \in Books /\ x \in Nat BY <1>0, <1>1, <1>5, <1>8, RunFields DEF TR, CallerHas
<1>12. Even(c, x)'
  <2>1. Worth(c) + none + Owed + wallet.reverted = wallet.balance BY <1>9 DEF Even, EvenAt
  <2>2. Worth(c) \in Nat BY <1>11, WorthIs
  <2>3. Worth(c) + x + Owed' + wallet'.reverted = wallet'.balance
    BY <1>1, <1>2, <1>7, <1>10, <1>11, <2>1, <2>2
  <2> QED BY <2>3 DEF Even, EvenAt
<1>13. Caller(r)' = Caller(r) /\ CallerHas(r)' = c BY <1>1, <1>5 DEF Caller, CallerHas
<1>14. t = DepositTransaction(r)' /\ t \notin txs' BY <1>1, <1>3 DEF DepositTransaction
<1>15. ini'[r].pc = "mine" BY <1>1, <1>3
<1>16. Sole(r)' BY <1>1, <1>6, <1>9, <1>10, <1>12, <1>13, <1>14, <1>15 DEF Sole
<1>17. Sent' BY <1>1, <1>4, SentMined
<1> QED BY <1>1, <1>4, <1>16, <1>17, SoleGoes

LEMMA MineExact ==
  ASSUME Before, NEW t \in txs, Mine(t), mishaps' = {}
  PROVE  Exacting'
BY MineDepositExact, MineWithdrawalExact, RevertWithdrawalExact DEF Mine

-----------------------------------------------------------------------------
(* What does not happen while nothing goes wrong, and what is never undone. *)

LEMMA RefuseNot ==
  ASSUME Before, NEW m \in net, Refuse(m)
  PROVE  FALSE
<1>1. Talk(m) /\ Numbers(m) BY NumbersOf DEF Before
<1>2. m.n = "u1" /\ ~CanCountersign(m) BY <1>1, RefusedIs DEF Refuse, Refused
<1>3. m.sigs = {FreeBalance(ini[m.run].post)} BY <1>1, <1>2 DEF Talk, UninstallTalk
<1>4. /\ CanUninstall(ResponderHas(m.run))
      /\ ini[m.run].post = UninstalledAtResponder(m.run)
  BY <1>1, <1>2 DEF Numbers, UninstallNumbers
<1> QED BY <1>2, <1>3, <1>4 DEF CanCountersign, ResponderHas

LEMMA StaysThrown ==
  ASSUME NEW r \in Runs, NEW s \in Runs, NEW pc, NEW post, IniTo(s, pc, post),
         ini[s].pc # "threw", ini[r].pc = "threw"
  PROVE  ini'[r].pc = "threw"
BY DEF IniTo

LEMMA HandlerThrown ==
  ASSUME TR, Lock, NEW m \in net, Handle(m), NEW r \in Runs, ini[r].pc = "threw"
  PROVE  ini'[r].pc = "threw"
<1> DEFINE s == m.run
<1>0. s \in Runs BY Holder
<1>1. CASE \E a, b, w \in {"i1", "i2", "i3", "w1", "w2", "w3"} : ResponderSigns(m, a, b, w)
  BY <1>1 DEF ResponderSigns
<1>2. CASE CallerInstalls(m)
  <2>1. IniTo(s, "i4", ini[s].post) /\ ini[s].pc = "i2" BY <1>2, CallerInstallsDoes
  <2> QED BY <1>0, <2>1, StaysThrown
<1>3. CASE ResponderInstalls(m) BY <1>3 DEF ResponderInstalls
<1>4. CASE DepositInstalled(m)
  <2>1. IniTo(s, "send", Opening) /\ ini[s].pc = "i4" BY <1>4, DepositInstalledDoes
  <2> QED BY <1>0, <2>1, StaysThrown
<1>5. CASE ResponderUninstalls(m) BY <1>5 DEF ResponderUninstalls
<1>6. CASE DepositReturns(m)
  <2>1. IniTo(s, "returned", Opening) /\ ini[s].pc = "u2" BY <1>6, DepositReturnsDoes
  <2> QED BY <1>0, <2>1, StaysThrown
<1>7. CASE CallerCharges(m)
  <2>1. IniTo(s, "w4", ini[s].post) /\ ini[s].pc = "w2" BY <1>7, CallerChargesDoes
  <2> QED BY <1>0, <2>1, StaysThrown
<1>8. CASE ResponderReleases(m) BY <1>8 DEF ResponderReleases
<1>9. CASE CallerSettles(m)
  <2>1. IniTo(s, "w6", Uncharged(s, ini[s].post)) /\ ini[s].pc = "w4"
    BY <1>9, CallerSettlesDoes
  <2> QED BY <1>0, <2>1, StaysThrown
<1>10. CASE ResponderSettles(m) BY <1>10 DEF ResponderSettles
<1>11. CASE CallerStoresWithdrawal(m)
  <2>1. IniTo(s, "save", ini[s].post) /\ ini[s].pc = "w6" BY <1>11, CallerStoresDoes
  <2> QED BY <1>0, <2>1, StaysThrown
<1>12. CASE Refuse(m)
  <2>1. (IniTo(s, "threw", Opening) /\ ini[s].pc \in IniWaits) \/ UNCHANGED ini
    BY <1>12, RefuseDoes
  <2> QED BY <1>0, <2>1, StaysThrown DEF IniWaits
<1> QED
  BY <1>1, <1>2, <1>3, <1>4, <1>5, <1>6, <1>7, <1>8, <1>9, <1>10, <1>11, <1>12 DEF Handle

LEMMA CallerThrown ==
  ASSUME TR, Lock, NEW s \in Runs, Proceed(s) \/ TimesOut(s), NEW r \in Runs,
         ini[r].pc = "threw"
  PROVE  ini'[r].pc = "threw"
<1>1. ASSUME NEW post, NEW n \in {"i1", "w1"}, NEW t, Begins(s, post, n, t)
      PROVE  ini'[r].pc = "threw"
  <2>1. IniTo(s, FirstWait(n), post) /\ ini[s].pc = "queued" BY <1>1, BeginsDoes
  <2> QED BY <2>1, StaysThrown
<1>2. CASE DepositBegins(s) BY <1>1, <1>2 DEF DepositBegins
<1>3. CASE WithdrawalBegins(s) BY <1>1, <1>3 DEF WithdrawalBegins
<1>4. CASE WithdrawalThrows(s)
  <2>1. IniTo(s, "threw", Opening) /\ ini[s].pc = "queued" BY <1>4, WithdrawalThrowsDoes
  <2> QED BY <2>1, StaysThrown
<1>5. CASE SendTransaction(s)
  <2>1. IniTo(s, "mine", ini[s].post) /\ ini[s].pc = "send" BY <1>5, SendTransactionDoes
  <2> QED BY <2>1, StaysThrown
<1>6. CASE SendThrows(s)
  <2>1. /\ IniTo(s, "threw", Opening) \/ IniTo(s, "send", ini[s].post)
        /\ ini[s].pc = "send"
    BY <1>6, SendThrowsDoes
  <2> QED BY <2>1, StaysThrown
<1>7. CASE UninstallBegins(s)
  <2>1. PICK post : IniTo(s, "u2", post) /\ ini[s].pc = "mine" BY <1>7, UninstallBeginsDoes
  <2> QED BY <2>1, StaysThrown
<1>8. CASE UninstallThrows(s)
  <2>1. IniTo(s, "threw", Opening) /\ ini[s].pc = "mine" BY <1>8, UninstallThrowsDoes
  <2> QED BY <2>1, StaysThrown
<1>9. CASE CallerSaves(s)
  <2>1. IniTo(s, "submit", Opening) /\ ini[s].pc = "save" BY <1>9, CallerSavesDoes
  <2> QED BY <2>1, StaysThrown
<1>10. CASE WithdrawalReturns(s)
  <2>1. ini[s].pc = "submit" /\ IniTo(s, "returned", Opening) BY <1>10, WithdrawalReturnsDoes
  <2> QED BY <2>1, StaysThrown
<1>11. CASE CallerTimesOut(s)
  <2>1. IniTo(s, "threw", Opening) /\ ini[s].pc \in IniWaits BY <1>11, CallerTimesOutDoes
  <2> QED BY <2>1, StaysThrown DEF IniWaits
<1>12. CASE ResponderTimesOut(s) \/ LeaseExpires(s)
  BY <1>12 DEF ResponderTimesOut, LeaseExpires
<1> QED
  BY <1>2, <1>3, <1>4, <1>5, <1>6, <1>7, <1>8, <1>9, <1>10, <1>11, <1>12
  DEF Proceed, TimesOut

\* A call that has thrown stays so.
LEMMA NextThrown ==
  ASSUME TR, Lock, [Next]_vars, NEW r \in Runs, ini[r].pc = "threw"
  PROVE  ini'[r].pc = "threw"
<1>1. CASE Ask
  <2>1. CASE \E s \in Runs, p \in Parties, call \in Calls, amount \in Amounts :
               Call(s, p, call, amount)
    <3>1. PICK s \in Runs : ini[s].pc = "idle" /\ IniTo(s, "queued", Opening)
      BY <2>1, CallDoes
    <3> QED BY <3>1, StaysThrown
  <2>2. CASE \E c : BothHave(c) BY <2>2 DEF BothHave
  <2> QED BY <1>1, <2>1, <2>2 DEF Ask, ProposeApp, InstallApp, UninstallApp
<1>2. ASSUME NEW s \in Runs, Proceed(s) \/ TimesOut(s) PROVE ini'[r].pc = "threw"
  BY <1>2, CallerThrown
<1>3. ASSUME NEW m \in net, Handle(m) PROVE ini'[r].pc = "threw" BY <1>3, HandlerThrown
<1>4. CASE \E m \in net : Lose(m) BY <1>4 DEF Lose
<1>5. CASE \E t \in txs : Mine(t) BY <1>5 DEF Mine
<1>6. ASSUME NEW p \in Parties, Crash(p) PROVE ini'[r].pc = "threw"
  <2>1. ini'[r] = ini[r] \/ IniGoing(r) \/ ini[r].pc = "queued" BY <1>6, CrashDoes
  <2> QED BY <2>1 DEF IniGoing, IniWaits
<1>7. CASE UNCHANGED vars BY <1>7 DEF vars
<1> QED BY <1>1, <1>2, <1>3, <1>4, <1>5, <1>6, <1>7 DEF Next, Step

LEMMA BeginsMishaps ==
  ASSUME NEW r, NEW post, NEW n, NEW t, Begins(r, post, n, t)
  PROVE  mishaps \subseteq mishaps'
BY DEF Begins

\* A mishap stays so.
LEMMA NextMishaps ==
  ASSUME TR, [Next]_vars
  PROVE  mishaps \subseteq mishaps'
<1>1. CASE Ask
  <2>1. UNCHANGED mishaps BY <1>1 DEF Ask, Call, ProposeApp, InstallApp, UninstallApp, BothHave
  <2> QED BY <2>1
<1>2. ASSUME NEW r \in Runs, Proceed(r) PROVE mishaps \subseteq mishaps'
  <2>1. CASE DepositBegins(r) \/ WithdrawalBegins(r)
    BY <2>1, BeginsMishaps DEF DepositBegins, WithdrawalBegins
  <2>2. CASE ~(DepositBegins(r) \/ WithdrawalBegins(r))
    <3>1. UNCHANGED mishaps
      BY <1>2, <2>2
      DEF Proceed, WithdrawalThrows, SendTransaction, SendThrows, UninstallBegins,
          UninstallThrows, CallerSaves, WithdrawalReturns
    <3> QED BY <3>1
  <2> QED BY <2>1, <2>2
<1>3. ASSUME NEW r \in Runs, TimesOut(r) PROVE mishaps \subseteq mishaps'
  BY <1>3 DEF TimesOut, CallerTimesOut, ResponderTimesOut, LeaseExpires
<1>4. ASSUME NEW m \in net, Handle(m) \/ Lose(m) PROVE mishaps \subseteq mishaps'
  <2>1. UNCHANGED mishaps
    BY <1>4
    DEF Handle, Lose, ResponderSigns, CallerInstalls, ResponderInstalls, DepositInstalled,
        ResponderUninstalls, DepositReturns, CallerCharges, ResponderReleases,
        CallerSettles, ResponderSettles, CallerStoresWithdrawal, Refuse
  <2> QED BY <2>1
<1>5. ASSUME NEW t \in txs, Mine(t) PROVE mishaps \subseteq mishaps'
  BY <1>5 DEF Mine, MineDeposit, MineWithdrawal, RevertWithdrawal
<1>6. ASSUME NEW p \in Parties, Crash(p) PROVE mishaps \subseteq mishaps'
  BY <1>6, CrashDoes
<1>7. CASE UNCHANGED vars BY <1>7 DEF vars
<1> QED BY <1>1, <1>2, <1>3, <1>4, <1>5, <1>6, <1>7 DEF Next, Step

LEMMA StillFine ==
  ASSUME TR, Lock, [Next]_vars, Fine'
  PROVE  Fine
<1>1. UNCHANGED faults BY DEF Next, vars
<1>2. mishaps = {} BY NextMishaps DEF Fine
<1>3. ASSUME NEW r \in Runs PROVE ini[r].pc # "threw" BY <1>3, NextThrown DEF Fine
<1> QED BY <1>1, <1>2, <1>3 DEF Fine

-----------------------------------------------------------------------------

LEMMA Throws ==
  ASSUME NEW r \in Runs, NEW post, IniTo(r, "threw", post)
  PROVE  ~Fine'
BY DEF IniTo, Fine

LEMMA ProceedExact ==
  ASSUME Before, faults = {}, Fine', NEW r \in Runs, Proceed(r)
  PROVE  Exacting'
<1>0. TR BY DEF Before
<1>1. mishaps' = {} BY DEF Fine
<1>2. ~SendThrows(r) BY DEF SendThrows
<1>3. ~WithdrawalThrows(r) BY <1>0, WithdrawalThrowsDoes, Throws
<1>4. ~UninstallThrows(r) BY <1>0, UninstallThrowsDoes, Throws
<1> QED
  BY <1>1, <1>2, <1>3, <1>4, DepositBeginsExact, WithdrawalBeginsExact,
     SendTransactionExact, UninstallBeginsExact, CallerSavesExact, WithdrawalReturnsExact
  DEF Proceed

LEMMA TimesOutExact ==
  ASSUME Before, faults = {}, Fine', NEW r \in Runs, TimesOut(r)
  PROVE  Exacting'
<1>0. TR /\ Lock /\ Agreeing BY DEF Before
<1>1. ~CallerTimesOut(r) BY <1>0, CallerTimesOutDoes, Throws
<1>2. ~LeaseExpires(r) BY <1>0, LeaseExpiresNot
<1>3. ResponderTimesOut(r) BY <1>1, <1>2 DEF TimesOut
<1>4. UNCHANGED <<store, run, ini, net, leases, slot, wallet, txs, mishaps>>
  BY <1>0, <1>3, ResponderTimesOutDoes
<1> QED BY <1>4, QuietExact

LEMMA HandleExact ==
  ASSUME Before, NEW m \in net, Handle(m)
  PROVE  Exacting'
BY DepositSignedExact, WithdrawalSignedExact, CallerInstallsExact,
   ResponderInstallsExact, DepositInstalledExact, ResponderUninstallsExact,
   DepositReturnsExact, CallerChargesExact, ResponderReleasesExact,
   CallerSettlesExact, ResponderSettlesExact, CallerStoresExact, RefuseNot
DEF Handle

LEMMA NextExact ==
  ASSUME TR, TR', Lock, Agreed, Exact, [Next]_vars
  PROVE  Exact'
<1> SUFFICES ASSUME Fine' PROVE Exacting' BY DEF Exact
<1>1. Fine BY StillFine
<1>2. faults = {} /\ mishaps' = {} BY <1>1 DEF Fine
<1>3. Before BY <1>1, <1>2 DEF Before, Exact, Agreed
<1>4. CASE Ask BY <1>3, <1>4, AskExact
<1>5. ASSUME NEW r \in Runs, Proceed(r) PROVE Exacting' BY <1>2, <1>3, <1>5, ProceedExact
<1>6. ASSUME NEW r \in Runs, TimesOut(r) PROVE Exacting' BY <1>2, <1>3, <1>6, TimesOutExact
<1>7. ASSUME NEW m \in net, Handle(m) PROVE Exacting' BY <1>3, <1>7, HandleExact
<1>8. \A m \in net : ~Lose(m) BY <1>2 DEF Lose
<1>9. \A p \in Parties : ~Crash(p) BY <1>2 DEF Crash
<1>10. ASSUME NEW t \in txs, Mine(t) PROVE Exacting' BY <1>2, <1>3, <1>10, MineExact
<1>11. CASE UNCHANGED vars BY <1>3, <1>11, QuietExact DEF vars, chain
<1> QED BY <1>4, <1>5, <1>6, <1>7, <1>8, <1>9, <1>10, <1>11 DEF Next, Step

LEMMA InitExact ==
  ASSUME Init
  PROVE  Exact
<1>1. TR BY InitTypes
<1>2. /\ txs = {} /\ leases = {} /\ net = {} /\ wallet.balance = Worth(Opening)
      /\ wallet.reverted = 0 /\ \A p \in Parties : store[p] = Opening
  BY DEF Init
<1>3. Owed = 0
  <2>1. Owed = Due(txs) BY <1>1, OwedIs DEF TR
  <2>2. Dues({}) = {} BY DEF Dues
  <2> QED BY <1>2, <2>1, <2>2, TotalEmpty DEF Due
<1>4. Worth(Opening) + 0 + Owed + wallet.reverted = wallet.balance
  <2>1. Worth(Opening) \in Nat BY OpeningBooks, WorthIs
  <2> QED BY <1>2, <1>3, <2>1
<1>5. Plainly(Opening, 0) BY <1>4, OpeningPlain DEF Plainly, Even, EvenAt
<1>6. Sent BY <1>2 DEF Sent
<1> QED BY <1>2, <1>5, <1>6 DEF Exact, Exacting

LEMMA ExactAccounts ==
  ASSUME TR, Agreed, Exact
  PROVE  Accounted
<1> SUFFICES ASSUME faults = {}, mishaps = {}, AtRest,
                    \A r \in Runs : ini[r].pc \in {"idle", "queued", "returned"},
                    NEW p \in Parties
             PROVE  Worth(store[p]) + Owed + wallet.reverted = wallet.balance
  BY DEF Accounted
<1>1. Agreeing /\ net = {} BY DEF Agreed, AtRest
<1>2. \A r \in leases : Silent(r) BY <1>1 DEF Agreeing
<1>3. \A r \in leases : r \in Runs BY DEF TR, Types
<1>4. leases = {} BY <1>2, <1>3 DEF Silent
<1>5. Exacting BY DEF Exact, Fine
<1>6. Worth(store[p]) + 0 + Owed + wallet.reverted = wallet.balance
  BY <1>4, <1>5 DEF Exacting, Plainly, Even, EvenAt
<1>7. Worth(store[p]) \in Nat BY WorthIs DEF TR, Types
<1> QED BY <1>6, <1>7

\* When nothing is lost, every call has returned, and no withdrawal was mined
\* during a deposit nor an app overwritten, every coin of the wallet is in the
\* books, on its way out, or in a withdrawal the wallet refused to execute.
THEOREM EveryCoinAccounted ==
  ASSUME UnderLock
  PROVE  Spec => []Accounted
<1>1. Init => Agreed /\ Exact BY InitAgreed, InitExact
<1>2. TR /\ TR' /\ Lock /\ Agreed /\ Exact /\ [Next]_vars => Agreed' /\ Exact'
  BY NextAgreed, NextExact
<1>3. Spec => [](TR /\ Lock) BY LockInvariance
<1>4. TR /\ Agreed /\ Exact => Accounted BY ExactAccounts
<1> QED BY <1>1, <1>2, <1>3, <1>4, PTL DEF Spec

=============================================================================
