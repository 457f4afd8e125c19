--------------------------- MODULE MCVirtualApps ---------------------------
(***************************************************************************)
(* Instances of VirtualApps for TLC.                                        *)
(***************************************************************************)
EXTENDS VirtualApps

Stakes(a, b) == [u \in Users |-> IF u = Alice THEN a ELSE b]

NewLink == [ver |-> 8, user |-> 4, hub |-> 4, agr |-> {}]

First == [id |-> 2, by |-> Bob, dep |-> Stakes(1, 0)]

\* Bob has proposed an app to Alice, and Alice two to Bob, for the second of
\* which she does not have the money once the two others are installed.
Proposed ==
  [link |-> [u \in Users |-> NewLink],
   ab   |-> [np |-> 4,
             props |-> {First,
                        [id |-> 3, by |-> Alice, dep |-> Stakes(1, 1)],
                        [id |-> 4, by |-> Alice, dep |-> Stakes(3, 0)]},
             apps |-> {}],
   abi  |-> [np |-> 1, apps |-> {}]]

\* Alice has installed the first of them.
OneInstalled ==
  [link |-> [u \in Users |-> AddAgreement(NewLink, u, First, 1)],
   ab   |-> [AddApp(Proposed.ab, NewVirtualApp(First)) EXCEPT
               !.props = @ \ {First}],
   abi  |-> AddApp(Proposed.abi, NewPassApp(Proposed.abi, First))]

\* One kind of fault at a time.
OneFault == {{"loss"}, {"crash"}}

=============================================================================
