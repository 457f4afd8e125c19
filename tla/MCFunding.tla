----------------------------- MODULE MCFunding -----------------------------
(***************************************************************************)
(* Instances of Funding for TLC.                                            *)
(***************************************************************************)
EXTENDS Funding

\* The channel has been funded; one app was proposed in it and is gone.
Funded ==
  [np |-> 1, props |-> {}, ver |-> 4, bal |-> [p \in Parties |-> 2],
   apps |-> {}]

\* One kind of fault at a time, or none.
OneFault == {{}, {"loss"}, {"crash"}, {"send"}}

=============================================================================
