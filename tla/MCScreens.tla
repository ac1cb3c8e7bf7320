------------------------------ MODULE MCScreens ------------------------------
(***************************************************************************)
(* Small instances of ProposalScreens for TLC.                             *)
(***************************************************************************)
EXTENDS ProposalScreens, TLC

CONSTANTS p1, p2, p3

OneWindow == [p \in Proposals |-> "w1"]
\* The controls that a user works with in one behaviour.
Worked == {<<{<<"vote", p1>>}, 3>>, <<{<<"delete", p1>>}, 3>>, <<{<<"confirm", p1>>}, 3>>,
           <<{<<"create", "manual">>, <<"create", "suggested">>}, 3>>,
           <<{<<"create", "suggested">>}, 2>>, <<{<<"unconfirm", "group">>}, 3>>}
=============================================================================
