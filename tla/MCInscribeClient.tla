-------------------------- MODULE MCInscribeClient --------------------------
(***************************************************************************)
(* Values for the model checking of InscribeClient: one registered cell of *)
(* the deployer, whose roles are cleared.                                  *)
(***************************************************************************)
EXTENDS InscribeClient

CONSTANTS adm, ann, c1

OneCell == {c1}
OneCellParams == [c \in OneCell |-> [creator |-> adm, total |-> 1, decimals |-> 0]]
ClearedRoles ==
  {[exists |-> TRUE, manager |-> ZeroAddress, freeze |-> ZeroAddress, clawback |-> ZeroAddress]}
=============================================================================
