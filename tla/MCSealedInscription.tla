------------------------ MODULE MCSealedInscription ------------------------
(***************************************************************************)
(* Values for the model checking of SealedInscription.                     *)
(***************************************************************************)
EXTENDS SealedInscription, TLC

CONSTANTS c1, c2, k1, k2, k0

TwoCells == {c1, c2}
Nfts == [c \in Cells |-> [creator |-> CHOOSE a \in Accounts : TRUE, total |-> 1, decimals |-> 0]]
ClearedRoles ==
  {[exists |-> TRUE, manager |-> ZeroAddress, freeze |-> ZeroAddress, clawback |-> ZeroAddress]}

\* Each call makes a key of its own; k0 is an ordinary key.
FreshKeys == <<k1, k2>>

\* Callers, cells and artifacts are alike, and only safety is checked.
Alike == Permutations(Callers) \cup Permutations(Cells) \cup Permutations(Artifacts)
=============================================================================
