--------------------------- MODULE MCInscription ---------------------------
(***************************************************************************)
(* Values for the model checking of Inscription.                           *)
(***************************************************************************)
EXTENDS Inscription

CONSTANTS adm, ann, bob, c1, c2, c3, c4, app, otherApp, net, otherNet

Nft(creator) == [creator |-> creator, total |-> 1, decimals |-> 0]

\* One asset, for runs that vary everything else.
OneCell == {c1}
OneCellParams == [c \in OneCell |-> Nft(adm)]

\* Three assets of one creator that qualify, and one of two units.
FourAssets == {c1, c2, c3, c4}
FourAssetsParams == [c \in FourAssets |->
  IF c = c4 THEN [creator |-> adm, total |-> 2, decimals |-> 0] ELSE Nft(adm)]

\* Every setting of the roles; no role at all.
AllRoles == {r \in Roles : r.exists}
ClearedRoles ==
  {r \in AllRoles : \A a \in {r.manager, r.freeze, r.clawback} : a = ZeroAddress}
=============================================================================
