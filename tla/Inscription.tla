---------------------------- MODULE Inscription ----------------------------
(***************************************************************************)
(* The TRELYAN inscription application (contracts/inscription.py) on the   *)
(* ledger it runs on.                                                      *)
(*                                                                         *)
(* A Cell is an Algorand asset.  The application keeps three box maps      *)
(* keyed by cell id - the committed Falcon-1024 public key, the            *)
(* controlling owner and the write-once inscription record - and a counter *)
(* of registered cells.  Asset parameters, asset holdings and the set of   *)
(* Falcon signatures in existence are not kept by the application: they    *)
(* are modelled from how it reads them (AssetParamsGet, AssetHoldingGet,   *)
(* falcon_verify) and marked external.                                     *)
(*                                                                         *)
(* The ledger executes one application call at a time, so a method is one  *)
(* action.  A failed assertion rejects the call and leaves no trace, so a  *)
(* rejected call is a step that is not enabled.  An atomic group is a run  *)
(* of consecutive calls that all succeed or all leave no trace; every      *)
(* state a group commits is reached here by the same calls one by one.     *)
(*                                                                         *)
(* Abstracted: the fields of the record that are constant or equal to the  *)
(* box key (version, cell_id), the round it was written in, and the opcode *)
(* budget (a call whose fee does not cover the OpUp calls is rejected).    *)
(***************************************************************************)
EXTENDS Naturals, FiniteSets

CONSTANTS
  Accounts,       \* addresses that somebody can sign for
  Unsignable,     \* other non-zero addresses: nobody can sign for them
  ZeroAddress,    \* the 32 zero bytes
  NoAdmin,        \* the admin before create()
  NoBox,          \* the content of a box that does not exist
  Assets,         \* asset ids; the candidates for Cells
  AssetParams,    \* the parameters fixed at creation: creator, total, decimals
  RoleChoices,    \* the manager, freeze and clawback settings assets are given
  Keys,           \* byte strings offered as Falcon public keys
  WellFormedKeys, \* those of PUBKEY_LEN bytes that begin with 0x0A
  Artifacts,      \* artifact hashes
  UriLengths,     \* the lengths of payload_uri that callers try
  URI_MAXLEN,
  TOTAL_CELLS,
  Apps, ThisApp,  \* application ids, and the id of this application
  Networks, ThisNetwork, \* genesis hashes, and the one of this network
  MaxSigned       \* bound on the number of signatures ever made

ASSUME AddressAssumption ==
  /\ Accounts \cap Unsignable = {}
  /\ ZeroAddress \notin Accounts \cup Unsignable
  /\ NoAdmin \notin Accounts \cup Unsignable \cup {ZeroAddress}
  /\ NoBox \notin Accounts \cup Unsignable \cup {ZeroAddress}

ASSUME AssetAssumption ==
  /\ IsFiniteSet(Assets)
  /\ AssetParams \in [Assets -> [creator : Accounts, total : Nat, decimals : Nat]]

ASSUME KeyAssumption == WellFormedKeys \subseteq Keys /\ NoBox \notin Keys

ASSUME ContextAssumption == ThisApp \in Apps /\ ThisNetwork \in Networks

ASSUME LimitAssumption ==
  /\ UriLengths \subseteq Nat
  /\ URI_MAXLEN \in Nat
  /\ TOTAL_CELLS \in Nat
  /\ MaxSigned \in Nat

VARIABLES
  admin,            \* the mint authority
  cells_registered, \* how many cells are registered
  committed_pubkey, \* box map k_: cell -> public key
  controlling_owner,\* box map o_: cell -> address
  inscriptions,     \* box map i_: cell -> record
  asset,            \* external: the mutable parameters of each asset
  holder,           \* external: who holds each unit of each asset
  signed            \* external: every Falcon signature ever made

appVars == <<admin, cells_registered, committed_pubkey, controlling_owner, inscriptions>>
ledgerVars == <<asset, holder>>
vars == <<appVars, ledgerVars, signed>>

---------------------------------------------------------------------------
(* Values *)

\* What an address field may hold: any 32 bytes.
Addresses == Accounts \cup Unsignable \cup {ZeroAddress}

InscriptionRecord ==
  [artifact_hash : Artifacts, inscriber : Accounts, payload_uri : 0 .. URI_MAXLEN]

\* NoBox is not a record (a record is never equal to a model value).
ASSUME RecordAssumption == NoBox \notin InscriptionRecord

Roles == [exists : BOOLEAN, manager : Addresses, freeze : Addresses, clawback : Addresses]

ASSUME RoleAssumption == RoleChoices \subseteq {r \in Roles : r.exists}

Units(c) == 1 .. AssetParams[c].total

\* What was meant by a signature: the key that made it and the four fields
\* its message was built from.
Signatures ==
  [key : Keys, app : Apps, cell : Assets, artifact : Artifacts, network : Networks]

Registered == {c \in Assets : committed_pubkey[c] # NoBox}
Inscribed == {c \in Assets : inscriptions[c] # NoBox}

TypeOK ==
  /\ admin \in Accounts \cup {NoAdmin}
  /\ cells_registered \in Nat
  /\ committed_pubkey \in [Assets -> Keys \cup {NoBox}]
  /\ controlling_owner \in [Assets -> Addresses \cup {NoBox}]
  /\ inscriptions \in [Assets -> InscriptionRecord \cup {NoBox}]
  /\ asset \in [Assets -> Roles]
  /\ \A c \in Assets : holder[c] \in [Units(c) -> Accounts]
  /\ DOMAIN holder = Assets
  /\ signed \subseteq Signatures

---------------------------------------------------------------------------
(* What the application asks of the AVM *)

\* AssetHoldingGet.asset_balance: how many units of c the account holds.
Balance(a, c) == Cardinality({n \in Units(c) : holder[c][n] = a})

\* Account a holds exactly the cell: exists /\ balance = 1.
Holds(a, c) == Balance(a, c) = 1

Faulty_MessageWithoutApp(app, cell, artifact, network) == <<cell, artifact, network>>
Faulty_MessageWithoutCell(app, cell, artifact, network) == <<app, artifact, network>>

\* M = DOMAIN_TAG, app_id, cell_id, artifact_hash, genesis_hash: every field
\* has a fixed width, so the concatenation is the tuple.
BuildMessage(app, cell, artifact, network) == <<app, cell, artifact, network>>

\* falcon_verify(m, sig, pk).  Signatures are unforgeable: one verifies only
\* if the holder of pk made it, over the same message.
FalconVerify(m, sig, pk) ==
  /\ sig \in signed
  /\ sig.key = pk
  /\ BuildMessage(sig.app, sig.cell, sig.artifact, sig.network) = m

\* Nothing and nobody can move, freeze or destroy the asset but its holder.
IsPureImmutable(c) ==
  /\ asset[c] = [exists |-> TRUE, manager |-> ZeroAddress, freeze |-> ZeroAddress,
                 clawback |-> ZeroAddress]
  /\ AssetParams[c] = [creator |-> admin, total |-> 1, decimals |-> 0]

\* The same without the line on the manager.
Faulty_ManagerKept(c) ==
  /\ asset[c].exists
  /\ AssetParams[c] = [creator |-> admin, total |-> 1, decimals |-> 0]
  /\ asset[c].clawback = ZeroAddress /\ asset[c].freeze = ZeroAddress

\* A pure NFT created by the admin, with every role cleared.
IsImmutableCell(c) ==
  /\ asset[c].exists
  /\ AssetParams[c].total = 1
  /\ AssetParams[c].decimals = 0
  /\ AssetParams[c].creator = admin
  /\ asset[c].clawback = ZeroAddress
  /\ asset[c].freeze = ZeroAddress
  /\ asset[c].manager = ZeroAddress

---------------------------------------------------------------------------
(* Initial state: the application does not exist; each asset is held by    *)
(* its creator, with the roles it was created with.                        *)

Init ==
  /\ admin = NoAdmin
  /\ cells_registered = 0
  /\ committed_pubkey = [c \in Assets |-> NoBox]
  /\ controlling_owner = [c \in Assets |-> NoBox]
  /\ inscriptions = [c \in Assets |-> NoBox]
  /\ asset \in [Assets -> RoleChoices]
  /\ holder = [c \in Assets |-> [n \in Units(c) |-> AssetParams[c].creator]]
  /\ signed = {}

---------------------------------------------------------------------------
(* The assertions of the methods that protect state across calls.  Each    *)
(* Faulty_ operator below is the assertion as a plausible slip would have  *)
(* left it; no specification uses one.                                     *)

\* register_cell: a key enters state here and nowhere else.
KeyIsAcceptable(pubkey) == pubkey \in WellFormedKeys

Faulty_CapOffByOne == cells_registered <= TOTAL_CELLS
BelowCellCap == cells_registered < TOTAL_CELLS

RegistersOnce(c) == committed_pubkey[c] = NoBox /\ controlling_owner[c] = NoBox

\* inscribe: the size of the only argument of free length.
Faulty_UriUnchecked(uri) == TRUE
UriFits(uri) == uri <= URI_MAXLEN

\* inscribe, C2.
Faulty_Overwrites(c) == TRUE
NotYetInscribed(c) == inscriptions[c] = NoBox

\* update_owner: already inscribed; owner frozen.
Faulty_OwnerNeverFreezes(c) == TRUE
OwnerNotFrozen(c) == inscriptions[c] = NoBox

\* update_owner: the caller has something to lose.
Faulty_SellerKeepsControl(a, c) == a = controlling_owner[c]
MoverHolds(a, c) == Holds(a, c)

---------------------------------------------------------------------------
(* The methods of the application *)

create(sender) ==
  /\ admin = NoAdmin
  /\ admin' = sender
  /\ UNCHANGED <<cells_registered, committed_pubkey, controlling_owner, inscriptions>>
  /\ UNCHANGED <<ledgerVars, signed>>

register_cell(sender, c, owner, pubkey) ==
  /\ sender = admin
  /\ IsImmutableCell(c)
  /\ KeyIsAcceptable(pubkey)
  /\ BelowCellCap
  /\ owner # ZeroAddress
  /\ RegistersOnce(c)
  /\ committed_pubkey' = [committed_pubkey EXCEPT ![c] = pubkey]
  /\ controlling_owner' = [controlling_owner EXCEPT ![c] = owner]
  /\ cells_registered' = cells_registered + 1
  /\ UNCHANGED <<admin, inscriptions, ledgerVars, signed>>

\* Anyone can present any signature that exists: earlier calls are public.
inscribe(sender, c, artifact, sig, uri) ==
  /\ committed_pubkey[c] # NoBox
  /\ UriFits(uri)
  /\ Holds(sender, c)
  /\ controlling_owner[c] = sender
  /\ NotYetInscribed(c)
  /\ FalconVerify(BuildMessage(ThisApp, c, artifact, ThisNetwork), sig, committed_pubkey[c])
  /\ inscriptions' = [inscriptions EXCEPT ![c] =
       [artifact_hash |-> artifact, inscriber |-> sender, payload_uri |-> uri]]
  /\ UNCHANGED <<admin, cells_registered, committed_pubkey, controlling_owner>>
  /\ UNCHANGED <<ledgerVars, signed>>

update_owner(sender, c, new_owner) ==
  /\ controlling_owner[c] = sender
  /\ OwnerNotFrozen(c)
  /\ MoverHolds(sender, c)
  /\ new_owner # ZeroAddress
  /\ controlling_owner' = [controlling_owner EXCEPT ![c] = new_owner]
  /\ UNCHANGED <<admin, cells_registered, committed_pubkey, inscriptions>>
  /\ UNCHANGED <<ledgerVars, signed>>

---------------------------------------------------------------------------
(* External: the asset ledger and the signers *)

\* Unit n of asset c changes hands: sent by its holder, or taken by the
\* clawback account of an asset that has one.  Only an account that has opted
\* in, which takes its signature, can receive it.
Transfer(c, n, to) ==
  /\ asset[c].exists
  /\ holder' = [holder EXCEPT ![c][n] = to]
  /\ UNCHANGED <<appVars, asset, signed>>

\* The manager sets the roles; a role that was cleared stays cleared.  The
\* transaction needs its signature.
Reconfigure(c, roles) ==
  /\ asset[c].exists
  /\ asset[c].manager \in Accounts
  /\ asset[c].clawback = ZeroAddress => roles.clawback = ZeroAddress
  /\ asset[c].freeze = ZeroAddress => roles.freeze = ZeroAddress
  /\ asset' = [asset EXCEPT ![c] = roles]
  /\ UNCHANGED <<appVars, holder, signed>>

\* The manager destroys the asset while its creator holds every unit.
Destroy(c) ==
  /\ asset[c].exists
  /\ asset[c].manager \in Accounts
  /\ \A n \in Units(c) : holder[c][n] = AssetParams[c].creator
  /\ asset' = [asset EXCEPT ![c] = [exists |-> FALSE, manager |-> ZeroAddress,
                                    freeze |-> ZeroAddress, clawback |-> ZeroAddress]]
  /\ UNCHANGED <<appVars, holder, signed>>

\* The holder of a key signs a message, for this application or another one,
\* on this network or another one.  Signing is deterministic: the same message
\* again yields the same signature.
Sign(sig) ==
  /\ sig.key \in WellFormedKeys
  /\ sig \in signed \/ Cardinality(signed) < MaxSigned
  /\ signed' = signed \cup {sig}
  /\ UNCHANGED <<appVars, ledgerVars>>

---------------------------------------------------------------------------

\* The methods that change state; on_update and on_delete always reject.
AppStep ==
  \E sender \in Accounts :
    \/ create(sender)
    \/ \E c \in Assets :
         \/ \E owner \in Addresses, k \in Keys : register_cell(sender, c, owner, k)
         \/ \E art \in Artifacts, s \in signed, uri \in UriLengths :
              inscribe(sender, c, art, s, uri)
         \/ \E owner \in Addresses : update_owner(sender, c, owner)

LedgerStep ==
  \E c \in Assets :
    \/ \E n \in Units(c), to \in Accounts : Transfer(c, n, to)
    \/ \E roles \in RoleChoices : Reconfigure(c, roles)
    \/ Destroy(c)

Next == AppStep \/ LedgerStep \/ \E sig \in Signatures : Sign(sig)

Spec == Init /\ [][Next]_vars

---------------------------------------------------------------------------
(* Properties *)

\* The counter counts the registered cells and never passes the cap, and the
\* three boxes of a cell agree: owner recorded iff key committed, record only
\* after both (register_cell writes two boxes and a counter; inscribe relies
\* on both).
RegistryConsistent ==
  /\ cells_registered = Cardinality(Registered)
  /\ cells_registered <= TOTAL_CELLS
  /\ \A c \in Assets : controlling_owner[c] = NoBox <=> c \notin Registered
  /\ Inscribed \subseteq Registered

\* I2, I3, I4: at every later time, whoever reads the two boxes of an inscribed
\* cell finds that the committed key signed exactly this artifact for exactly
\* this cell of this application on this network - whatever was signed
\* elsewhere with the same key, and whoever submitted the call.
InscriptionsAreAuthorised ==
  \A c \in Inscribed :
    [key |-> committed_pubkey[c], app |-> ThisApp, cell |-> c,
     artifact |-> inscriptions[c].artifact_hash, network |-> ThisNetwork] \in signed

\* The owner box of an inscribed cell names its inscriber for ever: control
\* cannot move behind a record that update_owner has frozen.
OwnerFrozenAtInscription ==
  \A c \in Inscribed : controlling_owner[c] = inscriptions[c].inscriber

\* What registration checked once holds for ever: the asset of a registered
\* cell still exists, is a single indivisible unit of the admin's and has no
\* role left that could move or destroy it; its key still has the form of a
\* Falcon-1024 key; its owner is not the zero address.  Neither the key nor the
\* owner need be usable: both may be bytes that nobody can sign for, as the
\* comments at register_cell and update_owner say.
CellsStayWellFormed ==
  \A c \in Registered :
    /\ IsPureImmutable(c)
    /\ committed_pubkey[c] \in WellFormedKeys
    /\ controlling_owner[c] # ZeroAddress

\* I1, C5, I5: a committed key and a record, once written, are there for ever
\* and unchanged; the admin never changes; no registration is undone.
WriteOnce ==
  [][/\ \A c \in Registered : committed_pubkey'[c] = committed_pubkey[c]
     /\ \A c \in Inscribed : inscriptions'[c] = inscriptions[c]
     /\ admin # NoAdmin => admin' = admin]_appVars

\* C1 with TCE-76: control of a registered cell leaves its owner only while
\* that owner has the cell in hand; a seller who has parted with the asset
\* cannot re-point control of what someone else holds.
ControlMovesFromTheHand ==
  [][\A c \in Registered : controlling_owner'[c] # controlling_owner[c] =>
       /\ Holds(controlling_owner[c], c)
       /\ \A a \in Accounts \ {controlling_owner[c]} : Balance(a, c) = 0]_appVars

\* The application is a write-once registry.  A cell's committed key and record
\* are its entry; an approval is a signature for this application and network.
RegistryEntry(c) ==
  IF inscriptions[c] # NoBox
  THEN [stage |-> "sealed", key |-> committed_pubkey[c],
        value |-> inscriptions[c].artifact_hash]
  ELSE IF committed_pubkey[c] # NoBox
  THEN [stage |-> "bound", key |-> committed_pubkey[c]]
  ELSE [stage |-> "blank"]

Approvals ==
  {<<s.key, s.cell, s.artifact>> : s \in {t \in signed : t.app = ThisApp /\ t.network = ThisNetwork}}

Registry == INSTANCE WriteOnceRegistry WITH
  Entries <- Assets, Keys <- Keys, Values <- Artifacts, Capacity <- TOTAL_CELLS,
  entry <- [c \in Assets |-> RegistryEntry(c)], approved <- Approvals

ImplementsRegistry == Registry!Spec
=============================================================================
