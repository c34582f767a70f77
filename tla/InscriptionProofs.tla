------------------------- MODULE InscriptionProofs -------------------------
(***************************************************************************)
(* Proofs about Inscription, for every set of accounts, assets, keys and   *)
(* artifacts and every cap on the number of cells.                         *)
(***************************************************************************)
EXTENDS Inscription, FiniteSetTheorems, TLAPS

USE DEF appVars, ledgerVars

\* Every step is a call of the application, a step of the asset ledger or a
\* signature; the three leave each other's variables alone.
LEMMA StepCases ==
  ASSUME [Next]_vars
  PROVE  \/ \E sender \in Accounts : create(sender)
         \/ \E sender \in Accounts, c \in Assets, owner \in Addresses, k \in Keys :
              register_cell(sender, c, owner, k)
         \/ \E sender \in Accounts, c \in Assets, art \in Artifacts, s \in signed,
              uri \in UriLengths : inscribe(sender, c, art, s, uri)
         \/ \E sender \in Accounts, c \in Assets, owner \in Addresses :
              update_owner(sender, c, owner)
         \/ \E c \in Assets, n \in Nat, to \in Accounts : n \in Units(c) /\ Transfer(c, n, to)
         \/ \E c \in Assets, roles \in RoleChoices : Reconfigure(c, roles)
         \/ \E c \in Assets : Destroy(c)
         \/ \E sig \in Signatures : Sign(sig)
         \/ UNCHANGED vars
<1> USE DEF Next, AppStep, LedgerStep
<1>1. CASE AppStep
  BY <1>1
<1>2. CASE LedgerStep
  <2>1. PICK c \in Assets :
          \/ \E n \in Units(c), to \in Accounts : Transfer(c, n, to)
          \/ \E roles \in RoleChoices : Reconfigure(c, roles)
          \/ Destroy(c)
    BY <1>2
  <2>2. \A n \in Units(c) : n \in Nat
    BY AssetAssumption DEF Units
  <2> QED BY <2>1, <2>2
<1>3. CASE \E sig \in Signatures : Sign(sig)
  BY <1>3
<1>4. CASE UNCHANGED vars
  BY <1>4
<1> QED BY <1>1, <1>2, <1>3, <1>4

---------------------------------------------------------------------------
(* Type correctness *)

\* The boxes and the ledger start with values of their types.
LEMMA TypeInit == Init => TypeOK
<1> SUFFICES ASSUME Init PROVE TypeOK
  OBVIOUS
<1>1. \A c \in Assets : AssetParams[c].creator \in Accounts
  BY AssetAssumption
<1>2. asset \in [Assets -> Roles]
  BY RoleAssumption DEF Init
<1>3. \A c \in Assets : holder[c] \in [Units(c) -> Accounts]
  BY <1>1 DEF Init
<1> QED BY <1>2, <1>3 DEF Init, TypeOK

\* Each method, transfer, reconfiguration and signature keeps the types.
LEMMA TypeStep == TypeOK /\ [Next]_vars => TypeOK'
<1> SUFFICES ASSUME TypeOK, [Next]_vars PROVE TypeOK'
  OBVIOUS
<1> USE DEF TypeOK
<1>1. ASSUME NEW sender \in Accounts, create(sender) PROVE TypeOK'
  BY <1>1 DEF create, Units
<1>2. ASSUME NEW sender \in Accounts, NEW c \in Assets, NEW owner \in Addresses,
             NEW k \in Keys, register_cell(sender, c, owner, k)
      PROVE  TypeOK'
  BY <1>2 DEF register_cell, Units
<1>3. ASSUME NEW sender \in Accounts, NEW c \in Assets, NEW art \in Artifacts, NEW s \in signed,
             NEW uri \in UriLengths, inscribe(sender, c, art, s, uri)
      PROVE  TypeOK'
  <2>0. uri \in 0 .. URI_MAXLEN
    BY <1>3, LimitAssumption DEF inscribe, UriFits
  <2>1. [artifact_hash |-> art, inscriber |-> sender, payload_uri |-> uri] \in InscriptionRecord
    BY <2>0 DEF InscriptionRecord
  <2> QED BY <1>3, <2>1 DEF inscribe, Units
<1>4. ASSUME NEW sender \in Accounts, NEW c \in Assets, NEW owner \in Addresses,
             update_owner(sender, c, owner)
      PROVE  TypeOK'
  BY <1>4 DEF update_owner, Units
<1>5. ASSUME NEW c \in Assets, NEW n \in Nat, n \in Units(c), NEW to \in Accounts, Transfer(c, n, to)
      PROVE  TypeOK'
  <2>1. \A d \in Assets : holder'[d] \in [Units(d) -> Accounts]
    BY <1>5 DEF Transfer
  <2> QED BY <1>5, <2>1 DEF Transfer, Units
<1>6. ASSUME NEW c \in Assets, NEW roles \in RoleChoices, Reconfigure(c, roles)
      PROVE  TypeOK'
  BY <1>6, RoleAssumption DEF Reconfigure, Units
<1>7. ASSUME NEW c \in Assets, Destroy(c)
      PROVE  TypeOK'
  <2>1. [exists |-> FALSE, manager |-> ZeroAddress, freeze |-> ZeroAddress,
         clawback |-> ZeroAddress] \in Roles
    BY DEF Roles, Addresses
  <2> QED BY <1>7, <2>1 DEF Destroy, Units
<1>8. ASSUME NEW sig \in Signatures, Sign(sig)
      PROVE  TypeOK'
  BY <1>8 DEF Sign, Units
<1>9. CASE UNCHANGED vars
  BY <1>9 DEF vars, Units
<1> QED BY <1>1, <1>2, <1>3, <1>4, <1>5, <1>6, <1>7, <1>8, <1>9, StepCases

\* Every variable keeps its type: no method, transfer, reconfiguration or
\* signature ever stores a value of another kind in a box.
THEOREM TypeCorrect == Spec => []TypeOK
<1> QED BY TypeInit, TypeStep, PTL DEF Spec

---------------------------------------------------------------------------
(* The registry *)

\* Only register_cell adds a cell, one at a time and never beyond the cap;
\* every other step leaves the keys, the counter and the set of registered
\* cells as they are.
LEMMA KeysAndCounter ==
  ASSUME TypeOK, [Next]_vars
  PROVE  \/ /\ UNCHANGED <<committed_pubkey, cells_registered>>
            /\ Registered' = Registered
         \/ \E c \in Assets \ Registered, k \in WellFormedKeys :
              /\ committed_pubkey' = [committed_pubkey EXCEPT ![c] = k]
              /\ cells_registered' = cells_registered + 1
              /\ cells_registered < TOTAL_CELLS
              /\ Registered' = Registered \cup {c}
<1>1. ASSUME NEW sender \in Accounts, NEW c \in Assets, NEW owner \in Addresses,
             NEW k \in Keys, register_cell(sender, c, owner, k)
      PROVE  /\ c \in Assets \ Registered
             /\ k \in WellFormedKeys
             /\ committed_pubkey' = [committed_pubkey EXCEPT ![c] = k]
             /\ cells_registered' = cells_registered + 1
             /\ cells_registered < TOTAL_CELLS
             /\ Registered' = Registered \cup {c}
  <2>1. k \in WellFormedKeys /\ k # NoBox
    BY <1>1, KeyAssumption DEF register_cell, KeyIsAcceptable
  <2>2. committed_pubkey' = [committed_pubkey EXCEPT ![c] = k]
    BY <1>1 DEF register_cell
  <2>3. Registered' = Registered \cup {c}
    BY <2>1, <2>2 DEF Registered, TypeOK
  <2>4. c \notin Registered /\ cells_registered' = cells_registered + 1
        /\ cells_registered < TOTAL_CELLS
    BY <1>1 DEF register_cell, RegistersOnce, BelowCellCap, Registered
  <2> QED BY <2>1, <2>2, <2>3, <2>4
<1>2. UNCHANGED <<committed_pubkey, cells_registered>> => Registered' = Registered
  BY DEF Registered
<1> QED
  BY <1>1, <1>2, StepCases
     DEF create, inscribe, update_owner, Transfer, Reconfigure, Destroy, Sign, vars

\* The owner box of a cell is written by register_cell when its key box is and
\* re-written by update_owner only; the record box by inscribe only.
LEMMA OwnersAndRecords ==
  ASSUME TypeOK, [Next]_vars
  PROVE  \/ UNCHANGED <<committed_pubkey, controlling_owner, inscriptions>>
         \/ \E c \in Assets, owner \in Addresses \ {ZeroAddress}, k \in WellFormedKeys :
              /\ RegistersOnce(c)
              /\ IsImmutableCell(c)
              /\ committed_pubkey' = [committed_pubkey EXCEPT ![c] = k]
              /\ controlling_owner' = [controlling_owner EXCEPT ![c] = owner]
              /\ UNCHANGED <<inscriptions, asset, admin, holder>>
         \/ \E c \in Assets, owner \in Addresses \ {ZeroAddress} :
              /\ controlling_owner[c] \in Accounts
              /\ inscriptions[c] = NoBox
              /\ Holds(controlling_owner[c], c)
              /\ controlling_owner' = [controlling_owner EXCEPT ![c] = owner]
              /\ UNCHANGED <<committed_pubkey, inscriptions, asset, admin, holder>>
         \/ \E c \in Assets, art \in Artifacts, uri \in UriLengths, s \in signed :
              /\ c \in Registered
              /\ UriFits(uri)
              /\ inscriptions[c] = NoBox
              /\ FalconVerify(BuildMessage(ThisApp, c, art, ThisNetwork), s, committed_pubkey[c])
              /\ controlling_owner[c] \in Accounts
              /\ inscriptions' = [inscriptions EXCEPT ![c] =
                   [artifact_hash |-> art, inscriber |-> controlling_owner[c],
                    payload_uri |-> uri]]
              /\ UNCHANGED <<committed_pubkey, controlling_owner, asset, admin, holder>>
<1>2. CASE \E sender \in Accounts, c \in Assets, owner \in Addresses, k \in Keys :
             register_cell(sender, c, owner, k)
  BY <1>2 DEF register_cell, KeyIsAcceptable
<1>3. CASE \E sender \in Accounts, c \in Assets, owner \in Addresses :
             update_owner(sender, c, owner)
  BY <1>3 DEF update_owner, OwnerNotFrozen, MoverHolds
<1>4. CASE \E sender \in Accounts, c \in Assets, art \in Artifacts, s \in signed,
             uri \in UriLengths : inscribe(sender, c, art, s, uri)
  BY <1>4 DEF inscribe, NotYetInscribed, Registered
<1> QED
  BY <1>2, <1>3, <1>4, StepCases DEF create, Transfer, Reconfigure, Destroy, Sign, vars

\* Registering a cell adds one to the counter and to the set of cells at once,
\* and fills both boxes; inscribing needs a committed key.
LEMMA ConsistencyStep == TypeOK /\ RegistryConsistent /\ [Next]_vars => RegistryConsistent'
<1> SUFFICES ASSUME TypeOK, RegistryConsistent, [Next]_vars PROVE RegistryConsistent'
  OBVIOUS
<1>1. IsFiniteSet(Registered)
  BY AssetAssumption, FS_Subset DEF Registered
<1>2. /\ (cells_registered = Cardinality(Registered))'
      /\ (cells_registered <= TOTAL_CELLS)'
  <2>1. \A c \in Assets \ Registered :
          Cardinality(Registered \cup {c}) = Cardinality(Registered) + 1
    BY <1>1, FS_AddElement
  <2> QED BY <2>1, KeysAndCounter, LimitAssumption DEF RegistryConsistent, TypeOK
<1>3. \A c \in Assets : (controlling_owner[c] = NoBox <=> c \notin Registered)'
  <2>1. \A c \in Assets : controlling_owner[c] = NoBox <=> committed_pubkey[c] = NoBox
    BY DEF RegistryConsistent, Registered
  <2> QED
    BY <2>1, OwnersAndRecords, KeyAssumption, AddressAssumption
       DEF Registered, TypeOK, Addresses
<1>4. (Inscribed \subseteq Registered)'
  BY OwnersAndRecords, KeyAssumption DEF RegistryConsistent, Registered, Inscribed, TypeOK
<1> QED BY <1>2, <1>3, <1>4 DEF RegistryConsistent

\* The counter is the number of cells and respects the cap, and the boxes of a
\* cell agree, whatever the cap and the number of assets.
THEOREM Consistency == Spec => []RegistryConsistent
<1>1. Init => RegistryConsistent
  <2> SUFFICES ASSUME Init PROVE RegistryConsistent
    OBVIOUS
  <2>1. Registered = {} /\ Inscribed = {}
    BY DEF Init, Registered, Inscribed
  <2>2. Cardinality(Registered) = 0
    BY <2>1, FS_EmptySet
  <2>3. cells_registered = 0 /\ \A c \in Assets : controlling_owner[c] = NoBox
    BY DEF Init
  <2> QED BY <2>1, <2>2, <2>3, LimitAssumption DEF RegistryConsistent
<1> QED BY <1>1, TypeCorrect, ConsistencyStep, PTL DEF Spec

---------------------------------------------------------------------------
(* What a record means *)

\* A record is written only under a signature by the committed key over it, the
\* key under a record never changes, and signatures are not forgotten.
LEMMA AuthorisedStep ==
  TypeOK /\ RegistryConsistent /\ InscriptionsAreAuthorised /\ [Next]_vars
    => InscriptionsAreAuthorised'
<1> SUFFICES ASSUME TypeOK, RegistryConsistent, InscriptionsAreAuthorised, [Next]_vars,
                    NEW c \in Assets, inscriptions'[c] # NoBox
             PROVE  [key |-> committed_pubkey'[c], app |-> ThisApp, cell |-> c,
                     artifact |-> inscriptions'[c].artifact_hash,
                     network |-> ThisNetwork] \in signed'
  BY DEF InscriptionsAreAuthorised, Inscribed
<1>1. signed \subseteq signed'
  BY StepCases DEF create, register_cell, inscribe, update_owner, Transfer, Reconfigure,
                   Destroy, Sign, vars
<1>2. CASE inscriptions[c] # NoBox
  <2>1. c \in Registered
    BY <1>2 DEF RegistryConsistent, Inscribed
  <2>2. committed_pubkey'[c] = committed_pubkey[c]
    BY <2>1, OwnersAndRecords DEF Registered, RegistersOnce, TypeOK
  <2>3. inscriptions'[c] = inscriptions[c]
    BY <1>2, OwnersAndRecords DEF TypeOK
  <2> QED BY <1>1, <1>2, <2>2, <2>3 DEF InscriptionsAreAuthorised, Inscribed
<1>3. CASE inscriptions[c] = NoBox
  <2>1. PICK art \in Artifacts, uri \in UriLengths, s \in signed :
          /\ FalconVerify(BuildMessage(ThisApp, c, art, ThisNetwork), s, committed_pubkey[c])
          /\ inscriptions' = [inscriptions EXCEPT ![c] =
               [artifact_hash |-> art, inscriber |-> controlling_owner[c],
                payload_uri |-> uri]]
          /\ UNCHANGED committed_pubkey
    BY <1>3, OwnersAndRecords DEF TypeOK
  <2>2. inscriptions'[c].artifact_hash = art
    BY <2>1 DEF TypeOK
  <2>3. s = [key |-> committed_pubkey[c], app |-> ThisApp, cell |-> c, artifact |-> art,
             network |-> ThisNetwork]
    BY <2>1 DEF FalconVerify, BuildMessage, TypeOK, Signatures
  <2> QED BY <1>1, <2>1, <2>2, <2>3
<1> QED BY <1>2, <1>3

\* Replay from another cell, application or network is impossible, and a record
\* can be re-verified from the two boxes for ever.
THEOREM Authorised == Spec => []InscriptionsAreAuthorised
<1>1. Init => InscriptionsAreAuthorised
  BY DEF Init, InscriptionsAreAuthorised, Inscribed
<1> QED BY <1>1, TypeCorrect, Consistency, AuthorisedStep, PTL DEF Spec

\* The inscriber named by a record stays the controlling owner.
THEOREM OwnerFrozen == Spec => []OwnerFrozenAtInscription
<1>1. Init => OwnerFrozenAtInscription
  BY DEF Init, OwnerFrozenAtInscription, Inscribed
<1>2. TypeOK /\ RegistryConsistent /\ OwnerFrozenAtInscription /\ [Next]_vars
        => OwnerFrozenAtInscription'
  <2> SUFFICES ASSUME TypeOK, RegistryConsistent, OwnerFrozenAtInscription, [Next]_vars,
                      NEW c \in Assets, inscriptions'[c] # NoBox
               PROVE  controlling_owner'[c] = inscriptions'[c].inscriber
    BY DEF OwnerFrozenAtInscription, Inscribed
  <2>1. CASE inscriptions[c] # NoBox
    <3>1. /\ c \in Registered
          /\ controlling_owner[c] = inscriptions[c].inscriber
      BY <2>1 DEF RegistryConsistent, OwnerFrozenAtInscription, Inscribed
    <3>2. controlling_owner'[c] = controlling_owner[c] /\ inscriptions'[c] = inscriptions[c]
      BY <2>1, <3>1, OwnersAndRecords DEF Registered, RegistersOnce, TypeOK
    <3> QED BY <3>1, <3>2
  <2>2. CASE inscriptions[c] = NoBox
    BY <2>2, OwnersAndRecords DEF TypeOK
  <2> QED BY <2>1, <2>2
<1> QED BY <1>1, <1>2, TypeCorrect, Consistency, PTL DEF Spec

---------------------------------------------------------------------------
(* What a registration means *)

\* A registered cell has no manager, and no step gives it one.
LEMMA WellFormedStep ==
  TypeOK /\ CellsStayWellFormed /\ [Next]_vars => CellsStayWellFormed'
<1> SUFFICES ASSUME TypeOK, CellsStayWellFormed, [Next]_vars,
                    NEW c \in Assets, committed_pubkey'[c] # NoBox
             PROVE  /\ IsPureImmutable(c)'
                    /\ committed_pubkey'[c] \in WellFormedKeys
                    /\ controlling_owner'[c] # ZeroAddress
  BY DEF CellsStayWellFormed, Registered
<1>1. CASE c \in Registered
  <2>1. /\ IsPureImmutable(c)
        /\ committed_pubkey[c] \in WellFormedKeys
        /\ controlling_owner[c] # ZeroAddress
    BY <1>1 DEF CellsStayWellFormed
  <2>2. admin # NoAdmin /\ asset[c].manager = ZeroAddress
    BY <2>1, AddressAssumption, AssetAssumption DEF IsPureImmutable
  <2>3. admin' = admin /\ asset'[c] = asset[c]
    BY <2>2, StepCases, AddressAssumption
       DEF create, register_cell, inscribe, update_owner, Transfer, Reconfigure, Destroy,
           Sign, vars, TypeOK
  <2>4. committed_pubkey'[c] = committed_pubkey[c]
    BY <1>1, OwnersAndRecords DEF Registered, RegistersOnce, TypeOK
  <2>5. controlling_owner'[c] # ZeroAddress
    <3>1. committed_pubkey[c] # NoBox
      BY <1>1 DEF Registered
    <3> QED BY <2>1, <3>1, OwnersAndRecords DEF RegistersOnce, TypeOK
  <2> QED BY <2>1, <2>3, <2>4, <2>5 DEF IsPureImmutable
<1>2. CASE c \notin Registered
  <2>1. committed_pubkey[c] = NoBox
    BY <1>2 DEF Registered
  <2>2. PICK owner \in Addresses \ {ZeroAddress}, k \in WellFormedKeys :
          /\ IsImmutableCell(c)
          /\ committed_pubkey' = [committed_pubkey EXCEPT ![c] = k]
          /\ controlling_owner' = [controlling_owner EXCEPT ![c] = owner]
          /\ UNCHANGED <<asset, admin>>
    BY <2>1, OwnersAndRecords DEF TypeOK
  <2>3. /\ asset[c] = [exists |-> TRUE, manager |-> ZeroAddress, freeze |-> ZeroAddress,
                       clawback |-> ZeroAddress]
        /\ AssetParams[c] = [creator |-> admin, total |-> 1, decimals |-> 0]
    <3>1. asset[c] \in Roles /\ AssetParams[c] \in [creator : Accounts, total : Nat, decimals : Nat]
      BY AssetAssumption DEF TypeOK
    <3>2. asset[c].exists = TRUE
      BY <2>2, <3>1 DEF IsImmutableCell, Roles
    <3> QED BY <2>2, <3>1, <3>2 DEF IsImmutableCell, Roles
  <2> QED BY <2>2, <2>3 DEF IsPureImmutable, TypeOK
<1> QED BY <1>1, <1>2

\* What register_cell checked of an asset, a key and an owner stays true of the
\* cell, whatever the ledger and later callers do.
THEOREM WellFormed == Spec => []CellsStayWellFormed
<1>1. Init => CellsStayWellFormed
  BY DEF Init, CellsStayWellFormed, Registered
<1> QED BY <1>1, TypeCorrect, WellFormedStep, PTL DEF Spec

---------------------------------------------------------------------------
(* What a step may never do *)

\* No call, transfer or signature changes a committed key, a record or the
\* admin.
THEOREM WrittenOnce == Spec => WriteOnce
<1>1. ASSUME TypeOK, RegistryConsistent, [Next]_vars
      PROVE  [/\ \A c \in Registered : committed_pubkey'[c] = committed_pubkey[c]
              /\ \A c \in Inscribed : inscriptions'[c] = inscriptions[c]
              /\ admin # NoAdmin => admin' = admin]_appVars
  <2>1. \A c \in Registered : committed_pubkey'[c] = committed_pubkey[c]
    BY <1>1, OwnersAndRecords DEF Registered, RegistersOnce, TypeOK
  <2>2. \A c \in Inscribed : inscriptions'[c] = inscriptions[c]
    BY <1>1, OwnersAndRecords DEF Inscribed, TypeOK
  <2>3. admin # NoAdmin => admin' = admin
    BY <1>1, StepCases DEF create, register_cell, inscribe, update_owner, Transfer,
                           Reconfigure, Destroy, Sign, vars
  <2> QED BY <2>1, <2>2, <2>3
<1> QED BY <1>1, TypeCorrect, Consistency, PTL DEF Spec, WriteOnce

\* A single unit has one holder: while an account holds a registered cell, no
\* other account has any of it.
LEMMA OneHolder ==
  ASSUME TypeOK, CellsStayWellFormed, NEW c \in Registered, NEW a,
         Holds(a, c), NEW b \in Accounts \ {a}
  PROVE  Balance(b, c) = 0
<1>1. Units(c) = {1}
  <2>1. AssetParams[c].total = 1
    BY DEF CellsStayWellFormed, IsPureImmutable
  <2> QED BY <2>1 DEF Units
<1>2. holder[c][1] = a
  <2> SUFFICES ASSUME holder[c][1] # a PROVE FALSE
    OBVIOUS
  <2>1. {n \in Units(c) : holder[c][n] = a} = {}
    BY <1>1
  <2>2. Cardinality({}) = 0
    BY FS_EmptySet
  <2> QED BY <2>1, <2>2 DEF Holds, Balance
<1>3. {n \in Units(c) : holder[c][n] = b} = {}
  BY <1>1, <1>2
<1> QED BY <1>3, FS_EmptySet DEF Balance

\* Control leaves an owner's hands only while the cell is in them.
THEOREM ControlNeedsCustody == Spec => ControlMovesFromTheHand
<1>1. ASSUME TypeOK, RegistryConsistent, CellsStayWellFormed, [Next]_vars
      PROVE  [\A c \in Registered : controlling_owner'[c] # controlling_owner[c] =>
                /\ Holds(controlling_owner[c], c)
                /\ \A a \in Accounts \ {controlling_owner[c]} : Balance(a, c) = 0]_appVars
  <2> SUFFICES ASSUME NEW c \in Registered, controlling_owner'[c] # controlling_owner[c]
               PROVE  /\ Holds(controlling_owner[c], c)
                      /\ \A a \in Accounts \ {controlling_owner[c]} : Balance(a, c) = 0
    OBVIOUS
  <2>1. Holds(controlling_owner[c], c)
    BY <1>1, OwnersAndRecords DEF Registered, RegistersOnce, TypeOK
  <2> QED BY <1>1, <2>1, OneHolder
<1> QED
  BY <1>1, TypeCorrect, Consistency, WellFormed, PTL DEF Spec, ControlMovesFromTheHand

---------------------------------------------------------------------------
(* The application implements the abstract registry *)

\* The entries the registry has used are the registered cells.
LEMMA UsedEntries ==
  ASSUME RegistryConsistent
  PROVE  Registry!Used = Registered
BY DEF Registry!Used, Registry!Blank, RegistryEntry, RegistryConsistent, Registered, Inscribed

\* The approvals only change when somebody signs for this application and
\* network, and then by one approval.
LEMMA ApprovalStep ==
  ASSUME TypeOK, [Next]_vars
  PROVE  \/ Approvals' = Approvals
         \/ \E k \in Keys, c \in Assets, art \in Artifacts :
              /\ Approvals' = Approvals \cup {<<k, c, art>>}
              /\ UNCHANGED <<committed_pubkey, inscriptions>>
<1>1. CASE \E sig \in Signatures : Sign(sig)
  <2>1. PICK sig \in Signatures : Sign(sig)
    BY <1>1
  <2>2. signed' = signed \cup {sig} /\ UNCHANGED <<committed_pubkey, inscriptions>>
    BY <2>1 DEF Sign
  <2>3. sig.key \in Keys /\ sig.cell \in Assets /\ sig.artifact \in Artifacts
    BY DEF Signatures
  <2>4. CASE sig.app = ThisApp /\ sig.network = ThisNetwork
    <3>1. Approvals' = Approvals \cup {<<sig.key, sig.cell, sig.artifact>>}
      BY <2>2, <2>4 DEF Approvals
    <3> QED BY <2>2, <2>3, <3>1
  <2>5. CASE ~(sig.app = ThisApp /\ sig.network = ThisNetwork)
    BY <2>2, <2>5 DEF Approvals
  <2> QED BY <2>4, <2>5
<1>2. ASSUME UNCHANGED signed PROVE Approvals' = Approvals
  BY <1>2 DEF Approvals
<1> QED
  BY <1>1, <1>2, StepCases DEF create, register_cell, inscribe, update_owner, Transfer,
                               Reconfigure, Destroy, vars

\* Every step of the application is a step of the registry or leaves it alone.
LEMMA RegistryStep ==
  TypeOK /\ RegistryConsistent /\ [Next]_vars => [Registry!Next]_(Registry!vars)
<1> SUFFICES ASSUME TypeOK, RegistryConsistent, [Next]_vars
             PROVE  [Registry!Next]_(Registry!vars)
  OBVIOUS
<1> DEFINE E == [c \in Assets |-> RegistryEntry(c)]
<1>1. CASE UNCHANGED <<committed_pubkey, inscriptions>>
  <2>1. E' = E
    BY <1>1 DEF RegistryEntry
  <2>2. CASE Approvals' = Approvals
    BY <2>1, <2>2 DEF Registry!vars
  <2>3. CASE Approvals' # Approvals
    <3>1. PICK k \in Keys, c \in Assets, art \in Artifacts :
            Approvals' = Approvals \cup {<<k, c, art>>}
      BY <2>3, ApprovalStep
    <3>2. Registry!Approve(k, c, art)
      BY <2>1, <3>1 DEF Registry!Approve
    <3> QED BY <3>2 DEF Registry!Next
  <2> QED BY <2>2, <2>3
<1>2. ASSUME NEW c \in Assets, NEW owner \in Addresses \ {ZeroAddress}, NEW k \in WellFormedKeys,
             RegistersOnce(c), UNCHANGED inscriptions,
             committed_pubkey' = [committed_pubkey EXCEPT ![c] = k]
      PROVE  Registry!Next
  <2>1. committed_pubkey[c] = NoBox /\ inscriptions[c] = NoBox
    BY <1>2 DEF RegistersOnce, RegistryConsistent, Registered, Inscribed
  <2>2. k \in Keys /\ k # NoBox
    BY KeyAssumption
  <2>3. committed_pubkey' # committed_pubkey
    BY <1>2, <2>1, <2>2 DEF TypeOK
  <2>4. Registry!Cardinality(Registry!Used) < TOTAL_CELLS
    <3>1. Registry!Cardinality(Registered) = Cardinality(Registered)
      BY DEF Registry!Cardinality, Cardinality
    <3> QED BY <2>3, <3>1, KeysAndCounter, UsedEntries DEF RegistryConsistent
  <2>5. Approvals' = Approvals
    BY <2>3, ApprovalStep
  <2>6. E[c] = Registry!Blank
    BY <2>1 DEF RegistryEntry, Registry!Blank
  <2>7. E' = [E EXCEPT ![c] = Registry!Bound(k)]
    BY <1>2, <2>1, <2>2 DEF RegistryEntry, Registry!Bound, TypeOK
  <2>8. Registry!Bind(c, k)
    BY <2>4, <2>5, <2>6, <2>7 DEF Registry!Bind
  <2> QED BY <2>2, <2>8 DEF Registry!Next
<1>3. ASSUME NEW c \in Assets, NEW art \in Artifacts, NEW uri \in UriLengths, NEW s \in signed,
             c \in Registered, UriFits(uri), inscriptions[c] = NoBox,
             FalconVerify(BuildMessage(ThisApp, c, art, ThisNetwork), s, committed_pubkey[c]),
             controlling_owner[c] \in Accounts, UNCHANGED committed_pubkey,
             inscriptions' = [inscriptions EXCEPT ![c] =
                   [artifact_hash |-> art, inscriber |-> controlling_owner[c],
                    payload_uri |-> uri]]
      PROVE  Registry!Next
  <2> DEFINE rec == [artifact_hash |-> art, inscriber |-> controlling_owner[c],
                     payload_uri |-> uri]
  <2>1. committed_pubkey[c] # NoBox /\ committed_pubkey[c] \in Keys
    BY <1>3 DEF Registered, TypeOK
  <2>2. rec # NoBox /\ rec.artifact_hash = art
    BY <1>3, RecordAssumption, LimitAssumption DEF InscriptionRecord, UriFits
  <2>3. inscriptions' # inscriptions
    BY <1>3, <2>2 DEF TypeOK
  <2>4. Approvals' = Approvals
    BY <2>3, ApprovalStep
  <2>5. <<committed_pubkey[c], c, art>> \in Approvals
    BY <1>3 DEF FalconVerify, BuildMessage, Approvals
  <2>6. E[c] = Registry!Bound(committed_pubkey[c])
    BY <1>3, <2>1 DEF RegistryEntry, Registry!Bound
  <2>7. E' = [E EXCEPT ![c] = Registry!Sealed(committed_pubkey[c], art)]
    <3> HIDE DEF rec
    <3>1. inscriptions' = [inscriptions EXCEPT ![c] = rec]
      BY <1>3 DEF rec
    <3> QED BY <1>3, <2>1, <2>2, <3>1 DEF RegistryEntry, Registry!Sealed, TypeOK
  <2>8. Registry!Seal(c, committed_pubkey[c], art)
    BY <2>4, <2>5, <2>6, <2>7 DEF Registry!Seal
  <2> QED BY <2>1, <2>8 DEF Registry!Next
<1> QED BY <1>1, <1>2, <1>3, OwnersAndRecords

\* Every behaviour of the application is, cell by cell, a behaviour of a
\* registry whose entries are bound once and sealed once with an approved value.
THEOREM Refinement == Spec => ImplementsRegistry
<1>1. Init => Registry!Init
  BY DEF Init, Registry!Init, Registry!Blank, RegistryEntry, Approvals
<1> QED
  BY <1>1, RegistryStep, TypeCorrect, Consistency, PTL
     DEF Spec, ImplementsRegistry, Registry!Spec
=============================================================================
