---------------------- MODULE SealedInscriptionProofs ----------------------
(***************************************************************************)
(* Proofs about SealedInscription.  The sealing side is a behaviour of     *)
(* SealFlow, so its theorems are cited rather than proved again; of the    *)
(* application only what it does to keys, records and signatures matters.  *)
(***************************************************************************)
EXTENDS SealedInscription, SealFlowProofs

---------------------------------------------------------------------------
(* The parts *)

\* A step of the system is a step of the sealing side or leaves it alone.
LEMMA SealProjectionStep == [SystemNext]_systemVars => [Next]_vars
<1> SUFFICES ASSUME [SystemNext]_systemVars PROVE Next \/ UNCHANGED vars
  OBVIOUS
<1>1. ASSUME NEW p \in Callers, SealReturn(p) PROVE Next
  BY <1>1 DEF SealReturn, Next, CallerStep
<1>2. ASSUME NEW p \in Callers, NEW c \in Cells, NEW isolated \in BOOLEAN,
             NEW request \in Requests, SealCall(p, c, isolated, request)
      PROVE  Next
  BY <1>2 DEF SealCall, Next
<1>3. ASSUME NEW p \in Callers, SealStep(p) PROVE Next
  BY <1>3 DEF SealStep, Next, CallerStep
<1>4. CASE DiskStep \/ \E s \in Processes : SealSigning(s)
  BY <1>4 DEF DiskStep, SealSigning, Next
<1>5. CASE AppStep \/ LedgerStep \/ UNCHANGED systemVars
  BY <1>5 DEF AppStep, LedgerStep, systemVars, sealVars
<1>6. ASSUME NEW s \in Chain!Signatures, OrdinarySign(s) PROVE UNCHANGED vars
  BY <1>6 DEF OrdinarySign, sealVars
<1> QED BY <1>1, <1>2, <1>3, <1>4, <1>5, <1>6 DEF SystemNext

\* What sealing does, whatever is done with its results, is what SealFlow says.
THEOREM SealProjection == SystemSpec => Spec
<1>1. SystemInit => Init
  BY DEF SystemInit
<1> QED BY <1>1, SealProjectionStep, PTL DEF SystemSpec, Spec

\* What a step of the application and of its ledger does to a cell's key and
\* record.
LEMMA ChainStep ==
  ASSUME Chain!TypeOK, Chain!AppStep \/ Chain!LedgerStep
  PROVE  /\ UNCHANGED signed
         /\ \A c \in Cells :
              /\ committed_pubkey'[c] = committed_pubkey[c]
                   \/ (committed_pubkey[c] = NoBox /\ committed_pubkey'[c] \in WellFormedKeys)
              /\ inscriptions'[c] = inscriptions[c]
                   \/ /\ committed_pubkey[c] # NoBox
                      /\ UNCHANGED committed_pubkey
                      /\ \E s \in signed :
                           /\ s.key = committed_pubkey[c]
                           /\ s.app = ThisApp /\ s.cell = c /\ s.network = ThisNetwork
                           /\ s.artifact = inscriptions'[c].artifact_hash
<1>1. ASSUME NEW sender \in Accounts, Chain!create(sender)
      PROVE  UNCHANGED <<signed, committed_pubkey, inscriptions>>
  BY <1>1 DEF Chain!create
<1>2. ASSUME NEW sender \in Accounts, NEW c \in Cells, NEW owner \in Chain!Addresses,
             NEW k \in Keys, Chain!register_cell(sender, c, owner, k)
      PROVE  /\ UNCHANGED <<signed, inscriptions>>
             /\ committed_pubkey[c] = NoBox /\ k \in WellFormedKeys
             /\ committed_pubkey' = [committed_pubkey EXCEPT ![c] = k]
  BY <1>2 DEF Chain!register_cell, Chain!RegistersOnce, Chain!KeyIsAcceptable
<1>3. ASSUME NEW sender \in Accounts, NEW c \in Cells, NEW owner \in Chain!Addresses,
             Chain!update_owner(sender, c, owner)
      PROVE  UNCHANGED <<signed, committed_pubkey, inscriptions>>
  BY <1>3 DEF Chain!update_owner
<1>4. ASSUME NEW sender \in Accounts, NEW c \in Cells, NEW art \in Artifacts, NEW s \in signed,
             NEW uri \in UriLengths, Chain!inscribe(sender, c, art, s, uri)
      PROVE  /\ UNCHANGED <<signed, committed_pubkey>>
             /\ committed_pubkey[c] # NoBox /\ s.key = committed_pubkey[c]
             /\ s.app = ThisApp /\ s.cell = c /\ s.network = ThisNetwork /\ s.artifact = art
             /\ inscriptions' = [inscriptions EXCEPT ![c] =
                  [artifact_hash |-> art, inscriber |-> sender, payload_uri |-> uri]]
  BY <1>4 DEF Chain!inscribe, Chain!FalconVerify, Chain!BuildMessage
<1>5. CASE Chain!LedgerStep
  BY <1>5 DEF Chain!LedgerStep, Chain!Transfer, Chain!Reconfigure, Chain!Destroy, Chain!appVars
<1>6. CASE \E sender \in Accounts, c \in Cells, art \in Artifacts, s \in signed,
             uri \in UriLengths : Chain!inscribe(sender, c, art, s, uri)
  <2>1. PICK sender \in Accounts, c \in Cells, art \in Artifacts, s \in signed,
             uri \in UriLengths : Chain!inscribe(sender, c, art, s, uri)
    BY <1>6
  <2> DEFINE rec == [artifact_hash |-> art, inscriber |-> sender, payload_uri |-> uri]
  <2>2. rec.artifact_hash = art
    OBVIOUS
  <2>3. inscriptions' = [inscriptions EXCEPT ![c] = rec]
    BY <1>4, <2>1
  <2> HIDE DEF rec
  <2>4. inscriptions'[c] = rec /\ \A d \in Cells \ {c} : inscriptions'[d] = inscriptions[d]
    BY <2>3 DEF Chain!TypeOK
  <2> QED BY <1>4, <2>1, <2>2, <2>4
<1>7. CASE \E sender \in Accounts, c \in Cells, owner \in Chain!Addresses, k \in Keys :
             Chain!register_cell(sender, c, owner, k)
  BY <1>2, <1>7 DEF Chain!TypeOK
<1> QED BY <1>1, <1>3, <1>5, <1>6, <1>7 DEF Chain!AppStep

---------------------------------------------------------------------------
(* Types *)

LEMMA SystemTypeInit == SystemInit => SystemTypeOK
<1> SUFFICES ASSUME SystemInit PROVE SystemTypeOK
  OBVIOUS
<1>1. TypeOK /\ asked \in [Callers -> Requests]
  BY TypeInit DEF SystemInit
<1>2. \A c \in Cells : AssetParams[c].creator \in Accounts
  BY ChainAssumption
<1>3. asset \in [Cells -> Chain!Roles]
  BY ChainAssumption DEF SystemInit, Chain!Init
<1>4. \A c \in Cells : holder[c] \in [Chain!Units(c) -> Accounts]
  BY <1>2 DEF SystemInit, Chain!Init
<1>5. Chain!TypeOK
  BY <1>3, <1>4 DEF SystemInit, Chain!Init, Chain!TypeOK
<1> QED BY <1>1, <1>5 DEF SystemTypeOK

\* The methods and the ledger keep their types.
LEMMA ChainTypeStep ==
  ASSUME Chain!TypeOK, Chain!AppStep \/ Chain!LedgerStep
  PROVE  Chain!TypeOK'
<1> USE DEF Chain!TypeOK, Chain!appVars, Chain!ledgerVars
<1>1. ASSUME NEW sender \in Accounts, Chain!create(sender) PROVE Chain!TypeOK'
  BY <1>1 DEF Chain!create, Chain!Units
<1>2. ASSUME NEW sender \in Accounts, NEW c \in Cells, NEW owner \in Chain!Addresses,
             NEW k \in Keys, Chain!register_cell(sender, c, owner, k)
      PROVE  Chain!TypeOK'
  BY <1>2 DEF Chain!register_cell, Chain!Units
<1>3. ASSUME NEW sender \in Accounts, NEW c \in Cells, NEW art \in Artifacts, NEW s \in signed,
             NEW uri \in UriLengths, Chain!inscribe(sender, c, art, s, uri)
      PROVE  Chain!TypeOK'
  <2>1. uri \in 0 .. URI_MAXLEN
    BY <1>3, ChainAssumption DEF Chain!inscribe, Chain!UriFits
  <2>2. [artifact_hash |-> art, inscriber |-> sender, payload_uri |-> uri]
          \in Chain!InscriptionRecord
    BY <2>1 DEF Chain!InscriptionRecord
  <2> QED BY <1>3, <2>2 DEF Chain!inscribe, Chain!Units
<1>4. ASSUME NEW sender \in Accounts, NEW c \in Cells, NEW owner \in Chain!Addresses,
             Chain!update_owner(sender, c, owner)
      PROVE  Chain!TypeOK'
  BY <1>4 DEF Chain!update_owner, Chain!Units
<1>5. ASSUME NEW c \in Cells, NEW n \in Chain!Units(c), NEW to \in Accounts,
             Chain!Transfer(c, n, to)
      PROVE  Chain!TypeOK'
  <2>1. \A d \in Cells : holder'[d] \in [Chain!Units(d) -> Accounts]
    BY <1>5 DEF Chain!Transfer
  <2> QED BY <1>5, <2>1 DEF Chain!Transfer, Chain!Units
<1>6. ASSUME NEW c \in Cells, NEW roles \in RoleChoices, Chain!Reconfigure(c, roles)
      PROVE  Chain!TypeOK'
  BY <1>6, ChainAssumption DEF Chain!Reconfigure, Chain!Units
<1>7. ASSUME NEW c \in Cells, Chain!Destroy(c) PROVE Chain!TypeOK'
  <2>1. [exists |-> FALSE, manager |-> ZeroAddress, freeze |-> ZeroAddress,
         clawback |-> ZeroAddress] \in Chain!Roles
    BY DEF Chain!Roles, Chain!Addresses
  <2> QED BY <1>7, <2>1 DEF Chain!Destroy, Chain!Units
<1> HIDE DEF Chain!TypeOK
<1>8. CASE Chain!AppStep
  BY <1>1, <1>2, <1>3, <1>4, <1>8 DEF Chain!AppStep
<1>9. CASE Chain!LedgerStep
  BY <1>5, <1>6, <1>7, <1>9 DEF Chain!LedgerStep
<1> QED BY <1>8, <1>9

\* A caller's signature has the fields of one, and a key no other call has.
LEMMA SealedSignatureType ==
  ASSUME SystemTypeOK, NumbersInv, NEW p \in Callers, pc[p] # "idle"
  PROVE  /\ call[p].number \in 1 .. MaxCalls
         /\ SealedSignature(p) \in Chain!Signatures
         /\ SealedSignature(p).key = SealKey[call[p].number]
         /\ SealedSignature(p).cell = call[p].cell
<1>1. call[p].number \in 1 .. MaxCalls
  BY BoundAssumption DEF NumbersInv, SystemTypeOK, TypeOK
<1>2. SealKey[call[p].number] \in Keys
  BY <1>1, SealKeyAssumption, ChainAssumption
<1>3. call[p].cell \in Cells /\ asked[p] \in Requests
  BY DEF SystemTypeOK, TypeOK, CallRecord
<1> QED
  BY <1>1, <1>2, <1>3 DEF SealedSignature, KeyOfCall, Requests, Chain!Signatures

LEMMA SystemTypeStep ==
  SystemTypeOK /\ NumbersInv /\ [SystemNext]_systemVars => SystemTypeOK'
<1> SUFFICES ASSUME SystemTypeOK, NumbersInv, [SystemNext]_systemVars PROVE SystemTypeOK'
  OBVIOUS
<1>1. TypeOK'
  BY SealProjectionStep, TypeStep DEF SystemTypeOK
<1>2. ASSUME UNCHANGED <<chainVars, signed>> PROVE Chain!TypeOK'
  BY <1>2 DEF SystemTypeOK, Chain!TypeOK, chainVars, Chain!Units
<1>3. ASSUME NEW p \in Callers, NEW c \in Cells, NEW isolated \in BOOLEAN,
             NEW request \in Requests, SealCall(p, c, isolated, request)
      PROVE  Chain!TypeOK' /\ asked' \in [Callers -> Requests]
  BY <1>2, <1>3 DEF SealCall, SystemTypeOK
<1>4. ASSUME NEW p \in Callers, SealReturn(p)
      PROVE  Chain!TypeOK' /\ asked' \in [Callers -> Requests]
  <2>1. SealedSignature(p) \in Chain!Signatures
    BY <1>4, SealedSignatureType DEF SealReturn, Return
  <2> QED BY <1>4, <2>1 DEF SealReturn, SystemTypeOK, Chain!TypeOK, chainVars, Chain!Units
<1>5. CASE \/ \E p \in Callers : SealStep(p)
           \/ \E s \in Processes : SealSigning(s)
           \/ DiskStep \/ UNCHANGED systemVars
  BY <1>1, <1>2, <1>5 DEF SealStep, SealSigning, DiskStep, systemVars, SystemTypeOK
<1>6. CASE AppStep \/ LedgerStep
  BY <1>1, <1>6, ChainTypeStep DEF AppStep, LedgerStep, SystemTypeOK
<1>7. ASSUME NEW s \in Chain!Signatures, OrdinarySign(s)
      PROVE  Chain!TypeOK' /\ asked' \in [Callers -> Requests]
  BY <1>7 DEF OrdinarySign, Chain!Sign, SystemTypeOK, Chain!TypeOK, Chain!appVars,
              Chain!ledgerVars, Chain!Units
<1> QED BY <1>1, <1>3, <1>4, <1>5, <1>6, <1>7 DEF SystemNext, SystemTypeOK

\* Every variable of the system keeps its type.
THEOREM SystemTypes == SystemSpec => []SystemTypeOK
<1>1. SystemSpec => []NumbersInv
  BY SealProjection, CallsAreDistinct
<1> QED BY <1>1, SystemTypeInit, SystemTypeStep, PTL DEF SystemSpec

---------------------------------------------------------------------------
(* Sealed keys, with any writers and faults *)

\* The sealed signatures that exist are those that calls returned, one each.
ReturnedInv ==
  /\ \A s \in signed : s.key \in SealedKeys =>
       \E r \in returned : s.key = SealKey[r[1]] /\ s.cell = r[2]
  /\ \A r \in returned : \E s \in signed : s.key = SealKey[r[1]] /\ s.cell = r[2]

\* Only a return adds a sealed signature.
LEMMA SignedStep ==
  ASSUME SystemTypeOK, [SystemNext]_systemVars
  PROVE  \/ \E p \in Callers : SealReturn(p)
         \/ /\ UNCHANGED returned
            /\ signed \subseteq signed'
            /\ \A s \in signed' \ signed : s.key \notin SealedKeys
<1>1. ASSUME NEW p \in Callers, SealStep(p) PROVE UNCHANGED <<returned, signed>>
  BY <1>1 DEF SealStep, Check, Collect, TimeOut, Load, Write, Fsync, Replace, RecordFails,
              Kill, Interrupt
<1>2. CASE DiskStep
  BY <1>2 DEF DiskStep, Persist, PowerLoss
<1>3. CASE AppStep \/ LedgerStep
  BY <1>3, ChainStep DEF AppStep, LedgerStep, sealVars, vars, SystemTypeOK
<1>4. ASSUME NEW s \in Chain!Signatures, OrdinarySign(s)
      PROVE  UNCHANGED returned /\ signed' = signed \cup {s} /\ s.key \notin SealedKeys
  BY <1>4 DEF OrdinarySign, Chain!Sign, sealVars, vars
<1>5. CASE UNCHANGED systemVars
  BY <1>5 DEF systemVars, sealVars, vars
<1>6. ASSUME NEW p \in Callers, NEW c \in Cells, NEW isolated \in BOOLEAN,
             NEW request \in Requests, SealCall(p, c, isolated, request)
      PROVE  UNCHANGED <<returned, signed>>
  BY <1>6 DEF SealCall, Call
<1>7. ASSUME NEW s \in Processes, SealSigning(s) PROVE UNCHANGED <<returned, signed>>
  BY <1>7, SigningTypes DEF SealSigning, SystemTypeOK
<1> QED BY <1>1, <1>2, <1>3, <1>4, <1>5, <1>6, <1>7 DEF SystemNext

\* What a return adds is for a key that has signed nothing yet.
LEMMA ReturnAdds ==
  ASSUME SystemTypeOK, NumbersInv, ReturnedInv, NEW p \in Callers, SealReturn(p)
  PROVE  /\ signed' = signed \cup {SealedSignature(p)}
         /\ returned' = returned \cup {<<call[p].number, call[p].cell>>}
         /\ SealedSignature(p).key = SealKey[call[p].number]
         /\ SealedSignature(p).cell = call[p].cell
         /\ \A s \in signed : s.key # SealKey[call[p].number]
<1>1. /\ pc[p] # "idle"
      /\ signed' = signed \cup {SealedSignature(p)}
      /\ returned' = returned \cup {<<call[p].number, call[p].cell>>}
  BY DEF SealReturn, Return
<1>2. call[p].number \in 1 .. MaxCalls
  BY <1>1, SealedSignatureType
<1>3. ASSUME NEW s \in signed, s.key = SealKey[call[p].number] PROVE FALSE
  <2>1. PICK r \in returned : s.key = SealKey[r[1]]
    BY <1>2, <1>3 DEF ReturnedInv, SealedKeys
  <2>2. r[1] \in 1 .. MaxCalls /\ r[1] # call[p].number
    BY <1>1, BoundAssumption DEF NumbersInv, SystemTypeOK, TypeOK
  <2> QED BY <1>2, <1>3, <2>1, <2>2, SealKeyAssumption
<1> QED BY <1>1, <1>3, SealedSignatureType

LEMMA ReturnedStep ==
  SystemTypeOK /\ NumbersInv /\ ReturnedInv /\ SealedKeySignsOnce /\ [SystemNext]_systemVars
    => ReturnedInv' /\ SealedKeySignsOnce'
<1> SUFFICES ASSUME SystemTypeOK, NumbersInv, ReturnedInv, SealedKeySignsOnce,
                    [SystemNext]_systemVars
             PROVE  ReturnedInv' /\ SealedKeySignsOnce'
  OBVIOUS
<1> USE DEF ReturnedInv, SealedKeySignsOnce, SealedKeys
<1>1. ASSUME NEW p \in Callers, SealReturn(p) PROVE ReturnedInv' /\ SealedKeySignsOnce'
  <2> DEFINE new == SealedSignature(p)  entry == <<call[p].number, call[p].cell>>
  <2>1. /\ signed' = signed \cup {new} /\ returned' = returned \cup {entry}
        /\ new.key = SealKey[entry[1]] /\ new.cell = entry[2]
        /\ \A s \in signed : s.key # new.key
    BY <1>1, ReturnAdds
  <2> HIDE DEF new, entry
  <2> QED BY <2>1
<1>2. ASSUME UNCHANGED returned, signed \subseteq signed',
             \A s \in signed' \ signed : s.key \notin SealedKeys
      PROVE  ReturnedInv' /\ SealedKeySignsOnce'
  BY <1>2
<1> QED BY <1>1, <1>2, SignedStep

LEMMA ReturnedInit == SystemInit => ReturnedInv /\ SealedKeySignsOnce
BY DEF SystemInit, Init, Chain!Init, ReturnedInv, SealedKeySignsOnce

\* A sealed key signs one message, for any number of writers, whatever is killed
\* and whatever the disk forgets.
THEOREM SignsOnce == SystemSpec => []SealedKeySignsOnce
<1>1. SystemSpec => []NumbersInv
  BY SealProjection, CallsAreDistinct
<1> QED BY <1>1, ReturnedInit, ReturnedStep, SystemTypes, PTL DEF SystemSpec

---------------------------------------------------------------------------
(* Sealed keys on the chain *)

\* A registered sealed key has its signature, and a record the signature it was
\* accepted for.
RecordInv ==
  \A c \in Cells :
    /\ committed_pubkey[c] \in SealedKeys => \E s \in signed : s.key = committed_pubkey[c]
    /\ inscriptions[c] # NoBox =>
         /\ committed_pubkey[c] # NoBox
         /\ \E s \in signed :
              /\ s.key = committed_pubkey[c]
              /\ s.app = ThisApp /\ s.cell = c /\ s.network = ThisNetwork
              /\ s.artifact = inscriptions[c].artifact_hash

\* Signatures stay, and a key that is registered was returned with one.
LEMMA RecordStep ==
  SystemTypeOK /\ NumbersInv /\ ReturnedInv /\ RecordInv /\ [SystemNext]_systemVars => RecordInv'
<1> SUFFICES ASSUME SystemTypeOK, NumbersInv, ReturnedInv, RecordInv, [SystemNext]_systemVars
             PROVE  RecordInv'
  OBVIOUS
<1>1. NoBox \notin SealedKeys /\ NoBox \notin WellFormedKeys
  BY SealKeyAssumption, ChainAssumption DEF SealedKeys
<1>2. SealedKeys' = SealedKeys
  BY DEF SealedKeys
<1>3. signed \subseteq signed'
  BY SignedStep, ReturnAdds
<1>4. ASSUME UNCHANGED <<committed_pubkey, inscriptions>> PROVE RecordInv'
  BY <1>2, <1>3, <1>4 DEF RecordInv
<1>5. CASE AppStep
  <2>1. /\ UNCHANGED signed /\ KeysAreKnown
        /\ Chain!TypeOK /\ Chain!AppStep
    BY <1>5, ChainStep DEF AppStep, SystemTypeOK
  <2> SUFFICES ASSUME NEW c \in Cells
               PROVE  /\ committed_pubkey'[c] \in SealedKeys =>
                           \E s \in signed : s.key = committed_pubkey'[c]
                      /\ inscriptions'[c] # NoBox =>
                           /\ committed_pubkey'[c] # NoBox
                           /\ \E s \in signed :
                                /\ s.key = committed_pubkey'[c]
                                /\ s.app = ThisApp /\ s.cell = c /\ s.network = ThisNetwork
                                /\ s.artifact = inscriptions'[c].artifact_hash
    BY <1>2, <2>1 DEF RecordInv
  <2>2. ASSUME committed_pubkey'[c] # committed_pubkey[c], committed_pubkey'[c] \in SealedKeys
        PROVE  \E s \in signed : s.key = committed_pubkey'[c]
    <3>1. committed_pubkey'[c] \in ReturnedKeys
      BY <2>1, <2>2 DEF KeysAreKnown
    <3>2. PICK r \in returned : committed_pubkey'[c] = SealKey[r[1]]
      BY <3>1 DEF ReturnedKeys
    <3> QED BY <3>2 DEF ReturnedInv
  <2>3. committed_pubkey'[c] \in SealedKeys => \E s \in signed : s.key = committed_pubkey'[c]
    BY <2>2 DEF RecordInv
  <2>4. CASE inscriptions'[c] = inscriptions[c]
    <3>1. inscriptions[c] # NoBox => committed_pubkey'[c] = committed_pubkey[c]
      BY <2>1, ChainStep DEF RecordInv
    <3> QED BY <2>3, <2>4, <3>1 DEF RecordInv
  <2>5. CASE inscriptions'[c] # inscriptions[c]
    <3>1. /\ committed_pubkey'[c] # NoBox
          /\ \E s \in signed :
               /\ s.key = committed_pubkey'[c]
               /\ s.app = ThisApp /\ s.cell = c /\ s.network = ThisNetwork
               /\ s.artifact = inscriptions'[c].artifact_hash
      BY <2>1, <2>5, ChainStep
    <3> QED BY <2>3, <3>1
  <2> QED BY <2>4, <2>5
<1>6. ASSUME NEW p \in Callers,
             SealReturn(p) \/ SealStep(p)
               \/ \E c \in Cells, isolated \in BOOLEAN, request \in Requests :
                    SealCall(p, c, isolated, request)
      PROVE  UNCHANGED <<committed_pubkey, inscriptions>>
  BY <1>6 DEF SealReturn, SealStep, SealCall, chainVars
<1>7. CASE DiskStep \/ (\E s \in Processes : SealSigning(s)) \/ UNCHANGED systemVars
  BY <1>4, <1>7 DEF DiskStep, SealSigning, chainVars, systemVars
<1>8. CASE LedgerStep
  BY <1>4, <1>8
     DEF LedgerStep, Chain!LedgerStep, Chain!Transfer, Chain!Reconfigure, Chain!Destroy,
         Chain!appVars
<1>9. ASSUME NEW s \in Chain!Signatures, OrdinarySign(s)
      PROVE  UNCHANGED <<committed_pubkey, inscriptions>>
  BY <1>9 DEF OrdinarySign, Chain!Sign, Chain!appVars
<1> QED BY <1>4, <1>5, <1>6, <1>7, <1>8, <1>9 DEF SystemNext

LEMMA RecordInit == SystemInit => RecordInv
<1> SUFFICES ASSUME SystemInit PROVE RecordInv
  OBVIOUS
<1>1. NoBox \notin SealedKeys
  BY SealKeyAssumption, ChainAssumption DEF SealedKeys
<1>2. \A c \in Cells : committed_pubkey[c] = NoBox /\ inscriptions[c] = NoBox
  BY DEF SystemInit, Chain!Init
<1> QED BY <1>1, <1>2 DEF RecordInv

LEMMA RecordsHold == SystemSpec => [](NumbersInv /\ ReturnedInv /\ SealedKeySignsOnce /\ RecordInv)
<1>1. SystemSpec => []NumbersInv
  BY SealProjection, CallsAreDistinct
<1> QED
  BY <1>1, ReturnedInit, ReturnedStep, RecordInit, RecordStep, SystemTypes, PTL DEF SystemSpec

\* When a sealed key is registered, the signature that inscribes its cell exists
\* and has left the API, and it is the only one there will be: the record of the
\* cell, if it ever gets one, is decided.
THEOREM Decides == SystemSpec => []RegistrationDecides
<1>1. RecordInv => RegistrationDecides
  BY DEF RecordInv, RegistrationDecides
<1> QED BY <1>1, RecordsHold, PTL

\* No two cells are inscribed with one sealed key.
THEOREM InscribesOneCell == SystemSpec => []SealedKeyInscribesOneCell
<1>1. RecordInv /\ SealedKeySignsOnce => SealedKeyInscribesOneCell
  BY DEF RecordInv, SealedKeySignsOnce, SealedKeyInscribesOneCell
<1> QED BY <1>1, RecordsHold, PTL

\* A single writer without power losses seals a cell number once, for all
\* applications, artifacts and networks together.
THEOREM SealedOncePerCell ==
  ASSUME SingleWriter, "powerloss" \notin Faults
  PROVE  SystemSpec => []OneSealedSignaturePerCell
<1>1. SystemSpec => []OneSignaturePerCell
  BY SealProjection, SealedOnce
<1>2. ReturnedInv /\ SealedKeySignsOnce /\ OneSignaturePerCell => OneSealedSignaturePerCell
  <2> SUFFICES ASSUME ReturnedInv, SealedKeySignsOnce, OneSignaturePerCell,
                      NEW s \in signed, NEW t \in signed,
                      s.key \in SealedKeys, t.key \in SealedKeys, s.cell = t.cell
               PROVE  s = t
    BY DEF OneSealedSignaturePerCell
  <2>1. PICK r \in returned : s.key = SealKey[r[1]] /\ s.cell = r[2]
    BY DEF ReturnedInv
  <2>2. PICK q \in returned : t.key = SealKey[q[1]] /\ t.cell = q[2]
    BY DEF ReturnedInv
  <2>3. r = q
    BY <2>1, <2>2 DEF OneSignaturePerCell
  <2> QED BY <2>1, <2>2, <2>3 DEF SealedKeySignsOnce
<1> QED BY <1>1, <1>2, RecordsHold, PTL
=============================================================================
