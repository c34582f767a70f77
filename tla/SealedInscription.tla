------------------------- MODULE SealedInscription -------------------------
(***************************************************************************)
(* Sign-once-destroy in front of the chain: the keys that SealFlow makes   *)
(* and wipes (sdk/src/trelyan_pq/seal.py) are registered with, and their   *)
(* signatures presented to, the application (contracts/inscription.py).    *)
(* Beside them anybody may make and use keys of the ordinary kind.         *)
(*                                                                         *)
(* A call to a seal carries the fields of the message it signs.  What it   *)
(* returns, the public key and the signature, is public from then on; what *)
(* it had not returned when it was killed is nobody's.                     *)
(***************************************************************************)
EXTENDS SealFlow

CONSTANTS
  Accounts, Unsignable, ZeroAddress, NoAdmin, NoBox, AssetParams, RoleChoices, Keys, WellFormedKeys,
  Artifacts, UriLengths, URI_MAXLEN, TOTAL_CELLS, Apps, ThisApp, Networks, ThisNetwork, MaxSigned,
  SealKey   \* external: the public key that key generation makes in each call

VARIABLES
  admin, cells_registered, committed_pubkey, controlling_owner, inscriptions,
  asset, holder, signed,
  asked     \* the app, artifact and network each caller's call was given

Chain == INSTANCE Inscription WITH Assets <- Cells

sealVars == vars
chainVars == <<admin, cells_registered, committed_pubkey, controlling_owner, inscriptions,
               asset, holder>>
systemVars == <<sealVars, chainVars, signed, asked>>

\* Key generation draws from the system's entropy: no two calls get one key.
ASSUME SealKeyAssumption ==
  /\ SealKey \in [1 .. MaxCalls -> WellFormedKeys]
  /\ \A m, n \in 1 .. MaxCalls : SealKey[m] = SealKey[n] => m = n

\* Of what Inscription assumes, what is needed here.
ASSUME ChainAssumption ==
  /\ WellFormedKeys \subseteq Keys /\ NoBox \notin Keys
  /\ AssetParams \in [Cells -> [creator : Accounts, total : Nat, decimals : Nat]]
  /\ RoleChoices \subseteq {r \in Chain!Roles : r.exists}
  /\ UriLengths \subseteq Nat /\ URI_MAXLEN \in Nat
  /\ ThisApp \in Apps /\ ThisNetwork \in Networks
  /\ NoBox \notin Chain!InscriptionRecord

Requests == [app : Apps, artifact : Artifacts, network : Networks]

SystemTypeOK ==
  /\ TypeOK
  /\ Chain!TypeOK
  /\ asked \in [Callers -> Requests]

---------------------------------------------------------------------------

SealedKeys == {SealKey[n] : n \in 1 .. MaxCalls}

\* The key pair of a call; the slip keeps the signer's first one.
Faulty_KeyPairReused(p) == SealKey[1]
KeyOfCall(p) == SealKey[call[p].number]

\* What a call signs.
SealedSignature(p) ==
  [key |-> KeyOfCall(p), app |-> asked[p].app, cell |-> call[p].cell,
   artifact |-> asked[p].artifact, network |-> asked[p].network]

\* The sealed keys that have left the API, with the signature they made; the slip
\* gives the key out as soon as the call has begun.
Faulty_KeyGivenOutFirst == {KeyOfCall(p) : p \in {q \in Callers : pc[q] # "idle"}}
ReturnedKeys == {SealKey[r[1]] : r \in returned}

\* register_cell is given a key that somebody can know.
KeysAreKnown ==
  \A c \in Cells :
    committed_pubkey'[c] # committed_pubkey[c] =>
      committed_pubkey'[c] \notin SealedKeys \/ committed_pubkey'[c] \in ReturnedKeys

---------------------------------------------------------------------------

SystemInit ==
  /\ Init
  /\ Chain!Init
  /\ asked \in [Callers -> Requests]

SealCall(p, c, isolated, request) ==
  /\ Call(p, c, isolated)
  /\ asked' = [asked EXCEPT ![p] = request]
  /\ UNCHANGED <<chainVars, signed>>

SealReturn(p) ==
  /\ Return(p)
  /\ signed' = signed \cup {SealedSignature(p)}
  /\ UNCHANGED <<chainVars, asked>>

SealStep(p) ==
  /\ \/ Check(p) \/ Collect(p) \/ TimeOut(p)
     \/ Load(p) \/ Write(p) \/ Fsync(p) \/ Replace(p) \/ RecordFails(p)
     \/ Kill(p) \/ Interrupt(p)
  /\ UNCHANGED <<chainVars, signed, asked>>

SealSigning(s) == SigningStep(s) /\ UNCHANGED <<chainVars, signed, asked>>

DiskStep == (Persist \/ PowerLoss) /\ UNCHANGED <<chainVars, signed, asked>>

AppStep == Chain!AppStep /\ KeysAreKnown /\ UNCHANGED <<sealVars, asked>>

LedgerStep == Chain!LedgerStep /\ UNCHANGED <<sealVars, asked>>

\* Somebody signs with a key that no seal made.
OrdinarySign(s) ==
  /\ s.key \notin SealedKeys
  /\ Chain!Sign(s)
  /\ UNCHANGED <<sealVars, asked>>

SystemNext ==
  \/ \E p \in Callers :
       \/ \E c \in Cells, isolated \in BOOLEAN, request \in Requests :
            SealCall(p, c, isolated, request)
       \/ SealReturn(p)
       \/ SealStep(p)
  \/ \E s \in Processes : SealSigning(s)
  \/ DiskStep
  \/ AppStep
  \/ LedgerStep
  \/ \E s \in Chain!Signatures : OrdinarySign(s)

SystemSpec == SystemInit /\ [][SystemNext]_systemVars

---------------------------------------------------------------------------
(* Properties *)

\* A sealed key signs one message, ever - whatever happens to the seal file: with
\* several writers and after power losses, when the file does not hold a cell
\* it should, a second seal of that cell is one of another key.
SealedKeySignsOnce ==
  \A s, t \in signed : s.key = t.key /\ s.key \in SealedKeys => s = t

\* So registering a sealed key decides the cell: its one signature is already
\* in the owner's hands - no crash of a seal can strand a registered cell - and a
\* record of the cell is the artifact that was sealed for it.
RegistrationDecides ==
  \A c \in Cells :
    committed_pubkey[c] \in SealedKeys =>
      \E s \in signed :
        /\ s.key = committed_pubkey[c]
        /\ inscriptions[c] # NoBox =>
             /\ s.app = ThisApp /\ s.cell = c /\ s.network = ThisNetwork
             /\ s.artifact = inscriptions[c].artifact_hash

\* And no second cell is inscribed with it, though the application would
\* register the key again.
SealedKeyInscribesOneCell ==
  \A c, d \in Cells :
    /\ inscriptions[c] # NoBox /\ inscriptions[d] # NoBox
    /\ committed_pubkey[c] = committed_pubkey[d] /\ committed_pubkey[c] \in SealedKeys
    => c = d

\* With one writer and no power loss the file adds what the chain cannot know:
\* one sealed signature per cell number, over all applications and networks.
OneSealedSignaturePerCell ==
  \A s, t \in signed :
    s.key \in SealedKeys /\ t.key \in SealedKeys /\ s.cell = t.cell => s = t
=============================================================================
