------------------------- MODULE DeploymentOnChain -------------------------
(***************************************************************************)
(* What module Deployment says of the chain - a call of a run moves the    *)
(* one cell of its application one stage on - against module Inscription,  *)
(* which says what the application does with a call.  One account deploys, *)
(* registers one key for one cell, and signs one artifact.                 *)
(*                                                                         *)
(* The payment to the application and the creation of the asset change     *)
(* nothing of the application's own; the asset is there from the start,    *)
(* held by the deployer with every role cleared.                           *)
(***************************************************************************)
EXTENDS Deployment

CONSTANTS
  TheApp,   \* the application of one run
  NoBox     \* the content of a box that does not exist

Record == [artifact_hash |-> ArtifactHash, inscriber |-> "deployer", payload_uri |-> 0]

ASSUME OnChainAssumption ==
  /\ TheApp \in 1 .. MaxRuns
  /\ NoBox \notin {"deployer", "key", Record}

TheCell == CellOf(TheApp)
Reached(stage) == chain[TheApp].stage >= stage

\* A signature that verifies for this application, cell, artifact and network.
TheSignature ==
  [key |-> "key", app |-> TheApp, cell |-> TheCell, artifact |-> ArtifactHash, network |-> "own"]
SignedByRun ==
  /\ signature[TheApp].sound
  /\ signature[TheApp].message =
       app_build_message(TheApp, TheCell, ArtifactHash, GenesisOf[signature[TheApp].network])

Boxed(stage, content) == [c \in {TheCell} |-> IF Reached(stage) THEN content ELSE NoBox]

Application == INSTANCE Inscription WITH
  Accounts <- {"deployer"}, Unsignable <- {}, ZeroAddress <- "zero", NoAdmin <- "no-admin",
  Assets <- {TheCell},
  AssetParams <- [c \in {TheCell} |-> [creator |-> "deployer", total |-> 1, decimals |-> 0]],
  RoleChoices <- {[exists |-> TRUE, manager |-> "zero", freeze |-> "zero", clawback |-> "zero"]},
  Keys <- {"key"}, WellFormedKeys <- {"key"},
  Artifacts <- {ArtifactHash}, UriLengths <- {0}, URI_MAXLEN <- 0, TOTAL_CELLS <- 1,
  ThisApp <- TheApp, Networks <- {"own"}, ThisNetwork <- "own", MaxSigned <- 1,
  admin <- IF Reached(1) THEN "deployer" ELSE "no-admin",
  cells_registered <- IF Reached(4) THEN 1 ELSE 0,
  committed_pubkey <- Boxed(4, "key"),
  controlling_owner <- Boxed(4, "deployer"),
  inscriptions <- Boxed(5, Record),
  asset <- [c \in {TheCell} |->
              [exists |-> TRUE, manager |-> "zero", freeze |-> "zero", clawback |-> "zero"]],
  holder <- [c \in {TheCell} |-> [n \in 1 .. 1 |-> "deployer"]],
  signed <- IF SignedByRun THEN {TheSignature} ELSE {}

---------------------------------------------------------------------------
(* Properties *)

\* Whatever the network delays, drops or misreports, and however the later runs go,
\* the application of a run goes through a behaviour of inscription.py: the
\* calls of deploy_testnet.main and of the examples come in an order its
\* methods accept, and only a signature made for it is ever accepted.
RunsTheApplication == Application!Spec
=============================================================================
