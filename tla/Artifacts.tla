------------------------------ MODULE Artifacts ------------------------------
(***************************************************************************)
(* What is committed next to the contract - TEAL, source maps, ARC-56      *)
(* specification, typed client - and the programs that compare it with the *)
(* source and with the chain, each as the exit code it ends with:          *)
(* 0 agreed, 1 differs, 2 could not check.                                 *)
(***************************************************************************)
EXTENDS Integers

CONSTANTS
  Sources,     \* versions of inscription.py that compile to different programs
  Targets,     \* AVM versions a program can be compiled for
  AVM_TARGET,  \* the one verify_teal_matches_source.py pins
  Missing,     \* a file that is not there
  Garbled      \* a file whose JSON does not parse, a client without its block

\* External: compiling is a function of source and target.
Builds == [from : Sources, target : Targets]
Build(source, target) == [from |-> source, target |-> target]

\* TEAL assembles to a program; its comments may point at other lines.
Teal == [program : Builds, traced : BOOLEAN]

\* The typed client embeds a specification: its byteCode, and the rest of it,
\* which includes the TEAL source.
Client == [byteCode : Builds, rest : Builds]

Trees ==
  [source : Sources,
   teal   : Teal \cup {Missing},
   maps   : Builds \cup {Missing},            \* clear program and source maps
   spec   : Builds \cup {Missing, Garbled},   \* arc56.json
   client : Client \cup {Missing, Garbled}]

ASSUME ArtifactAssumption ==
  /\ AVM_TARGET \in Targets
  /\ Missing # Garbled
  /\ {Missing, Garbled} \cap (Teal \cup Builds \cup Client) = {}

\* Everything recompiled from one source.
Committed(source) ==
  LET build == Build(source, AVM_TARGET)
  IN  [source |-> source, teal |-> [program |-> build, traced |-> TRUE],
       maps |-> build, spec |-> build, client |-> [byteCode |-> build, rest |-> build]]

\* External: the factory of the typed client deploys what its embedded
\* specification holds, compiled from the TEAL in it or as bytes.
Deployable(tree) == {tree.client.byteCode, tree.client.rest}

---------------------------------------------------------------------------
(* Decisions, and slips in them *)

\* What generator_dropped leaves to compare; the slip compares seven keys.
Faulty_BehaviouralKeysOnly(client, spec) == client.byteCode = spec
WholeSpecMatches(client, spec) == client.byteCode = spec /\ client.rest = spec

Faulty_ErrorIsDrift == 1
CouldNotCheck == 2

---------------------------------------------------------------------------
(* contracts/verify_teal_matches_source.py *)

Fresh(tree) == Build(tree.source, AVM_TARGET)

\* _client_spec_matches returns a problem.
ClientProblem(tree) ==
  \/ tree.client \in {Missing, Garbled}
  \/ ~WholeSpecMatches(tree.client, tree.spec)

\* The artifact compiled and compared with itself: the client check alone is left.
Faulty_ComparedWithItself(tree) == {kind \in {"client"} : ClientProblem(tree)}

\* The three kinds of difference main reports, once everything was read.
DriftKinds(tree) ==
  {kind \in {"behavioural", "traceability", "client"} :
     \/ kind = "behavioural" /\ tree.teal.program # Fresh(tree)
     \/ kind = "traceability" /\ \/ ~tree.teal.traced /\ tree.teal.program = Fresh(tree)
                                 \/ tree.maps # Fresh(tree)
                                 \/ tree.spec # Fresh(tree)
     \/ kind = "client" /\ ClientProblem(tree)}

\* A missing TEAL file and a garbled specification raise what nothing catches,
\* which Python reports as 1.
verify_teal(tree, toolchain) ==
  IF tree.teal = Missing THEN 1
  ELSE IF \/ tree.teal.program.target # AVM_TARGET
          \/ ~toolchain
          \/ Missing \in {tree.maps, tree.spec}
       THEN CouldNotCheck
       ELSE IF tree.spec # Garbled /\ DriftKinds(tree) = {} THEN 0 ELSE 1

---------------------------------------------------------------------------
(* contracts/verify_client_matches_arc56.py *)

\* The specification is parsed before the client's block is looked for; the
\* material keys include byteCode and not the embedded TEAL.
verify_client(tree) ==
  IF Missing \in {tree.client, tree.spec} THEN 2
  ELSE IF tree.spec = Garbled THEN 1
       ELSE IF tree.client = Garbled THEN 2
            ELSE IF tree.client.byteCode = tree.spec THEN 0 ELSE 1

---------------------------------------------------------------------------
(* contracts/verify_deployment.py *)

\* An application as a node answers for it: its program, and how far its cell
\* has come (0: there is no such application).
Exists(app) == app.stage > 0

\* recompile_from_source for the target the committed TEAL names itself.
RecompileAgrees(tree) ==
  tree.teal.program = Build(tree.source, tree.teal.program.target)

verify_deployment(tree, app, node, recompile, toolchain) ==
  IF tree.teal = Missing \/ ~node \/ (recompile /\ ~toolchain)
  THEN CouldNotCheck
  ELSE IF recompile /\ ~RecompileAgrees(tree) THEN 1
       ELSE IF ~Exists(app) THEN CouldNotCheck
            ELSE IF tree.teal.program = app.program THEN 0 ELSE 1

---------------------------------------------------------------------------
(* sdk/examples/verify_trelyan.py *)

\* The boxes register_cell and inscribe leave.
Boxes(app) ==
  (IF app.stage >= 4 THEN {"k_", "o_"} ELSE {}) \cup (IF app.stage = 5 THEN {"i_"} ELSE {})

\* The checks that can fail: the package's version, the pinned fingerprint, the
\* committed TEAL if it is at hand, and boxes at all.
TrelyanFailures(tree, app, pin, released) ==
  {check \in {"version", "replaced", "committed TEAL", "boxes present"} :
     \/ check = "version" /\ ~released
     \/ check = "replaced" /\ app.program # pin
     \/ check = "committed TEAL" /\ tree.teal # Missing /\ tree.teal.program # app.program
     \/ check = "boxes present" /\ Boxes(app) = {}}

NotChecked(tree, app) ==
  {check \in {"committed TEAL", "registered keys"} :
     \/ check = "committed TEAL" /\ tree.teal = Missing
     \/ check = "registered keys" /\ "k_" \notin Boxes(app)}

\* get() has no handler: a node that does not answer, or answers 404, ends the
\* program with a traceback, which Python reports as 1.
verify_trelyan(tree, app, pin, node, released) ==
  IF ~node \/ ~Exists(app) THEN 1
  ELSE IF TrelyanFailures(tree, app, pin, released) # {} THEN 1
       ELSE IF NotChecked(tree, app) # {} THEN 2 ELSE 0

---------------------------------------------------------------------------
(* Gates of the redeploy workflow *)

\* The staged Falcon sources, by what differs from the pinned build.
StagedTrees == SUBSET {"no deterministic.c", "deterministic.c", "config.h", "another file"}

\* tree_digest covers every file; check_fp_backend reads config.h again.
DigestMatches(staged) == staged = {}
FpBackendEmulated(staged) == "config.h" \notin staged

verify_pinned_digest(staged) ==
  IF /\ "no deterministic.c" \notin staged
     /\ DigestMatches(staged)
     /\ FpBackendEmulated(staged)
  THEN 0 ELSE 1

\* contracts/require_testnet_deploy_secret.py
require_secret(mnemonic) == IF mnemonic = "none" THEN 1 ELSE 0
=============================================================================
