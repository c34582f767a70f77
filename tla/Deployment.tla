----------------------------- MODULE Deployment -----------------------------
(***************************************************************************)
(* Putting the application on TestNet and checking that it is the reviewed *)
(* one: contracts/deploy_testnet.py, run directly, by the two wrappers in  *)
(* scripts/ or by the redeploy workflow, and the same sequence through the *)
(* SDK client in sdk/examples/.  A run keeps its key in memory, leaves its *)
(* application on the chain wherever it stops, and cannot be resumed.      *)
(*                                                                         *)
(* External: the network (a call may be refused, pending, or pending while *)
(* the program is told it failed; it lands or is dropped later), the       *)
(* faucet, the commits that change the tree between runs, and the person   *)
(* who retargets the checks to a new application.  What the application    *)
(* does with a call is module Inscription's subject; here a call moves the *)
(* one cell of a run one stage on.                                         *)
(*                                                                         *)
(* Money is counted in units of 100 microALGO.                             *)
(***************************************************************************)
EXTENDS Artifacts, Message

CONSTANTS
  MaxRuns,          \* bound on the runs
  MaxCommits,       \* bound on the commits
  FirstSource,      \* the version of inscription.py the history starts with
  EarlierApps,      \* what an earlier run may have left: a stage and a program
  Environments,     \* what a run can be started with
  AccountFunds,     \* what the account of a run can hold
  Grants,           \* what the faucet can give at a time
  MaxGrants,        \* bound on the money of a fresh account
  POLL_LIMIT,       \* how often the fresh wrapper looks for its money
  ArtifactHash,     \* the artifact a run inscribes
  GenesisOf         \* the genesis hash of each network

VARIABLES
  tree,       \* the committed files
  commits,    \* number of commits made
  target,     \* DEFAULT_APP_ID of the checks
  pin,        \* PINNED_ON_CHAIN_SHA512_256: the program it stands for
  chain,      \* per application: the stage of its cell, and its program
  signature,  \* per application: what its run signed
  funds,      \* per run: the money of its account
  pool,       \* transactions pending in the network
  landed,     \* transactions the chain has executed
  runs,       \* number of runs started; run n creates application n
  run,        \* what the current run was started with
  step,       \* where the current run is
  waiting,    \* the current call was submitted and not yet answered
  polls,      \* looks at the balance so far
  known,      \* the app_id the run wrote for the workflow
  exit,       \* how the run's program ended
  job         \* how the workflow's job ended

chainVars == <<chain, signature, funds, pool, landed>>
repoVars == <<tree, commits, target, pin>>
runVars == <<runs, run, step, waiting, polls, known, exit, job>>
deployVars == <<chainVars, repoVars, runVars>>

\* Application 0 is the one an earlier run left.
Apps == 0 .. MaxRuns
NoId == -1

Wrapped == {"workflow", "fresh", "secure"}
Scripted == Wrapped \cup {"direct"}
Examples == {"quickstart", "interop"}

\* The Falcon library: FALCON_DET1024_LIB unset, unset but built where the
\* wrappers look, naming a file that is gone, one whose signatures the chain
\* rejects, or the pinned one.  The workflow builds its own from staged sources.
Libs == {"unset", "built", "stale", "divergent", "pinned"}
Networks == {"testnet", "other"}

Runs ==
  [entry : Scripted \cup Examples, lib : Libs, mnemonic : {"none", "short", "good"},
   network : Networks, staged : StagedTrees]

Steps ==
  {"none", "gate", "poll", "start", "create", "output", "fund", "keygen", "mint", "register",
   "sign", "inscribe-1", "ask", "inscribe-2", "read-back", "verify", "job", "over"}

Calls == {"create", "fund", "mint", "register", "inscribe-1", "inscribe-2"}
DeployTxs == [app : Apps, call : Calls]

\* The stage of a cell that a call leads to.
Leads == [call \in Calls |->
            CASE call = "create" -> 1 [] call = "fund" -> 2 [] call = "mint" -> 3
              [] call = "register" -> 4 [] OTHER -> 5]

\* The ledger numbers applications and assets as they come, in eight bytes.
CellOf(app) == MaxRuns + 1 + app
Ids == 0 .. CellOf(MaxRuns)

Signed == [message : Seq(Bytes), sound : BOOLEAN, network : Networks]
NoSignature == [message |-> Refused, sound |-> FALSE, network |-> "testnet"]
NoRun ==
  [entry |-> "direct", lib |-> "unset", mnemonic |-> "none", network |-> "testnet", staged |-> {}]

ASSUME DeploymentAssumption ==
  /\ MaxRuns \in Nat /\ (\A n \in Ids : FitsUint64(n))
  /\ MaxCommits \in Nat /\ MaxGrants \in Nat
  /\ POLL_LIMIT \in Nat \ {0}
  /\ FirstSource \in Sources
  /\ EarlierApps \subseteq [stage : 1 .. 5, program : Builds]
  /\ Environments \subseteq Runs
  /\ \A r \in Environments :
       r.entry = "workflow" => r.lib = IF DigestMatches(r.staged) THEN "pinned" ELSE "divergent"
  /\ AccountFunds \subseteq Nat /\ Grants \subseteq Nat
  /\ ArtifactHash \in Hashes
  /\ GenesisOf \in [Networks -> Hashes]

\* The types, and which programs have ended how.
RepoTypes ==
  /\ tree \in Trees /\ commits \in 0 .. MaxCommits
  /\ target \in Apps /\ pin \in Builds

ChainTypes ==
  /\ chain \in [Apps -> [stage : 0 .. 5, program : Builds]]
  /\ signature \in [Apps -> Signed]
  /\ funds \in [Apps -> Nat]
  /\ pool \subseteq DeployTxs /\ landed \subseteq DeployTxs

RunTypes ==
  /\ runs \in 0 .. MaxRuns /\ run \in Runs
  /\ step \in Steps /\ waiting \in BOOLEAN
  /\ polls \in 0 .. POLL_LIMIT
  /\ known \in Apps \cup {NoId}
  /\ exit \in {"none", "ok", "failed", "refused"}
  /\ job \in {"none", "green", "red"}
  /\ exit = "none" <=> step \notin {"job", "over"}

DeployTypeOK == RepoTypes /\ ChainTypes /\ RunTypes

---------------------------------------------------------------------------
(* Money *)

FUND_APP == 15000
FEE == 10
STATIC_FEE == 200
MAX_FEE == 500

\* External: what the ledger locks - for any account, for an application with
\* one integer and one byte slice, for an asset - and for the boxes.
BASE_BALANCE == 1000
APP_RESERVE == 1785
ASSET_RESERVE == 1000
KEY_AND_OWNER_BOXES == 7430
RECORD_BOX == 485

Cost == [call \in Calls |->
           CASE call = "create" -> APP_RESERVE + FEE [] call = "fund" -> FUND_APP + FEE
             [] call = "mint" -> ASSET_RESERVE + FEE [] call = "register" -> FEE
             [] call = "inscribe-1" -> STATIC_FEE    [] OTHER -> MAX_FEE]

\* What the account of the application must hold for a call.
Locked == [call \in Calls |->
             CASE call = "register" -> BASE_BALANCE + KEY_AND_OWNER_BOXES
               [] call \in {"inscribe-1", "inscribe-2"} ->
                    BASE_BALANCE + KEY_AND_OWNER_BOXES + RECORD_BOX
               [] OTHER -> 0]

Affordable(tx) ==
  /\ funds[tx.app] >= BASE_BALANCE + Cost[tx.call]
  /\ FUND_APP >= Locked[tx.call]

---------------------------------------------------------------------------
(* Decisions of the programs; each Faulty_ operator is one of them as a    *)
(* plausible slip would have left it.                                      *)

Faulty_ALittleOverTheLock == 10000
NEEDED == 20000

Faulty_OnePollTooMany(n) == n > POLL_LIMIT
PollsUsedUp(n) == n >= POLL_LIMIT
Faulty_NotCounted(n) == n
Counted(n) == n + 1

Faulty_ResumesTheEarlierApp == 0
CurrentApp == runs

Faulty_VerifiesTheDefault == target
JobApp == known

\* Both strategies failed.
Faulty_Swallowed == "ok"
AfterBothFail == "failed"

---------------------------------------------------------------------------
(* The order of a run *)

Order(entry) ==
  {<<"start", "create">>, <<"register", "sign">>, <<"sign", "inscribe-1">>,
   <<"inscribe-1", "read-back">>, <<"inscribe-2", "read-back">>}
  \cup (IF entry \in Examples
        THEN {<<"create", "fund">>}
        ELSE {<<"create", "output">>, <<"output", "fund">>, <<"read-back", "verify">>})
  \cup (IF entry = "interop"
        THEN {<<"fund", "mint">>, <<"mint", "keygen">>, <<"keygen", "register">>}
        ELSE {<<"fund", "keygen">>, <<"keygen", "mint">>, <<"mint", "register">>})

GoOn == \E next \in Steps : <<step, next>> \in Order(run.entry) /\ step' = next

\* The program ends; the workflow goes on to its checks.
Finish(code) ==
  /\ exit' = code
  /\ step' = IF run.entry = "workflow" THEN "job" ELSE "over"

\* The job ends where no deploy step ran, or was cancelled.
JobEnds(code, result) == exit' = code /\ job' = result /\ step' = "over"

\* The library the run will load: the wrappers pass on the one they found.
Library ==
  IF run.lib # "built" THEN run.lib
  ELSE IF run.entry \in {"fresh", "secure"} THEN "pinned" ELSE "unset"

\* M for the run's cell, by the copy of build_message its program imports.
MessageOf(app) ==
  IF run.entry \in Examples
  THEN sdk_build_message(IntArg(app), IntArg(CellOf(app)),
                         BufferArg(ArtifactHash), BufferArg(GenesisOf[run.network]))
  ELSE contracts_build_message(IntArg(app), IntArg(CellOf(app)),
                               BufferArg(ArtifactHash), BufferArg(GenesisOf[run.network]))

Tx(call) == [app |-> CurrentApp, call |-> call]

---------------------------------------------------------------------------
(* The programs *)

Init ==
  /\ tree = Committed(FirstSource)
  /\ commits = 0
  /\ target = 0
  /\ \E earlier \in EarlierApps :
       chain = [app \in Apps |-> IF app = 0 THEN earlier
                                 ELSE [stage |-> 0, program |-> earlier.program]]
  /\ pin = chain[0].program
  /\ signature = [app \in Apps |-> NoSignature]
  /\ funds = [app \in Apps |-> 0]
  /\ pool = {} /\ landed = {}
  /\ runs = 0
  /\ run = NoRun
  /\ step = "none"
  /\ waiting = FALSE
  /\ polls = 0
  /\ known = NoId
  /\ exit = "none"
  /\ job = "none"

Idle == step \in {"none", "over"}

\* Somebody starts a run, in whatever environment.
Begin(r) ==
  /\ Idle /\ runs < MaxRuns
  /\ runs' = runs + 1
  /\ run' = r
  /\ step' = IF r.entry \in Wrapped THEN "gate" ELSE "start"
  /\ \E money \in IF r.entry = "fresh" THEN {0} ELSE AccountFunds :
       funds' = [funds EXCEPT ![runs + 1] = money]
  /\ waiting' = FALSE /\ polls' = 0 /\ known' = NoId /\ exit' = "none" /\ job' = "none"
  /\ UNCHANGED <<repoVars, chain, signature, pool, landed>>

\* The wrappers' checks before deploy_testnet.py is called at all.
Gate ==
  /\ step = "gate"
  /\ \/ /\ run.entry = "workflow"
        /\ IF require_secret(run.mnemonic) = 0 /\ verify_pinned_digest(run.staged) = 0
           THEN step' = "start" /\ UNCHANGED <<exit, job>>
           ELSE JobEnds("refused", "red")
     \/ /\ run.entry = "fresh"
        /\ IF run.lib # "unset"
           THEN step' = "poll" /\ UNCHANGED exit
           ELSE Finish("refused")
        /\ UNCHANGED job
     \/ /\ run.entry = "secure"
        /\ IF run.lib # "unset" /\ run.mnemonic = "good"
           THEN step' = "start" /\ UNCHANGED exit
           ELSE Finish("refused")
        /\ UNCHANGED job
  /\ UNCHANGED <<chainVars, repoVars, runs, run, waiting, polls, known>>

\* One look at the balance; a node that does not answer counts as no money.
Poll ==
  /\ step = "poll"
  /\ \E seen \in {funds[runs], 0} :
       IF seen >= NEEDED
       THEN step' = "start" /\ UNCHANGED <<polls, exit>>
       ELSE /\ polls' = Counted(polls)
            /\ IF PollsUsedUp(polls') THEN Finish("refused") ELSE UNCHANGED <<step, exit>>
  /\ UNCHANGED <<chainVars, repoVars, runs, run, waiting, known, job>>

\* deploy_testnet.main up to create; the examples neither ask for nor check
\* the network, and import the same typed client.
Start ==
  /\ step = "start"
  /\ IF /\ run.entry = "fresh" \/ run.mnemonic = "good"
        /\ run.entry \in Scripted => run.network = "testnet"
        /\ tree.client \notin {Missing, Garbled}
     THEN GoOn /\ UNCHANGED exit
     ELSE Finish("failed")
  /\ UNCHANGED <<chainVars, repoVars, runs, run, waiting, polls, known, job>>

\* A call is sent, or raises before it is sent.  The create call carries the
\* program the typed client embeds.
Submit(call) ==
  /\ step = call /\ ~waiting
  /\ waiting' = TRUE
  /\ \/ UNCHANGED <<pool, chain>>
     \/ /\ pool' = pool \cup {Tx(call)}
        /\ IF call = "create"
           THEN \E p \in Deployable(tree) : chain' = [chain EXCEPT ![CurrentApp].program = p]
           ELSE UNCHANGED chain
  /\ UNCHANGED <<repoVars, signature, funds, landed, runs, run, step, polls, known, exit, job>>

Confirmed(call) ==
  /\ step = call /\ waiting
  /\ Tx(call) \in landed
  /\ waiting' = FALSE
  /\ GoOn
  /\ UNCHANGED <<chainVars, repoVars, runs, run, polls, known, exit, job>>

\* An exception instead of a confirmation, whether or not the call lands.
Except(call) ==
  /\ step = call /\ waiting
  /\ waiting' = FALSE
  /\ IF call = "inscribe-1"
     THEN /\ step' = IF run.entry \in Examples THEN "ask" ELSE "inscribe-2"
          /\ UNCHANGED exit
     ELSE Finish(IF call = "inscribe-2" THEN AfterBothFail ELSE "failed")
  /\ UNCHANGED <<chainVars, repoVars, runs, run, polls, known, job>>

\* _write_github_output: only the workflow sets GITHUB_OUTPUT.
Output ==
  /\ step = "output"
  /\ known' = IF run.entry = "workflow" THEN CurrentApp ELSE known
  /\ GoOn
  /\ UNCHANGED <<chainVars, repoVars, runs, run, waiting, polls, exit, job>>

\* The library is loaded at its first use.
Keygen ==
  /\ step = "keygen"
  /\ IF Library \in {"divergent", "pinned"}
     THEN GoOn /\ UNCHANGED exit
     ELSE Finish("failed")
  /\ UNCHANGED <<chainVars, repoVars, runs, run, waiting, polls, known, job>>

\* The header check may catch a divergent build.
Sign ==
  /\ step = "sign"
  /\ \/ /\ signature' = [signature EXCEPT ![CurrentApp] =
                           [message |-> MessageOf(CurrentApp), sound |-> Library = "pinned",
                            network |-> run.network]]
        /\ GoOn
        /\ UNCHANGED exit
     \/ /\ Library = "divergent"
        /\ Finish("failed")
        /\ UNCHANGED signature
  /\ UNCHANGED <<chain, funds, pool, landed, repoVars, runs, run, waiting, polls, known, job>>

\* The SDK client asks before the second strategy (module InscribeClient).
Ask ==
  /\ step = "ask"
  /\ \/ chain[CurrentApp].stage = 5 /\ step' = "read-back"
     \/ step' = "inscribe-2"
  /\ UNCHANGED <<chainVars, repoVars, runs, run, waiting, polls, known, exit, job>>

\* deploy_testnet.py notes a failed read and goes on; the examples assert it.
ReadBack ==
  /\ step = "read-back"
  /\ IF run.entry \in Scripted THEN GoOn /\ UNCHANGED exit
     ELSE \/ chain[CurrentApp].stage = 5 /\ Finish("ok")
          \/ Finish("failed")
  /\ UNCHANGED <<chainVars, repoVars, runs, run, waiting, polls, known, job>>

\* The library verifies what it signed itself.
VerifyLocally ==
  /\ step = "verify"
  /\ Finish("ok")
  /\ UNCHANGED <<chainVars, repoVars, runs, run, waiting, polls, known, job>>

\* The workflow after its deploy step, which may fail: an app_id, and the
\* program of that application.
Job ==
  /\ step = "job"
  /\ \E node \in BOOLEAN :
       JobEnds(exit, IF /\ known # NoId
                        /\ verify_deployment(tree, chain[JobApp], node, FALSE, TRUE) = 0
                     THEN "green" ELSE "red")
  /\ UNCHANGED <<chainVars, repoVars, runs, run, waiting, polls, known>>

\* Killed, or an exception no other action stands for.
Die ==
  /\ ~Idle /\ step # "job"
  /\ waiting' = FALSE
  /\ \/ Finish("failed") /\ UNCHANGED job
     \/ run.entry = "workflow" /\ JobEnds("failed", "red")
  /\ UNCHANGED <<chainVars, repoVars, runs, run, polls, known>>

RunStep ==
  \/ Gate \/ Poll \/ Start \/ Output \/ Keygen \/ Sign \/ Ask \/ ReadBack \/ VerifyLocally \/ Job
  \/ \E call \in Calls : Submit(call) \/ Confirmed(call) \/ Except(call)

---------------------------------------------------------------------------
(* External: the chain, the faucet, the repository *)

\* What the application asks of its two calls: the asset of a cell to be registered is
\* there and was not registered, the cell to be inscribed is registered and was not
\* inscribed, and the signature is good.  Nothing is asked of the create call, the
\* payment and the asset, whenever they land: that a run's calls land in its order
\* follows from what its program sends.  The slip does not verify the signature.
Faulty_AcceptsUnsound(tx) ==
  /\ tx.call = "register" => chain[tx.app].stage = 3
  /\ Leads[tx.call] = 5 => chain[tx.app].stage = 4
  /\ Leads[tx.call] = 5 =>
       signature[tx.app].message =
         app_build_message(tx.app, CellOf(tx.app), ArtifactHash, GenesisOf[signature[tx.app].network])
Accepts(tx) ==
  /\ tx.call = "register" => chain[tx.app].stage = 3
  /\ Leads[tx.call] = 5 => chain[tx.app].stage = 4
  /\ Leads[tx.call] = 5 =>
       /\ signature[tx.app].sound
       /\ signature[tx.app].message =
            app_build_message(tx.app, CellOf(tx.app), ArtifactHash,
                              GenesisOf[signature[tx.app].network])

Land(tx) ==
  /\ tx \in pool
  /\ Affordable(tx) /\ Accepts(tx)
  /\ chain' = [chain EXCEPT ![tx.app].stage = Leads[tx.call]]
  /\ funds' = [funds EXCEPT ![tx.app] = @ - Cost[tx.call]]
  /\ pool' = pool \ {tx}
  /\ landed' = landed \cup {tx}
  /\ UNCHANGED <<signature, repoVars, runVars>>

Drop(tx) ==
  /\ tx \in pool
  /\ pool' = pool \ {tx}
  /\ UNCHANGED <<chain, signature, funds, landed, repoVars, runVars>>

Grant(amount) ==
  /\ step = "poll"
  /\ funds[runs] + amount <= MaxGrants
  /\ funds' = [funds EXCEPT ![runs] = @ + amount]
  /\ UNCHANGED <<chain, signature, pool, landed, repoVars, runVars>>

\* One part of the tree changes: an edit of the source, a recompilation, a
\* regenerated or hand-edited client, a merge that keeps one side, a lost file.
Commit ==
  /\ Idle /\ commits < MaxCommits
  /\ commits' = commits + 1
  /\ \/ \E source \in Sources : tree' = [tree EXCEPT !.source = source]
     \/ \E teal \in Teal \cup {Missing} : tree' = [tree EXCEPT !.teal = teal]
     \/ \E maps \in Builds \cup {Missing} : tree' = [tree EXCEPT !.maps = maps]
     \/ \E spec \in Builds \cup {Missing, Garbled} : tree' = [tree EXCEPT !.spec = spec]
     \/ \E client \in Client \cup {Missing, Garbled} : tree' = [tree EXCEPT !.client = client]
  /\ UNCHANGED <<chainVars, target, pin, runVars>>

\* The checklist after a redeploy; one of the two constants may be forgotten.
Retarget ==
  /\ step = "over" /\ run.network = "testnet" /\ Exists(chain[runs])
  /\ \/ target' = runs /\ pin' = chain[runs].program
     \/ target' = runs /\ UNCHANGED pin
     \/ pin' = chain[runs].program /\ UNCHANGED target
  /\ UNCHANGED <<chainVars, tree, commits, runVars>>

External ==
  \/ \E tx \in pool : Land(tx) \/ Drop(tx)
  \/ \E amount \in Grants : Grant(amount)
  \/ Commit \/ Retarget

Next == (\E r \in Environments : Begin(r)) \/ RunStep \/ Die \/ External

Spec == Init /\ [][Next]_deployVars

\* The programs keep running; the network, the faucet and people owe nothing.
FairSpec == Spec /\ WF_deployVars(RunStep)

---------------------------------------------------------------------------
(* Properties *)

\* A program that exits 0 has put its record on the chain, whatever the network
\* delayed, dropped or misreported on the way.
ExitOkMeansInscribed ==
  exit = "ok" => chain[runs].stage = 5 /\ signature[runs].sound

\* The key of a run dies with it: once a run is over and none of its transactions
\* is pending, its application stays as it is for ever, and no later run
\* takes it up - a cell that was registered and not inscribed never is.
Abandoned(app) ==
  /\ app < runs \/ (app = runs /\ Idle)
  /\ \A tx \in pool : tx.app # app
DeadRunsStayDead ==
  [][\A app \in Apps :
       Abandoned(app) => Abandoned(app)' /\ chain'[app] = chain[app]]_deployVars

\* What the fresh wrapper waits for pays for the whole run: none of its
\* transactions is refused for want of money, so it does not half-deploy.
FreshRunsArePaidFor ==
  run.entry = "fresh" => \A tx \in pool : tx.app = runs => Affordable(tx)

\* A signature made for one inscription is good for no other application, cell,
\* artifact or network.
SignatureFitsNothingElse ==
  step = "inscribe-1" /\ ~waiting =>
    \A app, cell \in Ids, artifact, genesis \in Hashes :
      app_build_message(app, cell, artifact, genesis) = signature[CurrentApp].message =>
        /\ app = CurrentApp /\ cell = CellOf(CurrentApp)
        /\ artifact = ArtifactHash /\ genesis = GenesisOf[run.network]

\* The success criterion of the redeploy workflow: a green job means that the
\* application this run created serves what the committed TEAL assembles to.
GreenJobMeansMatch ==
  [][job # "green" /\ job' = "green" =>
       /\ Exists(chain[runs]) /\ tree.teal # Missing
       /\ chain[runs].program = tree.teal.program]_deployVars

\* Why the checks may be chained: when the source matches the TEAL and the TEAL
\* the chain, whoever reviewed inscription.py reviewed what the chain serves.
ReviewedSourceIsDeployed ==
  \A toolchain, node \in BOOLEAN :
    /\ verify_teal(tree, toolchain) = 0
    /\ verify_deployment(tree, chain[target], node, FALSE, toolchain) = 0
    => Exists(chain[target]) /\ chain[target].program = Build(tree.source, AVM_TARGET)

\* And the other end: when verify_teal agrees, the tests and the deployment,
\* which go through the typed client, run the committed source too.
ClientFollowsContract ==
  \A toolchain \in BOOLEAN :
    verify_teal(tree, toolchain) = 0 => Deployable(tree) = {Build(tree.source, AVM_TARGET)}

\* The exit codes of the four programs.  0 is agreement that was established, of
\* everything the program stands for.  1 is always a difference in verify_deployment
\* alone: in verify_teal it is also a TEAL file that is missing, and a client or a
\* specification that is missing or does not parse; in verify_client also such a
\* specification; in verify_trelyan also a node that does not answer or does
\* not know the application, which verify_deployment ends with 2 for.
DeploymentVerdict(app, node, recompile, toolchain) ==
  LET code == verify_deployment(tree, app, node, recompile, toolchain)
  IN  /\ code = 0 => /\ Exists(app) /\ tree.teal # Missing
                     /\ app.program = tree.teal.program
      /\ code = 1 => /\ node /\ tree.teal # Missing
                     /\ \/ Exists(app) /\ app.program # tree.teal.program
                        \/ recompile /\ toolchain /\ ~RecompileAgrees(tree)

TealVerdict(toolchain) ==
  LET code == verify_teal(tree, toolchain)
  IN  /\ code = 0 <=> toolchain /\ tree = Committed(tree.source)
      /\ code = 1 => \/ tree.teal = Missing
                     \/ /\ toolchain /\ Missing \notin {tree.maps, tree.spec}
                        /\ \/ tree.client \in {Missing, Garbled} \/ tree.spec = Garbled
                           \/ \E part \in {tree.teal.program, tree.maps, tree.spec,
                                          tree.client.byteCode, tree.client.rest} :
                                part # Build(tree.source, AVM_TARGET)
                           \/ ~tree.teal.traced
      /\ tree.teal = Missing => code = 1

ClientVerdict(toolchain) ==
  LET code == verify_client(tree)
  IN  /\ code = 0 => tree.client \in Client /\ tree.client.byteCode = tree.spec
      /\ code = 1 => tree.spec = Garbled \/ (tree.client \in Client /\ tree.client.byteCode # tree.spec)
      /\ verify_teal(tree, toolchain) = 0 => code = 0

TrelyanVerdict(app, node, released) ==
  LET code == verify_trelyan(tree, app, pin, node, released)
  IN  /\ code = 0 => /\ node /\ Exists(app) /\ tree.teal # Missing
                     /\ app.program = tree.teal.program /\ app.program = pin
                     /\ app.stage >= 4
      /\ code = 1 /\ node /\ Exists(app) =>
           \/ ~released \/ app.program # pin \/ app.stage < 4
           \/ tree.teal # Missing /\ app.program # tree.teal.program
      /\ ~node \/ ~Exists(app) =>
           code = 1 /\ verify_deployment(tree, app, node, FALSE, TRUE) = 2

ExitCodesTellWhatWasFound ==
  /\ \A toolchain \in BOOLEAN :
       /\ TealVerdict(toolchain) /\ ClientVerdict(toolchain)
       /\ \A node, recompile \in BOOLEAN :
            DeploymentVerdict(chain[target], node, recompile, toolchain)
  /\ \A node, released \in BOOLEAN : TrelyanVerdict(chain[target], node, released)

\* Every run ends, though the faucet may never pay and the network never answer.
RunsEnd == ~Idle ~> Idle

\* And after how much: what lies before a program, in sends, answers and looks
\* at the balance.
StepsLeft ==
  [s \in Steps |->
     CASE s = "gate" -> 16 [] s = "poll" -> 15 [] s = "start" -> 14 [] s = "create" -> 13
       [] s = "output" -> 12 [] s = "fund" -> 11 [] s = "register" -> 8 [] s = "sign" -> 7
       [] s = "keygen" -> IF run.entry = "interop" THEN 9 ELSE 10
       [] s = "mint" -> IF run.entry = "interop" THEN 10 ELSE 9
       [] s = "inscribe-1" -> 6 [] s = "ask" -> 5 [] s = "inscribe-2" -> 4
       [] s = "read-back" -> 3 [] s = "verify" -> 2 [] s = "job" -> 1 [] OTHER -> 0]
ToGo ==
  IF Idle THEN 0 ELSE 2 * StepsLeft[step] + POLL_LIMIT - polls - (IF waiting THEN 1 ELSE 0)

\* Each step of a program uses some of it up, and nothing that happens around it
\* gives any back: no look, call or retry is repeated without end.
RunsAdvance ==
  [][runs' = runs /\ (RunStep \/ <<step, waiting, polls>>' # <<step, waiting, polls>>) =>
       ToGo' < ToGo]_deployVars

\* Expected to fail.  The comments of verify_trelyan.py and of the job that runs
\* it: 1 is a check that failed, and one that did not run is told apart from it.
ExitOneMeansACheckFailed ==
  \A node, released \in BOOLEAN :
    verify_trelyan(tree, chain[target], pin, node, released) = 1 =>
      node /\ TrelyanFailures(tree, chain[target], pin, released) # {}
=============================================================================
