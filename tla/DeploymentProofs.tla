-------------------------- MODULE DeploymentProofs --------------------------
(***************************************************************************)
(* Proofs about Deployment, for every number of runs and commits, every    *)
(* set of sources and targets, and every environment a run starts in.      *)
(* The bytes of a message are MessageProofs' subject.                      *)
(***************************************************************************)
EXTENDS Deployment, MessageProofs

USE DEF chainVars, repoVars, runVars, deployVars

\* Every step is one of a program, of the network, of the faucet, or of people.
LEMMA StepCases ==
  ASSUME [Next]_deployVars
  PROVE  \/ \E r \in Environments : Begin(r)
         \/ Gate \/ Poll \/ Start \/ Output \/ Keygen \/ Sign \/ Ask \/ ReadBack
         \/ VerifyLocally \/ Job \/ Die
         \/ \E call \in Calls : Submit(call) \/ Confirmed(call) \/ Except(call)
         \/ \E tx \in pool : Land(tx) \/ Drop(tx)
         \/ \E amount \in Grants : Grant(amount)
         \/ Commit \/ Retarget
         \/ UNCHANGED deployVars
BY DEF Next, RunStep, External

\* The stage each call leads to.
LEMMA Stages ==
  /\ Leads["create"] = 1 /\ Leads["fund"] = 2 /\ Leads["mint"] = 3 /\ Leads["register"] = 4
  /\ Leads["inscribe-1"] = 5 /\ Leads["inscribe-2"] = 5
BY DEF Leads, Calls

\* What each call costs, and what the application's account must hold for it.
LEMMA Prices ==
  /\ Cost["create"] = 1795 /\ Cost["fund"] = 15010 /\ Cost["mint"] = 1010
  /\ Cost["register"] = 10 /\ Cost["inscribe-1"] = 200 /\ Cost["inscribe-2"] = 500
BY DEF Cost, Calls, APP_RESERVE, FEE, FUND_APP, ASSET_RESERVE, STATIC_FEE, MAX_FEE

\* Both are numbers for every call.
LEMMA AnyCall ==
  /\ \A call \in Calls : Leads[call] \in 1 .. 5
  /\ \A call \in Calls : Cost[call] \in Nat
BY DEF Leads, Cost, APP_RESERVE, FEE, FUND_APP, ASSET_RESERVE, STATIC_FEE, MAX_FEE

\* Only inscribe can be called in two ways.
LEMMA OneCallPerStage ==
  ASSUME NEW c \in Calls, NEW d \in Calls, Leads[c] = Leads[d], Leads[c] < 5
  PROVE  c = d
<1>1. \A call \in Calls :
        call \notin {"create", "fund", "mint", "register"} => Leads[call] = 5
  BY DEF Leads
<1>2. c \in {"create", "fund", "mint", "register"}
  BY <1>1
<1>3. d \in {"create", "fund", "mint", "register"}
  BY <1>1
<1>4. /\ c = "create" => Leads[c] = 1
      /\ c = "fund" => Leads[c] = 2
      /\ c = "mint" => Leads[c] = 3
      /\ c = "register" => Leads[c] = 4
  BY Stages, Zenon
<1>5. /\ d = "create" => Leads[d] = 1
      /\ d = "fund" => Leads[d] = 2
      /\ d = "mint" => Leads[d] = 3
      /\ d = "register" => Leads[d] = 4
  BY Stages, Zenon
<1> DEFINE n == Leads[c]
<1>6. /\ n = 1 => c = "create" /\ d = "create"
      /\ n = 2 => c = "fund" /\ d = "fund"
      /\ n = 3 => c = "mint" /\ d = "mint"
      /\ n = 4 => c = "register" /\ d = "register"
  BY <1>2, <1>3, <1>4, <1>5
<1>7. n \in {1, 2, 3, 4}
  BY <1>2, <1>4
<1> QED
  BY <1>6, <1>7

\* Where GoOn goes.
LEMMA Onwards ==
  ASSUME GoOn
  PROVE  /\ step' \in Steps
         /\ step = "start" <=> step' = "create"
         /\ step = "create" => step' \in {"output", "fund"}
         /\ step = "output" => step' = "fund"
         /\ step = "fund" => step' = IF run.entry = "interop" THEN "mint" ELSE "keygen"
         /\ step = "keygen" => step' = IF run.entry = "interop" THEN "register" ELSE "mint"
         /\ step = "mint" => step' = IF run.entry = "interop" THEN "keygen" ELSE "register"
         /\ step = "register" => step' = "sign"
         /\ step = "sign" => step' = "inscribe-1"
         /\ step \in {"inscribe-1", "inscribe-2"} => step' = "read-back"
         /\ step = "read-back" => step' = "verify"
         /\ step' \notin {"none", "gate", "poll", "start", "job", "over"}
<1>1. PICK next \in Steps : <<step, next>> \in Order(run.entry) /\ step' = next
  BY DEF GoOn
<1>2. CASE run.entry = "interop"
  BY <1>1, <1>2 DEF Order, Examples
<1>3. CASE run.entry = "quickstart"
  BY <1>1, <1>3 DEF Order, Examples
<1>4. CASE run.entry \notin {"interop", "quickstart"}
  BY <1>1, <1>4 DEF Order, Examples
<1> QED
  BY <1>2, <1>3, <1>4

\* The numbers among the constants.
LEMMA Limits ==
  /\ MaxRuns \in Nat /\ MaxCommits \in Nat /\ POLL_LIMIT \in Nat /\ POLL_LIMIT > 0
  /\ Environments \subseteq Runs
  /\ AccountFunds \subseteq Nat /\ Grants \subseteq Nat
BY DeploymentAssumption

---------------------------------------------------------------------------
(* Type correctness *)

\* The types, with what keeps them: the counter of looks is below its limit while
\* the wrapper looks, a client is at hand while the create call is made, the number
\* written for the workflow is this run's, and only a call is waited for.
TypeInv ==
  /\ DeployTypeOK
  /\ step = "gate" => polls = 0
  /\ step = "poll" => polls < POLL_LIMIT
  /\ step = "create" => tree.client \in Client
  /\ known \in {NoId, runs}
  /\ step # "none" => runs # 0
  /\ waiting => step \in Calls

\* The message a run signs, whichever copy it imports, is the one the application
\* will rebuild.
LEMMA MessageOfRun ==
  ASSUME NEW app \in Apps, run \in Runs
  PROVE  /\ MessageOf(app) = app_build_message(app, CellOf(app), ArtifactHash, GenesisOf[run.network])
         /\ MessageOf(app) \in Seq(Bytes)
<1>1. app \in Nat /\ CellOf(app) \in Nat /\ app \in Ids /\ CellOf(app) \in Ids
  BY DeploymentAssumption DEF Apps, CellOf, Ids
<1>2. FitsUint64(app) /\ FitsUint64(CellOf(app))
  BY <1>1, DeploymentAssumption
<1>3. ArtifactHash \in Hashes /\ GenesisOf[run.network] \in Hashes
  BY DeploymentAssumption DEF Runs
<1>4. MessageOf(app) = app_build_message(app, CellOf(app), ArtifactHash, GenesisOf[run.network])
  BY <1>1, <1>2, <1>3, SignerAndApplicationAgree DEF MessageOf
<1> QED
  BY <1>1, <1>3, <1>4, MessageIsAString DEF app_build_message

\* Nothing has been run or committed.
LEMMA TypeInit == Init => TypeInv
<1> SUFFICES ASSUME Init PROVE TypeInv
  OBVIOUS
<1>1. RepoTypes
  <2>1. Build(FirstSource, AVM_TARGET) \in Builds
    BY DeploymentAssumption, ArtifactAssumption DEF Build, Builds
  <2>2. tree \in Trees
    BY <2>1, DeploymentAssumption DEF Init, Committed, Trees, Teal, Client
  <2>3. pin \in Builds
    BY DeploymentAssumption DEF Init, Apps
  <2> QED
    BY <2>2, <2>3, DeploymentAssumption DEF Init, RepoTypes, Apps
<1>2. ChainTypes
  <2>1. chain \in [Apps -> [stage : 0 .. 5, program : Builds]]
    BY DeploymentAssumption DEF Init
  <2>2. NoSignature \in Signed
    BY DEF NoSignature, Signed, Refused, Networks
  <2> QED
    BY <2>1, <2>2 DEF Init, ChainTypes
<1>3. RunTypes
  <2>1. NoRun \in Runs
    BY DEF NoRun, Runs, Scripted, Examples, Libs, Networks, StagedTrees
  <2>2. runs \in 0 .. MaxRuns /\ run \in Runs /\ polls \in 0 .. POLL_LIMIT
    BY <2>1, Limits DEF Init
  <2>3. step \in Steps /\ waiting \in BOOLEAN /\ known \in Apps \cup {NoId}
    BY DEF Init, Steps
  <2>4. /\ exit \in {"none", "ok", "failed", "refused"} /\ job \in {"none", "green", "red"}
        /\ exit = "none" /\ step \notin {"job", "over"}
    BY DEF Init
  <2> QED
    BY <2>2, <2>3, <2>4 DEF RunTypes
<1> QED
  BY <1>1, <1>2, <1>3 DEF Init, TypeInv, DeployTypeOK, NoId

\* What leaves the chain and the repository alone keeps their types.
LEMMA OnlyTheRun ==
  ASSUME TypeInv, UNCHANGED <<chainVars, repoVars>>
  PROVE  ChainTypes' /\ RepoTypes'
BY DEF TypeInv, DeployTypeOK, ChainTypes, RepoTypes, DeployTxs, Apps, Ids, CellOf

\* A run starts where its program does.
LEMMA TypeBegin ==
  ASSUME TypeInv, NEW r \in Environments, Begin(r)
  PROVE  TypeInv'
<1>1. runs' = runs + 1 /\ runs' \in 0 .. MaxRuns /\ runs + 1 \in Apps /\ runs' # 0
  BY DeploymentAssumption DEF Begin, TypeInv, DeployTypeOK, RunTypes, Apps
<1>2. ChainTypes'
  <2>1. PICK money \in IF r.entry = "fresh" THEN {0} ELSE AccountFunds :
          funds' = [funds EXCEPT ![runs + 1] = money]
    BY DEF Begin
  <2>2. money \in Nat
    BY <2>1, DeploymentAssumption
  <2> QED
    BY <2>1, <2>2 DEF Begin, TypeInv, DeployTypeOK, ChainTypes
<1>3. RepoTypes'
  BY DEF Begin, TypeInv, DeployTypeOK, RepoTypes
<1>4. /\ run' \in Runs /\ polls' = 0 /\ step' \in {"gate", "start"} /\ waiting' = FALSE
      /\ known' = NoId /\ exit' = "none" /\ job' = "none"
  BY Limits DEF Begin
<1>5. RunTypes'
  <2>1. step' \in Steps /\ step' \notin {"job", "over"} /\ waiting' \in BOOLEAN
    BY <1>4 DEF Steps
  <2>2. polls' \in 0 .. POLL_LIMIT
    BY <1>4, Limits
  <2> QED
    BY <1>1, <1>4, <2>1, <2>2 DEF RunTypes
<1> QED
  BY <1>1, <1>2, <1>3, <1>4, <1>5 DEF TypeInv, DeployTypeOK

\* The program goes on to a step, or it ends.
GoesOrEnds ==
  \/ exit' = exit /\ exit = "none" /\ step' \in Steps \ {"job", "over"}
  \/ exit' \in {"ok", "failed", "refused"} /\ step' \in {"job", "over"}

\* A step of a program that leaves the chain and the repository alone.
LEMMA TypeLocal ==
  ASSUME TypeInv, UNCHANGED <<chainVars, repoVars, runs, run>>, GoesOrEnds,
         polls' \in 0 .. POLL_LIMIT, waiting' \in BOOLEAN, job' \in {"none", "green", "red"},
         known' \in {NoId, runs}, step # "none", step' # "none",
         step' = "gate" => polls' = 0, step' = "poll" => polls' < POLL_LIMIT,
         step' = "create" => tree.client \in Client, waiting' => step' \in Calls
  PROVE  TypeInv'
<1>1. ChainTypes' /\ RepoTypes'
  BY OnlyTheRun
<1>2. runs \in 0 .. MaxRuns /\ run \in Runs /\ runs \in Apps
  BY DEF TypeInv, DeployTypeOK, RunTypes, Apps
<1>3. step' \in Steps /\ exit' \in {"none", "ok", "failed", "refused"}
      /\ (exit' = "none" <=> step' \notin {"job", "over"})
  BY DEF GoesOrEnds, Steps
<1>4. RunTypes'
  BY <1>2, <1>3 DEF RunTypes
<1>5. step' # "none" => runs' # 0
  BY DEF TypeInv
<1> QED
  BY <1>1, <1>4, <1>5 DEF TypeInv, DeployTypeOK

\* The end of a program, and of the job.
LEMMA EndsHow ==
  ASSUME NEW code \in {"ok", "failed", "refused"},
         Finish(code) \/ \E result \in {"green", "red"} : JobEnds(code, result)
  PROVE  GoesOrEnds /\ step' \in {"job", "over"}
BY DEF GoesOrEnds, Finish, JobEnds

\* Where a program goes on, it has not ended.
LEMMA GoesHow ==
  ASSUME TypeInv, step \notin {"none", "job", "over"}, UNCHANGED exit,
         step' \in Steps \ {"none", "job", "over"}
  PROVE  GoesOrEnds
BY DEF GoesOrEnds, TypeInv, DeployTypeOK, RunTypes

\* The gates, the wait for money and the start of the script.
LEMMA TypeBefore ==
  ASSUME TypeInv, Gate \/ Poll \/ Start
  PROVE  TypeInv'
<1>1. UNCHANGED <<chainVars, repoVars, runs, run, waiting, known>>
  BY DEF Gate, Poll, Start
<1>2. /\ polls \in 0 .. POLL_LIMIT /\ waiting \in BOOLEAN /\ known \in {NoId, runs}
      /\ job \in {"none", "green", "red"} /\ (waiting => step \in Calls)
  BY DEF TypeInv, DeployTypeOK, RunTypes
<1>3. step \in {"gate", "poll", "start"} /\ waiting = FALSE
  BY <1>2 DEF Gate, Poll, Start, Calls
<1>4. CASE Gate
  <2>1. step = "gate" /\ polls' = polls /\ polls = 0
    BY <1>4 DEF Gate, TypeInv
  <2>2. \/ step' \in {"start", "poll"} /\ exit' = exit /\ job' = job
        \/ JobEnds("refused", "red")
        \/ Finish("refused") /\ job' = job
    BY <1>4 DEF Gate
  <2>3. GoesOrEnds /\ step' \in {"start", "poll", "job", "over"}
    BY <1>3, <2>2, EndsHow, GoesHow DEF Steps
  <2>4. job' \in {"none", "green", "red"}
    BY <1>2, <2>2 DEF JobEnds
  <2> QED
    BY <1>1, <1>2, <1>3, <2>1, <2>3, <2>4, Limits, TypeLocal
<1>5. CASE Poll
  <2>1. step = "poll" /\ polls < POLL_LIMIT /\ job' = job
    BY <1>5 DEF Poll, TypeInv
  <2>2. \/ step' = "start" /\ exit' = exit /\ polls' = polls
        \/ polls' = polls + 1 /\ Finish("refused")
        \/ polls' = polls + 1 /\ step' = step /\ exit' = exit /\ ~PollsUsedUp(polls')
    BY <1>5 DEF Poll, Counted
  <2>3. GoesOrEnds /\ step' \in {"start", "poll", "job", "over"}
    BY <1>3, <2>1, <2>2, EndsHow, GoesHow DEF Steps
  <2>4. polls' \in 0 .. POLL_LIMIT
    BY <1>2, <2>1, <2>2, Limits
  <2>5. step' = "poll" => polls' < POLL_LIMIT
    BY <1>2, <2>1, <2>2, <2>4, Limits DEF PollsUsedUp, Finish
  <2> QED
    BY <1>1, <1>2, <1>3, <2>1, <2>3, <2>4, <2>5, TypeLocal
<1>6. CASE Start
  <2>1. step = "start" /\ job' = job /\ polls' = polls
    BY <1>6 DEF Start
  <2>2. \/ GoOn /\ exit' = exit /\ tree.client \notin {Missing, Garbled}
        \/ Finish("failed")
    BY <1>6 DEF Start
  <2>3. GoesOrEnds /\ step' \in {"create", "job", "over"}
    BY <1>3, <2>1, <2>2, EndsHow, GoesHow, Onwards DEF Steps
  <2>4. step' = "create" => tree.client \in Client
    BY <2>2 DEF Finish, TypeInv, DeployTypeOK, RepoTypes, Trees
  <2> QED
    BY <1>1, <1>2, <1>3, <2>1, <2>3, <2>4, TypeLocal
<1> QED
  BY <1>4, <1>5, <1>6

\* The steps of the script on its own: what the workflow is told, the key, the
\* signature, the question, the reads and the checks at the end.
LEMMA TypeAlone ==
  ASSUME TypeInv, Output \/ Keygen \/ Ask \/ ReadBack \/ VerifyLocally \/ Job \/ Die
  PROVE  TypeInv'
<1>1. /\ UNCHANGED <<chainVars, repoVars, runs, run, polls>>
      /\ (~Die => UNCHANGED waiting) /\ (Die => waiting' = FALSE) /\ (~Output => UNCHANGED known)
  BY DEF Output, Keygen, Ask, ReadBack, VerifyLocally, Job, Die
<1>2. /\ polls \in 0 .. POLL_LIMIT /\ waiting \in BOOLEAN /\ known \in {NoId, runs}
      /\ job \in {"none", "green", "red"} /\ (waiting => step \in Calls) /\ step \in Steps
  BY DEF TypeInv, DeployTypeOK, RunTypes
<1>3. CASE Output \/ Keygen \/ Ask \/ ReadBack \/ VerifyLocally
  <2>1. step \in {"output", "keygen", "ask", "read-back", "verify"} /\ job' = job
    BY <1>3 DEF Output, Keygen, Ask, ReadBack, VerifyLocally
  <2>2. waiting' = FALSE
    <3>1. ~Die \/ waiting' = FALSE
      BY <1>1
    <3> QED BY <1>1, <1>2, <2>1 DEF Calls
  <2>3. known' \in {NoId, runs}
    BY <1>1, <1>2 DEF Output, CurrentApp
  <2>4. \/ GoOn /\ exit' = exit
        \/ step' \in {"inscribe-2", "read-back"} /\ exit' = exit
        \/ Finish("failed") \/ Finish("ok")
    BY <1>3 DEF Output, Keygen, Ask, ReadBack, VerifyLocally
  <2>5. GoesOrEnds /\ step' \notin {"none", "gate", "poll", "start", "create"}
    <3>1. CASE GoOn /\ exit' = exit
      BY <2>1, <3>1, Onwards, GoesHow DEF Examples
    <3>2. CASE step' \in {"inscribe-2", "read-back"} /\ exit' = exit
      BY <2>1, <3>2, GoesHow DEF Steps
    <3>3. CASE Finish("failed") \/ Finish("ok")
      BY <3>3, EndsHow
    <3> QED BY <2>4, <3>1, <3>2, <3>3
  <2> QED
    BY <1>1, <1>2, <2>1, <2>2, <2>3, <2>5, TypeLocal
<1>4. CASE Job
  <2>1. step = "job" /\ exit \in {"ok", "failed", "refused"}
    BY <1>4 DEF Job, TypeInv, DeployTypeOK, RunTypes
  <2>2. exit' = exit /\ job' \in {"green", "red"} /\ step' = "over"
    BY <1>4 DEF Job, JobEnds
  <2>3. GoesOrEnds
    BY <2>1, <2>2 DEF GoesOrEnds
  <2>4. waiting' = waiting /\ waiting = FALSE /\ known' = known
    BY <1>2, <1>4, <2>1 DEF Job, Calls
  <2> QED
    BY <1>1, <1>2, <2>1, <2>2, <2>3, <2>4, TypeLocal
<1>5. CASE Die
  <2>1. step # "none" /\ waiting' = FALSE /\ known' = known
    BY <1>5 DEF Die, Idle
  <2>2. \/ Finish("failed") /\ job' = job
        \/ JobEnds("failed", "red")
    BY <1>5 DEF Die
  <2>3. GoesOrEnds /\ step' \in {"job", "over"}
    BY <2>2, EndsHow
  <2>4. job' \in {"none", "green", "red"}
    BY <1>2, <2>2 DEF JobEnds
  <2> QED
    BY <1>1, <1>2, <2>1, <2>3, <2>4, TypeLocal
<1> QED
  BY <1>3, <1>4, <1>5

\* What the script signs is a byte string.
LEMMA TypeSign ==
  ASSUME TypeInv, Sign
  PROVE  TypeInv'
<1>1. /\ step = "sign" /\ runs \in Apps /\ run \in Runs /\ waiting = FALSE
      /\ UNCHANGED <<chain, funds, pool, landed, repoVars, runs, run, waiting, polls, known, job>>
  BY DEF Sign, TypeInv, DeployTypeOK, RunTypes, Apps, Calls
<1>2. \/ /\ signature' = [signature EXCEPT ![runs] =
               [message |-> MessageOf(runs), sound |-> Library = "pinned", network |-> run.network]]
         /\ GoOn /\ exit' = exit
      \/ Finish("failed") /\ signature' = signature
  BY DEF Sign, CurrentApp
<1>3. ChainTypes'
  <2>1. [message |-> MessageOf(runs), sound |-> Library = "pinned", network |-> run.network]
        \in Signed
    <3>1. MessageOf(runs) \in Seq(Bytes) /\ run.network \in Networks
      BY <1>1, MessageOfRun DEF Runs
    <3> QED BY <3>1 DEF Signed
  <2> QED
    BY <1>1, <1>2, <2>1 DEF TypeInv, DeployTypeOK, ChainTypes
<1>4. GoesOrEnds /\ step' \in {"inscribe-1", "job", "over"}
  <2>1. CASE GoOn /\ exit' = exit
    BY <1>1, <2>1, Onwards, GoesHow DEF Steps
  <2>2. CASE Finish("failed")
    BY <2>2, EndsHow
  <2> QED BY <1>2, <2>1, <2>2
<1>5. RepoTypes'
  BY <1>1 DEF TypeInv, DeployTypeOK, RepoTypes
<1>6. RunTypes'
  <2>1. step' \in Steps /\ exit' \in {"none", "ok", "failed", "refused"}
        /\ (exit' = "none" <=> step' \notin {"job", "over"})
    BY <1>4 DEF GoesOrEnds, Steps
  <2> QED
    BY <1>1, <2>1 DEF TypeInv, DeployTypeOK, RunTypes
<1> QED
  BY <1>1, <1>3, <1>4, <1>5, <1>6 DEF TypeInv, DeployTypeOK

\* A call: sent, confirmed, or excepted.
LEMMA TypeCall ==
  ASSUME TypeInv, NEW call \in Calls, Submit(call) \/ Confirmed(call) \/ Except(call)
  PROVE  TypeInv'
<1>1. /\ step = call /\ step \notin {"none", "gate", "poll", "start", "job", "over"}
      /\ UNCHANGED <<repoVars, signature, funds, landed, runs, run, polls, known, job>>
  BY DEF Submit, Confirmed, Except, Calls
<1>2. /\ polls \in 0 .. POLL_LIMIT /\ known \in {NoId, runs} /\ job \in {"none", "green", "red"}
      /\ runs \in Apps /\ exit = "none"
  BY <1>1 DEF TypeInv, DeployTypeOK, RunTypes, Apps
<1>3. CASE Submit(call)
  <2>1. waiting' = TRUE /\ step' = step /\ exit' = exit
    BY <1>3 DEF Submit
  <2>2. pool' \subseteq DeployTxs
    BY <1>2, <1>3 DEF Submit, Tx, CurrentApp, DeployTxs, TypeInv, DeployTypeOK, ChainTypes
  <2>3. chain' \in [Apps -> [stage : 0 .. 5, program : Builds]]
    <3>1. CASE chain' = chain
      BY <3>1 DEF TypeInv, DeployTypeOK, ChainTypes
    <3>2. CASE call = "create" /\
               \E p \in Deployable(tree) : chain' = [chain EXCEPT ![CurrentApp].program = p]
      <4>1. Deployable(tree) \subseteq Builds
        BY <1>1, <3>2 DEF Deployable, TypeInv, Client
      <4> QED
        BY <1>2, <3>2, <4>1 DEF CurrentApp, TypeInv, DeployTypeOK, ChainTypes
    <3> QED
      BY <1>3, <3>1, <3>2 DEF Submit
  <2>4. ChainTypes'
    BY <1>1, <2>2, <2>3 DEF TypeInv, DeployTypeOK, ChainTypes
  <2>5. RepoTypes' /\ RunTypes'
    BY <1>1, <2>1 DEF TypeInv, DeployTypeOK, RepoTypes, RunTypes
  <2> QED
    BY <1>1, <2>1, <2>4, <2>5 DEF TypeInv, DeployTypeOK
<1>4. CASE Confirmed(call) \/ Except(call)
  <2>1. UNCHANGED chainVars /\ waiting' = FALSE
    BY <1>4 DEF Confirmed, Except
  <2>2. \/ GoOn /\ exit' = exit
        \/ step' \in {"ask", "inscribe-2"} /\ exit' = exit
        \/ Finish("failed")
    BY <1>4 DEF Confirmed, Except, AfterBothFail
  <2>3. GoesOrEnds /\ step' \notin {"none", "gate", "poll", "create"}
    <3>1. CASE GoOn /\ exit' = exit
      BY <1>1, <3>1, Onwards, GoesHow DEF Calls
    <3>2. CASE step' \in {"ask", "inscribe-2"} /\ exit' = exit
      BY <1>1, <3>2, GoesHow DEF Steps
    <3>3. CASE Finish("failed")
      BY <3>3, EndsHow
    <3> QED BY <2>2, <3>1, <3>2, <3>3
  <2> QED
    BY <1>1, <1>2, <2>1, <2>3, TypeLocal
<1> QED
  BY <1>3, <1>4

\* The network, the faucet and people: a call that lands moves its cell to the
\* stage it leads to, and is paid for.
LEMMA TypeOutside ==
  ASSUME TypeInv,
         \/ \E tx \in pool : Land(tx) \/ Drop(tx)
         \/ \E amount \in Grants : Grant(amount)
         \/ Commit \/ Retarget
         \/ UNCHANGED deployVars
  PROVE  TypeInv'
<1>1. UNCHANGED runVars
  BY DEF Land, Drop, Grant, Commit, Retarget
<1>2. RunTypes'
  BY <1>1 DEF TypeInv, DeployTypeOK, RunTypes
<1>3. runs \in Apps
  BY DEF TypeInv, DeployTypeOK, RunTypes, Apps
<1>4. ChainTypes'
  <2>1. ASSUME NEW tx \in pool, Land(tx) PROVE ChainTypes'
    <3>1. tx.app \in Apps /\ tx.call \in Calls
      BY DEF TypeInv, DeployTypeOK, ChainTypes, DeployTxs
    <3>2. Leads[tx.call] \in 0 .. 5 /\ Cost[tx.call] \in Nat
      BY <3>1, AnyCall
    <3>3. funds[tx.app] \in Nat /\ funds[tx.app] - Cost[tx.call] \in Nat
      <4>1. funds[tx.app] >= 1000 + Cost[tx.call]
        BY <2>1 DEF Land, Affordable, BASE_BALANCE
      <4>2. funds[tx.app] \in Nat /\ Cost[tx.call] \in Nat
        BY <3>1, <3>2 DEF TypeInv, DeployTypeOK, ChainTypes
      <4> QED BY <4>1, <4>2
    <3>4. chain' = [chain EXCEPT ![tx.app].stage = Leads[tx.call]]
          /\ funds' = [funds EXCEPT ![tx.app] = @ - Cost[tx.call]]
          /\ pool' = pool \ {tx} /\ landed' = landed \cup {tx} /\ signature' = signature
      BY <2>1 DEF Land
    <3>5. funds' = [funds EXCEPT ![tx.app] = funds[tx.app] - Cost[tx.call]]
      BY <3>1, <3>4 DEF TypeInv, DeployTypeOK, ChainTypes
    <3> QED
      BY <3>1, <3>2, <3>3, <3>4, <3>5 DEF TypeInv, DeployTypeOK, ChainTypes
  <2>2. ASSUME NEW tx \in pool, Drop(tx) PROVE ChainTypes'
    BY <2>2 DEF Drop, TypeInv, DeployTypeOK, ChainTypes
  <2>3. ASSUME NEW amount \in Grants, Grant(amount) PROVE ChainTypes'
    <3>1. amount \in Nat /\ funds[runs] \in Nat
      BY <1>3, <2>3, Limits DEF TypeInv, DeployTypeOK, ChainTypes
    <3>2. funds' = [funds EXCEPT ![runs] = funds[runs] + amount]
      BY <1>3, <2>3 DEF Grant, TypeInv, DeployTypeOK, ChainTypes
    <3> QED
      BY <1>3, <2>3, <3>1, <3>2 DEF Grant, TypeInv, DeployTypeOK, ChainTypes
  <2>4. CASE UNCHANGED chainVars
    BY <2>4 DEF TypeInv, DeployTypeOK, ChainTypes
  <2> QED
    BY <2>1, <2>2, <2>3, <2>4 DEF Commit, Retarget
<1>5. RepoTypes' /\ (step = "create" => tree' = tree)
  <2>1. CASE Commit
    <3>1. commits' \in 0 .. MaxCommits
      BY <2>1, Limits DEF Commit, TypeInv, DeployTypeOK, RepoTypes
    <3>2. tree' \in Trees
      BY <2>1 DEF Commit, TypeInv, DeployTypeOK, RepoTypes, Trees
    <3> QED
      BY <2>1, <3>1, <3>2 DEF Commit, Idle, TypeInv, DeployTypeOK, RepoTypes
  <2>2. CASE Retarget
    <3>1. chain[runs].program \in Builds
      BY <1>3 DEF TypeInv, DeployTypeOK, ChainTypes
    <3> QED
      BY <1>3, <2>2, <3>1 DEF Retarget, TypeInv, DeployTypeOK, RepoTypes
  <2>3. CASE UNCHANGED repoVars
    BY <2>3 DEF TypeInv, DeployTypeOK, RepoTypes
  <2> QED
    BY <2>1, <2>2, <2>3 DEF Land, Drop, Grant
<1> QED
  BY <1>1, <1>2, <1>4, <1>5 DEF TypeInv, DeployTypeOK

\* Every step keeps the types.
LEMMA TypeStep == TypeInv /\ [Next]_deployVars => TypeInv'
BY StepCases, TypeBegin, TypeBefore, TypeAlone, TypeSign, TypeCall, TypeOutside

\* Every variable keeps its type, and a program has ended in one of the three ways
\* exactly when its run is over.
THEOREM TypeInvariant == Spec => []TypeInv
<1> QED BY TypeInit, TypeStep, PTL DEF Spec

\* The type invariant the runs check.
THEOREM DeploymentTypes == Spec => []DeployTypeOK
<1>1. TypeInv => DeployTypeOK
  BY DEF TypeInv
<1> QED BY <1>1, TypeInvariant, PTL

---------------------------------------------------------------------------
(* How far a cell can be *)

\* The furthest stage the current run can have reached, or have a call pending for.
Ceiling ==
  IF step \in {"gate", "poll", "start"} THEN 0
  ELSE IF step = "create" THEN IF waiting THEN 1 ELSE 0
  ELSE IF step = "output" THEN 1
  ELSE IF step = "fund" THEN IF waiting THEN 2 ELSE 1
  ELSE IF step = "keygen" THEN IF run.entry = "interop" THEN 3 ELSE 2
  ELSE IF step = "mint" THEN IF waiting THEN 3 ELSE 2
  ELSE IF step = "register" THEN IF waiting THEN 4 ELSE 3
  ELSE IF step = "sign" THEN 4
  ELSE IF step = "inscribe-1" THEN IF waiting THEN 5 ELSE 4
  ELSE 5

\* The chain knows no later run; no call is for one; what landed has had its effect;
\* a call still pending, but for inscribe, has not, and one the chain accepts at any
\* time is the next of its run; and nothing of the current run is further than its
\* program, nor behind it while such calls are to come.
LedgerInv ==
  /\ \A app \in Apps : app > runs => chain[app].stage = 0
  /\ \A tx \in pool \cup landed : tx.app <= runs
  /\ \A tx \in landed : chain[tx.app].stage >= Leads[tx.call]
  /\ \A tx \in pool : Leads[tx.call] < 5 => chain[tx.app].stage < Leads[tx.call]
  /\ \A tx \in pool : Leads[tx.call] < 4 => chain[tx.app].stage + 1 = Leads[tx.call]
  /\ step \in {"output", "fund"} => chain[runs].stage >= 1
  /\ step \in {"keygen", "mint"} => chain[runs].stage >= 2
  /\ runs > 0 => chain[runs].stage <= Ceiling
  /\ \A tx \in pool : tx.app = runs => Leads[tx.call] <= Ceiling

\* An inscribed cell of a run has a sound signature, and a run that is reading back,
\* or ended well, has inscribed its cell.
InscribedInv ==
  /\ \A app \in Apps : app > 0 /\ chain[app].stage = 5 => signature[app].sound
  /\ step \in {"read-back", "verify"} \/ exit = "ok" => chain[runs].stage = 5

\* The ceiling, step by step.
LEMMA Ceilings ==
  /\ step \in {"gate", "poll", "start"} => Ceiling = 0
  /\ step = "create" => Ceiling = IF waiting THEN 1 ELSE 0
  /\ step = "output" => Ceiling = 1
  /\ step = "fund" => Ceiling = IF waiting THEN 2 ELSE 1
  /\ step = "keygen" => Ceiling = IF run.entry = "interop" THEN 3 ELSE 2
  /\ step = "mint" => Ceiling = IF waiting THEN 3 ELSE 2
  /\ step = "register" => Ceiling = IF waiting THEN 4 ELSE 3
  /\ step = "sign" => Ceiling = 4
  /\ step = "inscribe-1" => Ceiling = IF waiting THEN 5 ELSE 4
  /\ step \in {"none", "ask", "inscribe-2", "read-back", "verify", "job", "over"} => Ceiling = 5
BY DEF Ceiling

\* The same of the next state.
LEMMA CeilingsNext ==
  /\ step' = "create" => Ceiling' = IF waiting' THEN 1 ELSE 0
  /\ step' = "output" => Ceiling' = 1
  /\ step' = "fund" => Ceiling' = IF waiting' THEN 2 ELSE 1
  /\ step' = "keygen" => Ceiling' = IF run.entry' = "interop" THEN 3 ELSE 2
  /\ step' = "mint" => Ceiling' = IF waiting' THEN 3 ELSE 2
  /\ step' = "register" => Ceiling' = IF waiting' THEN 4 ELSE 3
  /\ step' = "sign" => Ceiling' = 4
  /\ step' = "inscribe-1" => Ceiling' = IF waiting' THEN 5 ELSE 4
  /\ step' \in {"none", "ask", "inscribe-2", "read-back", "verify", "job", "over"} => Ceiling' = 5
BY DEF Ceiling

\* It is a stage.
LEMMA CeilingIsAStage == Ceiling \in 0 .. 5 /\ Ceiling' \in 0 .. 5
<1>1. Ceiling \in {0, 1, 2, 3, 4, 5}
  BY DEF Ceiling
<1>2. Ceiling' \in {0, 1, 2, 3, 4, 5}
  BY DEF Ceiling
<1> QED BY <1>1, <1>2

\* Nothing is above the last stage.
LEMMA NothingAboveTheTop ==
  ASSUME Ceiling' = 5
  PROVE  Ceiling' >= Ceiling
BY CeilingIsAStage

\* A program that goes on never comes under a lower ceiling.
LEMMA CeilingRises ==
  ASSUME TypeInv,
         \/ Gate \/ Poll \/ Start \/ Output \/ Keygen \/ Sign \/ Ask \/ ReadBack
         \/ VerifyLocally \/ Job \/ Die
         \/ \E call \in Calls : Confirmed(call) \/ Except(call)
  PROVE  Ceiling' >= Ceiling
<1>1. run' = run /\ waiting \in BOOLEAN /\ (waiting => step \in Calls)
  BY DEF Gate, Poll, Start, Output, Keygen, Sign, Ask, ReadBack, VerifyLocally, Job, Die,
         Confirmed, Except, TypeInv, DeployTypeOK, RunTypes
<1>2. Ceiling \in 0 .. 5 /\ Ceiling' \in 0 .. 5
  BY CeilingIsAStage
<1>3. step' \in {"ask", "inscribe-2", "read-back", "verify", "job", "over"} => Ceiling' >= Ceiling
  <2>1. step' \in {"ask", "inscribe-2", "read-back", "verify", "job", "over"} => Ceiling' = 5
    BY CeilingsNext, Zenon
  <2>2. Ceiling' = 5 => Ceiling' >= Ceiling
    BY NothingAboveTheTop
  <2> QED BY <2>1, <2>2, Zenon
<1>4. Ceiling = 0 => Ceiling' >= Ceiling
  BY <1>2
<1>5. CASE Gate \/ Poll \/ Start
  <2>1. step \in {"gate", "poll", "start"}
    BY <1>5 DEF Gate, Poll, Start
  <2> QED BY <1>4, <2>1, Ceilings
<1>6. CASE GoOn /\ step \in {"output", "keygen", "sign", "read-back"} /\ waiting' = waiting
  <2>1. waiting' = FALSE
    BY <1>1, <1>6 DEF Calls
  <2>2. CASE step = "output"
    <3>1. Ceiling = 1 /\ Ceiling' = 1
      BY <1>6, <2>1, <2>2, Onwards, Ceilings, CeilingsNext
    <3> QED BY <3>1
  <2>3. CASE step = "keygen" /\ run.entry = "interop"
    <3>1. step' = "register" /\ run.entry' = "interop"
      BY <1>1, <1>6, <2>3, Onwards
    <3>2. Ceiling = 3 /\ Ceiling' = 3
      BY <2>1, <2>3, <3>1, Ceilings, CeilingsNext
    <3> QED BY <3>2
  <2>4. CASE step = "keygen" /\ run.entry # "interop"
    <3>1. step' = "mint"
      BY <1>6, <2>4, Onwards
    <3>2. Ceiling = 2 /\ Ceiling' = 2
      BY <2>1, <2>4, <3>1, Ceilings, CeilingsNext
    <3> QED BY <3>2
  <2>5. CASE step = "sign"
    <3>1. Ceiling = 4 /\ Ceiling' = 4
      BY <1>6, <2>1, <2>5, Onwards, Ceilings, CeilingsNext
    <3> QED BY <3>1
  <2>6. CASE step = "read-back"
    BY <1>3, <1>6, <2>6, Onwards
  <2> QED
    BY <1>6, <2>2, <2>3, <2>4, <2>5, <2>6
<1>7. CASE Output \/ Keygen \/ Sign \/ ReadBack
  <2>1. step \in {"output", "keygen", "sign", "read-back"} /\ waiting' = waiting
    BY <1>7 DEF Output, Keygen, Sign, ReadBack
  <2>2. GoOn \/ step' \in {"job", "over"}
    BY <1>7 DEF Output, Keygen, Sign, ReadBack, Finish
  <2> QED BY <1>3, <1>6, <2>1, <2>2
<1>8. CASE Ask \/ VerifyLocally \/ Job \/ Die
  <2>1. step' \in {"read-back", "inscribe-2", "job", "over"}
    BY <1>8 DEF Ask, VerifyLocally, Job, Die, Finish, JobEnds
  <2> QED BY <1>3, <2>1
<1>9. ASSUME NEW call \in Calls, Confirmed(call) PROVE Ceiling' >= Ceiling
  <2>1. GoOn /\ step = call /\ waiting /\ ~waiting'
    BY <1>9 DEF Confirmed
  <2>2. CASE step = "create"
    <3>1. Ceiling = 1 /\ Ceiling' = 1
      BY <2>1, <2>2, Onwards, Ceilings, CeilingsNext
    <3> QED BY <3>1
  <2>3. CASE step = "fund"
    <3>1. Ceiling = 2 /\ Ceiling' = 2
      <4>1. CASE run.entry = "interop"
        BY <2>1, <2>3, <4>1, Onwards, Ceilings, CeilingsNext
      <4>2. CASE run.entry # "interop"
        <5>1. step' = "keygen" /\ run.entry' # "interop"
          BY <1>1, <2>1, <2>3, <4>2, Onwards
        <5> QED BY <2>1, <2>3, <5>1, Ceilings, CeilingsNext
      <4> QED BY <4>1, <4>2
    <3> QED BY <3>1
  <2>4. CASE step = "mint"
    <3>1. Ceiling = 3 /\ Ceiling' = 3
      <4>1. CASE run.entry = "interop"
        <5>1. step' = "keygen" /\ run.entry' = "interop"
          BY <1>1, <2>1, <2>4, <4>1, Onwards
        <5> QED BY <2>1, <2>4, <5>1, Ceilings, CeilingsNext
      <4>2. CASE run.entry # "interop"
        BY <2>1, <2>4, <4>2, Onwards, Ceilings, CeilingsNext
      <4> QED BY <4>1, <4>2
    <3> QED BY <3>1
  <2>5. CASE step = "register"
    <3>1. Ceiling = 4 /\ Ceiling' = 4
      BY <2>1, <2>5, Onwards, Ceilings, CeilingsNext
    <3> QED BY <3>1
  <2>6. CASE step \in {"inscribe-1", "inscribe-2"}
    BY <1>3, <2>1, <2>6, Onwards
  <2> QED
    BY <2>1, <2>2, <2>3, <2>4, <2>5, <2>6 DEF Calls
<1>10. ASSUME NEW call \in Calls, Except(call) PROVE Ceiling' >= Ceiling
  <2>1. step' \in {"ask", "inscribe-2", "job", "over"}
    BY <1>10 DEF Except, Finish
  <2> QED BY <1>3, <2>1
<1> QED
  BY <1>5, <1>7, <1>8, <1>9, <1>10

\* A program whose next call the chain would take at any time has had the one before
\* confirmed.
Confirms ==
  /\ step' \in {"output", "fund"} => chain[runs].stage >= 1
  /\ step' \in {"keygen", "mint"} => chain[runs].stage >= 2

\* It comes to such a step from one where that held, or by a confirmation.
LEMMA ProgramConfirms ==
  ASSUME TypeInv, LedgerInv,
         \/ Gate \/ Poll \/ Start \/ Output \/ Keygen \/ Sign \/ Ask \/ ReadBack
         \/ VerifyLocally \/ Job \/ Die
         \/ \E call \in Calls : Confirmed(call) \/ Except(call)
  PROVE  Confirms
<1>1. runs \in Apps /\ chain[runs].stage \in 0 .. 5
  BY DEF TypeInv, DeployTypeOK, RunTypes, ChainTypes, Apps
<1>2. CASE Gate \/ Poll \/ Sign \/ Ask \/ ReadBack \/ VerifyLocally \/ Job \/ Die
  <2>1. CASE Gate \/ Poll \/ Ask \/ VerifyLocally \/ Job \/ Die
    <3>1. step' \in {"start", "poll", "job", "over", "read-back", "inscribe-2"}
      BY <2>1 DEF Gate, Poll, Ask, VerifyLocally, Job, Die, Finish, JobEnds
    <3> QED BY <3>1 DEF Confirms
  <2>2. CASE Sign \/ ReadBack
    <3>1. /\ step \in {"sign", "read-back"}
          /\ GoOn \/ step' \in {"job", "over"}
      BY <2>2 DEF Sign, ReadBack, Finish
    <3>2. step' \in {"inscribe-1", "verify", "job", "over"}
      BY <3>1, Onwards
    <3> QED BY <3>2 DEF Confirms
  <2> QED BY <1>2, <2>1, <2>2
<1>3. CASE Start
  <2>1. step' \in {"create", "job", "over"}
    BY <1>3, Onwards DEF Start, Finish
  <2> QED BY <2>1 DEF Confirms
<1>4. CASE Output
  <2>1. step = "output" /\ step' = "fund"
    BY <1>4, Onwards DEF Output
  <2> QED BY <2>1 DEF Confirms, LedgerInv
<1>5. CASE Keygen
  <2>1. step = "keygen" /\ step' \in {"mint", "register", "job", "over"}
    BY <1>5, Onwards DEF Keygen, Finish
  <2> QED BY <2>1 DEF Confirms, LedgerInv
<1>6. ASSUME NEW call \in Calls, Confirmed(call) PROVE Confirms
  <2>1. step = call /\ GoOn /\ Tx(call) \in landed /\ Tx(call).app = runs /\ Tx(call).call = call
    BY <1>6 DEF Confirmed, Tx, CurrentApp
  <2>2. chain[runs].stage >= Leads[call]
    BY <2>1 DEF LedgerInv
  <2>3. CASE call = "create"
    <3>1. step' \in {"output", "fund"} /\ Leads[call] = 1
      BY <2>1, <2>3, Onwards, Stages
    <3> QED BY <2>2, <3>1 DEF Confirms
  <2>4. CASE call \in {"fund", "mint"}
    <3>1. step' \notin {"output", "fund"}
      BY <2>1, <2>4, Onwards
    <3>2. Leads[call] = 2 \/ Leads[call] = 3
      BY <2>4, Stages
    <3>3. chain[runs].stage >= 2
      BY <1>1, <2>2, <3>2
    <3> QED BY <3>1, <3>3 DEF Confirms
  <2>5. CASE call \in {"register", "inscribe-1", "inscribe-2"}
    <3>1. step' \in {"sign", "read-back"}
      BY <2>1, <2>5, Onwards
    <3> QED BY <3>1 DEF Confirms
  <2> QED BY <2>3, <2>4, <2>5 DEF Calls
<1>7. ASSUME NEW call \in Calls, Except(call) PROVE Confirms
  <2>1. step' \in {"ask", "inscribe-2", "job", "over"}
    BY <1>7 DEF Except, Finish
  <2> QED BY <2>1 DEF Confirms
<1> QED
  BY <1>2, <1>3, <1>4, <1>5, <1>6, <1>7

\* Where the chain and the network are left alone, that is enough.
LEMMA LedgerAlone ==
  ASSUME TypeInv, LedgerInv, UNCHANGED <<pool, landed, runs>>,
         \A app \in Apps : chain'[app].stage = chain[app].stage,
         Ceiling' >= Ceiling, Confirms
  PROVE  LedgerInv'
<1>1. Ceiling \in 0 .. 5 /\ Ceiling' \in 0 .. 5
  BY CeilingIsAStage
<1>2. runs \in Apps /\ chain[runs].stage \in 0 .. 5
  BY DEF TypeInv, DeployTypeOK, RunTypes, ChainTypes, Apps
<1>3. \A tx \in pool \cup landed : tx.app \in Apps /\ Leads[tx.call] \in 1 .. 5
  BY AnyCall DEF TypeInv, DeployTypeOK, ChainTypes, DeployTxs
<1> QED
  BY <1>1, <1>2, <1>3 DEF LedgerInv, Confirms

\* A run begins with an application nobody has created.
LEMMA LedgerBegin ==
  ASSUME TypeInv, LedgerInv, NEW r \in Environments, Begin(r)
  PROVE  LedgerInv'
<1>1. /\ runs' = runs + 1 /\ runs \in Nat /\ runs + 1 \in Apps
      /\ UNCHANGED <<chain, pool, landed>>
  BY Limits DEF Begin, TypeInv, DeployTypeOK, RunTypes, Apps
<1>2. Ceiling' = 0
  BY DEF Begin, Ceiling
<1>3. \A tx \in pool \cup landed : tx.app \in Nat /\ tx.app <= runs
  BY DEF LedgerInv, TypeInv, DeployTypeOK, ChainTypes, DeployTxs, Apps
<1>4. chain[runs + 1].stage = 0
  BY <1>1 DEF LedgerInv
<1>5. \A app \in Apps : app > runs + 1 => chain[app].stage = 0
  BY <1>1 DEF LedgerInv, Apps
<1>6. \A tx \in pool \cup landed : tx.app <= runs + 1 /\ tx.app # runs + 1
  BY <1>1, <1>3
<1>7. step' \in {"gate", "start"}
  BY DEF Begin
<1> QED
  BY <1>1, <1>2, <1>4, <1>5, <1>6, <1>7 DEF LedgerInv

\* A call is sent for the next stage, and none has been for a later one.
LEMMA LedgerSubmit ==
  ASSUME TypeInv, LedgerInv, NEW call \in Calls, Submit(call)
  PROVE  LedgerInv'
<1>1. /\ step = call /\ ~waiting /\ waiting' = TRUE /\ step' = step
      /\ UNCHANGED <<landed, runs, run>>
  BY DEF Submit
<1>2. runs \in Apps /\ runs \in Nat /\ runs > 0
  <2>1. runs \in Nat /\ runs \in Apps
    BY DEF TypeInv, DeployTypeOK, RunTypes, Apps
  <2>2. runs # 0
    BY <1>1 DEF TypeInv, Calls
  <2> QED BY <2>1, <2>2
<1>3. Ceiling' = Leads[call] /\ (Leads[call] < 5 => Ceiling = Leads[call] - 1) /\ Ceiling' >= Ceiling
  <2>1. CASE call = "create"
    <3>1. Ceiling = 0 /\ Ceiling' = 1 /\ Leads[call] = 1
      BY <1>1, <2>1, Stages, Ceilings, CeilingsNext
    <3> QED BY <3>1
  <2>2. CASE call = "fund"
    <3>1. Ceiling = 1 /\ Ceiling' = 2 /\ Leads[call] = 2
      BY <1>1, <2>2, Stages, Ceilings, CeilingsNext
    <3> QED BY <3>1
  <2>3. CASE call = "mint"
    <3>1. Ceiling = 2 /\ Ceiling' = 3 /\ Leads[call] = 3
      BY <1>1, <2>3, Stages, Ceilings, CeilingsNext
    <3> QED BY <3>1
  <2>4. CASE call = "register"
    <3>1. Ceiling = 3 /\ Ceiling' = 4 /\ Leads[call] = 4
      BY <1>1, <2>4, Stages, Ceilings, CeilingsNext
    <3> QED BY <3>1
  <2>5. CASE call \in {"inscribe-1", "inscribe-2"}
    <3>1. Ceiling' = 5 /\ Leads[call] = 5
      BY <1>1, <2>5, Stages, CeilingsNext
    <3> QED BY <3>1, CeilingIsAStage
  <2> QED
    BY <2>1, <2>2, <2>3, <2>4, <2>5 DEF Calls
<1>4. \A app \in Apps : chain'[app].stage = chain[app].stage
  BY DEF Submit, TypeInv, DeployTypeOK, ChainTypes
<1>5. CASE pool' = pool
  <2>1. Confirms
    BY <1>1 DEF Confirms, LedgerInv
  <2> QED BY <1>1, <1>3, <1>4, <1>5, <2>1, LedgerAlone
<1>6. CASE pool' = pool \cup {Tx(call)}
  <2>1. Tx(call).app = runs /\ Tx(call).call = call
    BY DEF Tx, CurrentApp
  <2>2. chain[runs].stage <= Ceiling /\ chain[runs].stage \in 0 .. 5
    BY <1>2 DEF LedgerInv, TypeInv, DeployTypeOK, ChainTypes
  <2>3. Leads[call] < 5 => chain[runs].stage < Leads[call]
    BY <1>3, <2>2, AnyCall
  <2>4. Ceiling \in 0 .. 5 /\ Ceiling' \in 0 .. 5 /\ Leads[call] \in 1 .. 5
    BY CeilingIsAStage, AnyCall
  <2>5. \A tx \in pool \cup landed : tx.app \in Apps /\ Leads[tx.call] \in 1 .. 5
    BY AnyCall DEF TypeInv, DeployTypeOK, ChainTypes, DeployTxs
  <2>6. \A tx \in pool' : Leads[tx.call] < 5 => chain'[tx.app].stage < Leads[tx.call]
    BY <1>2, <1>4, <1>6, <2>1, <2>3, <2>5 DEF LedgerInv
  <2>7. \A tx \in pool' : tx.app = runs => Leads[tx.call] <= Ceiling'
    BY <1>3, <1>6, <2>1, <2>4, <2>5 DEF LedgerInv
  <2>8. chain'[runs].stage <= Ceiling'
    BY <1>2, <1>3, <1>4, <2>2, <2>4
  <2>9. \A tx \in (pool \cup landed)' : tx.app <= runs
    BY <1>1, <1>2, <1>6, <2>1 DEF LedgerInv
  <2>10. \A tx \in landed : chain'[tx.app].stage >= Leads[tx.call]
    BY <1>4, <2>5 DEF LedgerInv
  <2>11. Leads[call] < 4 => chain[runs].stage + 1 = Leads[call]
    <3>1. CASE call = "create"
      <4>1. Leads[call] = 1
        BY <3>1, Stages
      <4> QED BY <2>2, <2>3, <4>1
    <3>2. CASE call = "fund"
      <4>1. Leads[call] = 2 /\ chain[runs].stage >= 1
        BY <1>1, <3>2, Stages DEF LedgerInv
      <4> QED BY <2>2, <2>3, <4>1
    <3>3. CASE call = "mint"
      <4>1. Leads[call] = 3 /\ chain[runs].stage >= 2
        BY <1>1, <3>3, Stages DEF LedgerInv
      <4> QED BY <2>2, <2>3, <4>1
    <3>4. CASE call \in {"register", "inscribe-1", "inscribe-2"}
      BY <3>4, Stages
    <3> QED BY <3>1, <3>2, <3>3, <3>4 DEF Calls
  <2>12. \A tx \in pool' : Leads[tx.call] < 4 => chain'[tx.app].stage + 1 = Leads[tx.call]
    BY <1>2, <1>4, <1>6, <2>1, <2>5, <2>11 DEF LedgerInv
  <2>13. /\ step \in {"output", "fund"} => chain'[runs].stage >= 1
         /\ step \in {"keygen", "mint"} => chain'[runs].stage >= 2
    BY <1>2, <1>4 DEF LedgerInv
  <2> QED
    BY <1>1, <1>4, <2>6, <2>7, <2>8, <2>9, <2>10, <2>12, <2>13 DEF LedgerInv
<1> QED
  BY <1>5, <1>6 DEF Submit

\* Calls land in the order of the run: the chain asks it of register and inscribe, and
\* the others are sent one by one.
LEMMA LandsInOrder ==
  ASSUME TypeInv, LedgerInv, NEW tx \in pool, Land(tx)
  PROVE  chain[tx.app].stage + 1 = Leads[tx.call]
<1>1. tx.call \in Calls /\ Leads[tx.call] \in 1 .. 5
  BY AnyCall DEF TypeInv, DeployTypeOK, ChainTypes, DeployTxs
<1>2. CASE Leads[tx.call] < 4
  BY <1>2 DEF LedgerInv
<1>3. CASE Leads[tx.call] = 4
  <2>1. Leads["register"] = 4 /\ "register" \in Calls
    BY Stages DEF Calls
  <2>2. tx.call = "register"
    BY <1>1, <1>3, <2>1, OneCallPerStage
  <2>3. chain[tx.app].stage = 3
    BY <2>2 DEF Land, Accepts
  <2> QED BY <1>3, <2>3
<1>4. CASE Leads[tx.call] = 5
  <2>1. chain[tx.app].stage = 4
    BY <1>4 DEF Land, Accepts
  <2> QED BY <1>4, <2>1
<1> QED BY <1>1, <1>2, <1>3, <1>4

\* A call that lands moves its cell one stage on, to where it leads.
LEMMA LedgerLand ==
  ASSUME TypeInv, LedgerInv, NEW tx \in pool, Land(tx)
  PROVE  LedgerInv'
<1>1. /\ tx.app \in Apps /\ tx.call \in Calls /\ Leads[tx.call] \in 1 .. 5
      /\ chain[tx.app].stage \in 0 .. 5 /\ chain[tx.app].stage + 1 = Leads[tx.call]
  BY AnyCall, LandsInOrder DEF TypeInv, DeployTypeOK, ChainTypes, DeployTxs
<1>2. /\ pool' = pool \ {tx} /\ landed' = landed \cup {tx}
      /\ UNCHANGED <<runs, run, step, waiting>>
  BY DEF Land
<1>3. \A app \in Apps :
        chain'[app].stage = IF app = tx.app THEN Leads[tx.call] ELSE chain[app].stage
  BY DEF Land, TypeInv, DeployTypeOK, ChainTypes
<1>4. Ceiling' = Ceiling /\ Ceiling \in 0 .. 5
  BY <1>2, CeilingIsAStage DEF Ceiling
<1>5. runs \in Apps /\ runs \in Nat /\ (\A app \in Apps : app \in Nat /\ chain[app].stage \in 0 .. 5)
  BY DEF TypeInv, DeployTypeOK, RunTypes, ChainTypes, Apps
<1>6. \A t \in pool \cup landed :
        t.app \in Apps /\ t.call \in Calls /\ Leads[t.call] \in 1 .. 5
        /\ t = [app |-> t.app, call |-> t.call]
  BY AnyCall DEF TypeInv, DeployTypeOK, ChainTypes, DeployTxs
<1>7. tx.app <= runs
  BY DEF LedgerInv
<1>8. \A app \in Apps : app > runs => chain'[app].stage = 0
  BY <1>3, <1>5, <1>7 DEF LedgerInv
<1>9. \A t \in landed' : chain'[t.app].stage >= Leads[t.call]
  <2>1. \A t \in landed : chain[t.app].stage >= Leads[t.call]
    BY DEF LedgerInv
  <2> QED BY <1>1, <1>2, <1>3, <1>5, <1>6, <2>1
<1>10. \A t \in pool' : Leads[t.call] < 5 => chain'[t.app].stage < Leads[t.call]
  <2> SUFFICES ASSUME NEW t \in pool, t # tx, Leads[t.call] < 5
               PROVE  chain'[t.app].stage < Leads[t.call]
    BY <1>2
  <2>1. chain[t.app].stage < Leads[t.call]
    BY DEF LedgerInv
  <2>2. CASE t.app # tx.app
    BY <1>3, <1>6, <2>1, <2>2
  <2>3. CASE t.app = tx.app
    <3>1. t.call # tx.call
      BY <1>6, <2>3
    <3>2. Leads[t.call] # Leads[tx.call]
      BY <1>6, <3>1, OneCallPerStage
    <3> QED
      BY <1>1, <1>3, <1>6, <2>1, <2>3, <3>2
  <2> QED BY <2>2, <2>3
<1>11. runs > 0 => chain'[runs].stage <= Ceiling
  <2>1. CASE tx.app = runs
    BY <1>3, <1>5, <2>1 DEF LedgerInv
  <2>2. CASE tx.app # runs
    BY <1>3, <1>5, <2>2 DEF LedgerInv
  <2> QED BY <2>1, <2>2
<1>12. \A t \in (pool \cup landed)' : t.app <= runs
  BY <1>2 DEF LedgerInv
<1>13. \A t \in pool' : t.app = runs => Leads[t.call] <= Ceiling
  BY <1>2 DEF LedgerInv
<1>14. \A t \in pool' : Leads[t.call] < 4 => chain'[t.app].stage + 1 = Leads[t.call]
  <2> SUFFICES ASSUME NEW t \in pool, t # tx, Leads[t.call] < 4
               PROVE  chain'[t.app].stage + 1 = Leads[t.call]
    BY <1>2
  <2>1. chain[t.app].stage + 1 = Leads[t.call]
    BY DEF LedgerInv
  <2>2. t.app # tx.app
    <3>1. ASSUME t.app = tx.app PROVE FALSE
      <4>1. Leads[t.call] = Leads[tx.call]
        BY <1>1, <2>1, <3>1
      <4>2. t.call = tx.call
        BY <1>6, <4>1, OneCallPerStage
      <4> QED BY <1>6, <3>1, <4>2
    <3> QED BY <3>1
  <2> QED BY <1>3, <1>6, <2>1, <2>2
<1>15. /\ step \in {"output", "fund"} => chain'[runs].stage >= 1
       /\ step \in {"keygen", "mint"} => chain'[runs].stage >= 2
  <2>1. chain'[runs].stage >= chain[runs].stage
    BY <1>1, <1>3, <1>5
  <2>2. chain'[runs].stage \in 0 .. 5
    BY <1>1, <1>3, <1>5
  <2> QED BY <1>5, <2>1, <2>2 DEF LedgerInv
<1> QED
  BY <1>2, <1>4, <1>8, <1>9, <1>10, <1>11, <1>12, <1>13, <1>14, <1>15 DEF LedgerInv

\* A call that is dropped is one less to wait for.
LEMMA LedgerDrop ==
  ASSUME TypeInv, LedgerInv, NEW tx \in pool, Drop(tx)
  PROVE  LedgerInv'
<1>1. pool' \subseteq pool /\ UNCHANGED <<chain, landed, runs, run, step, waiting>>
  BY DEF Drop
<1>2. Ceiling' = Ceiling
  BY <1>1 DEF Ceiling
<1> QED
  BY <1>1, <1>2 DEF LedgerInv

\* Nothing has been created.
LEMMA LedgerInit == Init => LedgerInv
<1> SUFFICES ASSUME Init PROVE LedgerInv
  OBVIOUS
<1>1. runs = 0 /\ pool = {} /\ landed = {} /\ step = "none"
  BY DEF Init
<1>2. \A app \in Apps : app > 0 => chain[app].stage = 0
  BY DEF Init, Apps
<1> QED
  BY <1>1, <1>2 DEF LedgerInv

\* The faucet, a commit, a retargeting and a stutter move no cell.
LEMMA LedgerOutside ==
  ASSUME TypeInv, LedgerInv,
         Commit \/ Retarget \/ UNCHANGED deployVars \/ \E amount \in Grants : Grant(amount)
  PROVE  LedgerInv'
<1>1. UNCHANGED <<chain, pool, landed, runs, run, step, waiting>>
  BY DEF Commit, Retarget, Grant
<1>2. Ceiling' = Ceiling
  BY <1>1 DEF Ceiling
<1> QED
  BY <1>1, <1>2 DEF LedgerInv

\* The ledger's part of every step.
LEMMA LedgerStep == TypeInv /\ LedgerInv /\ [Next]_deployVars => LedgerInv'
<1> SUFFICES ASSUME TypeInv, LedgerInv, [Next]_deployVars PROVE LedgerInv'
  OBVIOUS
<1>1. CASE \/ Gate \/ Poll \/ Start \/ Output \/ Keygen \/ Sign \/ Ask \/ ReadBack
           \/ VerifyLocally \/ Job \/ Die
           \/ \E call \in Calls : Confirmed(call) \/ Except(call)
  <2>1. UNCHANGED <<chain, pool, landed, runs>>
    BY <1>1 DEF Gate, Poll, Start, Output, Keygen, Sign, Ask, ReadBack, VerifyLocally, Job, Die,
         Confirmed, Except
  <2> QED BY <1>1, <2>1, CeilingRises, ProgramConfirms, LedgerAlone
<1>2. CASE \E call \in Calls : Submit(call)
  BY <1>2, LedgerSubmit
<1>3. CASE \E r \in Environments : Begin(r)
  BY <1>3, LedgerBegin
<1>4. CASE \E tx \in pool : Land(tx) \/ Drop(tx)
  BY <1>4, LedgerLand, LedgerDrop
<1>5. CASE Commit \/ Retarget \/ UNCHANGED deployVars \/ \E amount \in Grants : Grant(amount)
  BY <1>5, LedgerOutside
<1> QED
  BY <1>1, <1>2, <1>3, <1>4, <1>5, StepCases

\* What a run has left pending or done is never ahead of its program, and what is
\* pending has not had its effect.
THEOREM LedgerFollowsPrograms == Spec => []LedgerInv
<1>1. Init => TypeInv /\ LedgerInv
  BY TypeInit, LedgerInit
<1>2. TypeInv /\ LedgerInv /\ [Next]_deployVars => TypeInv' /\ LedgerInv'
  BY TypeStep, LedgerStep
<1> QED BY <1>1, <1>2, PTL DEF Spec
---------------------------------------------------------------------------
(* Exit code 0 *)

\* No run has ended and only the earlier one's cell is inscribed.
LEMMA InscribedInit == Init => InscribedInv
<1> SUFFICES ASSUME Init PROVE InscribedInv
  OBVIOUS
<1>1. \A app \in Apps : app > 0 => chain[app].stage # 5
  BY DEF Init, Apps
<1>2. step = "none" /\ exit = "none"
  BY DEF Init
<1> QED
  BY <1>1, <1>2 DEF InscribedInv

\* A program's step that signs nothing and does not reach the read back.
LEMMA InscribedElsewhere ==
  ASSUME TypeInv, InscribedInv, UNCHANGED <<signature, runs>>,
         \A app \in Apps : chain'[app].stage = chain[app].stage,
         \/ step' \notin {"read-back", "verify"} /\ exit' # "ok"
         \/ chain[runs].stage = 5
         \/ UNCHANGED <<step, exit>>
         \/ UNCHANGED exit /\ step' \notin {"read-back", "verify"}
  PROVE  InscribedInv'
<1>1. runs \in Apps
  BY DEF TypeInv, DeployTypeOK, RunTypes, Apps
<1> QED
  BY <1>1 DEF InscribedInv

\* The chain inscribes what it accepts.
LEMMA InscribedLand ==
  ASSUME TypeInv, LedgerInv, InscribedInv, NEW tx \in pool, Land(tx)
  PROVE  InscribedInv'
<1>1. /\ tx.app \in Apps /\ Leads[tx.call] \in 1 .. 5 /\ chain[tx.app].stage \in 0 .. 5
      /\ chain[tx.app].stage + 1 = Leads[tx.call] /\ chain[tx.app].stage # 5
  BY AnyCall, LandsInOrder DEF TypeInv, DeployTypeOK, ChainTypes, DeployTxs
<1>2. \A app \in Apps :
        chain'[app].stage = IF app = tx.app THEN Leads[tx.call] ELSE chain[app].stage
  BY DEF Land, TypeInv, DeployTypeOK, ChainTypes
<1>3. Leads[tx.call] = 5 => signature[tx.app].sound
  BY DEF Land, Accepts
<1>4. UNCHANGED <<signature, runs, step, exit>> /\ runs \in Apps
  BY DEF Land, TypeInv, DeployTypeOK, RunTypes, Apps
<1>5. \A app \in Apps : app > 0 /\ chain'[app].stage = 5 => signature[app].sound
  BY <1>2, <1>3 DEF InscribedInv
<1>6. step \in {"read-back", "verify"} \/ exit = "ok" => chain'[runs].stage = 5
  BY <1>1, <1>2, <1>4 DEF InscribedInv
<1> QED
  BY <1>4, <1>5, <1>6 DEF InscribedInv

\* What is signed is signed before its cell can be inscribed.
LEMMA InscribedSign ==
  ASSUME TypeInv, LedgerInv, InscribedInv, Sign
  PROVE  InscribedInv'
<1>1. /\ step = "sign" /\ runs \in Apps /\ runs \in Nat /\ runs > 0 /\ exit = "none"
      /\ UNCHANGED <<chain, runs>>
  BY DEF Sign, TypeInv, DeployTypeOK, RunTypes, Apps
<1>2. chain[runs].stage # 5
  <2>1. Ceiling = 4
    BY <1>1, Ceilings
  <2>2. chain[runs].stage <= Ceiling
    BY <1>1 DEF LedgerInv
  <2> QED BY <2>1, <2>2
<1>3. \A app \in Apps : app # runs => signature'[app] = signature[app]
  BY DEF Sign, CurrentApp, TypeInv, DeployTypeOK, ChainTypes
<1>4. step' \notin {"read-back", "verify"} /\ exit' # "ok"
  <2>1. CASE GoOn /\ exit' = exit
    BY <1>1, <2>1, Onwards
  <2>2. CASE Finish("failed")
    BY <2>2 DEF Finish
  <2> QED BY <2>1, <2>2 DEF Sign
<1> QED
  BY <1>1, <1>2, <1>3, <1>4 DEF InscribedInv

\* A confirmed inscribe has landed, and what landed has had its effect.
LEMMA InscribedConfirmed ==
  ASSUME TypeInv, LedgerInv, InscribedInv, NEW call \in Calls, Confirmed(call)
  PROVE  InscribedInv'
<1>1. /\ step = call /\ GoOn /\ Tx(call) \in landed /\ UNCHANGED <<signature, chain, runs, exit>>
      /\ exit = "none" /\ runs \in Apps /\ chain[runs].stage \in 0 .. 5
  BY DEF Confirmed, Calls, TypeInv, DeployTypeOK, RunTypes, ChainTypes, Apps
<1>2. CASE call \in {"inscribe-1", "inscribe-2"}
  <2>1. Tx(call).app = runs /\ Tx(call).call = call
    BY DEF Tx, CurrentApp
  <2>2. chain[runs].stage >= Leads[call]
    BY <1>1, <2>1 DEF LedgerInv
  <2>3. Leads[call] = 5
    BY <1>2, Stages, Zenon
  <2>4. chain[runs].stage = 5
    BY <1>1, <2>2, <2>3
  <2> QED
    BY <1>1, <2>4, InscribedElsewhere
<1>3. CASE call \in {"create", "fund", "mint", "register"}
  <2>1. step' \notin {"read-back", "verify"}
    BY <1>1, <1>3, Onwards
  <2> QED
    BY <1>1, <2>1, InscribedElsewhere
<1> QED
  BY <1>2, <1>3 DEF Calls

\* The steps of a program that neither sign nor are confirmed.
LEMMA InscribedAlone ==
  ASSUME TypeInv, InscribedInv,
         \/ Gate \/ Poll \/ Start \/ Output \/ Keygen \/ Ask \/ ReadBack
         \/ VerifyLocally \/ Job \/ Die
         \/ \E call \in Calls : Submit(call) \/ Except(call)
  PROVE  InscribedInv'
<1>1. /\ UNCHANGED <<signature, runs>>
      /\ \A app \in Apps : chain'[app].stage = chain[app].stage
      /\ step \notin {"job", "over"} => exit = "none"
  <2>1. UNCHANGED <<signature, runs>>
    BY DEF Gate, Poll, Start, Output, Keygen, Ask, ReadBack, VerifyLocally, Job, Die, Submit, Except
  <2>2. ASSUME NEW call \in Calls, Submit(call)
        PROVE  \A app \in Apps : chain'[app].stage = chain[app].stage
    BY <2>2 DEF Submit, TypeInv, DeployTypeOK, ChainTypes
  <2>3. ASSUME ~\E call \in Calls : Submit(call) PROVE chain' = chain
    BY <2>3 DEF Gate, Poll, Start, Output, Keygen, Ask, ReadBack, VerifyLocally, Job, Die, Except
  <2>4. step \notin {"job", "over"} => exit = "none"
    BY DEF TypeInv, DeployTypeOK, RunTypes
  <2> QED BY <2>1, <2>2, <2>3, <2>4
<1>2. CASE Gate \/ Poll \/ Start \/ Output \/ Keygen
  <2>1. step \in {"gate", "poll", "start", "output", "keygen"} /\ exit = "none"
    BY <1>1, <1>2 DEF Gate, Poll, Start, Output, Keygen
  <2>2. \/ GoOn /\ exit' = exit /\ step \in {"start", "output", "keygen"}
        \/ step' \in {"start", "poll"} /\ exit' = exit
        \/ Finish("failed") \/ Finish("refused") \/ JobEnds("refused", "red")
    BY <1>2 DEF Gate, Poll, Start, Output, Keygen
  <2>3. step' \notin {"read-back", "verify"} /\ exit' # "ok"
    <3>1. CASE GoOn /\ exit' = exit /\ step \in {"start", "output", "keygen"}
      BY <2>1, <3>1, Onwards
    <3>2. CASE step' \in {"start", "poll"} /\ exit' = exit
      BY <2>1, <3>2
    <3>3. CASE Finish("failed") \/ Finish("refused") \/ JobEnds("refused", "red")
      BY <3>3 DEF Finish, JobEnds
    <3> QED BY <2>2, <3>1, <3>2, <3>3
  <2> QED
    BY <1>1, <2>3, InscribedElsewhere
<1>3. CASE Ask
  BY <1>1, <1>3, InscribedElsewhere DEF Ask, CurrentApp
<1>4. CASE ReadBack \/ VerifyLocally
  <2>1. chain[runs].stage = 5
    BY <1>4 DEF ReadBack, VerifyLocally, InscribedInv
  <2> QED
    BY <1>1, <2>1, InscribedElsewhere
<1>5. CASE Job
  <2>1. exit' = exit /\ step' = "over"
    BY <1>5 DEF Job, JobEnds
  <2> QED
    BY <1>1, <2>1, InscribedElsewhere
<1>6. CASE Die
  <2>1. exit' = "failed" /\ step' \in {"job", "over"}
    BY <1>6 DEF Die, Finish, JobEnds
  <2> QED
    BY <1>1, <2>1, InscribedElsewhere
<1>7. ASSUME NEW call \in Calls, Submit(call) PROVE InscribedInv'
  BY <1>1, <1>7, InscribedElsewhere DEF Submit
<1>8. ASSUME NEW call \in Calls, Except(call) PROVE InscribedInv'
  <2>1. exit = "none"
    BY <1>1, <1>8 DEF Except, Calls
  <2>2. step' \in {"ask", "inscribe-2", "job", "over"} /\ exit' # "ok"
    BY <1>8, <2>1 DEF Except, Finish, AfterBothFail
  <2> QED
    BY <1>1, <2>2, InscribedElsewhere
<1> QED
  BY <1>2, <1>3, <1>4, <1>5, <1>6, <1>7, <1>8

\* The invariant of exit code 0, over every step.
LEMMA InscribedStep == TypeInv /\ LedgerInv /\ InscribedInv /\ [Next]_deployVars => InscribedInv'
<1> SUFFICES ASSUME TypeInv, LedgerInv, InscribedInv, [Next]_deployVars PROVE InscribedInv'
  OBVIOUS
<1>1. CASE \E r \in Environments : Begin(r)
  <2>1. step' \in {"gate", "start"} /\ exit' = "none" /\ UNCHANGED <<chain, signature>>
    BY <1>1 DEF Begin
  <2> QED BY <2>1 DEF InscribedInv
<1>2. CASE \/ Commit \/ Retarget \/ UNCHANGED deployVars
           \/ \E amount \in Grants : Grant(amount)
           \/ \E tx \in pool : Drop(tx)
  <2>1. UNCHANGED <<chain, signature, runs, step, exit>>
    BY <1>2 DEF Commit, Retarget, Grant, Drop
  <2> QED BY <2>1 DEF InscribedInv
<1> QED
  BY <1>1, <1>2, StepCases, InscribedLand, InscribedSign, InscribedConfirmed, InscribedAlone

\* A program that ends with 0 has inscribed its cell, whatever the network delayed,
\* dropped or misreported.
THEOREM ExitOk == Spec => []ExitOkMeansInscribed
<1>1. Init => TypeInv /\ LedgerInv /\ InscribedInv
  BY TypeInit, LedgerInit, InscribedInit
<1>2. TypeInv /\ LedgerInv /\ InscribedInv /\ [Next]_deployVars
      => TypeInv' /\ LedgerInv' /\ InscribedInv'
  BY TypeStep, LedgerStep, InscribedStep
<1>3. TypeInv /\ InscribedInv => ExitOkMeansInscribed
  <2> SUFFICES ASSUME TypeInv, InscribedInv, exit = "ok"
               PROVE  chain[runs].stage = 5 /\ signature[runs].sound
    BY DEF ExitOkMeansInscribed
  <2>1. runs \in Apps /\ runs > 0
    BY DEF TypeInv, DeployTypeOK, RunTypes, Apps
  <2> QED BY <2>1 DEF InscribedInv
<1> QED BY <1>1, <1>2, <1>3, PTL DEF Spec
---------------------------------------------------------------------------
(* What the exit codes mean *)

\* A part of the tree is what it should be, or is missing, or cannot be read.
LEMMA Parts ==
  ASSUME tree \in Trees
  PROVE  /\ tree.source \in Sources /\ AVM_TARGET \in Targets
         /\ tree.teal # Missing =>
              /\ tree.teal.program \in Builds /\ tree.teal.program.target \in Targets
              /\ tree.teal.traced \in BOOLEAN
         /\ tree.client \notin {Missing, Garbled} =>
              tree.client.byteCode \in Builds /\ tree.client.rest \in Builds
         /\ Fresh(tree) = Build(tree.source, AVM_TARGET) /\ Fresh(tree) \in Builds
         /\ Missing \notin Builds /\ Garbled \notin Builds /\ Missing # Garbled
BY ArtifactAssumption DEF Trees, Teal, Builds, Client, Fresh, Build

\* verify_teal agrees when every part is the source's own.
LEMMA TealAgreed ==
  ASSUME tree \in Trees, NEW toolchain \in BOOLEAN, verify_teal(tree, toolchain) = 0
  PROVE  /\ toolchain /\ tree.teal # Missing
         /\ tree.teal.program = Build(tree.source, AVM_TARGET)
         /\ Deployable(tree) = {Build(tree.source, AVM_TARGET)}
<1>1. /\ tree.teal # Missing /\ toolchain /\ tree.spec # Garbled /\ tree.spec # Missing
      /\ DriftKinds(tree) = {}
  BY DEF verify_teal, CouldNotCheck
<1>2. /\ "behavioural" \notin DriftKinds(tree) /\ "traceability" \notin DriftKinds(tree)
      /\ "client" \notin DriftKinds(tree)
  BY <1>1
<1>3. /\ tree.teal.program = Fresh(tree) /\ tree.spec = Fresh(tree) /\ ~ClientProblem(tree)
  BY <1>2 DEF DriftKinds
<1>4. tree.client.byteCode = tree.spec /\ tree.client.rest = tree.spec
  BY <1>3 DEF ClientProblem, WholeSpecMatches
<1> QED
  BY <1>1, <1>3, <1>4 DEF Deployable, Fresh

\* What 0 and 1 mean for verify_deployment.
LEMMA DeploymentCodes ==
  ASSUME NEW app, NEW node \in BOOLEAN, NEW recompile \in BOOLEAN, NEW toolchain \in BOOLEAN
  PROVE  DeploymentVerdict(app, node, recompile, toolchain)
BY DEF DeploymentVerdict, verify_deployment, CouldNotCheck

\* When the source matches the committed TEAL and that matches the chain, the chain
\* serves the reviewed source.
THEOREM ReviewedSource == Spec => []ReviewedSourceIsDeployed
<1>1. TypeInv => ReviewedSourceIsDeployed
  <2> SUFFICES ASSUME TypeInv, NEW toolchain \in BOOLEAN, NEW node \in BOOLEAN,
                      verify_teal(tree, toolchain) = 0,
                      verify_deployment(tree, chain[target], node, FALSE, toolchain) = 0
               PROVE  Exists(chain[target]) /\ chain[target].program = Build(tree.source, AVM_TARGET)
    BY DEF ReviewedSourceIsDeployed
  <2>1. tree \in Trees
    BY DEF TypeInv, DeployTypeOK, RepoTypes
  <2>2. tree.teal.program = Build(tree.source, AVM_TARGET)
    BY <2>1, TealAgreed
  <2>3. Exists(chain[target]) /\ chain[target].program = tree.teal.program
    BY DeploymentCodes DEF DeploymentVerdict
  <2> QED BY <2>2, <2>3
<1> QED BY <1>1, TypeInvariant, PTL

\* When verify_teal agrees, the typed client deploys the committed source.
THEOREM ClientFollows == Spec => []ClientFollowsContract
<1>1. TypeInv => ClientFollowsContract
  <2> SUFFICES ASSUME TypeInv, NEW toolchain \in BOOLEAN, verify_teal(tree, toolchain) = 0
               PROVE  Deployable(tree) = {Build(tree.source, AVM_TARGET)}
    BY DEF ClientFollowsContract
  <2>1. tree \in Trees
    BY DEF TypeInv, DeployTypeOK, RepoTypes
  <2> QED BY <2>1, TealAgreed
<1> QED BY <1>1, TypeInvariant, PTL

\* A tree whose parts are all the source's own is one recompiled from it.
LEMMA WholeTree ==
  ASSUME tree \in Trees, tree.teal # Missing, tree.teal.program = Fresh(tree), tree.teal.traced,
         tree.maps = Fresh(tree), tree.spec = Fresh(tree),
         tree.client \notin {Missing, Garbled}, tree.client.byteCode = Fresh(tree),
         tree.client.rest = Fresh(tree)
  PROVE  tree = Committed(tree.source)
<1>1. tree = [source |-> tree.source, teal |-> tree.teal, maps |-> tree.maps, spec |-> tree.spec,
              client |-> tree.client]
  BY DEF Trees
<1>2. tree.teal \in Teal /\ tree.client \in Client
  BY DEF Trees
<1>3. tree.teal = [program |-> Fresh(tree), traced |-> TRUE]
  BY <1>2 DEF Teal
<1>4. tree.client = [byteCode |-> Fresh(tree), rest |-> Fresh(tree)]
  BY <1>2 DEF Client
<1> QED
  BY <1>1, <1>3, <1>4 DEF Committed, Fresh

\* And the other way round.
LEMMA CommittedParts ==
  ASSUME tree \in Trees, tree = Committed(tree.source)
  PROVE  /\ tree.teal # Missing /\ tree.teal.program = Fresh(tree) /\ tree.teal.traced
         /\ tree.maps = Fresh(tree) /\ tree.spec = Fresh(tree)
         /\ tree.client \notin {Missing, Garbled}
         /\ tree.client.byteCode = Fresh(tree) /\ tree.client.rest = Fresh(tree)
<1>1. /\ tree.teal = [program |-> Fresh(tree), traced |-> TRUE]
      /\ tree.client = [byteCode |-> Fresh(tree), rest |-> Fresh(tree)]
      /\ tree.maps = Fresh(tree) /\ tree.spec = Fresh(tree)
  BY DEF Committed, Fresh
<1>2. Fresh(tree) \in Builds
  BY Parts
<1>3. tree.teal \in Teal /\ tree.client \in Client
  BY <1>1, <1>2 DEF Teal, Client
<1>4. tree.teal # Missing /\ tree.client \notin {Missing, Garbled}
  BY <1>3, ArtifactAssumption
<1>5. tree.teal.program = Fresh(tree) /\ tree.teal.traced
  <2> HIDE DEF Fresh
  <2> QED BY <1>1
<1>6. tree.client.byteCode = Fresh(tree) /\ tree.client.rest = Fresh(tree)
  BY <1>1
<1> QED
  BY <1>1, <1>4, <1>5, <1>6

\* 0 of verify_teal is a tree recompiled from its source, and 1 a part that is not the
\* source's own, or that is missing or cannot be read where that is not told apart.
LEMMA TealCodes ==
  ASSUME tree \in Trees, NEW toolchain \in BOOLEAN
  PROVE  TealVerdict(toolchain)
<1> DEFINE code == verify_teal(tree, toolchain)
<1>1. ASSUME code = 0
      PROVE  toolchain /\ tree = Committed(tree.source)
  <2>1. /\ tree.teal # Missing /\ toolchain /\ tree.spec # Garbled /\ tree.spec # Missing
        /\ DriftKinds(tree) = {}
    BY <1>1 DEF verify_teal, CouldNotCheck
  <2>2. /\ "behavioural" \notin DriftKinds(tree) /\ "traceability" \notin DriftKinds(tree)
        /\ "client" \notin DriftKinds(tree)
    BY <2>1
  <2>3. /\ tree.teal.program = Fresh(tree) /\ tree.teal.traced
        /\ tree.maps = Fresh(tree) /\ tree.spec = Fresh(tree) /\ ~ClientProblem(tree)
    BY <2>2 DEF DriftKinds
  <2>4. /\ tree.client \notin {Missing, Garbled}
        /\ tree.client.byteCode = Fresh(tree) /\ tree.client.rest = Fresh(tree)
    BY <2>3 DEF ClientProblem, WholeSpecMatches
  <2> QED BY <2>1, <2>3, <2>4, WholeTree
<1>2. ASSUME toolchain, tree = Committed(tree.source)
      PROVE  code = 0
  <2>1. /\ tree.teal # Missing /\ tree.teal.program = Fresh(tree) /\ tree.teal.traced
        /\ tree.maps = Fresh(tree) /\ tree.spec = Fresh(tree)
        /\ tree.client \notin {Missing, Garbled}
        /\ tree.client.byteCode = Fresh(tree) /\ tree.client.rest = Fresh(tree)
    BY <1>2, CommittedParts
  <2>2. tree.teal.program.target = AVM_TARGET /\ Missing \notin {tree.maps, tree.spec}
        /\ tree.spec # Garbled
    BY <2>1, Parts DEF Build
  <2>3. ~ClientProblem(tree)
    BY <2>1 DEF ClientProblem, WholeSpecMatches
  <2>4. DriftKinds(tree) = {}
    BY <2>1, <2>3 DEF DriftKinds
  <2> QED BY <1>2, <2>1, <2>2, <2>4 DEF verify_teal
<1>3. ASSUME code = 1, tree.teal # Missing
      PROVE  /\ toolchain /\ Missing \notin {tree.maps, tree.spec}
             /\ \/ tree.client \in {Missing, Garbled} \/ tree.spec = Garbled
                \/ \E part \in {tree.teal.program, tree.maps, tree.spec,
                               tree.client.byteCode, tree.client.rest} :
                     part # Build(tree.source, AVM_TARGET)
                \/ ~tree.teal.traced
  <2>1. toolchain /\ Missing \notin {tree.maps, tree.spec}
    BY <1>3 DEF verify_teal, CouldNotCheck
  <2>2. code # 0
    BY <1>3
  <2>3. tree # Committed(tree.source)
    BY <1>2, <2>1, <2>2
  <2>4. Fresh(tree) = Build(tree.source, AVM_TARGET)
    BY DEF Fresh
  <2> QED BY <1>3, <2>1, <2>3, <2>4, WholeTree
<1>4. tree.teal = Missing => code = 1
  BY DEF verify_teal
<1> QED BY <1>1, <1>2, <1>3, <1>4 DEF TealVerdict

\* 0 of verify_client is a client that embeds the program of the specification, and 1
\* one that does not, or a specification that does not parse.
LEMMA ClientCodes ==
  ASSUME tree \in Trees, NEW toolchain \in BOOLEAN
  PROVE  ClientVerdict(toolchain)
<1>1. verify_client(tree) = 0 => tree.client \in Client /\ tree.client.byteCode = tree.spec
  BY DEF verify_client, Trees
<1>2. verify_client(tree) = 1 =>
        tree.spec = Garbled \/ (tree.client \in Client /\ tree.client.byteCode # tree.spec)
  BY DEF verify_client, Trees
<1>3. ASSUME verify_teal(tree, toolchain) = 0
      PROVE  verify_client(tree) = 0
  <2>1. tree = Committed(tree.source)
    BY <1>3, TealCodes DEF TealVerdict
  <2>2. /\ tree.client \notin {Missing, Garbled} /\ tree.client.byteCode = tree.spec
        /\ tree.spec = Fresh(tree)
    BY <2>1, CommittedParts
  <2>3. tree.spec \notin {Missing, Garbled}
    BY <2>2, Parts
  <2> QED BY <2>2, <2>3 DEF verify_client
<1> QED BY <1>1, <1>2, <1>3 DEF ClientVerdict

\* verify_trelyan agrees when nothing failed and nothing was left out.
LEMMA TrelyanAgrees ==
  ASSUME NEW app \in [stage : 0 .. 5, program : Builds], NEW node \in BOOLEAN,
         NEW released \in BOOLEAN, verify_trelyan(tree, app, pin, node, released) = 0
  PROVE  /\ node /\ Exists(app) /\ tree.teal # Missing
         /\ app.program = tree.teal.program /\ app.program = pin
         /\ app.stage >= 4
<1>1. node /\ Exists(app) /\ TrelyanFailures(tree, app, pin, released) = {}
      /\ NotChecked(tree, app) = {}
  BY DEF verify_trelyan
<1>2. /\ "replaced" \notin TrelyanFailures(tree, app, pin, released)
      /\ "committed TEAL" \notin TrelyanFailures(tree, app, pin, released)
      /\ "committed TEAL" \notin NotChecked(tree, app)
      /\ "registered keys" \notin NotChecked(tree, app)
  BY <1>1
<1>3. app.program = pin
  BY <1>2 DEF TrelyanFailures
<1>4. tree.teal # Missing
  BY <1>2 DEF NotChecked
<1>5. tree.teal.program = app.program
  BY <1>2, <1>4 DEF TrelyanFailures
<1>6. "k_" \in Boxes(app)
  BY <1>2 DEF NotChecked
<1>7. app.stage >= 4
  BY <1>6 DEF Boxes
<1> QED BY <1>1, <1>3, <1>4, <1>5, <1>7

\* What it says 1 for: a check that failed, a node that does not answer, or an
\* application that is not there.
LEMMA TrelyanCodes ==
  ASSUME NEW app \in [stage : 0 .. 5, program : Builds], NEW node \in BOOLEAN,
         NEW released \in BOOLEAN
  PROVE  TrelyanVerdict(app, node, released)
<1> DEFINE code == verify_trelyan(tree, app, pin, node, released)
<1>1. ASSUME code = 1, node, Exists(app)
      PROVE  \/ ~released \/ app.program # pin \/ app.stage < 4
             \/ tree.teal # Missing /\ app.program # tree.teal.program
  <2>1. PICK check \in TrelyanFailures(tree, app, pin, released) : TRUE
    BY <1>1 DEF verify_trelyan
  <2>2. \/ ~released \/ app.program # pin \/ Boxes(app) = {}
        \/ tree.teal # Missing /\ app.program # tree.teal.program
    BY <2>1 DEF TrelyanFailures
  <2>3. Boxes(app) = {} => app.stage < 4
    BY DEF Boxes
  <2> QED BY <2>2, <2>3
<1>2. ~node \/ ~Exists(app) => code = 1 /\ verify_deployment(tree, app, node, FALSE, TRUE) = 2
  BY DEF verify_trelyan, verify_deployment, CouldNotCheck
<1> QED BY <1>1, <1>2, TrelyanAgrees DEF TrelyanVerdict

\* What 0 and 1 mean, of each of the four programs: where 1 is a difference, and where
\* it is something that was not there to be compared.
THEOREM Verdicts == Spec => []ExitCodesTellWhatWasFound
<1>1. TypeInv => ExitCodesTellWhatWasFound
  <2> SUFFICES ASSUME TypeInv PROVE ExitCodesTellWhatWasFound
    OBVIOUS
  <2>1. tree \in Trees /\ chain[target] \in [stage : 0 .. 5, program : Builds]
    BY DEF TypeInv, DeployTypeOK, RepoTypes, ChainTypes
  <2> QED
    BY <2>1, DeploymentCodes, TealCodes, ClientCodes, TrelyanCodes DEF ExitCodesTellWhatWasFound
<1> QED BY <1>1, TypeInvariant, PTL

\* A green job means that the application of this run serves the committed program.
THEOREM GreenJob == Spec => GreenJobMeansMatch
<1>1. TypeInv /\ [Next]_deployVars =>
        [job # "green" /\ job' = "green" =>
           /\ Exists(chain[runs]) /\ tree.teal # Missing
           /\ chain[runs].program = tree.teal.program]_deployVars
  <2> SUFFICES ASSUME TypeInv, [Next]_deployVars, job # "green", job' = "green"
               PROVE  /\ Exists(chain[runs]) /\ tree.teal # Missing
                      /\ chain[runs].program = tree.teal.program
    OBVIOUS
  <2>1. Job
    <3>1. \A r \in Environments : ~Begin(r)
      BY DEF Begin
    <3>2. ~Gate /\ ~Poll /\ ~Start /\ ~Output /\ ~Keygen /\ ~Sign /\ ~Ask /\ ~ReadBack
          /\ ~VerifyLocally /\ ~Die
      BY DEF Gate, Poll, Start, Output, Keygen, Sign, Ask, ReadBack, VerifyLocally, Die, JobEnds
    <3>3. \A call \in Calls : ~Submit(call) /\ ~Confirmed(call) /\ ~Except(call)
      BY DEF Submit, Confirmed, Except
    <3>4. ~(UNCHANGED job)
      OBVIOUS
    <3>5. (\A tx \in pool : ~Land(tx) /\ ~Drop(tx)) /\ (\A amount \in Grants : ~Grant(amount))
          /\ ~Commit /\ ~Retarget /\ ~UNCHANGED deployVars
      BY <3>4 DEF Land, Drop, Grant, Commit, Retarget
    <3> QED BY <3>1, <3>2, <3>3, <3>5, StepCases
  <2>2. PICK node \in BOOLEAN :
          known # NoId /\ verify_deployment(tree, chain[known], node, FALSE, TRUE) = 0
    BY <2>1 DEF Job, JobApp, JobEnds
  <2>3. known = runs
    BY <2>2 DEF TypeInv
  <2> QED BY <2>2, <2>3, DeploymentCodes DEF DeploymentVerdict
<1> QED BY <1>1, TypeInvariant, PTL DEF Spec, GreenJobMeansMatch
---------------------------------------------------------------------------
(* A run that is over *)

\* Nothing but its own program and its own pending transactions moves an
\* application, and neither is left of an abandoned one.
LEMMA AbandonedStep ==
  ASSUME TypeInv, [Next]_deployVars, NEW app \in Apps, Abandoned(app)
  PROVE  Abandoned(app)' /\ chain'[app] = chain[app]
<1>1. app \in Nat /\ runs \in Nat
  BY DEF TypeInv, DeployTypeOK, RunTypes, Apps
<1>2. CASE \E r \in Environments : Begin(r)
  <2>1. runs' = runs + 1 /\ UNCHANGED <<chain, pool>>
    BY <1>2 DEF Begin
  <2> QED
    BY <1>1, <2>1 DEF Abandoned
<1>3. CASE \/ Gate \/ Poll \/ Start \/ Output \/ Keygen \/ Sign \/ Ask \/ ReadBack
           \/ VerifyLocally \/ Job \/ Die
           \/ \E call \in Calls : Confirmed(call) \/ Except(call)
  <2>1. UNCHANGED <<chain, pool, runs>>
    BY <1>3 DEF Gate, Poll, Start, Output, Keygen, Sign, Ask, ReadBack, VerifyLocally, Job, Die,
         Confirmed, Except
  <2>2. step \notin {"none", "over"}
    BY <1>3 DEF Gate, Poll, Start, Output, Keygen, Sign, Ask, ReadBack, VerifyLocally, Job, Die,
         Confirmed, Except, Calls, Idle
  <2>3. app < runs
    BY <2>2 DEF Abandoned, Idle
  <2> QED
    BY <2>1, <2>3 DEF Abandoned
<1>4. ASSUME NEW call \in Calls, Submit(call) PROVE Abandoned(app)' /\ chain'[app] = chain[app]
  <2>1. step = call /\ UNCHANGED runs
    BY <1>4 DEF Submit
  <2>2. app < runs
    BY <2>1 DEF Abandoned, Idle, Calls
  <2>3. pool' = pool \/ pool' = pool \cup {Tx(call)}
    BY <1>4 DEF Submit
  <2>4. Tx(call).app = runs
    BY DEF Tx, CurrentApp
  <2>5. \A tx \in pool' : tx.app # app
    BY <1>1, <2>2, <2>3, <2>4 DEF Abandoned
  <2>6. chain'[app] = chain[app]
    BY <1>1, <1>4, <2>2 DEF Submit, CurrentApp, TypeInv, DeployTypeOK, ChainTypes
  <2> QED
    BY <2>1, <2>2, <2>5, <2>6 DEF Abandoned
<1>5. ASSUME NEW tx \in pool, Land(tx) \/ Drop(tx)
      PROVE  Abandoned(app)' /\ chain'[app] = chain[app]
  <2>1. tx.app # app
    BY DEF Abandoned
  <2>2. pool' \subseteq pool /\ UNCHANGED <<runs, step>>
    BY <1>5 DEF Land, Drop
  <2>3. chain'[app] = chain[app]
    BY <1>5, <2>1 DEF Land, Drop, TypeInv, DeployTypeOK, ChainTypes
  <2> QED
    BY <2>2, <2>3 DEF Abandoned, Idle
<1>6. CASE Commit \/ Retarget \/ UNCHANGED deployVars \/ \E amount \in Grants : Grant(amount)
  <2>1. UNCHANGED <<chain, pool, runs, step>>
    BY <1>6 DEF Commit, Retarget, Grant
  <2> QED
    BY <2>1 DEF Abandoned, Idle
<1> QED
  BY <1>2, <1>3, <1>4, <1>5, <1>6, StepCases

\* The key of a run dies with it: its application stays as the run left it.
THEOREM DeadRuns == Spec => DeadRunsStayDead
<1>1. TypeInv /\ [Next]_deployVars =>
        [\A app \in Apps :
           Abandoned(app) => Abandoned(app)' /\ chain'[app] = chain[app]]_deployVars
  BY AbandonedStep
<1> QED BY <1>1, TypeInvariant, PTL DEF Spec, DeadRunsStayDead

---------------------------------------------------------------------------
(* Money *)

\* What the account must still hold when the cell has reached a stage.
Left == [stage \in 0 .. 5 |->
           CASE stage = 0 -> 19825 [] stage = 1 -> 18030 [] stage = 2 -> 3020
             [] stage = 3 -> 2010  [] stage = 4 -> 2000  [] OTHER -> 1500]

\* Once the wrapper has seen its money, and as long as a call of its run is pending,
\* the rest of the run is paid for.
PaidInv ==
  /\ run.entry = "fresh"
  /\ \/ step \notin {"none", "gate", "poll", "job", "over"}
     \/ \E tx \in pool : tx.app = runs
  => funds[runs] >= Left[chain[runs].stage]

\* The sums, stage by stage.
LEMMA Sums ==
  /\ Left[0] = 19825 /\ Left[1] = 18030 /\ Left[2] = 3020
  /\ Left[3] = 2010 /\ Left[4] = 2000 /\ Left[5] = 1500
BY DEF Left

\* Where each call leads, and what it costs.
LEMMA LeadsAndCosts ==
  ASSUME NEW call \in Calls
  PROVE  \/ Leads[call] = 1 /\ Cost[call] = APP_RESERVE + FEE
         \/ Leads[call] = 2 /\ Cost[call] = FUND_APP + FEE
         \/ Leads[call] = 3 /\ Cost[call] = ASSET_RESERVE + FEE
         \/ Leads[call] = 4 /\ Cost[call] = FEE
         \/ Leads[call] = 5 /\ Cost[call] \in {STATIC_FEE, MAX_FEE}
<1>1. /\ Leads["create"] = 1 /\ Cost["create"] = APP_RESERVE + FEE
      /\ Leads["fund"] = 2 /\ Cost["fund"] = FUND_APP + FEE
      /\ Leads["mint"] = 3 /\ Cost["mint"] = ASSET_RESERVE + FEE
      /\ Leads["register"] = 4 /\ Cost["register"] = FEE
      /\ Leads["inscribe-1"] = 5 /\ Cost["inscribe-1"] = STATIC_FEE
      /\ Leads["inscribe-2"] = 5 /\ Cost["inscribe-2"] = MAX_FEE
  BY DEF Leads, Cost, Calls
<1>2. call \in {"create", "fund", "mint", "register", "inscribe-1", "inscribe-2"}
  BY DEF Calls
<1>3. CASE call = "create"
  BY <1>1, <1>3, Zenon
<1>4. CASE call = "fund"
  BY <1>1, <1>4, Zenon
<1>5. CASE call = "mint"
  BY <1>1, <1>5, Zenon
<1>6. CASE call = "register"
  BY <1>1, <1>6, Zenon
<1>7. CASE call = "inscribe-1"
  BY <1>1, <1>7, Zenon
<1>8. CASE call = "inscribe-2"
  BY <1>1, <1>8, Zenon
<1> QED
  BY <1>2, <1>3, <1>4, <1>5, <1>6, <1>7, <1>8, Zenon

\* The sum of a stage covers the call that leads on from it, and the next sum.
LEMMA SumAfter ==
  ASSUME NEW stage \in 0 .. 5, NEW lead, NEW cost, stage + 1 = lead,
         NEW money \in Nat, money >= Left[stage],
         \/ lead = 1 /\ cost = APP_RESERVE + FEE
         \/ lead = 2 /\ cost = FUND_APP + FEE
         \/ lead = 3 /\ cost = ASSET_RESERVE + FEE
         \/ lead = 4 /\ cost = FEE
         \/ lead = 5 /\ cost \in {STATIC_FEE, MAX_FEE}
  PROVE  money - cost >= Left[lead]
<1> USE DEF APP_RESERVE, FEE, FUND_APP, ASSET_RESERVE, STATIC_FEE, MAX_FEE
<1>1. CASE lead = 1 /\ cost = APP_RESERVE + FEE
  BY <1>1, Sums
<1>2. CASE lead = 2 /\ cost = FUND_APP + FEE
  BY <1>2, Sums
<1>3. CASE lead = 3 /\ cost = ASSET_RESERVE + FEE
  BY <1>3, Sums
<1>4. CASE lead = 4 /\ cost = FEE
  BY <1>4, Sums
<1>5. CASE lead = 5 /\ cost \in {STATIC_FEE, MAX_FEE}
  BY <1>5, Sums
<1> QED
  BY <1>1, <1>2, <1>3, <1>4, <1>5

\* As long as a call has not had its effect, or is inscribe, the sum of the stage
\* covers it and the balance the account keeps.
LEMMA SumBefore ==
  ASSUME NEW stage \in 0 .. 5, NEW lead, NEW cost, lead < 5 => stage < lead,
         NEW money \in Nat, money >= Left[stage],
         \/ lead = 1 /\ cost = APP_RESERVE + FEE
         \/ lead = 2 /\ cost = FUND_APP + FEE
         \/ lead = 3 /\ cost = ASSET_RESERVE + FEE
         \/ lead = 4 /\ cost = FEE
         \/ lead = 5 /\ cost \in {STATIC_FEE, MAX_FEE}
  PROVE  money >= BASE_BALANCE + cost
<1> USE DEF BASE_BALANCE, APP_RESERVE, FEE, FUND_APP, ASSET_RESERVE, STATIC_FEE, MAX_FEE
<1>1. /\ Left[stage] >= 1500
      /\ stage <= 3 => Left[stage] >= 2010
      /\ stage <= 2 => Left[stage] >= 3020
      /\ stage <= 1 => Left[stage] >= 18030
      /\ stage = 0 => Left[stage] = 19825
  <2>1. stage \in {0, 1, 2, 3, 4, 5}
    OBVIOUS
  <2> QED BY <2>1, Sums
<1>2. Left[stage] \in Nat
  BY Sums
<1> QED
  BY <1>1, <1>2
\* The account's money and the stage of its cell are numbers.
LEMMA Accounts ==
  ASSUME TypeInv
  PROVE  /\ runs \in Apps /\ run.entry \in Scripted \cup Examples
         /\ \A app \in Apps : funds[app] \in Nat /\ chain[app].stage \in 0 .. 5
         /\ \A tx \in pool : tx.app \in Apps /\ tx.call \in Calls
BY DEF TypeInv, DeployTypeOK, RunTypes, ChainTypes, Apps, Runs, DeployTxs

\* A run that has not started has nothing pending.
LEMMA NothingPending ==
  ASSUME TypeInv, LedgerInv, step \in {"gate", "poll", "start"}
  PROVE  chain[runs].stage = 0 /\ \A tx \in pool : tx.app # runs
<1>1. Ceiling = 0 /\ runs \in Nat /\ runs > 0 /\ runs \in Apps /\ chain[runs].stage \in 0 .. 5
  <2>1. Ceiling = 0
    BY Ceilings
  <2>2. runs # 0
    BY DEF TypeInv
  <2>3. runs \in Nat /\ runs \in Apps
    BY DEF TypeInv, DeployTypeOK, RunTypes, Apps
  <2> QED BY <2>1, <2>2, <2>3, Accounts
<1>2. chain[runs].stage <= 0 /\ \A tx \in pool : tx.app = runs => Leads[tx.call] <= 0
  BY <1>1 DEF LedgerInv
<1>3. \A tx \in pool : Leads[tx.call] \in 1 .. 5
  BY Accounts, AnyCall
<1> QED BY <1>1, <1>2, <1>3

\* A step that leaves the run's money and stage alone, and makes nothing pending.
LEMMA PaidAlone ==
  ASSUME TypeInv, PaidInv, UNCHANGED <<runs, run>>,
         \A tx \in pool' : tx.app = runs =>
           \/ \E t \in pool : t.app = runs
           \/ step \notin {"none", "gate", "poll", "job", "over"},
         run.entry = "fresh" => funds'[runs] = funds[runs],
         chain'[runs].stage = chain[runs].stage,
         \/ step' \in {"none", "gate", "poll", "job", "over"}
         \/ step \notin {"none", "gate", "poll", "job", "over"}
         \/ run.entry # "fresh"
         \/ funds[runs] >= Left[chain[runs].stage]
  PROVE  PaidInv'
<1>1. (funds[runs] >= Left[chain[runs].stage])' <=> funds'[runs] >= Left[chain[runs].stage]
  OBVIOUS
<1>2. ASSUME run.entry = "fresh",
             \/ step' \notin {"none", "gate", "poll", "job", "over"}
             \/ \E tx \in pool' : tx.app = runs
      PROVE  funds[runs] >= Left[chain[runs].stage]
  BY <1>2 DEF PaidInv
<1> QED
  BY <1>1, <1>2 DEF PaidInv

\* The wait ends when the account holds what the whole run costs.
LEMMA PaidPoll ==
  ASSUME TypeInv, LedgerInv, PaidInv, Poll
  PROVE  PaidInv'
<1>1. step = "poll" /\ UNCHANGED <<chain, funds, pool, runs, run>>
  BY DEF Poll
<1>2. chain[runs].stage = 0 /\ \A tx \in pool : tx.app # runs
  BY <1>1, NothingPending
<1>3. step' = "start" => funds[runs] >= 20000
  <2>1. PICK seen \in {funds[runs], 0} :
          IF seen >= NEEDED
          THEN step' = "start" /\ UNCHANGED <<polls, exit>>
          ELSE /\ polls' = Counted(polls)
               /\ IF PollsUsedUp(polls') THEN Finish("refused") ELSE UNCHANGED <<step, exit>>
    BY DEF Poll
  <2>2. CASE seen >= 20000
    BY <2>1, <2>2
  <2>3. CASE ~(seen >= 20000)
    BY <1>1, <2>1, <2>3 DEF NEEDED, Finish
  <2> QED BY <2>2, <2>3
<1>4. step' \in {"start", "poll", "job", "over"}
  BY <1>1 DEF Poll, Finish
<1>5. step' = "start" => funds[runs] >= Left[chain[runs].stage]
  <2>1. Left[chain[runs].stage] = 19825
    BY <1>2, Sums
  <2>2. funds[runs] \in Nat
    BY Accounts
  <2> QED BY <1>3, <2>1, <2>2
<1> QED
  BY <1>1, <1>2, <1>4, <1>5 DEF PaidInv

\* A call that lands is paid for, and leaves enough for the rest.
LEMMA PaidLand ==
  ASSUME TypeInv, LedgerInv, PaidInv, NEW tx \in pool, Land(tx)
  PROVE  PaidInv'
<1>1. /\ tx.app \in Apps /\ tx.call \in Calls /\ runs \in Apps
      /\ chain[tx.app].stage \in 0 .. 5 /\ funds[tx.app] \in Nat
  BY Accounts
<1>2. /\ chain[tx.app].stage + 1 = Leads[tx.call]
      /\ chain' = [chain EXCEPT ![tx.app].stage = Leads[tx.call]]
      /\ funds' = [funds EXCEPT ![tx.app] = @ - Cost[tx.call]]
      /\ pool' \subseteq pool /\ UNCHANGED <<runs, run, step>>
  BY LandsInOrder DEF Land
<1>3. CASE tx.app # runs
  <2>1. funds'[runs] = funds[runs] /\ chain'[runs] = chain[runs]
    BY <1>1, <1>2, <1>3 DEF TypeInv, DeployTypeOK, ChainTypes
  <2> QED
    BY <1>2, <2>1 DEF PaidInv
<1>4. CASE tx.app = runs
  <2>1. funds'[runs] = funds[runs] - Cost[tx.call] /\ chain'[runs].stage = Leads[tx.call]
    BY <1>1, <1>2, <1>4 DEF TypeInv, DeployTypeOK, ChainTypes
  <2>2. run.entry = "fresh" => funds[runs] >= Left[chain[runs].stage]
    BY <1>4 DEF PaidInv
  <2>3. ASSUME run.entry = "fresh"
        PROVE  funds[runs] - Cost[tx.call] >= Left[Leads[tx.call]]
    <3>1. funds[tx.app] >= Left[chain[tx.app].stage]
      BY <1>4, <2>2, <2>3
    <3>2. funds[tx.app] - Cost[tx.call] >= Left[Leads[tx.call]]
      BY <1>1, <1>2, <3>1, LeadsAndCosts, SumAfter
    <3> QED BY <1>4, <3>2
  <2> QED
    BY <1>2, <2>1, <2>3 DEF PaidInv
<1> QED BY <1>3, <1>4
\* A run begins before its gates, with nothing pending.
LEMMA PaidBegin ==
  ASSUME TypeInv, LedgerInv, NEW r \in Environments, Begin(r)
  PROVE  PaidInv'
<1>1. run' = r /\ runs' = runs + 1 /\ pool' = pool
  BY DEF Begin
<1>2. r.entry = "fresh" => step' = "gate"
  BY DEF Begin, Wrapped
<1>3. \A tx \in pool : tx.app # runs + 1
  <2>1. runs \in Nat /\ \A tx \in pool : tx.app \in Nat /\ tx.app <= runs
    BY DEF TypeInv, DeployTypeOK, RunTypes, ChainTypes, DeployTxs, Apps, LedgerInv
  <2> QED BY <2>1
<1> QED
  BY <1>1, <1>2, <1>3 DEF PaidInv

\* The steps of a program: none spends money of itself.
LEMMA PaidProgram ==
  ASSUME TypeInv, LedgerInv, PaidInv,
         \/ Gate \/ Start \/ Output \/ Keygen \/ Sign \/ Ask \/ ReadBack
         \/ VerifyLocally \/ Job \/ Die
         \/ \E call \in Calls : Submit(call) \/ Confirmed(call) \/ Except(call)
  PROVE  PaidInv'
<1>1. UNCHANGED <<runs, run, funds>>
  BY DEF Gate, Start, Output, Keygen, Sign, Ask, ReadBack, VerifyLocally, Job, Die,
         Submit, Confirmed, Except
<1>2. CASE Gate
  <2>1. UNCHANGED <<chain, pool>> /\ (run.entry = "fresh" => step' \in {"poll", "job", "over"})
    BY <1>2 DEF Gate, Finish
  <2> QED BY <1>1, <2>1, PaidAlone
<1>3. CASE \/ Start \/ Output \/ Keygen \/ Sign \/ Ask \/ ReadBack \/ VerifyLocally
           \/ \E call \in Calls : Confirmed(call) \/ Except(call)
  <2>1. UNCHANGED <<chain, pool>> /\ step \notin {"none", "gate", "poll", "job", "over"}
    BY <1>3 DEF Start, Output, Keygen, Sign, Ask, ReadBack, VerifyLocally, Confirmed, Except, Calls
  <2> QED BY <1>1, <2>1, PaidAlone
<1>4. CASE Job \/ Die
  <2>1. UNCHANGED <<chain, pool>> /\ step' \in {"job", "over"}
    BY <1>4 DEF Job, Die, Finish, JobEnds
  <2> QED BY <1>1, <2>1, PaidAlone
<1>5. ASSUME NEW call \in Calls, Submit(call) PROVE PaidInv'
  <2>1. step \notin {"none", "gate", "poll", "job", "over"}
    BY <1>5 DEF Submit, Calls
  <2>2. chain'[runs].stage = chain[runs].stage
    BY <1>5, Accounts DEF Submit, CurrentApp, TypeInv, DeployTypeOK, ChainTypes
  <2> QED BY <1>1, <2>1, <2>2, PaidAlone
<1> QED
  BY <1>2, <1>3, <1>4, <1>5

\* The money's part of every step.
LEMMA PaidStep == TypeInv /\ LedgerInv /\ PaidInv /\ [Next]_deployVars => PaidInv'
<1> SUFFICES ASSUME TypeInv, LedgerInv, PaidInv, [Next]_deployVars PROVE PaidInv'
  OBVIOUS
<1>1. ASSUME NEW tx \in pool, Drop(tx) PROVE PaidInv'
  <2>1. pool' \subseteq pool /\ UNCHANGED <<runs, run, step, funds, chain>>
    BY <1>1 DEF Drop
  <2> QED BY <2>1 DEF PaidInv
<1>2. ASSUME NEW amount \in Grants, Grant(amount) PROVE PaidInv'
  <2>1. step = "poll" /\ UNCHANGED <<pool, runs, step>>
    BY <1>2 DEF Grant
  <2>2. \A tx \in pool : tx.app # runs
    BY <2>1, NothingPending
  <2> QED BY <2>1, <2>2 DEF PaidInv
<1>3. CASE Commit \/ Retarget \/ UNCHANGED deployVars
  <2>1. UNCHANGED <<pool, runs, run, step, funds, chain>>
    BY <1>3 DEF Commit, Retarget
  <2> QED BY <2>1 DEF PaidInv
<1> QED
  BY <1>1, <1>2, <1>3, StepCases, PaidBegin, PaidPoll, PaidProgram, PaidLand

\* No transaction of a fresh run is refused for want of money.
THEOREM FreshRuns == Spec => []FreshRunsArePaidFor
<1>1. Init => TypeInv /\ LedgerInv /\ PaidInv
  <2>1. Init => PaidInv
    BY DEF Init, PaidInv, NoRun
  <2> QED BY <2>1, TypeInit, LedgerInit
<1>2. TypeInv /\ LedgerInv /\ PaidInv /\ [Next]_deployVars => TypeInv' /\ LedgerInv' /\ PaidInv'
  BY TypeStep, LedgerStep, PaidStep
<1>3. TypeInv /\ LedgerInv /\ PaidInv => FreshRunsArePaidFor
  <2> SUFFICES ASSUME TypeInv, LedgerInv, PaidInv, run.entry = "fresh",
                      NEW tx \in pool, tx.app = runs
               PROVE  Affordable(tx)
    BY DEF FreshRunsArePaidFor
  <2>1. /\ tx.app \in Apps /\ tx.call \in Calls
        /\ chain[tx.app].stage \in 0 .. 5 /\ funds[tx.app] \in Nat
    BY Accounts
  <2>2. funds[tx.app] >= Left[chain[tx.app].stage]
    BY DEF PaidInv
  <2>3. Leads[tx.call] < 5 => chain[tx.app].stage < Leads[tx.call]
    BY DEF LedgerInv
  <2>4. funds[tx.app] >= BASE_BALANCE + Cost[tx.call]
    BY <2>1, <2>2, <2>3, LeadsAndCosts, SumBefore
  <2>5. FUND_APP >= Locked[tx.call]
    <3>1. \A call \in Calls : Locked[call] \in {0, 8430, 8915}
      BY DEF Locked, BASE_BALANCE, KEY_AND_OWNER_BOXES, RECORD_BOX
    <3> QED BY <2>1, <3>1 DEF FUND_APP
  <2> QED BY <2>4, <2>5 DEF Affordable
<1> QED BY <1>1, <1>2, <1>3, PTL DEF Spec

---------------------------------------------------------------------------
(* What is signed *)

\* A run about to inscribe has signed the message of its own cell.
SignedInv == step = "inscribe-1" => signature[runs].message = MessageOf(runs)

\* A run's application and cell have ids of the ledger.
LEMMA OwnIds ==
  ASSUME NEW app \in Apps
  PROVE  app \in Ids /\ CellOf(app) \in Ids
BY DeploymentAssumption DEF Apps, CellOf, Ids

\* Two inscriptions with one message.
SameMessage(app1, cell1, artifact1, genesis1, app2, cell2, artifact2, genesis2) ==
  Assembled(app1, cell1, artifact1, genesis1) = Assembled(app2, cell2, artifact2, genesis2)

\* They are the same inscription.
LEMMA OneMessageOneInscription ==
  ASSUME NEW app1 \in Ids, NEW cell1 \in Ids, NEW artifact1 \in Hashes, NEW genesis1 \in Hashes,
         NEW app2 \in Ids, NEW cell2 \in Ids, NEW artifact2 \in Hashes, NEW genesis2 \in Hashes,
         SameMessage(app1, cell1, artifact1, genesis1, app2, cell2, artifact2, genesis2)
  PROVE  app1 = app2 /\ cell1 = cell2 /\ artifact1 = artifact2 /\ genesis1 = genesis2
<1>1. FitsUint64(app1) /\ FitsUint64(cell1) /\ FitsUint64(app2) /\ FitsUint64(cell2)
  BY DeploymentAssumption
<1>2. Ids \in SUBSET Int
  BY DEF Ids
<1>3. MessageBindsEveryField(Ids)
  BY <1>2, MessageIsBinding
<1> QED
  BY <1>1, <1>3 DEF MessageBindsEveryField, SameMessage

\* Nothing else leads to the inscribe call, or changes what was signed.
LEMMA SignedStep == TypeInv /\ SignedInv /\ [Next]_deployVars => SignedInv'
<1> SUFFICES ASSUME TypeInv, SignedInv, [Next]_deployVars, step' = "inscribe-1"
             PROVE  SignedInv'
  BY DEF SignedInv
<1>1. ASSUME UNCHANGED <<signature, runs, run, step>>
      PROVE  SignedInv'
  BY <1>1 DEF SignedInv, MessageOf
<1>2. CASE Sign
  <2>1. runs \in Apps
    BY Accounts
  <2>2. ~Finish("failed") /\ UNCHANGED <<runs, run>>
    BY <1>2 DEF Sign, Finish
  <2>3. signature' = [signature EXCEPT ![runs] =
                        [message |-> MessageOf(runs), sound |-> Library = "pinned",
                         network |-> run.network]]
    BY <1>2, <2>2 DEF Sign, CurrentApp
  <2>4. signature'[runs].message = MessageOf(runs)
    BY <2>1, <2>3 DEF TypeInv, DeployTypeOK, ChainTypes
  <2> QED BY <2>2, <2>4 DEF SignedInv, MessageOf
<1>3. CASE Submit("inscribe-1") \/ \E call \in Calls : Submit(call)
  BY <1>1, <1>3 DEF Submit
<1>4. ~(\E r \in Environments : Begin(r)) /\ ~Gate /\ ~Ask /\ ~VerifyLocally /\ ~Job /\ ~Die
  BY DEF Begin, Gate, Ask, VerifyLocally, Job, Die, Finish, JobEnds
<1>5. ~Poll
  BY DEF Poll, Finish
<1>6. ~Start /\ ~Output /\ ~Keygen /\ ~ReadBack
  BY Onwards DEF Start, Output, Keygen, ReadBack, Finish
<1>7. \A call \in Calls : ~Confirmed(call) /\ ~Except(call)
  BY Onwards DEF Confirmed, Except, Finish, Calls
<1>8. CASE \/ \E tx \in pool : Land(tx) \/ Drop(tx)
           \/ \E amount \in Grants : Grant(amount)
           \/ Commit \/ Retarget \/ UNCHANGED deployVars
  BY <1>1, <1>8 DEF Land, Drop, Grant, Commit, Retarget
<1> QED
  BY <1>2, <1>3, <1>4, <1>5, <1>6, <1>7, <1>8, StepCases

\* A signature made for one inscription is good for no other.
THEOREM SignatureFits == Spec => []SignatureFitsNothingElse
<1>1. Init => TypeInv /\ SignedInv
  <2>1. Init => SignedInv
    BY DEF Init, SignedInv
  <2> QED BY <2>1, TypeInit
<1>2. TypeInv /\ SignedInv /\ [Next]_deployVars => TypeInv' /\ SignedInv'
  BY TypeStep, SignedStep
<1>3. TypeInv /\ SignedInv => SignatureFitsNothingElse
  <2> SUFFICES ASSUME TypeInv, SignedInv, step = "inscribe-1",
                      NEW app \in Ids, NEW cell \in Ids,
                      NEW artifact \in Hashes, NEW genesis \in Hashes,
                      app_build_message(app, cell, artifact, genesis) = signature[CurrentApp].message
               PROVE  /\ app = CurrentApp /\ cell = CellOf(CurrentApp)
                      /\ artifact = ArtifactHash /\ genesis = GenesisOf[run.network]
    BY DEF SignatureFitsNothingElse
  <2>1. runs \in Apps /\ run \in Runs
    BY DEF TypeInv, DeployTypeOK, RunTypes, Apps
  <2>2. signature[runs].message =
          app_build_message(runs, CellOf(runs), ArtifactHash, GenesisOf[run.network])
    BY <2>1, MessageOfRun DEF SignedInv
  <2>3. /\ runs \in Ids /\ CellOf(runs) \in Ids
        /\ ArtifactHash \in Hashes /\ GenesisOf[run.network] \in Hashes
    <3>1. ArtifactHash \in Hashes /\ GenesisOf[run.network] \in Hashes
      BY <2>1, DeploymentAssumption DEF Runs
    <3> QED BY <2>1, <3>1, OwnIds
  <2>4. Assembled(app, cell, artifact, genesis) =
          Assembled(runs, CellOf(runs), ArtifactHash, GenesisOf[run.network])
    BY <2>2 DEF CurrentApp, app_build_message
  <2>5. SameMessage(app, cell, artifact, genesis,
                    runs, CellOf(runs), ArtifactHash, GenesisOf[run.network])
    BY <2>4 DEF SameMessage
  <2>6. /\ app = runs /\ cell = CellOf(runs)
        /\ artifact = ArtifactHash /\ genesis = GenesisOf[run.network]
    BY <2>3, <2>5, OneMessageOneInscription
  <2> QED
    BY <2>6 DEF CurrentApp
<1> QED BY <1>1, <1>2, <1>3, PTL DEF Spec

---------------------------------------------------------------------------
(* How long a run takes *)

\* What lies before a program at each step.
LEMMA CountsLeft ==
  /\ \A s \in Steps : StepsLeft[s] \in 0 .. 16
  /\ StepsLeft["gate"] = 16 /\ StepsLeft["poll"] = 15 /\ StepsLeft["start"] = 14
  /\ StepsLeft["create"] = 13 /\ StepsLeft["output"] = 12 /\ StepsLeft["fund"] = 11
  /\ run.entry = "interop" => StepsLeft["mint"] = 10 /\ StepsLeft["keygen"] = 9
  /\ run.entry # "interop" => StepsLeft["keygen"] = 10 /\ StepsLeft["mint"] = 9
  /\ StepsLeft["register"] = 8 /\ StepsLeft["sign"] = 7
  /\ StepsLeft["inscribe-1"] = 6 /\ StepsLeft["ask"] = 5 /\ StepsLeft["inscribe-2"] = 4
  /\ StepsLeft["read-back"] = 3 /\ StepsLeft["verify"] = 2 /\ StepsLeft["job"] = 1
  /\ StepsLeft["none"] = 0 /\ StepsLeft["over"] = 0
BY DEF StepsLeft, Steps

\* It is positive until the run is over, and at least two before the job.
LEMMA CountsPositive ==
  ASSUME step \in Steps, step \notin {"none", "over"}
  PROVE  StepsLeft[step] \in 1 .. 16 /\ (step # "job" => StepsLeft[step] > 1)
<1>1. CASE step \in {"keygen", "mint"}
  BY <1>1, CountsLeft
<1>2. CASE step \notin {"keygen", "mint"}
  BY <1>2, CountsLeft DEF Steps
<1> QED
  BY <1>1, <1>2

\* A step of the program that leads to a later one, however many looks it has had and
\* whether it waited or not.
LEMMA GoesAhead ==
  ASSUME TypeInv, ~Idle, step' \in Steps, run' = run,
         waiting' = FALSE, polls' \in 0 .. POLL_LIMIT, polls' >= polls,
         StepsLeft'[step'] < StepsLeft[step]
  PROVE  ToGo' < ToGo
<1>1. StepsLeft[step] \in 1 .. 16 /\ StepsLeft'[step'] \in 0 .. 16
  <2>1. StepsLeft' = StepsLeft
    BY DEF StepsLeft
  <2> QED
    BY <2>1, CountsPositive, CountsLeft DEF TypeInv, DeployTypeOK, RunTypes, Idle
<1>2. polls \in 0 .. POLL_LIMIT /\ POLL_LIMIT \in Nat
  BY Limits DEF TypeInv, DeployTypeOK, RunTypes
<1> QED
  BY <1>1, <1>2 DEF ToGo, Idle

\* The end of a program is ahead of every step but the job's.
LEMMA FinishIsAhead ==
  ASSUME TypeInv, ~Idle, NEW code \in {"ok", "failed", "refused"}, step # "job",
         Finish(code) \/ (\E result \in {"green", "red"} : JobEnds(code, result))
  PROVE  step' \in Steps /\ StepsLeft[step'] < StepsLeft[step]
<1>1. step' \in {"job", "over"}
  BY DEF Finish, JobEnds
<1>2. StepsLeft[step] \in 1 .. 16 /\ StepsLeft[step] > 1
  BY CountsPositive DEF TypeInv, DeployTypeOK, RunTypes, Idle
<1> QED
  BY <1>1, <1>2, CountsLeft DEF Steps

\* So is what comes next in the order of the run.
LEMMA NextIsAhead ==
  ASSUME GoOn, step \in {"start", "create", "output", "fund", "keygen", "mint", "register", "sign",
                         "inscribe-1", "inscribe-2", "read-back"}
  PROVE  step' \in Steps /\ StepsLeft[step'] < StepsLeft[step]
<1>1. step' \in Steps
  BY Onwards
<1>2. CASE step \in {"fund", "keygen", "mint"}
  <2>1. \/ step = "fund" /\ step' = (IF run.entry = "interop" THEN "mint" ELSE "keygen")
        \/ step = "keygen" /\ step' = (IF run.entry = "interop" THEN "register" ELSE "mint")
        \/ step = "mint" /\ step' = (IF run.entry = "interop" THEN "keygen" ELSE "register")
    BY <1>2, Onwards
  <2>2. CASE run.entry = "interop"
    <3>1. \/ step = "fund" /\ step' = "mint"
          \/ step = "mint" /\ step' = "keygen"
          \/ step = "keygen" /\ step' = "register"
      BY <2>1, <2>2
    <3>2. /\ StepsLeft["fund"] = 11 /\ StepsLeft["mint"] = 10 /\ StepsLeft["keygen"] = 9
          /\ StepsLeft["register"] = 8
      BY <2>2, CountsLeft
    <3> QED BY <1>1, <3>1, <3>2
  <2>3. CASE run.entry # "interop"
    <3>1. \/ step = "fund" /\ step' = "keygen"
          \/ step = "keygen" /\ step' = "mint"
          \/ step = "mint" /\ step' = "register"
      BY <2>1, <2>3
    <3>2. /\ StepsLeft["fund"] = 11 /\ StepsLeft["keygen"] = 10 /\ StepsLeft["mint"] = 9
          /\ StepsLeft["register"] = 8
      BY <2>3, CountsLeft
    <3> QED BY <1>1, <3>1, <3>2
  <2> QED BY <1>1, <2>2, <2>3
<1>3. CASE step \in {"start", "create", "output"}
  <2>1. \/ step = "start" /\ step' = "create"
        \/ step = "create" /\ step' \in {"output", "fund"}
        \/ step = "output" /\ step' = "fund"
    BY <1>3, Onwards
  <2> QED BY <1>1, <2>1, CountsLeft
<1>4. CASE step \in {"register", "sign", "inscribe-1", "inscribe-2", "read-back"}
  <2>1. \/ step = "register" /\ step' = "sign"
        \/ step = "sign" /\ step' = "inscribe-1"
        \/ step \in {"inscribe-1", "inscribe-2"} /\ step' = "read-back"
        \/ step = "read-back" /\ step' = "verify"
    BY <1>4, Onwards
  <2> QED BY <1>1, <2>1, CountsLeft
<1> QED
  BY <1>2, <1>3, <1>4

\* The steps of a program that lead to another step.
LEMMA AdvanceAlone ==
  ASSUME TypeInv, Gate \/ Start \/ Output \/ Keygen \/ Sign \/ Ask \/ ReadBack \/ VerifyLocally \/ Job
  PROVE  ToGo' < ToGo
<1>1. /\ run' = run /\ waiting' = waiting /\ polls' = polls
      /\ step \in {"gate", "start", "output", "keygen", "sign", "ask", "read-back", "verify", "job"}
  BY DEF Gate, Start, Output, Keygen, Sign, Ask, ReadBack, VerifyLocally, Job
<1>2. waiting = FALSE /\ ~Idle /\ polls \in 0 .. POLL_LIMIT
  BY <1>1 DEF TypeInv, DeployTypeOK, RunTypes, Calls, Idle
<1>3. StepsLeft' = StepsLeft
  BY <1>1 DEF StepsLeft
<1>4. step' \in Steps /\ StepsLeft[step'] < StepsLeft[step]
  <2>1. CASE Gate
    <3>1. \/ step = "gate" /\ step' \in {"start", "poll"}
          \/ step = "gate" /\ JobEnds("refused", "red")
          \/ step = "gate" /\ Finish("refused")
      BY <2>1 DEF Gate
    <3> QED BY <1>2, <3>1, FinishIsAhead, CountsLeft DEF Steps
  <2>2. CASE Start \/ Output \/ Keygen \/ Sign
    <3>1. /\ step \in {"start", "output", "keygen", "sign"}
          /\ GoOn \/ Finish("failed")
      BY <2>2 DEF Start, Output, Keygen, Sign
    <3> QED BY <1>2, <3>1, FinishIsAhead, NextIsAhead
  <2>3. CASE Ask
    <3>1. step = "ask" /\ step' \in {"read-back", "inscribe-2"}
      BY <2>3 DEF Ask
    <3> QED BY <3>1, CountsLeft DEF Steps
  <2>4. CASE ReadBack \/ VerifyLocally
    <3>1. \/ step = "read-back" /\ GoOn
          \/ step \in {"read-back", "verify"} /\ (Finish("ok") \/ Finish("failed"))
      BY <2>4 DEF ReadBack, VerifyLocally
    <3> QED BY <1>2, <3>1, FinishIsAhead, NextIsAhead
  <2>5. CASE Job
    <3>1. step = "job" /\ step' = "over"
      BY <2>5 DEF Job, JobEnds
    <3> QED BY <3>1, CountsLeft DEF Steps
  <2> QED BY <2>1, <2>2, <2>3, <2>4, <2>5
<1>5. waiting' = FALSE /\ polls' \in 0 .. POLL_LIMIT /\ polls' >= polls
  BY <1>1, <1>2, Limits
<1>6. StepsLeft'[step'] < StepsLeft[step]
  BY <1>3, <1>4
<1> QED
  BY <1>1, <1>2, <1>4, <1>5, <1>6, GoesAhead

\* A look at the balance is one less to come.
LEMMA AdvancePoll ==
  ASSUME TypeInv, Poll
  PROVE  ToGo' < ToGo
<1>1. step = "poll" /\ waiting' = waiting /\ run' = run /\ ~Idle
  BY DEF Poll, Idle
<1>2. waiting = FALSE /\ polls \in 0 .. POLL_LIMIT /\ polls < POLL_LIMIT
  BY <1>1 DEF TypeInv, DeployTypeOK, RunTypes, Calls
<1>3. StepsLeft' = StepsLeft
  BY <1>1 DEF StepsLeft
<1>4. CASE step' = "start" /\ polls' = polls
  <2>1. step' \in Steps /\ StepsLeft[step'] < StepsLeft[step]
    BY <1>1, <1>4, CountsLeft DEF Steps
  <2>2. polls' \in 0 .. POLL_LIMIT /\ polls' >= polls
    BY <1>2, <1>4, Limits
  <2> QED BY <1>1, <1>2, <1>3, <2>1, <2>2, GoesAhead
<1>5. CASE polls' = polls + 1 /\ Finish("refused")
  <2>1. step' \in Steps /\ StepsLeft[step'] < StepsLeft[step]
    BY <1>1, <1>5, FinishIsAhead
  <2>2. polls' \in 0 .. POLL_LIMIT /\ polls' >= polls
    BY <1>2, <1>5, Limits
  <2> QED BY <1>1, <1>2, <1>3, <2>1, <2>2, GoesAhead
<1>6. CASE polls' = polls + 1 /\ step' = step
  BY <1>1, <1>2, <1>3, <1>6, CountsLeft, Limits DEF ToGo, Idle
<1> QED
  BY <1>4, <1>5, <1>6 DEF Poll, Counted

\* A call is sent, and then answered or given up.
LEMMA AdvanceCall ==
  ASSUME TypeInv, NEW call \in Calls, Submit(call) \/ Confirmed(call) \/ Except(call)
  PROVE  ToGo' < ToGo
<1>1. /\ step = call /\ run' = run /\ polls' = polls /\ ~Idle
      /\ step \in {"create", "fund", "mint", "register", "inscribe-1", "inscribe-2"}
  BY DEF Submit, Confirmed, Except, Calls, Idle
<1>2. polls \in 0 .. POLL_LIMIT /\ polls \in Int
  BY Limits DEF TypeInv, DeployTypeOK, RunTypes
<1>3. StepsLeft' = StepsLeft
  BY <1>1 DEF StepsLeft
<1>4. CASE Submit(call)
  <2>1. step' = step /\ waiting = FALSE /\ waiting' = TRUE
    BY <1>4 DEF Submit, TypeInv, DeployTypeOK, RunTypes
  <2>2. StepsLeft[step] \in 0 .. 16
    BY CountsLeft DEF TypeInv, DeployTypeOK, RunTypes
  <2> QED
    BY <1>1, <1>2, <1>3, <2>1, <2>2, Limits DEF ToGo, Idle
<1>5. CASE Confirmed(call) \/ Except(call)
  <2>1. waiting' = FALSE
    BY <1>5 DEF Confirmed, Except
  <2>2. \/ GoOn
        \/ step = "inscribe-1" /\ step' \in {"ask", "inscribe-2"}
        \/ Finish("failed")
    BY <1>1, <1>5 DEF Confirmed, Except, AfterBothFail
  <2>3. step' \in Steps /\ StepsLeft[step'] < StepsLeft[step]
    BY <1>1, <2>2, FinishIsAhead, NextIsAhead, CountsLeft DEF Steps
  <2>4. polls' \in 0 .. POLL_LIMIT /\ polls' >= polls
    BY <1>1, <1>2, Limits
  <2>5. StepsLeft'[step'] < StepsLeft[step]
    BY <1>3, <2>3
  <2> QED
    BY <1>1, <2>1, <2>3, <2>4, <2>5, GoesAhead
<1> QED
  BY <1>4, <1>5

\* Dying is an end too.
LEMMA AdvanceDie ==
  ASSUME TypeInv, Die
  PROVE  ToGo' < ToGo
<1>1. /\ ~Idle /\ step # "job" /\ run' = run /\ polls' = polls /\ waiting' = FALSE
      /\ Finish("failed") \/ JobEnds("failed", "red")
  BY DEF Die
<1>2. step' \in Steps /\ StepsLeft[step'] < StepsLeft[step]
  BY <1>1, FinishIsAhead
<1>3. StepsLeft' = StepsLeft
  BY <1>1 DEF StepsLeft
<1>4. polls' \in 0 .. POLL_LIMIT /\ polls' >= polls
  BY <1>1, Limits DEF TypeInv, DeployTypeOK, RunTypes
<1>5. StepsLeft'[step'] < StepsLeft[step]
  BY <1>2, <1>3
<1> QED
  BY <1>1, <1>2, <1>4, <1>5, GoesAhead

\* A run makes no more than 32 + POLL_LIMIT steps of its own, whatever the network, the
\* faucet and the repository do meanwhile: the part of "every run ends" that does
\* not depend on who is scheduled.
THEOREM EveryStepAdvances == Spec => RunsAdvance
<1>1. TypeInv /\ [Next]_deployVars =>
        [runs' = runs /\ (RunStep \/ <<step, waiting, polls>>' # <<step, waiting, polls>>) =>
           ToGo' < ToGo]_deployVars
  <2> SUFFICES ASSUME TypeInv, Next, runs' = runs,
                      RunStep \/ <<step, waiting, polls>>' # <<step, waiting, polls>>
               PROVE  ToGo' < ToGo
    OBVIOUS
  <2>1. CASE RunStep
    BY <2>1, AdvanceAlone, AdvancePoll, AdvanceCall DEF RunStep
  <2>2. CASE Die
    BY <2>2, AdvanceDie
  <2>3. \A r \in Environments : ~Begin(r)
    BY Limits DEF Begin, TypeInv, DeployTypeOK, RunTypes
  <2>4. External => <<step, waiting, polls>>' = <<step, waiting, polls>>
    BY DEF External, Land, Drop, Grant, Commit, Retarget
  <2> QED
    BY <2>1, <2>2, <2>3, <2>4 DEF Next
<1> QED
  BY <1>1, TypeInvariant, PTL DEF Spec, RunsAdvance
=============================================================================
