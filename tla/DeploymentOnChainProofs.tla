---------------------- MODULE DeploymentOnChainProofs ----------------------
(***************************************************************************)
(* That the chain of module Deployment is the application of module        *)
(* Inscription, for the application of every run.                          *)
(***************************************************************************)
EXTENDS DeploymentOnChain, DeploymentProofs, FiniteSetTheorems

USE DEF chainVars, repoVars, runVars, deployVars

\* Where a run has not signed yet.
BeforeSigning ==
  {"gate", "poll", "start", "create", "output", "fund", "keygen", "mint", "register", "sign"}

\* A run signs once: nothing is signed for an application that does not exist yet, nor
\* by a run that has not come so far.
UnsignedInv ==
  /\ \A app \in Apps : app > runs => signature[app] = NoSignature
  /\ step \in BeforeSigning => signature[runs] = NoSignature

\* No program has run.
LEMMA UnsignedInit == Init => UnsignedInv
BY DEF Init, UnsignedInv, BeforeSigning

\* The steps that sign nothing and lead no run back before its signature.
LEMMA UnsignedKept ==
  ASSUME UnsignedInv, UNCHANGED <<signature, runs>>,
         step' \in BeforeSigning => step \in BeforeSigning
  PROVE  UnsignedInv'
BY DEF UnsignedInv

\* Only Sign signs, and no step goes back before it.
LEMMA UnsignedStep == TypeInv /\ UnsignedInv /\ [Next]_deployVars => UnsignedInv'
<1> SUFFICES ASSUME TypeInv, UnsignedInv, [Next]_deployVars
             PROVE  UnsignedInv'
  OBVIOUS
<1>1. runs \in Apps /\ runs \in Nat
  BY Limits DEF TypeInv, DeployTypeOK, RunTypes, Apps
<1>2. ASSUME NEW r \in Environments, Begin(r)
      PROVE  UnsignedInv'
  <2>1. runs' = runs + 1 /\ runs + 1 \in Apps /\ signature' = signature
    BY <1>1, <1>2, Limits DEF Begin, Apps
  <2>2. \A app \in Apps : app > runs + 1 => app > runs
    BY <1>1 DEF Apps
  <2> QED
    BY <1>1, <2>1, <2>2 DEF UnsignedInv
<1>3. CASE Sign
  <2>1. /\ runs' = runs /\ step = "sign"
        /\ step' = "inscribe-1" \/ step' \in {"job", "over"}
    BY <1>3, Onwards DEF Sign, Finish
  <2>2. \A app \in Apps : app # runs => signature'[app] = signature[app]
    BY <1>1, <1>3 DEF Sign, CurrentApp, TypeInv, DeployTypeOK, ChainTypes
  <2>3. step' \notin BeforeSigning
    BY <2>1 DEF BeforeSigning
  <2> QED
    <3>1. \A app \in Apps : app > runs => app # runs
      BY <1>1, Limits DEF Apps
    <3> QED BY <2>1, <2>2, <2>3, <3>1 DEF UnsignedInv
<1>4. CASE Gate \/ Poll \/ Start \/ Output \/ Keygen
  BY <1>4, UnsignedKept DEF Gate, Poll, Start, Output, Keygen, BeforeSigning
<1>5. CASE Ask \/ ReadBack \/ VerifyLocally \/ Job \/ Die
  <2>1. UNCHANGED <<signature, runs>>
    BY <1>5 DEF Ask, ReadBack, VerifyLocally, Job, Die
  <2>2. step' \in {"read-back", "inscribe-2", "verify", "job", "over"}
    <3>1. CASE ReadBack
      <4>1. step = "read-back" /\ (GoOn \/ Finish("failed") \/ Finish("ok"))
        BY <3>1 DEF ReadBack
      <4> QED BY <4>1, Onwards DEF Finish
    <3>2. CASE Ask \/ VerifyLocally \/ Job \/ Die
      BY <3>2 DEF Ask, VerifyLocally, Job, Die, Finish, JobEnds
    <3> QED BY <1>5, <3>1, <3>2
  <2> QED
    BY <2>1, <2>2, UnsignedKept DEF BeforeSigning
<1>6. ASSUME NEW call \in Calls, Submit(call) \/ Confirmed(call) \/ Except(call)
      PROVE  UnsignedInv'
  <2>1. UNCHANGED <<signature, runs>> /\ step = call
    BY <1>6 DEF Submit, Confirmed, Except
  <2>2. call \in BeforeSigning \/ call \in {"inscribe-1", "inscribe-2"}
    BY DEF Calls, BeforeSigning
  <2>3. call \in {"inscribe-1", "inscribe-2"} =>
          step' = step \/ step' \in {"read-back", "ask", "inscribe-2", "job", "over"}
    BY <1>6, <2>1, Onwards DEF Submit, Confirmed, Except, Finish
  <2>4. step' \in BeforeSigning => step \in BeforeSigning
    BY <2>1, <2>2, <2>3 DEF BeforeSigning
  <2> QED
    BY <2>1, <2>4, UnsignedKept
<1>7. CASE \/ \E tx \in pool : Land(tx) \/ Drop(tx)
           \/ \E amount \in Grants : Grant(amount)
           \/ Commit \/ Retarget \/ UNCHANGED deployVars
  BY <1>7, UnsignedKept DEF Land, Drop, Grant, Commit, Retarget
<1> QED
  BY <1>2, <1>3, <1>4, <1>5, <1>6, <1>7, StepCases

---------------------------------------------------------------------------
(* The mapping *)

\* The numbers of the application and of the run's cell.
LEMMA TheNumbers ==
  /\ TheApp \in Apps /\ TheApp > 0
  /\ NoBox # "deployer" /\ NoBox # "key" /\ NoBox # Record
BY OnChainAssumption, Limits DEF Apps

\* Before the first run the application does not exist and nothing is signed.
LEMMA MapsInit == Init => Application!Init
<1> SUFFICES ASSUME Init PROVE Application!Init
  OBVIOUS
<1>1. chain[TheApp].stage = 0 /\ ~SignedByRun
  BY TheNumbers DEF Init, SignedByRun, NoSignature
<1>2. ~Reached(1) /\ ~Reached(4) /\ ~Reached(5)
  BY <1>1 DEF Reached
<1>3. Application!Units(TheCell) = 1 .. 1
  BY DEF Application!Units
<1> QED
  BY <1>1, <1>2, <1>3 DEF Application!Init, Boxed

\* Nothing the mapping looks at changes.
LEMMA SameApplication ==
  ASSUME chain'[TheApp].stage = chain[TheApp].stage, SignedByRun' = SignedByRun
  PROVE  UNCHANGED Application!vars
BY DEF Application!vars, Application!appVars, Application!ledgerVars, Boxed, Reached

\* What is signed depends on the signature alone.
LEMMA SameSigned ==
  ASSUME signature'[TheApp] = signature[TheApp]
  PROVE  SignedByRun' = SignedByRun
BY DEF SignedByRun

\* The deployer holds the one unit of the cell.
LEMMA DeployerHolds == Application!Holds("deployer", TheCell)
<1>1. Application!Units(TheCell) = {1}
  BY DEF Application!Units
<1> DEFINE holding == [c \in {TheCell} |-> [n \in 1 .. 1 |-> "deployer"]]
<1>2. Application!Balance("deployer", TheCell) =
        Application!Cardinality({n \in Application!Units(TheCell) : holding[TheCell][n] = "deployer"})
  BY DEF Application!Balance
<1>3. {n \in Application!Units(TheCell) : holding[TheCell][n] = "deployer"} = {1}
  BY <1>1
<1>4. Application!Cardinality({1}) = Cardinality({1})
  BY DEF Application!Cardinality, Cardinality
<1> QED
  BY <1>2, <1>3, <1>4, FS_Singleton DEF Application!Holds

\* The asset is a cell as register_cell wants it, once the deployer is the admin.
LEMMA CellIsImmutable == Reached(1) => Application!IsImmutableCell(TheCell)
BY DEF Application!IsImmutableCell

\* A call that changes none of the application's boxes.
LEMMA QuietStage ==
  ASSUME TypeInv, chain'[TheApp].stage \in 0 .. 5, SignedByRun' = SignedByRun,
         \A stage \in {1, 4, 5} : Reached(stage)' = Reached(stage)
  PROVE  UNCHANGED Application!vars
BY DEF Application!vars, Application!appVars, Application!ledgerVars, Boxed

\* The call that creates the application.
LEMMA MapsCreate ==
  ASSUME SignedByRun' = SignedByRun, chain[TheApp].stage = 0, chain'[TheApp].stage = 1
  PROVE  Application!create("deployer")
<1>1. /\ ~Reached(1) /\ ~Reached(4) /\ ~Reached(5)
      /\ Reached(1)' /\ ~Reached(4)' /\ ~Reached(5)'
  BY DEF Reached
<1> QED
  BY <1>1 DEF Application!create, Application!ledgerVars, Boxed

\* The call that registers the cell: the admin's, for an asset that is a cell, with a
\* key that is well formed.
LEMMA MapsRegister ==
  ASSUME SignedByRun' = SignedByRun, chain[TheApp].stage = 3, chain'[TheApp].stage = 4
  PROVE  Application!register_cell("deployer", TheCell, "deployer", "key")
<1>1. /\ Reached(1) /\ ~Reached(4) /\ ~Reached(5)
      /\ Reached(1)' /\ Reached(4)' /\ ~Reached(5)'
  BY DEF Reached
<1>2. /\ Application!KeyIsAcceptable("key")
      /\ Application!BelowCellCap /\ Application!RegistersOnce(TheCell)
  BY <1>1 DEF Application!KeyIsAcceptable, Application!BelowCellCap, Application!RegistersOnce, Boxed
<1>3. Boxed(4, "key")' = [Boxed(4, "key") EXCEPT ![TheCell] = "key"]
  BY <1>1 DEF Boxed
<1>4. Boxed(4, "deployer")' = [Boxed(4, "deployer") EXCEPT ![TheCell] = "deployer"]
  BY <1>1 DEF Boxed
<1>5. Boxed(5, Record)' = Boxed(5, Record)
  BY <1>1 DEF Boxed
<1> QED
  BY <1>1, <1>2, <1>3, <1>4, <1>5, CellIsImmutable DEF Application!register_cell, Application!ledgerVars

\* The call that inscribes: the holder's and owner's, with a signature that verifies.
LEMMA MapsInscribe ==
  ASSUME SignedByRun, SignedByRun', chain[TheApp].stage = 4, chain'[TheApp].stage = 5
  PROVE  Application!inscribe("deployer", TheCell, ArtifactHash, TheSignature, 0)
<1>1. /\ Reached(1) /\ Reached(4) /\ ~Reached(5)
      /\ Reached(1)' /\ Reached(4)' /\ Reached(5)'
  BY DEF Reached
<1>2. Boxed(4, "key")[TheCell] = "key" /\ Boxed(4, "deployer")[TheCell] = "deployer"
  BY <1>1 DEF Boxed
<1>3. Application!NotYetInscribed(TheCell) /\ Application!UriFits(0)
  BY <1>1 DEF Application!NotYetInscribed, Application!UriFits, Boxed
<1>4. Application!FalconVerify(Application!BuildMessage(TheApp, TheCell, ArtifactHash, "own"),
                               TheSignature, "key")
  BY DEF Application!FalconVerify, TheSignature
<1>5. Boxed(5, Record)' = [Boxed(5, Record) EXCEPT ![TheCell] =
        [artifact_hash |-> ArtifactHash, inscriber |-> "deployer", payload_uri |-> 0]]
  BY <1>1 DEF Boxed, Record
<1>6. Boxed(4, "key")' = Boxed(4, "key") /\ Boxed(4, "deployer")' = Boxed(4, "deployer")
  BY <1>1 DEF Boxed
<1>7. Boxed(4, "key")[TheCell] # NoBox
  BY <1>2, TheNumbers
<1> QED
  BY <1>1, <1>2, <1>3, <1>4, <1>5, <1>6, <1>7, DeployerHolds
     DEF Application!inscribe, Application!ledgerVars

\* Each call that lands on the run's application is a call that module Inscription
\* allows, or none of its business.
LEMMA MapsLand ==
  ASSUME TypeInv, LedgerInv, NEW tx \in pool, Land(tx)
  PROVE  [Application!Next]_(Application!vars)
<1>1. /\ tx.app \in Apps /\ tx.call \in Calls /\ chain[TheApp].stage \in 0 .. 5
      /\ chain[tx.app].stage \in 0 .. 5
  BY TheNumbers DEF TypeInv, DeployTypeOK, ChainTypes, DeployTxs
<1>2. SignedByRun' = SignedByRun
  BY SameSigned DEF Land
<1>3. chain' = [chain EXCEPT ![tx.app].stage = Leads[tx.call]]
  BY DEF Land
<1>4. CASE tx.app # TheApp
  <2>1. chain'[TheApp] = chain[TheApp]
    BY <1>1, <1>3, <1>4, TheNumbers DEF TypeInv, DeployTypeOK, ChainTypes
  <2> QED
    BY <1>2, <2>1, SameApplication
<1>5. CASE tx.app = TheApp
  <2>1. /\ chain'[TheApp].stage = Leads[tx.call]
        /\ Leads[tx.call] = chain[TheApp].stage + 1 /\ Leads[tx.call] \in 1 .. 5
    BY <1>1, <1>3, <1>5, AnyCall, LandsInOrder DEF TypeInv, DeployTypeOK, ChainTypes
  <2>2. CASE chain[TheApp].stage = 0
    <3>1. Application!create("deployer")
      BY <1>2, <2>1, <2>2, MapsCreate
    <3> QED BY <3>1 DEF Application!Next, Application!AppStep
  <2>3. CASE chain[TheApp].stage \in {1, 2}
    <3>1. \A stage \in {1, 4, 5} : Reached(stage)' = Reached(stage)
      BY <2>1, <2>3 DEF Reached
    <3> QED BY <1>2, <2>1, <3>1, QuietStage
  <2>4. CASE chain[TheApp].stage = 3
    <3>1. Application!register_cell("deployer", TheCell, "deployer", "key")
      BY <1>2, <2>1, <2>4, MapsRegister
    <3>2. "deployer" \in Application!Addresses
      BY DEF Application!Addresses
    <3> QED BY <3>1, <3>2 DEF Application!Next, Application!AppStep
  <2>5. CASE chain[TheApp].stage = 4
    <3>1. SignedByRun
      BY <1>5, <2>1, <2>5 DEF Land, Accepts, SignedByRun, TheCell
    <3>2. Application!inscribe("deployer", TheCell, ArtifactHash, TheSignature, 0)
      BY <1>2, <2>1, <2>5, <3>1, MapsInscribe
    <3> QED BY <3>1, <3>2 DEF Application!Next, Application!AppStep
  <2> QED
    BY <1>1, <2>1, <2>2, <2>3, <2>4, <2>5
<1> QED
  BY <1>4, <1>5

\* The one signature of the run is one its key's holder may make.
LEMMA MapsSign ==
  ASSUME TypeInv, UnsignedInv, Sign
  PROVE  [Application!Next]_(Application!vars)
<1>1. chain' = chain /\ step = "sign" /\ runs \in Apps
  BY DEF Sign, TypeInv, DeployTypeOK, RunTypes, Apps
<1>2. CASE SignedByRun' = SignedByRun
  BY <1>1, <1>2, SameApplication
<1>3. CASE SignedByRun' # SignedByRun
  <2>1. runs = TheApp
    <3>1. runs # TheApp => signature'[TheApp] = signature[TheApp]
      BY <1>1, TheNumbers DEF Sign, CurrentApp, TypeInv, DeployTypeOK, ChainTypes
    <3> QED BY <1>3, <3>1, SameSigned
  <2>2. ~SignedByRun
    BY <1>1, <2>1 DEF UnsignedInv, BeforeSigning, SignedByRun, NoSignature
  <2>3. SignedByRun'
    BY <1>3, <2>2 DEF SignedByRun
  <2>4. TheSignature \in Application!Signatures
    BY TheNumbers DEF TheSignature, Application!Signatures
  <2>5. Application!Cardinality({}) < 1
    <3>1. Application!Cardinality({}) = Cardinality({})
      BY DEF Application!Cardinality, Cardinality
    <3> QED BY <3>1, FS_EmptySet
  <2>6. UNCHANGED <<Application!appVars, Application!ledgerVars>>
    BY <1>1 DEF Application!appVars, Application!ledgerVars, Boxed, Reached
  <2>7. Application!Sign(TheSignature)
    BY <2>2, <2>3, <2>5, <2>6 DEF Application!Sign, TheSignature
  <2> QED
    BY <2>4, <2>7 DEF Application!Next
<1> QED
  BY <1>2, <1>3

\* A program's other steps do nothing on the chain but write what will be created.
LEMMA MapsOthers ==
  ASSUME TypeInv, [Next]_deployVars, ~Sign, \A tx \in pool : ~Land(tx)
  PROVE  UNCHANGED Application!vars
<1>1. signature' = signature
  BY StepCases DEF Begin, Gate, Poll, Start, Output, Keygen, Ask, ReadBack, VerifyLocally, Job, Die,
                   Submit, Confirmed, Except, Drop, Grant, Commit, Retarget
<1>2. CASE chain' = chain
  BY <1>1, <1>2, SameSigned, SameApplication
<1>3. CASE \E call \in Calls : Submit(call)
  <2>1. PICK call \in Calls : Submit(call)
    BY <1>3
  <2>2. chain' = chain \/ \E p \in Deployable(tree) : chain' = [chain EXCEPT ![runs].program = p]
    BY <2>1 DEF Submit, CurrentApp
  <2>3. chain'[TheApp].stage = chain[TheApp].stage
    BY <2>2, TheNumbers DEF TypeInv, DeployTypeOK, ChainTypes
  <2> QED
    BY <1>1, <2>3, SameSigned, SameApplication
<1>4. chain' = chain \/ \E call \in Calls : Submit(call)
  BY StepCases DEF Begin, Gate, Poll, Start, Output, Keygen, Ask, ReadBack, VerifyLocally, Job, Die,
                   Confirmed, Except, Drop, Grant, Commit, Retarget
<1> QED
  BY <1>2, <1>3, <1>4

\* The application of every run, whatever the network and the later runs do, goes
\* through a behaviour of inscription.py.
THEOREM RunsAreRunsOfTheApplication == Spec => RunsTheApplication
<1>1. Init => Application!Init
  BY MapsInit
<1>2. TypeInv /\ LedgerInv /\ UnsignedInv /\ [Next]_deployVars
      => [Application!Next]_(Application!vars)
  BY MapsLand, MapsSign, MapsOthers
<1>3. Init => TypeInv /\ LedgerInv /\ UnsignedInv
  BY TypeInit, LedgerInit, UnsignedInit
<1>4. TypeInv /\ LedgerInv /\ UnsignedInv /\ [Next]_deployVars
      => TypeInv' /\ LedgerInv' /\ UnsignedInv'
  BY TypeStep, LedgerStep, UnsignedStep
<1> QED
  BY <1>1, <1>2, <1>3, <1>4, PTL DEF Spec, RunsTheApplication, Application!Spec
=============================================================================
