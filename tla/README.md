# TLA+ models of TRELYAN

TRELYAN inscribes artifacts on Algorand: each *Cell* (an NFT) can be bound once to a Falcon-1024
public key and inscribed once with the hash of an artifact, authorised by a post-quantum signature
that the chain verifies. This directory holds TLA+ models of the parts of the repository where
order, failure and repetition matter, TLC configurations that check them on small instances, and
proofs, checked by TLAPS, for every instance.

Contents: [inventory](#inventory) · [modules and code](#modules-and-code) · [runs](#runs) ·
[fairness](#fairness) · [proofs](#proofs) · [disagreements](#disagreements-between-the-code-and-its-words) ·
[what is not modelled](#what-is-not-modelled) · [plan](#plan) · [running it](#running-it)

## Inventory

| component | source | state | operations | what makes it hard |
|---|---|---|---|---|
| on-chain application | `contracts/inscription.py` | admin, counter, three box maps (committed key, owner, record) | `create`, `register_cell`, `inscribe`, `update_owner`; `get_inscription` reads; update and delete reject | anybody may call anything in any order and replay any signature; it relies on asset parameters and holdings it does not own |
| sign-once-destroy | `sdk/src/trelyan_pq/seal.py`, `_seal_worker.py`, key handling of `falcon.py` | a private key buffer, a JSON file of sealed cells | `keygen_sign_seal`, `keygen_sign_seal_isolated`, `JsonFileSealStore` | kills, interrupts, power loss, failing syscalls, a hanging worker, a second writer |
| inscription client | `sdk/src/trelyan_pq/inscription.py` | none between calls; a transaction in the network during one | `inscribe`: submit, ask, submit again | a transaction that lands after it was reported failed; stale and failing reads; the cell changes hands meanwhile |
| timing harness | `rust/crates/falcon-ct` | one session: null sessions, controls, reference banks, measurements, report | option checks, measuring, judging, writing | many controls gate one verdict by different routes; sessions that stop half-way; empty banks |
| message encoding | `sdk/.../message.py`, `contracts/falcon_det1024.py`, `_build_message` | none | three copies of `build_message` | fields laid end to end must bind app, cell, artifact and network; the copies must agree on Python's numbers |
| deployment | `contracts/deploy_testnet.py`, its two wrappers in `scripts/`, `testnet-redeploy.yml`, the same sequence in `sdk/examples/` | an application and a cell on the chain; the key only in memory | gates, wait for money, create, fund, mint, register, sign, inscribe twice, read back | not resumable; a blind second attempt; dies between any two calls while one is still pending; runs out of money |
| verification of a deployment | `contracts/verify_*.py`, `require_testnet_deploy_secret.py`, `sdk/ci/verify_pinned_digest.py`, `sdk/examples/verify_trelyan.py` | the application id and fingerprint they are pinned to | compare source, TEAL, maps, specification, client and chain, pair by pair | three-valued outcome as an exit code; what a chain of pairwise checks adds up to |
| Rust core and FFI | `rust/crates/trelyan-pq-core`, `trelyan-pq-ffi` | none across calls | keygen, sign, verify, encoding checks | a corrupted secret key makes `sign` hang |
| generated and third-party | `contracts/out`, `trelyan_client.py`, `third_party/falcon-det1024` | - | the factory of the typed client deploys what the client embeds | - |

How they interact. The client signs a message with the SDK's Falcon binding (or presents the
signature that a seal returned) and calls the application through the network; the application
rebuilds the message from its own ids and state and asks the AVM to verify it under the key it
stored at registration. Sealing exists so that the key that was registered signs exactly one
message. A deployment creates the application through the typed client, which embeds a program of its
own, so that what the chain serves is as good as the checks that compare client, TEAL and source. The
timing harness is the evidence that signing leaks nothing through time; it shares only
the C library with the rest.

What makes each component correct:

* application - one record per cell, for ever, backed by a signature of the committed key for
  exactly this cell, artifact, application and network; control moves only with the asset in hand; a
  registered cell stays one immutable unit with a well-formed key and an owner other than the zero address
  (not: an owner who can sign); the cap holds.
* sealing - no signature leaves before its cell is on file; one signature per cell; a key no longer
  live than the signing it was made for; no torn file; failure does not consume a cell; every call ends.
* client - success means inscribed; at most one transaction takes effect; failure is reported for a
  success only when the question could not have known; every call ends, but for a stored key with a
  spoiled body.
* message - no two inscriptions share a message; whichever copy signs, the application
  rebuilds its bytes.
* deployment - exit 0 means inscribed; a run that has ended, with nothing pending, is never
  continued; a run that was told it has the money does not stop for want of it; every run ends.
* verification - 0 is agreement that was established; which 1 is a difference and which a thing that is
  missing is known of each program; two
  agreeing checks give that the reviewed source is deployed; a green redeploy job is about its own
  application.
* harness - no verdict unless every control behaved; a verdict says what was measured; nothing is
  concluded from missing references; a row's verdict, in a validation session too, needs controls that
  behaved and is read against its own bank.

## Modules and code

| module | models | abstract or detailed |
|---|---|---|
| `WriteOnceRegistry` | what the application promises: entries go blank → bound → sealed, sealed values were approved, capacity is respected | abstract |
| `Inscription` | `contracts/inscription.py` on its ledger | implements `WriteOnceRegistry` |
| `OneTimeSeal` | what sealing promises: a cell goes open → held → out or forfeited, and only the call that sealed it hands its signature out | abstract |
| `SealFlow` | `seal.py`, `_seal_worker.py`, `_keygen_into_buffer` / `sign` / `verify` | implements `OneTimeSeal` (one writer, no power loss) |
| `SealedInscription` | sealing in front of the application: sealed keys are registered, sealed signatures presented; EXTENDS `SealFlow`, INSTANCE of `Inscription` | composition |
| `InscribeClient` | `TrelyanInscriptionClient.inscribe` and the network; EXTENDS `Inscription`, whose `inscribe` is what landing a transaction does | composition |
| `CtSession` | one session of `falcon-ct` | detailed |
| `Message` | the three `build_message`s, byte by byte | pure |
| `Artifacts` | what is committed next to the contract, and the programs that compare it, each as its exit code | pure |
| `Deployment` | a run of `deploy_testnet.py` by any entry, the network, the faucet, commits, the redeploy job; EXTENDS `Artifacts` and `Message` | composition |
| `DeploymentOnChain` | the mapping from a run's application in `Deployment` to `Inscription` | refinement |
| `MCInscription`, `MCInscribeClient`, `MCCtSession`, `MCDeployment`, `MCSealedInscription`, `MCDeploymentOnChain` | values for TLC | - |
| `InscriptionProofs`, `SealFlowProofs`, `SealedInscriptionProofs`, `CtSessionProofs`, `MessageProofs`, `InscribeClientProofs`, `DeploymentProofs`, `DeploymentOnChainProofs` | theorems | - |

**Inscription.** The variables `admin`, `cells_registered`, `committed_pubkey`,
`controlling_owner`, `inscriptions` are the application's state under its own names; a box that does
not exist is `NoBox`. One method is one action, because the ledger executes one call at a time and a
failed assertion leaves no trace; an atomic group is a run of such calls. The guards are the
assertions in the order of the code, those that could be lost in an edit under a name of their own.
An address is any of the three kinds the code can be given: one somebody can sign for, one nobody
can (`Unsignable`), the zero address; `register_cell` and `update_owner` refuse only the last, as the
comment in `update_owner` says.
`asset`, `holder` and `signed` are external: asset roles and holdings move by ledger transactions
(`Transfer`, `Reconfigure`, `Destroy`), signatures come into being by `Sign`, for any application and
network, and any of them can be presented by anyone. Falcon's unforgeability is the definition of
`FalconVerify`. The message is a tuple because its fields have fixed widths.

**SealFlow.** `pc` is where a caller stands in its call; `stage`, `key` and `sig` belong to the process that
signs, the caller's own or the worker of an isolated call, which goes by the call's number. A killed
caller loses its memory and leaves its worker behind (`orphans`): the worker goes on, with its key, and
ends or hangs with nobody to time it out. A power loss ends all of them. The steps of `record()`
(read, write the temporary file, sync, rename) are separate actions, since that is where a crash or another writer falls. `file` is what
processes read; `disk` is what a power loss would leave, which lags behind because a rename is durable
only once the directory is written. A torn file is one renamed before its bytes were synced. Which of
the three kinds of fault can strike is the constant `Faults`. An interrupt inside the `try` runs the
`finally`; in the two windows outside it, nothing does. To `OneTimeSeal` a cell is held once it is in the
file and the call that put it there has not returned, out when that call has, forfeited when it was killed
or interrupted before.

**SealedInscription.** `asked` adds to a call of `SealFlow` the fields of the message it signs; `Return`
also puts its signature among those that exist (`signed` of `Inscription`). Key generation is external
and fresh: `SealKey` gives each call a key of its own. What the composition assumes of people is
`KeysAreKnown`: `register_cell` can only be passed a key that has left a seal, and a key that a call took
with it when it was killed has left nowhere. Anybody else makes and uses ordinary keys.

**InscribeClient.** A call is given an artifact and the stored bytes of a key: as generated, of a length or
header that is refused, or with a spoiled body. `BuildsMessage` raises when the node does not answer or the
hash has the wrong length, `SignsMessage` when the key is refused; with a spoiled body it has no step,
since `FalconDet1024.sign` then does not return. `step` is the line the client is at, `pool` the transactions pending in the
network, `landed` those the chain executed. A submission is refused, accepted, or accepted while the
client is told it failed; a wait may end without a confirmation; a pending transaction lands or is
dropped whenever the network pleases. `late` records, for the properties only, which calls asked
too early or reached no node.

**CtSession.** A measurement is what judging reads of it: enough samples, |t| and the crop statistic
as ranks. `opts`, `null`, `measured`, `aa_bank`, `rr_bank` are collected in the order of
`null_and_controls`, `build_reference_banks` and `falcon_experiments`; verdicts are operators of what
was collected, under the names of the code (`judge_raw_only`, `judge_v2`, `rr_raw_state`), because the
code computes each from inputs that no longer change. A report has a row for each experiment and,
under `ss`, one for each A/A repeat (`Repeats`), judged but never gated. `BelowEmpiricalP` keeps the code's arithmetic.

**Message.** A byte is a digit below `BASE` and a number is written as eight of them, so the theorems are
about bytes laid end to end. An argument carries its Python type, because `isinstance(True, int)`
holds and one copy of the check excludes it where the other does not; a hash carries whether it is a
buffer, a list or tuple, or text, because the SDK's copy makes bytes of it where the other concatenates it
as it is. `Inscription` and
`InscribeClient` keep the message as a tuple of its fields; `MessageIsBinding` is what justifies it.

**Artifacts.** A build is the pair of a source and a target version, since compiling is deterministic.
`Trees` holds one value per committed part, or that it is missing or does not parse. The
verifiers are operators from tree, application, node and toolchain to the exit code, with every early
exit in its order and an uncaught exception as the 1 that Python makes of it.

**Deployment.** `step` is the statement a run is at and `Order` the sequence for its entry (the
examples fund, mint and generate keys in other orders and ask before the second attempt). Each of the
six calls is sent, or raises; is confirmed, or raises although it may land; and lands, or is
dropped, whenever the network pleases - also after its run has died (`Die`, at any step) and the next
one has begun. Application 0 is what an earlier run left (`EarlierApps`), at any stage. The
application is reduced to the stage of the run's cell: `create`, the payment and the asset are accepted
whenever they land, `Accepts` asks what `register_cell` and `inscribe` assert, with the signature over
the application's own message. That a run's calls land in its order is not assumed but follows
(`LedgerInv`); `DeploymentOnChain` maps a run's application to the variables of
`Inscription` and shows that this is what the application does. There the payment and the asset's
creation are stutters and the asset exists from the start, since no call reads it before `register_cell`.
`funds` and the constants of *Money* are the ledger's reserves and fees in units of 100 microALGO.
`tree` changes by `Commit`, one part at a time, between runs; `target` and `pin` are the two
constants the checks are pinned to, which `Retarget` moves together or one at a time. A failing wrapper
or gate ends in `refused`, the program itself in `ok` or `failed`; `job` is the workflow's colour.

Operators named `Faulty_...` are not used by any specification. Each is a definition next to it as a
plausible slip would have left it; replacing one by the other must break the property that
`PROJECT.json` names, which shows that the property depends on the code it is about.

## Runs

| run | bounds | checks |
|---|---|---|
| `inscription_one` | 1 asset, 3 accounts, 1 address nobody can sign for, every role setting, 3 keys (1 malformed), 2 artifacts, 2 apps, 2 networks, 2 signatures, URI at and over its limit | types, authorisation, frozen owner, well-formed cells, control from the hand |
| `inscription_many` | 4 assets (3 eligible, one of two units), 2 creators to be admin of whom one owns none, cap 2, 2 keys, 2 URIs, 2 signatures | registry consistency, write-once, refinement of `WriteOnceRegistry` (whose approvals name the cell) |
| `seal_one` | 1 caller, 2 cells, 4 calls, kill and interrupt | types, returned ⇒ recorded, consumption, refinement of `OneTimeSeal` |
| `seal_two` | 2 callers, 2 cells, 2 calls, kill and power loss | keys live no longer than their signing, file never torn, every call ends |
| `sealed_two` | 2 callers, power loss, 2 cells, 2 calls, 1 ordinary key, 2 artifacts, registration and inscription between the calls | a sealed key signs once, registration decides |
| `client_calls` | 1 cell, 2 accounts, 2 keys whole, refused or spoiled, 2 artifacts, 2 calls (up to 4 transactions), failing reads | types, success, at most one lands, failure only when late, every call ends |
| `ct_both` | 2 null sessions, banks of up to 2, ranks 0..2, both designs and every refused command line | the seven properties of a report |
| `deploy_runs` | an application that an earlier run left after `create`, after `register_cell` or inscribed (the last from another source), and 1 run by each of 6 entries, in every environment with at most one thing wrong (library, mnemonic, network, any subset of the staged Falcon sources), 1 commit, 2 sources, 2 targets, 2 networks; accounts of 1.2 and 2.5 ALGO, grants of 1 and 2 up to 2; 2 looks at the balance; bytes of 1 bit, hashes of 1 byte | types, exit 0 means inscribed, dead runs stay dead, fresh runs are paid for, the signature fits nothing else, four properties of the checks, every run ends, refinement of `Inscription` |
| `seal_power`, `seal_interrupt`, `client_other`, `audit` | as their siblings | one expected violation each |

Why the bounds suffice. The application's properties speak of one cell (its boxes, its asset, a
signature) or of two (key reuse, the counter against the cap), and two signatures are enough for a
right and a wrong one to meet. A seal's hazards need a call before and a call after a fault; four calls
on two cells give both on each cell. Two writers are enough for a lost update. The client needs two
calls for one to find what the other wrote, and each has two transactions. A session reads its null
by "all" and "beyond all", so two sessions distinguish one from each; three ranks place a statistic
inside, beyond some and beyond all references. The empirical-p arithmetic is checked at these sizes and
proved for all (`CropRule`). The real minimum of 20 null sessions is the constant
`MIN_NULL_SESSIONS`. A deployment's hazards are between one run and an earlier one, finished or half-way, and the checks
look at one application and one tree, so one new run beside what was left suffices; a single commit puts any part of the
tree out of step with the others, before the run or after it. 1.2 ALGO does not pay for a run and 2.5
does; the faucet can give too little, just enough, or enough in two grants. With bytes of one
bit the ids of the model take up to two of the eight bytes. `MCDeployment` also evaluates
`CopiesAgree` on numbers at, below and beyond the limit of eight bytes and on hashes of every kind that
are too short, too long, or hold what is no byte. `DeploymentProofs` removes
these bounds.

`sealed_two` takes callers, cells and artifacts as alike (`SYMMETRY`), since it checks no liveness. A power
loss stops every call and worker at once; single kills are among the behaviours that `SignsOnce` and `Decides` cover.
`RunsTheApplication` is checked for one run beside an earlier application and proved for any number.

Some properties have a theorem and no run, because the properties of a run imply them:
`OneSignaturePerCell` and `RecordsAreNeverLost` follow from `IsOneTimeSeal`, `SealedKeyInscribesOneCell` from
`SealedKeySignsOnce` with `RegistrationDecides`, `OneSealedSignaturePerCell` from `OneSignaturePerCell` with
`SealedKeySignsOnce`. The measures `CallsAdvance` and `RunsAdvance` belong to the liveness properties that the
runs check.

`CHECK_DEADLOCK FALSE` stands in the configurations of `SealFlow` and `SealedInscription` (calls are
bounded, and the system stops when they are used up), of `CtSession` (a session ends) and of `Deployment`
(runs and commits are bounded, and nobody need start another). The other models never stop, since
the ledger goes on.

## Fairness

Safety is checked without fairness. `SealFlow!FairSpec` has weak fairness on each caller's own steps -
it is ordinary sequential code under an operating system that schedules it - and on in-process
signing, and **not** on a worker, which may hang: `EveryCallEnds` then rests on the timeout of
`subprocess.run`. In-process signing has no timeout; that it ends is assumed there, and is true only
for the freshly generated keys this code passes to it. `InscribeClient!FairClientSpec` has weak
fairness on the client's steps only; the network owes nothing, so `EveryCallEnds` rests on the wait
for confirmation being bounded (the library's wait, external). A call given a stored key with a
spoiled body has no step to be fair to; the property names that hang as the one exception. `Deployment!FairSpec` has weak
fairness on the steps of the program and the job alone; the network, the faucet and the people owe
nothing, and `RunsEnd` rests on the same bounded wait and on `POLL_LIMIT`.

## Proofs

All theorems hold for every value of the constants that satisfies the named assumptions of the
modules (finite sets, distinct sentinels, limits that are naturals). Those about a
property, and the lemmas of general interest, are listed in `PROJECT.json`.

*InscriptionProofs.* `TypeCorrect` is inductive by itself. `Consistency` uses it: registering a cell
adds one element to a finite set below the cap. `Authorised` needs both, because the key of a record
must not change, which in turn is `RegistersOnce` and `Inscribed ⊆ Registered`. `WellFormed` rests on
the ledger's rule that a cleared manager cannot act. `ControlNeedsCustody` uses `WellFormed`: a
single unit that the mover holds is held by nobody else. `Refinement` maps a cell's two boxes to
one registry entry and shows each method is a registry step or a stutter.

*SealFlowProofs.* `SealTypeCorrect` has no assumption on faults. `KeysAreWiped` assumes that no
interrupt strikes (the run `seal_interrupt` shows why); it uses `KeyOk`, at which stages a process can
have a live key, and `PlacesInv` (`EverySigningHasItsPlace`): whatever is signing serves one call, which waits
for it, or is one of `orphans`. `Untorn` holds for any number of writers and any faults: `FileInv` says that nothing
but synced bytes is ever renamed. `FailClosed`, `SealedOnce`, `RecordsKept` and `ConsumedByGoodSeal` assume a
single writer, as `seal.py` does, and no power loss (`seal_power`). Their invariant `WriterInv` says
what the writer knows at each step between check and return: its cell was not on file, what it loaded
is the file, and after the rename its cell is there and no earlier signature is for it. Without these
three facts `ReturnedIsRecorded` is not inductive, since `Return` could follow any rename.
`SealRefinement` is under the same assumptions and uses `WriterInv` with `NumbersInv`, that no two
calls share a number (for any number of writers: `CallsAreDistinct`). Rename is `Commit`, since
what `is_sealed` reads changes there; `Return` is `HandOut`; a kill or an interrupt between the two is
`Forfeit`.
`EveryStepAdvances` has no assumption on writers or faults: `CallsAdvance` gives every place of a call the
number of steps it is from the end and says that each step of the code lowers it. It is the safety
half of `EveryCallEnds`: what is left to fairness is that a step is taken at all. It uses `PlacesInv` too,
to know at which labels a signing is under way.

*SealedInscriptionProofs.* `SealProjection` shows that the composed system restricted to the variables of
`SealFlow` is `SealFlow`, so all its theorems are cited rather than proved again, and `ChainStep` reduces
the application to what it does to one cell's key and record. `SignsOnce` holds for any number of
writers and any faults. It does not follow from the file, which two writers or a power loss make
forget; it follows from `NumbersInv` and from `ReturnedInv`, that the sealed signatures in existence are those
that calls returned, one each. `Decides` adds `RecordInv`: a registered sealed key has its signature, and
a record the signature it was accepted for. `SealedOncePerCell` is where the file counts: it
needs `SealedOnce`, and with it a single writer and no power loss.

*CtSessionProofs.* `ReportFollows` is the invariant `CollectedOK ∧ OrderInv`: how much has been
collected at each point of the session, that every stage already passed left a measurement, that
banks are whole once passed, and that a report equals `TheReport` of what was collected. The other
seven theorems follow from it without induction: `Says` reads a verdict of one row back to its measurement
(through `CropRule`, which removes the arithmetic), `Combined` and `WorseOfTwo` carry that through the
combination rules. `RowsSpeak` is about any session that reports, `ss` as well as `rr`.

*MessageProofs.* `EightDigits` and `BytesDetermineNumber` are about division by the base;
`MessageIsBinding` cuts two equal messages at the fixed widths of their fields. `CopiesDoTheSame` and
`SignerAndApplicationAgree` compare the copies; the first has the two exceptions named below.

*InscribeClientProofs.* `ClientInv` adds to the three properties that transactions belong to calls
already made, that a landed transaction has inscribed the cell, and that a first attempt which is
pending or landed after its call went past the question is one of `late`. Without the last,
`FailureOnlyWhenLate` is not inductive: a late first attempt could land after its call had failed. The
application's `NotYetInscribed` guard is what carries `AtMostOneLands`. `EveryStepAdvances` is the measure of `CallsAdvance`,
one number per line of `inscribe`.

*DeploymentProofs.* `TypeInv` is inductive and also knows that a program that got to `create` had a
typed client, and that the job knows no other application than its run's. `LedgerInv` bounds what the
chain and the pool can hold of a run by where its program stands (`Ceiling`), and says a pending
call of the first four has not had its effect; from it the lemma `LandsInOrder` has that every call
lands one stage above the application it finds, which no guard of the model says. `InscribedInv` adds the signature, and gives `ExitOk`. `DeadRuns` needs only that nothing is
submitted for an application but the current run's. `PaidInv` says that a fresh run has at least
`Left[stage]` for what is still to come, the sums of costs from each stage on with the dearer
attempt counted twice, as both attempts can be pending; `NEEDED` covers the whole with 0.0175 ALGO to
spare. `SignedInv` and `MessageIsBinding` give `SignatureFits`. The theorems on the checks need types
only: they hold for any tree and any application. `Verdicts` goes through the four programs one by one. `EveryStepAdvances` counts the statements left in the
longest of the entries' orders, so that a run takes at most 32 + `POLL_LIMIT` steps of its own.

*DeploymentOnChainProofs.* `RunsAreRunsOfTheApplication` takes each way a run's application can change - it is
created, a pending call lands, its run signs - to a method of `Inscription` or a stutter, and every
other step, of later runs, the network, the faucet and the people, to a stutter. It uses `LedgerInv` and
`SignedInv`, with the invariant `UnsignedInv` that a run before `sign` has no signature: without it a
run could sign twice, which in `Inscription` would be one signature taken back.

Only model-checked: the liveness properties `EveryCallEnds` (of a seal and of the client) and `RunsEnd`,
which need fairness and `ENABLED`. The three theorems `EveryStepAdvances` prove the other half, that no
behaviour can go on taking steps inside a call.

## Disagreements between the code and its words

Each has a run that TLC must find violated; the quoted lines are in `PROJECT.json`.

1. `seal_power` - the seal store calls its writes durable; it syncs the file but not the directory, so
   a power loss can undo the record of a signature that was already returned.
2. `seal_interrupt` - the key is said to be wiped always; an interrupt between key generation and the
   `try`, or on entry to the `finally`, escapes the wipe.
3. `client_other` - the client's early return says the first attempt succeeded; the record may
   be another call's, with another artifact.
4. `audit` - the audit script says it tells a check that did not run from one that failed, and its job
   reads 1 as a failed check; without a node it ends in a traceback, which is 1.
   `verify_deployment.py` has the handler this script lacks. (`verify_teal_matches_source.py` and
   `verify_client_matches_arc56.py` have the same edge for a missing TEAL file, which ends in 1 against the
   2 of line 98, and for a specification that does not parse. `ExitCodesTellWhatWasFound` says of all four
   programs which 1 is a difference and which is not.)

Also met, without a run of their own:

* The combination rule of the key pairs says "FAIL if any pair FAILs" (`falcon-ct/src/main.rs:56-57`, 1585); the
  code looks for INCONCLUSIVE first (1592), so a pair that lacks samples hides the FAIL of another.
  `VerdictSaysWhatWasMeasured` says what the verdict does mean.
* The client asks the chain so that a caller is not handed "a failure for an operation that SUCCEEDED"
  (`sdk/src/trelyan_pq/inscription.py:158-159`); a first attempt that lands after the question still
  ends so. `FailureOnlyWhenLate` says precisely what asking achieves, is checked and is proved.
  `deploy_testnet.py:139-150` does not ask at all.
* `falcon_det1024.build_message` "Mirrors trelyan_pq.message.build_message exactly" (160), and both refuse
  a bool as `app_id`; for `cell_id` only the contracts' copy does (165), while the SDK's goes through
  `cell_key` (`message.py:77`), which takes `True` for 1; and the SDK's makes bytes of each hash
  (143-144), so that it takes a list or tuple of 32 numbers, which the other cannot concatenate (175-176).
  These are the two exceptions in `CopiesAgree`; in neither do the copies return different bytes.
* `keygen_sign_seal_isolated` signs in a worker "so no long-lived process ever holds the private key"
  (`seal.py:222`). When its caller is killed, the worker goes on, and its 120 seconds were the caller's: one that
  hangs then holds the key for as long as it hangs. `KeyWipedOnEveryExit` says so.
* `inscribe` signs with the stored key it is passed; the docstring of `FalconDet1024.sign` asks for a store
  whose integrity was checked, since it never returns for a spoiled body. The client checks nothing more.
* `verify_trelyan.py` counts missing key boxes as not checked (134-136) and a missing inscription
  (182-183) as nothing, so it can end with 0 on an application that was never inscribed.
* The wrappers refuse to run "when FALCON_DET1024_LIB is missing, so a run that would deploy, fund and
  then die at keygen never gets started" (`deploy_testnet_fresh.py:22-23`); a variable that is set is
  believed (56-58), so a path to a library that is gone starts exactly such a run.
* The comment on the wrapper's limit asks "for a little over" the 0.951 ALGO that are locked; the
  constant is 2.0, and rightly: with a little over, `FreshRunsArePaidFor` fails, since the script hands
  1.5 to the application.
* `verify_deployment.py --recompile` ends with 1 both for drift of the chain and for a TEAL file that
  the source no longer compiles to.
* `--help` of `falcon-ct` says `--aa-repeats` and `--rr-sessions` "parse but are REFUSED", the comment of
  `check_v4_options` says the matched banks are not wired, and the log line of a validation session says
  they are not implemented, while the code requires and builds them under `ss`.

## What is not modelled

* Cryptography: Falcon is assumed deterministic, correct and unforgeable.
* Floating-point statistics and timing loops of the harness; the contents of its output directory across
  sessions; rows that decide nothing (the report's lists of raw samples).
* In `Inscription`, opcode budget, fees and box minimum balance: a call that lacks them is rejected,
  which is a step not taken. `Deployment` has the money.
* `InMemorySealStore` (the same tripwire without a file), page locking, temporary files left behind.
* Of the checks: the text they print, hashing, assembling and JSON, and a node that answers some requests
  of one script and not others (for the properties, it answered or it did not).
* Of the typed client: everything but the program it embeds and deploys.
* Rust core and FFI, vendored Falcon, the workflows that build and publish: see `PROJECT.json`,
  "components", for the reason of each.

## Plan

Done, in this order: the application and the registry it implements; sealing; the client
composed with the application; the harness session; the message; deployment and its verification;
the proofs of all of them; the one-time seal that sealing implements; sealing composed with the
application; deployment refined to the application; a measure for every loop and retry.

Next, in order of importance:

1. *CtSession across sessions* - an output directory that is reused, with failing writes.
2. *The encoding matrix* of `Signature::from_bytes` in the Rust core.

## Running it

In this directory: `tlc -workers 2 -config MCInscription_one.cfg MCInscription`, and likewise for each run
of `PROJECT.json`; `tlapm InscriptionProofs.tla`, and likewise for the other
seven modules of proofs. The longest run, `deploy_runs`, takes two to three minutes and `sealed_two` one and
a half, the longest proof, `DeploymentProofs`, a few minutes; the others are quicker.
