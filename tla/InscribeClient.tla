--------------------------- MODULE InscribeClient ---------------------------
(***************************************************************************)
(* TrelyanInscriptionClient.inscribe (sdk/src/trelyan_pq/inscription.py)   *)
(* against the application: build the message, sign it once with a stored  *)
(* key, submit with a static fee, and when that raises, ask the chain for  *)
(* the record before submitting again with the other fee strategy.         *)
(*                                                                         *)
(* The network between the client and the chain is external: a submission  *)
(* may be refused, may be pending, or may be pending while the client is   *)
(* told it failed; a pending transaction lands or is dropped at any later  *)
(* time inside its validity window; the wait for a confirmation may end    *)
(* first; a read may not reach the node.                                   *)
(*                                                                         *)
(* The deployer makes calls for one registered cell, one after the other,  *)
(* while the cell changes hands and control moves.  Landing a transaction  *)
(* is the application's own inscribe action.                               *)
(***************************************************************************)
EXTENDS Inscription, Sequences

CONSTANTS
  Deployer,     \* the account the client sends from
  TheCell,      \* the registered cell
  TheKey,       \* its committed key
  MaxCalls,     \* bound on the number of calls of inscribe()
  ReadsCanFail  \* whether get_inscription may fail to reach the node

ASSUME ClientAssumption ==
  /\ Deployer \in Accounts
  /\ TheCell \in Assets
  /\ TheKey \in WellFormedKeys
  /\ MaxCalls \in Nat
  /\ ReadsCanFail \in BOOLEAN

VARIABLES
  step,     \* where the current call is
  request,  \* the arguments of each call made so far
  outcome,  \* how each call ended
  pool,     \* external: transactions pending in the network
  landed,   \* external: transactions the chain has executed
  late      \* calls whose question came too early - the first attempt was still
            \* pending - or did not reach a node

clientVars == <<step, request, outcome, pool, landed, late>>
allVars == <<vars, clientVars>>

CallNumbers == 1 .. MaxCalls

\* What a call is given: an artifact and the stored bytes of a private key, by
\* the public key they belong to and what has become of them - as generated, of
\* a length or header that is refused, or with a body that is no key at all.
Requests ==
  [artifact : Artifacts, key : WellFormedKeys, stored : {"intact", "refused", "spoiled body"}]
Transactions == [call : CallNumbers, attempt : {1, 2}]

\* The number of the call being made, or of the last one.
current == Cardinality(DOMAIN request)

\* The types, and every call that is over has told its caller an outcome.
ClientTypeOK ==
  /\ TypeOK
  /\ step \in {"idle", "message", "sign", "attempt-1", "waiting-1", "ask", "attempt-2",
               "waiting-2"}
  /\ \E n \in 0 .. MaxCalls : request \in [1 .. n -> Requests]
  /\ outcome \in [CallNumbers -> {"none", "success", "failure"}]
  /\ pool \subseteq Transactions
  /\ landed \subseteq Transactions
  /\ late \subseteq CallNumbers
  /\ \A n \in CallNumbers : outcome[n] = "none" <=>
       n \notin DOMAIN request \/ (step # "idle" /\ n = current)

Tx(attempt) == [call |-> current, attempt |-> attempt]
Attempt(n) == IF n = 1 THEN "attempt-1" ELSE "attempt-2"
Waiting(n) == IF n = 1 THEN "waiting-1" ELSE "waiting-2"

\* The signature a transaction carries: the same one for both attempts.
SignatureOf(tx) ==
  [key |-> request[tx.call].key, app |-> ThisApp, cell |-> TheCell,
   artifact |-> request[tx.call].artifact, network |-> ThisNetwork]

\* The state register_cell leaves, with the cell in the deployer's hands.
ClientInit ==
  /\ admin = Deployer
  /\ cells_registered = 1
  /\ committed_pubkey = [c \in Assets |-> IF c = TheCell THEN TheKey ELSE NoBox]
  /\ controlling_owner = [c \in Assets |-> IF c = TheCell THEN Deployer ELSE NoBox]
  /\ inscriptions = [c \in Assets |-> NoBox]
  /\ asset \in [Assets -> RoleChoices]
  /\ holder = [c \in Assets |-> [n \in Units(c) |-> AssetParams[c].creator]]
  /\ signed = {}
  /\ IsImmutableCell(TheCell)
  /\ step = "idle"
  /\ request = <<>>
  /\ outcome = [n \in CallNumbers |-> "none"]
  /\ pool = {}
  /\ landed = {}
  /\ late = {}

---------------------------------------------------------------------------
(* Decisions of the client; each Faulty_ operator is one of them as a      *)
(* plausible slip would have left it.                                      *)

\* What the read tells the client: a record that comes back means inscribed,
\* anything raised - no record, or no node - means not inscribed.
Faulty_ErrorMeansInscribed(answer) == answer # "no record"
Already(answer) == answer = "record"

\* What follows an exception from the first attempt.
Faulty_RetriesBlindly == "attempt-2"
AfterFirstException == "ask"

Faulty_WaitsForEver == FALSE
WaitCanEnd == step \in {"waiting-1", "waiting-2"}

---------------------------------------------------------------------------
(* The client *)

\* The call ends and the caller is told how.
Faulty_SwallowsTheOutcome(o) == step' = "idle" /\ UNCHANGED outcome
Finish(o) ==
  /\ step' = "idle"
  /\ outcome' = [outcome EXCEPT ![current] = o]

\* An exception in attempt n: the first is handled, the second propagates.
Except(n) ==
  IF n = 1
  THEN step' = AfterFirstException /\ UNCHANGED outcome
  ELSE Finish("failure")

\* The caller calls inscribe().
Begin(r) ==
  /\ step = "idle"
  /\ current < MaxCalls
  /\ request' = Append(request, r)
  /\ step' = "message"
  /\ UNCHANGED <<vars, outcome, pool, landed, late>>

\* The message: an artifact hash of another length raises, and so does a node
\* that does not give its genesis hash.
BuildsMessage ==
  /\ step = "message"
  /\ Finish("failure") \/ (step' = "sign" /\ UNCHANGED outcome)
  /\ UNCHANGED <<vars, request, pool, landed, late>>

\* The message is signed once per call.  The signer checks the length and the
\* header of the stored key, not its body: given another body it never returns,
\* and there is no step.
SignsMessage ==
  /\ step = "sign"
  /\ \/ /\ request[current].stored = "refused"
        /\ Finish("failure")
        /\ UNCHANGED signed
     \/ /\ request[current].stored = "intact"
        /\ step' = "attempt-1"
        /\ signed' = signed \cup {SignatureOf(Tx(1))}
        /\ UNCHANGED outcome
  /\ UNCHANGED <<appVars, ledgerVars, request, pool, landed, late>>

Submit(n) ==
  /\ step = Attempt(n)
  /\ \/ Except(n) /\ UNCHANGED pool
     \/ Except(n) /\ pool' = pool \cup {Tx(n)}
     \/ step' = Waiting(n) /\ pool' = pool \cup {Tx(n)} /\ UNCHANGED outcome
  /\ UNCHANGED <<vars, request, landed, late>>

Confirmed(n) ==
  /\ step = Waiting(n)
  /\ Tx(n) \in landed
  /\ Finish("success")
  /\ UNCHANGED <<vars, request, pool, landed, late>>

\* The wait ends without a confirmation: too many rounds, a lost connection,
\* or the transaction was dropped.
WaitEnds(n) ==
  /\ WaitCanEnd
  /\ step = Waiting(n)
  /\ Except(n)
  /\ UNCHANGED <<vars, request, pool, landed, late>>

\* get_inscription, and what follows from its answer.
Ask ==
  /\ step = "ask"
  /\ \E answer \in {IF NotYetInscribed(TheCell) THEN "no record" ELSE "record"}
                   \cup (IF ReadsCanFail THEN {"no node"} ELSE {}) :
       /\ IF Already(answer)
          THEN Finish("success")
          ELSE step' = "attempt-2" /\ UNCHANGED outcome
       /\ late' = IF Tx(1) \in pool \/ answer = "no node" THEN late \cup {current} ELSE late
  /\ UNCHANGED <<vars, request, pool, landed>>

ClientStep ==
  \/ BuildsMessage
  \/ SignsMessage
  \/ Ask
  \/ \E n \in {1, 2} : Submit(n) \/ Confirmed(n) \/ WaitEnds(n)

---------------------------------------------------------------------------
(* External: the network, and other calls on the cell *)

Land(tx) ==
  /\ tx \in pool
  /\ inscribe(Deployer, TheCell, request[tx.call].artifact, SignatureOf(tx), 0)
  /\ pool' = pool \ {tx}
  /\ landed' = landed \cup {tx}
  /\ UNCHANGED <<step, request, outcome, late>>

Drop(tx) ==
  /\ tx \in pool
  /\ pool' = pool \ {tx}
  /\ UNCHANGED <<vars, step, request, outcome, landed, late>>

Elsewhere ==
  /\ \/ \E to \in Accounts : Transfer(TheCell, 1, to)
     \/ \E a \in Accounts, to \in Addresses : update_owner(a, TheCell, to)
  /\ UNCHANGED clientVars

ClientNext ==
  \/ \E r \in Requests : Begin(r)
  \/ ClientStep
  \/ \E tx \in Transactions : Land(tx) \/ Drop(tx)
  \/ Elsewhere

ClientSpec == ClientInit /\ [][ClientNext]_allVars

\* The client's own code keeps running.
FairClientSpec == ClientSpec /\ WF_allVars(ClientStep)

---------------------------------------------------------------------------
(* Properties *)

\* A caller told "success" has an inscribed cell, for ever.
SuccessMeansInscribed ==
  (\E n \in CallNumbers : outcome[n] = "success") => TheCell \in Inscribed

\* Of all the transactions of all the calls - first attempts that land late,
\* second attempts, repeated calls - at most one takes effect.
AtMostOneLands == \A s, t \in landed : s = t

\* What asking first buys: a call whose first attempt landed reports failure
\* only if that attempt was still pending when the client asked, or the
\* question did not reach a node.
FailureOnlyWhenLate ==
  \A tx \in landed :
    tx.attempt = 1 /\ outcome[tx.call] = "failure" => tx.call \in late

\* The one call that is not coming back, and whose key it was given.
SigningHangs == step = "sign" /\ request[current].stored = "spoiled body"

\* inscribe() returns or raises, whatever the network does - unless it was given
\* a stored key with a good header and a spoiled body, on which it hangs before
\* anything is sent (the docstring of FalconSigner.sign).
EveryCallEnds == step # "idle" ~> step = "idle" \/ SigningHangs

\* And after at most seven steps of its own: each brings it nearer its end, so no
\* call signs twice, makes a third attempt or asks twice.
StepsLeft ==
  [s \in {"idle", "message", "sign", "attempt-1", "waiting-1", "ask", "attempt-2", "waiting-2"} |->
     CASE s = "message" -> 7 [] s = "sign" -> 6 [] s = "attempt-1" -> 5 [] s = "waiting-1" -> 4
       [] s = "ask" -> 3 [] s = "attempt-2" -> 2 [] s = "waiting-2" -> 1 [] s = "idle" -> 0]
CallsAdvance ==
  [][request' = request /\ (ClientStep \/ step' # step) =>
       StepsLeft[step'] < StepsLeft[step]]_allVars

\* Expected to fail.  The comment at the early return: the first attempt
\* succeeded.  Then the record on chain is the one this call asked for.
SuccessMeansOwnRecord ==
  \A n \in DOMAIN request : outcome[n] = "success" =>
    inscriptions[TheCell].artifact_hash = request[n].artifact
=============================================================================
