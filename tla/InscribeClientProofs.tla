------------------------ MODULE InscribeClientProofs ------------------------
(***************************************************************************)
(* Proofs about InscribeClient, for every number of calls, every pair of   *)
(* artifacts and keys they ask for, and whether or not reads can fail.     *)
(***************************************************************************)
EXTENDS InscribeClient, FiniteSetTheorems, SequenceTheorems, TLAPS

USE DEF appVars, ledgerVars, vars, clientVars

\* Every step is one of the client, of the network, or of somebody else.
LEMMA StepCases ==
  ASSUME [ClientNext]_allVars
  PROVE  \/ \E r \in Requests : Begin(r)
         \/ BuildsMessage
         \/ SignsMessage
         \/ Ask
         \/ \E n \in {1, 2} : Submit(n) \/ Confirmed(n) \/ WaitEnds(n)
         \/ \E tx \in Transactions : Land(tx) \/ Drop(tx)
         \/ Elsewhere
         \/ UNCHANGED allVars
BY DEF ClientNext, ClientStep

---------------------------------------------------------------------------
(* The application's own types *)

\* A call of the client that does not touch the chain keeps them.
LEMMA AppTypesUntouched ==
  ASSUME TypeOK, UNCHANGED <<appVars, ledgerVars>>, signed' \subseteq Signatures
  PROVE  TypeOK'
BY DEF TypeOK, Units, Addresses

\* So does the transaction that lands.
LEMMA AppTypesLand ==
  ASSUME TypeOK, NEW artifact \in Artifacts, NEW sig, Deployer \in Accounts, TheCell \in Assets,
         inscribe(Deployer, TheCell, artifact, sig, 0)
  PROVE  TypeOK' /\ TheCell \in Inscribed' /\ TheCell \notin Inscribed
<1> DEFINE record == [artifact_hash |-> artifact, inscriber |-> Deployer, payload_uri |-> 0]
<1>1. record \in InscriptionRecord
  BY LimitAssumption DEF InscriptionRecord
<1>2. inscriptions' = [inscriptions EXCEPT ![TheCell] = record]
  BY DEF inscribe
<1>3. TypeOK'
  BY <1>1, <1>2 DEF inscribe, TypeOK, Units
<1>4. inscriptions'[TheCell] # NoBox
  BY <1>1, <1>2, RecordAssumption DEF TypeOK
<1>5. inscriptions[TheCell] = NoBox
  BY DEF inscribe, NotYetInscribed
<1> QED
  BY <1>3, <1>4, <1>5 DEF Inscribed

\* And so does what others do with the cell, which writes no record.
LEMMA AppTypesElsewhere ==
  ASSUME TypeOK, TheCell \in Assets, Elsewhere
  PROVE  TypeOK' /\ inscriptions' = inscriptions
<1>1. CASE \E to \in Accounts : Transfer(TheCell, 1, to)
  <2>1. PICK to \in Accounts : Transfer(TheCell, 1, to)
    BY <1>1
  <2>2. \A d \in Assets : holder'[d] \in [Units(d) -> Accounts]
    BY <2>1 DEF Transfer, TypeOK
  <2> QED
    BY <2>1, <2>2 DEF Transfer, TypeOK, Units
<1>2. CASE \E a \in Accounts, to \in Addresses : update_owner(a, TheCell, to)
  BY <1>2 DEF update_owner, TypeOK, Units
<1> QED
  BY <1>1, <1>2 DEF Elsewhere

---------------------------------------------------------------------------
(* The inductive invariant *)

\* A call that will not be asked about again: it failed, or the client has
\* gone on to its second strategy.
PastAsking(n) ==
  outcome[n] = "failure" \/ (n = current /\ step \in {"attempt-2", "waiting-2"})

\* A transaction is of a call that was made, and not of one that has yet to sign; once one has landed there is a
\* record, and no other lands; the first attempt of a call that is past asking is
\* neither pending nor on the chain, unless the question came too early.
ClientInv ==
  /\ ClientTypeOK
  /\ step # "idle" => current \in CallNumbers
  /\ \A tx \in pool \cup landed : tx.call \in DOMAIN request
  /\ step \in {"message", "sign"} => \A tx \in pool \cup landed : tx.call # current
  /\ landed # {} => TheCell \in Inscribed
  /\ AtMostOneLands
  /\ SuccessMeansInscribed
  /\ \A tx \in pool \cup landed : tx.attempt = 1 /\ PastAsking(tx.call) => tx.call \in late

\* The calls are numbered as they are made.
LEMMA Numbering ==
  ASSUME ClientTypeOK
  PROVE  /\ current \in 0 .. MaxCalls
         /\ DOMAIN request = 1 .. current
         /\ request \in [1 .. current -> Requests]
<1>1. PICK n \in 0 .. MaxCalls : request \in [1 .. n -> Requests]
  BY DEF ClientTypeOK
<1>2. n \in Nat /\ DOMAIN request = 1 .. n
  BY <1>1, ClientAssumption
<1>3. Cardinality(1 .. n) = n
  BY <1>2, FS_Interval
<1> QED
  BY <1>1, <1>2, <1>3 DEF current

\* Without a new call the number stays.
LEMMA SameCall ==
  ASSUME UNCHANGED request
  PROVE  current' = current
BY DEF current

\* A sequence of one more element.
LEMMA OneMore ==
  ASSUME NEW S, NEW k \in Nat, NEW f \in [1 .. k -> S], NEW e \in S
  PROVE  Append(f, e) \in [1 .. k + 1 -> S]
<1>1. f \in Seq(S) /\ Len(f) = k
  OBVIOUS
<1>2. Append(f, e) \in Seq(S) /\ Len(Append(f, e)) = k + 1
  BY <1>1, AppendProperties
<1> QED
  BY <1>2, LenProperties

\* A new call takes the next number.
LEMMA NextCall ==
  ASSUME ClientTypeOK, current < MaxCalls, NEW r \in Requests, request' = Append(request, r)
  PROVE  /\ current' = current + 1
         /\ current + 1 \in CallNumbers
         /\ DOMAIN request' = 1 .. current + 1
         /\ request' \in [1 .. current + 1 -> Requests]
<1>1. current \in 0 .. MaxCalls /\ request \in [1 .. current -> Requests]
  BY Numbering
<1>2. current \in Nat /\ MaxCalls \in Nat
  BY <1>1, ClientAssumption
<1>3. request' \in [1 .. current + 1 -> Requests]
  BY <1>1, <1>2, OneMore
<1>4. Cardinality(1 .. current + 1) = current + 1
  BY <1>2, FS_Interval
<1>5. current' = current + 1
  BY <1>3, <1>4 DEF current
<1> QED
  BY <1>2, <1>3, <1>5 DEF CallNumbers

\* A registered cell, and no call yet.
LEMMA InvInit == ClientInit => ClientInv
<1> SUFFICES ASSUME ClientInit PROVE ClientInv
  OBVIOUS
<1>1. TypeOK
  <2>1. \A c \in Assets : holder[c] \in [Units(c) -> Accounts]
    BY AssetAssumption DEF ClientInit
  <2>2. asset \in [Assets -> Roles]
    BY RoleAssumption DEF ClientInit
  <2>3. committed_pubkey \in [Assets -> Keys \cup {NoBox}]
    BY ClientAssumption, KeyAssumption DEF ClientInit
  <2>4. controlling_owner \in [Assets -> Addresses \cup {NoBox}]
    BY ClientAssumption DEF ClientInit, Addresses
  <2> QED
    BY <2>1, <2>2, <2>3, <2>4, ClientAssumption DEF ClientInit, TypeOK, Addresses
<1>2. request \in [1 .. 0 -> Requests] /\ DOMAIN request = {}
  BY DEF ClientInit
<1>3. ClientTypeOK
  <2>1. \E n \in 0 .. MaxCalls : request \in [1 .. n -> Requests]
    BY <1>2, ClientAssumption
  <2> QED
    BY <1>1, <1>2, <2>1 DEF ClientInit, ClientTypeOK
<1> QED
  BY <1>3 DEF ClientInit, ClientInv, AtMostOneLands, SuccessMeansInscribed

\* A new call keeps the invariant: nothing of it is pending.
LEMMA BeginStep ==
  ASSUME ClientInv, NEW r \in Requests, Begin(r)
  PROVE  ClientInv'
<1> USE DEF ClientInv
<1>1. /\ current' = current + 1 /\ current + 1 \in CallNumbers
      /\ DOMAIN request' = 1 .. current + 1
      /\ request' \in [1 .. current + 1 -> Requests]
  BY NextCall DEF Begin
<1>2. DOMAIN request = 1 .. current /\ current \in Nat /\ current + 1 \in 0 .. MaxCalls
  BY <1>1, Numbering, ClientAssumption DEF CallNumbers
<1>3. TypeOK'
  <2>1. signed' \subseteq Signatures
    BY DEF Begin, ClientTypeOK, TypeOK
  <2> QED BY <2>1, AppTypesUntouched DEF Begin, ClientTypeOK
<1>4. ClientTypeOK'
  <2>1. \A n \in CallNumbers : outcome'[n] = "none" <=>
          n \notin DOMAIN request' \/ (step' # "idle" /\ n = current')
    <3>1. \A n \in CallNumbers : outcome[n] = "none" <=>
            n \notin DOMAIN request \/ (step # "idle" /\ n = current)
      BY DEF ClientTypeOK
    <3>2. outcome' = outcome /\ step = "idle" /\ step' = "message"
      BY DEF Begin
    <3>3. \A n \in CallNumbers : n \in Nat
      BY ClientAssumption DEF CallNumbers
    <3>4. \A n \in Nat : n \notin 1 .. current <=> n \notin 1 .. current + 1 \/ n = current + 1
      BY <1>2
    <3> QED
      BY <1>1, <1>2, <3>1, <3>2, <3>3, <3>4
  <2>2. \E n \in 0 .. MaxCalls : request' \in [1 .. n -> Requests]
    BY <1>1, <1>2
  <2> QED
    BY <1>3, <2>1, <2>2 DEF Begin, ClientTypeOK
<1>5. \A tx \in (pool \cup landed)' : tx.call \in DOMAIN request'
  <2>1. (pool \cup landed)' = pool \cup landed
    BY DEF Begin
  <2>2. \A tx \in pool \cup landed : tx.call \in DOMAIN request
    OBVIOUS
  <2>3. DOMAIN request \subseteq DOMAIN request'
    BY <1>1, <1>2
  <2> QED
    BY <2>1, <2>2, <2>3
<1>6. \A tx \in (pool \cup landed)' : tx.attempt = 1 /\ PastAsking(tx.call)' => tx.call \in late'
  <2>1. (pool \cup landed)' = pool \cup landed /\ late' = late
    BY DEF Begin
  <2>2. \A n \in CallNumbers : PastAsking(n)' => PastAsking(n)
    BY DEF Begin, PastAsking
  <2>3. \A tx \in pool \cup landed : tx.call \in CallNumbers
    BY DEF ClientTypeOK, Transactions
  <2> QED
    BY <2>1, <2>2, <2>3
<1>7. AtMostOneLands' /\ SuccessMeansInscribed' /\ (landed # {} => TheCell \in Inscribed)'
  BY DEF Begin, AtMostOneLands, SuccessMeansInscribed, Inscribed
<1> QED
  BY <1>1, <1>4, <1>5, <1>6, <1>7 DEF Begin

---------------------------------------------------------------------------
(* The steps of one call *)

\* What a step of the client on its current call leaves as it is.
OneCallStep ==
  /\ UNCHANGED <<appVars, ledgerVars, request, landed>>
  /\ signed' \subseteq signed \cup Signatures
  /\ step # "idle"

\* The current call goes on: nothing is said to the caller yet.
LEMMA GoesOn ==
  ASSUME ClientInv, OneCallStep, UNCHANGED outcome,
         step' \in {"sign", "attempt-1", "waiting-1", "ask", "attempt-2", "waiting-2"},
         pool' \subseteq Transactions, late' \subseteq CallNumbers
  PROVE  ClientTypeOK' /\ current' = current /\ DOMAIN request' = DOMAIN request
<1>1. TypeOK'
  BY AppTypesUntouched DEF OneCallStep, ClientInv, ClientTypeOK, TypeOK
<1>2. current' = current
  BY SameCall DEF OneCallStep
<1> QED
  BY <1>1, <1>2 DEF OneCallStep, ClientInv, ClientTypeOK

\* The current call ends.
LEMMA Ends ==
  ASSUME ClientInv, OneCallStep, NEW o \in {"success", "failure"}, Finish(o),
         pool' \subseteq Transactions, late' \subseteq CallNumbers
  PROVE  /\ ClientTypeOK' /\ current' = current /\ DOMAIN request' = DOMAIN request
         /\ outcome' = [outcome EXCEPT ![current] = o]
<1>1. TypeOK'
  BY AppTypesUntouched DEF OneCallStep, ClientInv, ClientTypeOK, TypeOK
<1>2. DOMAIN request = 1 .. current /\ current \in CallNumbers
  BY Numbering DEF ClientInv, OneCallStep
<1>3. outcome' = [outcome EXCEPT ![current] = o] /\ step' = "idle"
  BY DEF Finish
<1>4. \A n \in CallNumbers : outcome'[n] = "none" <=>
        n \notin DOMAIN request \/ (step' # "idle" /\ n = current)
  <2>1. outcome \in [CallNumbers -> {"none", "success", "failure"}]
    BY DEF ClientInv, ClientTypeOK
  <2>2. \A n \in CallNumbers : outcome[n] = "none" <=>
          n \notin DOMAIN request \/ (step # "idle" /\ n = current)
    BY DEF ClientInv, ClientTypeOK
  <2>3. current \in DOMAIN request /\ step # "idle"
    BY <1>2 DEF OneCallStep, CallNumbers
  <2> QED
    BY <1>3, <2>1, <2>2, <2>3
<1>5. current' = current
  BY SameCall DEF OneCallStep
<1> QED
  BY <1>1, <1>2, <1>3, <1>4, <1>5 DEF OneCallStep, ClientInv, ClientTypeOK

\* A step of the current call keeps the rest of the invariant if it submits only for
\* the current call, reports success only for a cell that is inscribed, and does
\* not leave the question behind with the first attempt about.
LEMMA Kept ==
  ASSUME ClientInv, OneCallStep, ClientTypeOK',
         \A tx \in pool' : tx \in pool \/ tx.call = current,
         \A n \in CallNumbers :
           outcome'[n] = "success" => outcome[n] = "success" \/ TheCell \in Inscribed,
         \A tx \in pool' \cup landed : tx.attempt = 1 /\ PastAsking(tx.call)' => tx.call \in late',
         step' \in {"message", "sign"} => \A tx \in pool' \cup landed : tx.call # current
  PROVE  ClientInv'
<1>1. current' = current /\ current \in CallNumbers /\ current \in DOMAIN request
  BY SameCall, Numbering DEF ClientInv, OneCallStep, CallNumbers
<1>2. /\ Inscribed' = Inscribed /\ landed' = landed /\ DOMAIN request' = DOMAIN request
      /\ CallNumbers' = CallNumbers
  BY DEF OneCallStep, Inscribed, CallNumbers
<1>3. \A tx \in pool \cup landed : tx.call \in DOMAIN request
  BY DEF ClientInv
<1>4. \A tx \in (pool \cup landed)' : tx.call \in DOMAIN request'
  BY <1>1, <1>2, <1>3
<1>5. AtMostOneLands' /\ (landed # {} => TheCell \in Inscribed)'
  BY <1>2 DEF ClientInv, AtMostOneLands
<1>6. SuccessMeansInscribed'
  BY <1>2 DEF ClientInv, SuccessMeansInscribed
<1> QED
  BY <1>1, <1>2, <1>4, <1>5, <1>6 DEF ClientInv

\* The calls that have said nothing to their callers are left as they were, or
\* this one fails before it has submitted anything.
LEMMA NothingSubmitted ==
  ASSUME ClientInv, OneCallStep, UNCHANGED <<pool, late>>, step \in {"message", "sign"},
         \A tx \in pool \cup landed : tx.call # current,
         Finish("failure") \/ (step' \in {"sign", "attempt-1"} /\ UNCHANGED outcome)
  PROVE  ClientInv'
<1>1. current \in CallNumbers /\ current' = current
  BY SameCall DEF ClientInv, OneCallStep
<1>2. pool' \subseteq Transactions /\ late' \subseteq CallNumbers
  BY DEF ClientInv, ClientTypeOK
<1>3. /\ ClientTypeOK'
      /\ outcome' = outcome \/ outcome' = [outcome EXCEPT ![current] = "failure"]
  BY <1>2, GoesOn, Ends
<1>4. outcome \in [CallNumbers -> {"none", "success", "failure"}]
  BY DEF ClientInv, ClientTypeOK
<1>5. \A m \in CallNumbers : outcome'[m] = "success" => outcome[m] = "success"
  BY <1>1, <1>3, <1>4
<1>6. \A m \in CallNumbers : m # current /\ PastAsking(m)' => PastAsking(m)
  BY <1>1, <1>3, <1>4 DEF PastAsking
<1>7. \A tx \in pool' \cup landed : tx.attempt = 1 /\ PastAsking(tx.call)' => tx.call \in late'
  BY <1>6 DEF ClientInv, ClientTypeOK, Transactions
<1> QED
  BY <1>3, <1>5, <1>7, Kept

\* The message is built, or is not.
LEMMA BuildsStep ==
  ASSUME ClientInv, BuildsMessage
  PROVE  ClientInv'
<1>1. OneCallStep
  BY DEF OneCallStep, BuildsMessage
<1> QED
  BY <1>1, NothingSubmitted DEF BuildsMessage, ClientInv

\* The signature is one the types know.
LEMMA SignsStep ==
  ASSUME ClientInv, SignsMessage
  PROVE  ClientInv'
<1>1. current \in DOMAIN request /\ request[current] \in Requests
  BY Numbering DEF ClientInv, SignsMessage, CallNumbers
<1>2. SignatureOf(Tx(1)) \in Signatures
  BY <1>1, ClientAssumption, ContextAssumption, KeyAssumption
     DEF Requests, Signatures, SignatureOf, Tx
<1>3. OneCallStep
  BY <1>2 DEF OneCallStep, SignsMessage
<1> QED
  BY <1>3, NothingSubmitted DEF SignsMessage, ClientInv

\* An attempt that fails: the first leads to the question, the second ends the call.
LEMMA ExceptStep ==
  ASSUME ClientInv, OneCallStep, NEW n \in {1, 2}, step \in {Attempt(n), Waiting(n)}, Except(n),
         UNCHANGED late,
         pool' = pool \/ pool' = pool \cup {Tx(n)}
  PROVE  ClientInv'
<1>1. current \in CallNumbers /\ current' = current
  BY SameCall DEF ClientInv, OneCallStep
<1>2. pool' \subseteq Transactions /\ late' \subseteq CallNumbers
  <2>1. Tx(n) \in Transactions
    BY <1>1 DEF Tx, Transactions
  <2>2. pool \subseteq Transactions /\ late \subseteq CallNumbers
    BY DEF ClientInv, ClientTypeOK
  <2> QED BY <2>1, <2>2
<1>3. \A tx \in pool' : tx \in pool \/ tx.call = current
  BY DEF Tx
<1>4. \A tx \in pool \cup landed : tx.attempt = 1 /\ PastAsking(tx.call) => tx.call \in late
  BY DEF ClientInv
<1>5. CASE n = 1
  <2>1. step' = "ask" /\ outcome' = outcome
    BY <1>5 DEF Except, AfterFirstException
  <2>2. ClientTypeOK'
    BY <1>2, <2>1, GoesOn
  <2>3. \A m \in CallNumbers : PastAsking(m)' => PastAsking(m) /\ m # current
    <3>1. outcome[current] = "none"
      BY <1>1 DEF ClientInv, OneCallStep, ClientTypeOK
    <3> QED
      BY <1>1, <2>1, <3>1 DEF PastAsking
  <2>4. \A tx \in pool' \cup landed : tx.call \in CallNumbers
    BY <1>2 DEF ClientInv, ClientTypeOK, Transactions
  <2>5. \A tx \in pool' \cup landed : tx.attempt = 1 /\ PastAsking(tx.call)' => tx.call \in late'
    BY <1>3, <1>4, <2>3, <2>4
  <2> QED
    BY <1>3, <2>1, <2>2, <2>5, Kept
<1>6. CASE n = 2
  <2>1. Finish("failure") /\ step \in {"attempt-2", "waiting-2"}
    <3>1. n # 1
      BY <1>6
    <3>2. Finish("failure")
      BY <3>1 DEF Except
    <3>3. step \in {"attempt-2", "waiting-2"}
      BY <3>1 DEF Attempt, Waiting
    <3> QED
      BY <3>2, <3>3
  <2>2. ClientTypeOK' /\ outcome' = [outcome EXCEPT ![current] = "failure"] /\ step' = "idle"
    BY <1>2, <2>1, Ends DEF Finish
  <2>3. \A tx \in pool' \cup landed : tx.attempt = 1 => tx \in pool \cup landed
    BY <1>6 DEF Tx
  <2>4. outcome \in [CallNumbers -> {"none", "success", "failure"}]
    BY DEF ClientInv, ClientTypeOK
  <2>5. \A m \in CallNumbers : PastAsking(m)' => PastAsking(m)
    BY <1>1, <2>1, <2>2, <2>4 DEF PastAsking
  <2>6. \A tx \in pool \cup landed : tx.call \in CallNumbers
    BY DEF ClientInv, ClientTypeOK, Transactions
  <2>7. \A tx \in pool' \cup landed : tx.attempt = 1 /\ PastAsking(tx.call)' => tx.call \in late'
    BY <1>4, <2>3, <2>5, <2>6
  <2>8. \A m \in CallNumbers : outcome'[m] = "success" => outcome[m] = "success"
    BY <1>1, <2>2, <2>4
  <2> QED
    BY <1>3, <2>2, <2>7, <2>8, Kept
<1> QED
  BY <1>5, <1>6

\* A submission, refused, pending, or pending and misreported.
LEMMA SubmitStep ==
  ASSUME ClientInv, NEW n \in {1, 2}, Submit(n)
  PROVE  ClientInv'
<1>1. OneCallStep /\ step = Attempt(n) /\ late' = late
  BY DEF OneCallStep, Submit, Attempt
<1>2. CASE Except(n)
  BY <1>1, <1>2, ExceptStep DEF Submit
<1>3. CASE step' = Waiting(n) /\ pool' = pool \cup {Tx(n)} /\ outcome' = outcome
  <2>1. current \in CallNumbers /\ current' = current
    BY <1>1, SameCall DEF ClientInv, OneCallStep
  <2>2. Tx(n) \in Transactions /\ pool \subseteq Transactions /\ late \subseteq CallNumbers
    BY <2>1 DEF ClientInv, ClientTypeOK, Tx, Transactions
  <2>3. ClientTypeOK'
    BY <1>1, <1>3, <2>2, GoesOn DEF Waiting
  <2>4. \A tx \in pool' : tx \in pool \/ (tx.call = current /\ tx.attempt = n)
    BY <1>3 DEF Tx
  <2>5. \A m \in CallNumbers : PastAsking(m)' => PastAsking(m) /\ (n = 1 => m # current)
    <3>1. outcome[current] = "none"
      BY <1>1, <2>1 DEF ClientInv, OneCallStep, ClientTypeOK
    <3> QED
      BY <1>1, <1>3, <2>1, <3>1 DEF PastAsking, Attempt, Waiting
  <2>6. \A tx \in pool' \cup landed : tx.call \in CallNumbers
    BY <1>3, <2>2 DEF ClientInv, ClientTypeOK, Transactions
  <2>7. \A tx \in pool \cup landed : tx.attempt = 1 /\ PastAsking(tx.call) => tx.call \in late
    BY DEF ClientInv
  <2>8. \A tx \in pool' \cup landed : tx.attempt = 1 /\ PastAsking(tx.call)' => tx.call \in late'
    BY <1>1, <2>4, <2>5, <2>6, <2>7
  <2> QED
    BY <1>1, <1>3, <2>3, <2>4, <2>8, Kept DEF Waiting
<1> QED
  BY <1>2, <1>3 DEF Submit

\* A confirmation: the transaction has landed, so the cell is inscribed.
LEMMA ConfirmedStep ==
  ASSUME ClientInv, NEW n \in {1, 2}, Confirmed(n)
  PROVE  ClientInv'
<1>1. OneCallStep /\ late' = late /\ pool' = pool /\ Finish("success") /\ landed # {}
  BY DEF OneCallStep, Confirmed, Waiting
<1>2. current \in CallNumbers /\ current' = current
  BY <1>1, SameCall DEF ClientInv, OneCallStep
<1>3. pool \subseteq Transactions /\ landed \subseteq Transactions /\ late \subseteq CallNumbers
  BY DEF ClientInv, ClientTypeOK
<1>4. ClientTypeOK' /\ outcome' = [outcome EXCEPT ![current] = "success"] /\ step' = "idle"
  BY <1>1, <1>3, Ends DEF Finish
<1>5. outcome \in [CallNumbers -> {"none", "success", "failure"}]
  BY DEF ClientInv, ClientTypeOK
<1>6. \A m \in CallNumbers : PastAsking(m)' => PastAsking(m)
  BY <1>2, <1>4, <1>5 DEF PastAsking
<1>7. \A tx \in pool' \cup landed : tx.attempt = 1 /\ PastAsking(tx.call)' => tx.call \in late'
  BY <1>1, <1>3, <1>6 DEF ClientInv, Transactions
<1>8. TheCell \in Inscribed
  BY <1>1 DEF ClientInv
<1> QED
  BY <1>1, <1>4, <1>7, <1>8, Kept

\* A wait that ends without one.
LEMMA WaitEndsStep ==
  ASSUME ClientInv, NEW n \in {1, 2}, WaitEnds(n)
  PROVE  ClientInv'
<1>1. OneCallStep /\ late' = late /\ pool' = pool /\ Except(n) /\ step = Waiting(n)
  BY DEF OneCallStep, WaitEnds, Waiting
<1> QED
  BY <1>1, ExceptStep

\* The question: no record while nothing of the call is pending means that its
\* first attempt will never land.
LEMMA AskStep ==
  ASSUME ClientInv, Ask
  PROVE  ClientInv'
<1>1. OneCallStep /\ pool' = pool /\ step = "ask"
  BY DEF OneCallStep, Ask
<1>2. current \in CallNumbers /\ current' = current
  BY <1>1, SameCall DEF ClientInv, OneCallStep
<1>3. pool \subseteq Transactions /\ landed \subseteq Transactions /\ late \subseteq CallNumbers
  BY DEF ClientInv, ClientTypeOK
<1>4. late' \subseteq CallNumbers /\ late \subseteq late'
  BY <1>2, <1>3 DEF Ask
<1>5. outcome \in [CallNumbers -> {"none", "success", "failure"}]
  BY DEF ClientInv, ClientTypeOK
<1>6. \A tx \in pool \cup landed : tx.attempt = 1 /\ PastAsking(tx.call) => tx.call \in late
  BY DEF ClientInv
<1>7. PICK answer \in {IF NotYetInscribed(TheCell) THEN "no record" ELSE "record"}
                      \cup (IF ReadsCanFail THEN {"no node"} ELSE {}) :
        /\ IF Already(answer)
           THEN Finish("success")
           ELSE step' = "attempt-2" /\ UNCHANGED outcome
        /\ late' = IF Tx(1) \in pool \/ answer = "no node" THEN late \cup {current} ELSE late
  BY DEF Ask
<1>8. CASE answer = "record"
  <2>1. Finish("success") /\ ~NotYetInscribed(TheCell)
    BY <1>7, <1>8 DEF Already
  <2>2. ClientTypeOK' /\ outcome' = [outcome EXCEPT ![current] = "success"] /\ step' = "idle"
    BY <1>1, <1>3, <1>4, <2>1, Ends DEF Finish
  <2>3. \A m \in CallNumbers : PastAsking(m)' => PastAsking(m)
    BY <1>2, <1>5, <2>2 DEF PastAsking
  <2>4. \A tx \in pool' \cup landed : tx.attempt = 1 /\ PastAsking(tx.call)' => tx.call \in late'
    BY <1>1, <1>3, <1>4, <1>6, <2>3 DEF Transactions
  <2>5. TheCell \in Inscribed
    BY <2>1, ClientAssumption DEF NotYetInscribed, Inscribed
  <2> QED
    BY <1>1, <2>2, <2>4, <2>5, Kept
<1>9. CASE answer # "record"
  <2>1. step' = "attempt-2" /\ outcome' = outcome
    BY <1>7, <1>9 DEF Already
  <2>2. ClientTypeOK'
    BY <1>1, <1>3, <1>4, <2>1, GoesOn
  <2>3. \A m \in CallNumbers : PastAsking(m)' => PastAsking(m) \/ m = current
    BY <1>2, <2>1 DEF PastAsking
  <2>4. \A tx \in pool \cup landed : tx.attempt = 1 /\ tx.call = current => tx.call \in late'
    <3> SUFFICES ASSUME NEW tx \in pool \cup landed, tx.attempt = 1, tx.call = current
                 PROVE  current \in late'
      OBVIOUS
    <3>1. tx = Tx(1)
      BY <1>3 DEF Tx, Transactions
    <3>2. CASE tx \in pool
      BY <1>7, <3>1, <3>2
    <3>3. CASE tx \in landed
      <4>1. TheCell \in Inscribed
        BY <3>3 DEF ClientInv
      <4>2. ~NotYetInscribed(TheCell)
        BY <4>1 DEF NotYetInscribed, Inscribed
      <4> QED
        BY <1>7, <1>9, <4>2
    <3> QED
      BY <3>2, <3>3
  <2>5. \A tx \in pool' \cup landed : tx.attempt = 1 /\ PastAsking(tx.call)' => tx.call \in late'
    BY <1>1, <1>3, <1>4, <1>6, <2>3, <2>4 DEF Transactions
  <2> QED
    BY <1>1, <2>1, <2>2, <2>5, Kept
<1> QED
  BY <1>8, <1>9

---------------------------------------------------------------------------
(* The network, and others *)

\* The first transaction to land writes the record, and no other can.
LEMMA LandStep ==
  ASSUME ClientInv, NEW tx \in Transactions, Land(tx)
  PROVE  ClientInv'
<1>1. tx \in pool /\ tx.call \in DOMAIN request /\ pool' = pool \ {tx} /\ landed' = landed \cup {tx}
      /\ UNCHANGED <<step, request, outcome, late>>
  BY DEF Land, ClientInv
<1>2. current' = current /\ DOMAIN request' = DOMAIN request
  BY <1>1, SameCall
<1>3. request[tx.call].artifact \in Artifacts
  <2>1. request[tx.call] \in Requests
    BY <1>1, Numbering DEF ClientInv
  <2> QED BY <2>1 DEF Requests
<1>4. TypeOK' /\ TheCell \in Inscribed' /\ TheCell \notin Inscribed
  BY <1>3, AppTypesLand, ClientAssumption DEF Land, ClientInv, ClientTypeOK
<1>5. landed = {}
  BY <1>4 DEF ClientInv
<1>6. ClientTypeOK'
  BY <1>1, <1>2, <1>4 DEF ClientInv, ClientTypeOK
<1>7. (pool \cup landed)' = pool \cup landed /\ \A n \in CallNumbers : PastAsking(n)' = PastAsking(n)
  BY <1>1, <1>2 DEF PastAsking
<1>8. AtMostOneLands' /\ SuccessMeansInscribed'
  BY <1>1, <1>4, <1>5 DEF AtMostOneLands, SuccessMeansInscribed
<1>9. \A t \in (pool \cup landed)' : t.attempt = 1 /\ PastAsking(t.call)' => t.call \in late'
  BY <1>1, <1>7 DEF ClientInv, ClientTypeOK, Transactions
<1>10. \A t \in (pool \cup landed)' : t.call \in DOMAIN request'
  BY <1>2, <1>7 DEF ClientInv
<1> QED
  BY <1>1, <1>2, <1>4, <1>6, <1>8, <1>9, <1>10 DEF ClientInv

\* A transaction that is dropped, or a change of hands, takes nothing back.
LEMMA OtherStep ==
  ASSUME ClientInv,
         (\E tx \in Transactions : Drop(tx)) \/ Elsewhere \/ UNCHANGED allVars
  PROVE  ClientInv'
<1>1. UNCHANGED <<step, request, outcome, landed, late>> /\ pool' \subseteq pool
  BY DEF Drop, Elsewhere, allVars
<1>2. current' = current /\ DOMAIN request' = DOMAIN request
  BY <1>1, SameCall
<1>3. TypeOK' /\ Inscribed' = Inscribed
  <2>1. CASE Elsewhere
    BY <2>1, AppTypesElsewhere, ClientAssumption DEF ClientInv, ClientTypeOK, Inscribed
  <2>2. CASE UNCHANGED vars
    <3>1. signed \subseteq Signatures
      BY DEF ClientInv, ClientTypeOK, TypeOK
    <3> QED
      BY <2>2, <3>1, AppTypesUntouched DEF ClientInv, ClientTypeOK, Inscribed
  <2> QED
    BY <2>1, <2>2 DEF Drop, allVars
<1>4. ClientTypeOK'
  BY <1>1, <1>2, <1>3 DEF ClientInv, ClientTypeOK
<1>5. \A t \in (pool \cup landed)' : t \in pool \cup landed
  BY <1>1
<1>6. \A t \in (pool \cup landed)' : t.attempt = 1 /\ PastAsking(t.call)' => t.call \in late'
  BY <1>1, <1>2, <1>5 DEF ClientInv, ClientTypeOK, PastAsking
<1>7. AtMostOneLands' /\ SuccessMeansInscribed' /\ (landed # {} => TheCell \in Inscribed)'
  BY <1>1, <1>3 DEF ClientInv, AtMostOneLands, SuccessMeansInscribed
<1> QED
  BY <1>1, <1>2, <1>4, <1>5, <1>6, <1>7 DEF ClientInv

\* Every step keeps the invariant.
LEMMA InvStep == ClientInv /\ [ClientNext]_allVars => ClientInv'
BY StepCases, BeginStep, BuildsStep, SignsStep, AskStep, SubmitStep, ConfirmedStep, WaitEndsStep, LandStep, OtherStep

---------------------------------------------------------------------------
(* Theorems *)

\* The invariant holds in every state the client and the network can reach.
THEOREM Inductive == ClientSpec => []ClientInv
<1> QED BY InvInit, InvStep, PTL DEF ClientSpec

\* No call is left without an outcome, whatever the network does to it.
THEOREM ClientTypes == ClientSpec => []ClientTypeOK
<1>1. ClientInv => ClientTypeOK
  BY DEF ClientInv
<1> QED BY <1>1, Inductive, PTL

\* A caller told "success" has an inscribed cell.
THEOREM Success == ClientSpec => []SuccessMeansInscribed
<1>1. ClientInv => SuccessMeansInscribed
  BY DEF ClientInv
<1> QED BY <1>1, Inductive, PTL

\* Over any number of calls and retries, one transaction at most takes effect.
THEOREM OneLands == ClientSpec => []AtMostOneLands
<1>1. ClientInv => AtMostOneLands
  BY DEF ClientInv
<1> QED BY <1>1, Inductive, PTL

\* The exact condition under which success is reported as failure.
THEOREM Late == ClientSpec => []FailureOnlyWhenLate
<1>1. ClientInv => FailureOnlyWhenLate
  BY DEF ClientInv, FailureOnlyWhenLate, PastAsking
<1> QED BY <1>1, Inductive, PTL

---------------------------------------------------------------------------
(* How long a call takes *)

\* Where each step of the client leads.
LEMMA ClientMoves ==
  ASSUME ClientStep
  PROVE  \/ step = "message" /\ step' \in {"sign", "idle"}
         \/ step = "sign" /\ step' \in {"attempt-1", "idle"}
         \/ step = "attempt-1" /\ step' \in {"waiting-1", "ask"}
         \/ step = "waiting-1" /\ step' \in {"ask", "idle"}
         \/ step = "ask" /\ step' \in {"attempt-2", "idle"}
         \/ step = "attempt-2" /\ step' \in {"waiting-2", "idle"}
         \/ step = "waiting-2" /\ step' = "idle"
<1>1. CASE Ask
  BY <1>1 DEF Ask, Finish
<1>2. \A n \in {1, 2} : Except(n) =>
        step' = IF n = 1 THEN "ask" ELSE "idle"
  BY DEF Except, Finish, AfterFirstException
<1>3. ASSUME NEW n \in {1, 2}, Submit(n)
      PROVE  step = Attempt(n) /\ step' \in {Waiting(n), IF n = 1 THEN "ask" ELSE "idle"}
  BY <1>2, <1>3 DEF Submit
<1>4. ASSUME NEW n \in {1, 2}, Confirmed(n) \/ WaitEnds(n)
      PROVE  step = Waiting(n) /\ step' \in {"idle", IF n = 1 THEN "ask" ELSE "idle"}
  BY <1>2, <1>4 DEF Confirmed, WaitEnds, Finish
<1>5. /\ Attempt(1) = "attempt-1" /\ Attempt(2) = "attempt-2"
      /\ Waiting(1) = "waiting-1" /\ Waiting(2) = "waiting-2"
  BY DEF Attempt, Waiting
<1>6. CASE \E n \in {1, 2} : Submit(n) \/ Confirmed(n) \/ WaitEnds(n)
  BY <1>3, <1>4, <1>5, <1>6
<1>7. CASE BuildsMessage \/ SignsMessage
  BY <1>7 DEF BuildsMessage, SignsMessage, Finish
<1> QED
  BY <1>1, <1>6, <1>7 DEF ClientStep

\* What is left after each of them.
LEMMA FewerLeft ==
  /\ \A s \in {"sign", "idle"} : StepsLeft[s] < StepsLeft["message"]
  /\ \A s \in {"attempt-1", "idle"} : StepsLeft[s] < StepsLeft["sign"]
  /\ \A s \in {"waiting-1", "ask"} : StepsLeft[s] < StepsLeft["attempt-1"]
  /\ \A s \in {"ask", "idle"} : StepsLeft[s] < StepsLeft["waiting-1"]
  /\ \A s \in {"attempt-2", "idle"} : StepsLeft[s] < StepsLeft["ask"]
  /\ \A s \in {"waiting-2", "idle"} : StepsLeft[s] < StepsLeft["attempt-2"]
  /\ StepsLeft["idle"] < StepsLeft["waiting-2"]
BY DEF StepsLeft

\* A call signs once, makes no third attempt and asks once, whatever the network does: the part
\* of "every call ends" that does not depend on who is scheduled.
THEOREM EveryStepAdvances == ClientSpec => CallsAdvance
<1>1. ClientInv /\ [ClientNext]_allVars =>
        [request' = request /\ (ClientStep \/ step' # step) =>
           StepsLeft[step'] < StepsLeft[step]]_allVars
  <2> SUFFICES ASSUME ClientInv, ClientNext, request' = request, ClientStep \/ step' # step
               PROVE  StepsLeft[step'] < StepsLeft[step]
    OBVIOUS
  <2>1. \A r \in Requests : ~Begin(r)
    <3> SUFFICES ASSUME NEW r \in Requests, Begin(r) PROVE FALSE
      OBVIOUS
    <3>1. request \in Seq(Requests)
      <4>1. PICK n \in 0 .. MaxCalls : request \in [1 .. n -> Requests]
        BY DEF ClientInv, ClientTypeOK
      <4>2. n \in Nat
        BY ClientAssumption
      <4> QED BY <4>1, <4>2, SeqDef
    <3>2. Len(Append(request, r)) = Len(request) + 1
      BY <3>1
    <3>3. Len(request) \in Nat
      BY <3>1
    <3>4. Append(request, r) = request
      BY DEF Begin
    <3> QED
      BY <3>2, <3>3, <3>4
  <2>2. ClientStep
    <3>1. \A tx \in Transactions : (Land(tx) \/ Drop(tx)) => step' = step
      BY DEF Land, Drop
    <3>2. Elsewhere => step' = step
      BY DEF Elsewhere, clientVars
    <3> QED
      BY <2>1, <3>1, <3>2 DEF ClientNext
  <2> QED
    BY <2>2, ClientMoves, FewerLeft
<1> QED
  BY <1>1, Inductive, PTL DEF ClientSpec, CallsAdvance
=============================================================================
