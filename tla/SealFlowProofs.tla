--------------------------- MODULE SealFlowProofs ---------------------------
(***************************************************************************)
(* Proofs about SealFlow, for every set of callers and cells and every     *)
(* number of calls.  What depends on the single-writer assumption of       *)
(* JsonFileSealStore, or on the absence of a fault, says so.               *)
(***************************************************************************)
EXTENDS SealFlow, TLAPS

\* The assumption the docstring of JsonFileSealStore makes.
SingleWriter == \A p, q \in Callers : p = q

\* Every step is a step of one caller, of a signing, or of a fault.
LEMMA StepCases ==
  ASSUME [Next]_vars
  PROVE  \/ \E p \in Callers :
              \/ \E c \in Cells, isolated \in BOOLEAN : Call(p, c, isolated)
              \/ Check(p) \/ Collect(p) \/ TimeOut(p)
              \/ Load(p) \/ Write(p) \/ Fsync(p) \/ Replace(p) \/ RecordFails(p) \/ Return(p)
              \/ Kill(p) \/ Interrupt(p)
         \/ \E s \in Processes : SigningStep(s)
         \/ Persist
         \/ PowerLoss
         \/ UNCHANGED vars
BY DEF Next, CallerStep

---------------------------------------------------------------------------
(* Type correctness *)

USE DEF signingVars, recordVars, storeVars, GoTo, SetStage

\* A call signs in its caller or in a worker.
LEMMA SignerIsAProcess ==
  ASSUME TypeOK, NEW p \in Callers
  PROVE  /\ Signer(p) \in Processes
         /\ ~call[p].isolated => Signer(p) = p
         /\ call[p].isolated => Signer(p) = call[p].number /\ Signer(p) \in Workers
BY DEF TypeOK, CallRecord, Signer, Processes, Workers

\* Nothing has been called, and the file is empty.
LEMMA TypeInit == Init => TypeOK
BY CellAssumption, BoundAssumption
   DEF Init, TypeOK, NoCall, CallRecord, EmptyFile, SealFile

\* The signing changes nothing but its own variables, and those within their types.
LEMMA SigningTypes ==
  ASSUME TypeOK, NEW s \in Processes, SigningStep(s)
  PROVE  TypeOK' /\ UNCHANGED <<pc, call, recordVars, storeVars, calls, returned>>
<1> USE DEF TypeOK, SigningOnly
<1>1. CASE Spawn(s) \/ Keygen(s) \/ EnterTry(s) \/ Wipe(s)
  BY <1>1 DEF Spawn, Keygen, EnterTry, Wipe
<1>2. CASE SignMessage(s) \/ Verify(s)
  BY <1>2 DEF SignMessage, Verify, AfterSignRaises
<1>3. CASE Exit(s)
  BY <1>3 DEF Exit, MemoryGone
<1> QED BY <1>1, <1>2, <1>3 DEF SigningStep

\* Each step of a caller, of a signing and of a fault keeps the types.
LEMMA TypeStep == TypeOK /\ [Next]_vars => TypeOK'
<1> SUFFICES ASSUME TypeOK, [Next]_vars PROVE TypeOK'
  OBVIOUS
<1>0. \A p \in Callers : Signer(p) \in Processes /\ p \in Processes
  BY SignerIsAProcess DEF Processes
<1> USE DEF TypeOK
<1>1. ASSUME NEW p \in Callers, NEW c \in Cells, NEW isolated \in BOOLEAN, Call(p, c, isolated)
      PROVE  TypeOK'
  <2>1. [number |-> calls + 1, cell |-> c, isolated |-> isolated] \in CallRecord
    BY <1>1, BoundAssumption DEF Call, CallRecord
  <2>2. calls + 1 \in 0 .. MaxCalls
    BY <1>1, BoundAssumption DEF Call
  <2> QED BY <1>0, <1>1, <2>1, <2>2 DEF Call
<1>2. ASSUME NEW p \in Callers, Check(p) PROVE TypeOK'
  BY <1>0, <1>2 DEF Check, Raise
<1>3. ASSUME NEW p \in Callers, Collect(p) PROVE TypeOK'
  <2>1. PICK received \in {"none", "good", "bad"} :
          sig' = [sig EXCEPT ![Signer(p)] = "none", ![p] = received]
    BY <1>0, <1>3 DEF Collect
  <2>2. sig' \in [Processes -> {"none", "good", "bad"}]
    BY <1>0, <2>1
  <2> QED BY <1>0, <1>3, <2>2 DEF Collect, Raise, AfterSigning
<1>4. ASSUME NEW p \in Callers, TimeOut(p) \/ RecordFails(p) PROVE TypeOK'
  <2>1. CASE TimeOut(p)
    BY <1>0, <2>1 DEF TimeOut, Raise, MemoryGone
  <2>2. CASE RecordFails(p)
    BY <1>0, <2>2 DEF RecordFails, Raise
  <2> QED BY <1>4, <2>1, <2>2
<1>5. ASSUME NEW p \in Callers, Load(p) PROVE TypeOK'
  BY <1>0, <1>5 DEF Load, Raise, SealFile
<1>6. ASSUME NEW p \in Callers, Write(p) \/ Fsync(p) PROVE TypeOK'
  BY <1>6 DEF Write, Fsync, AfterWrite
<1>7. ASSUME NEW p \in Callers, Replace(p) PROVE TypeOK'
  <2>1. Payload(p) \in SUBSET Cells
    BY DEF Payload, CallRecord
  <2> QED BY <1>7, <2>1 DEF Replace, SealFile
<1>8. ASSUME NEW p \in Callers, Return(p) PROVE TypeOK'
  <2>1. <<call[p].number, call[p].cell>> \in (0 .. MaxCalls) \X Cells
    BY DEF CallRecord
  <2> QED BY <1>8, <2>1 DEF Return
<1>9. ASSUME NEW p \in Callers, Kill(p) PROVE TypeOK'
  <2>1. call[p].isolated => Signer(p) \in Workers
    BY SignerIsAProcess
  <2> QED BY <1>0, <1>9, <2>1 DEF Kill, MemoryGone
<1>10. ASSUME NEW p \in Callers, Interrupt(p) PROVE TypeOK'
  <2>1. Signer(p) \in Processes
    BY SignerIsAProcess
  <2>2. CASE pc[p] = "signing" /\ ~call[p].isolated /\ stage[p] \in {"sign", "verify"}
    BY <1>0, <1>10, <2>2 DEF Interrupt, Processes
  <2>3. CASE ~(pc[p] = "signing" /\ ~call[p].isolated /\ stage[p] \in {"sign", "verify"})
    <3>1. /\ Raise(p)
          /\ MemoryGone(Signer(p)) \/ UNCHANGED <<key, sig>>
          /\ UNCHANGED <<call, orphans, loaded, storeVars, calls, returned>>
      BY <1>10, <2>3 DEF Interrupt
    <3>2. /\ key' \in [Processes -> {"none", "live"}]
          /\ sig' \in [Processes -> {"none", "good", "bad"}]
      BY <1>0, <2>1, <3>1 DEF MemoryGone
    <3>3. /\ pc' = [pc EXCEPT ![p] = "idle"]
          /\ stage' = [stage EXCEPT ![Signer(p)] = "off"]
          /\ tmp' = [tmp EXCEPT ![p] = "none"]
      BY <3>1 DEF Raise
    <3> QED BY <1>0, <2>1, <3>1, <3>2, <3>3
  <2> QED BY <2>2, <2>3
<1>11. CASE Persist
  BY <1>11 DEF Persist, SealFile
<1>12. CASE PowerLoss
  BY <1>12 DEF PowerLoss
<1>13. CASE UNCHANGED vars
  BY <1>13 DEF vars
<1> HIDE DEF TypeOK
<1> QED
  BY <1>1, <1>2, <1>3, <1>4, <1>5, <1>6, <1>7, <1>8, <1>9, <1>10, <1>11, <1>12, <1>13,
     SigningTypes, StepCases

\* Every variable keeps its type, with any number of writers and any fault.
THEOREM SealTypeCorrect == Spec => []TypeOK
<1> QED BY TypeInit, TypeStep, PTL DEF Spec

---------------------------------------------------------------------------
(* Who signs where *)

\* No two calls sign in one process, and a worker that was left behind is
\* none that a call is waiting for.
NamesInv ==
  /\ \A p \in Callers : call[p].number <= calls
  /\ \A p, q \in Callers : p # q => Signer(p) # Signer(q)
  /\ \A p \in Callers : pc[p] # "idle" => Signer(p) \notin orphans
  /\ \A s \in orphans : s <= calls

\* Most steps begin no call and leave no worker behind.
LEMMA NamesKept ==
  ASSUME NamesInv, UNCHANGED <<call, calls>>, orphans' \subseteq orphans,
         \A p \in Callers : pc'[p] # "idle" => pc[p] # "idle"
  PROVE  NamesInv'
BY DEF NamesInv, Signer

\* A new call has a number of its own, hence a worker of its own.
LEMMA NamesCall ==
  ASSUME TypeOK, NamesInv, NEW p \in Callers, NEW c \in Cells, NEW isolated \in BOOLEAN,
         Call(p, c, isolated)
  PROVE  NamesInv' /\ Signer(p)' \in {p, calls + 1}
<1>1. /\ calls \in Nat /\ calls' = calls + 1 /\ orphans' = orphans
      /\ call'[p] = [number |-> calls + 1, cell |-> c, isolated |-> isolated]
      /\ \A q \in Callers \ {p} : call'[q] = call[q] /\ pc'[q] = pc[q]
  BY BoundAssumption DEF Call, TypeOK
<1>2. \A q \in Callers : call[q].number \in Nat
  BY BoundAssumption DEF TypeOK, CallRecord
<1>3. \A q \in Callers : call'[q].number <= calls'
  BY <1>1, <1>2 DEF NamesInv
<1>4. Signer(p)' \in {p, calls + 1} /\ \A q \in Callers \ {p} : Signer(q)' = Signer(q)
  BY <1>1 DEF Signer
<1>5. calls + 1 \in Workers /\ p \notin Workers
  BY ProcessAssumption, BoundAssumption DEF Workers, Call, TypeOK
<1>6. \A q \in Callers \ {p} : Signer(q) \in {q, call[q].number} /\ call[q].number \in Workers
  BY DEF Signer, TypeOK, CallRecord, Workers
<1>7. \A q \in Callers : q \notin Workers
  BY ProcessAssumption
<1>8. \A q \in Callers \ {p} : Signer(q) # p /\ Signer(q) # calls + 1
  BY <1>1, <1>2, <1>5, <1>6, <1>7 DEF NamesInv
<1>9. \A q, r \in Callers : q # r => Signer(q)' # Signer(r)'
  BY <1>4, <1>8 DEF NamesInv
<1>10. orphans \subseteq Workers /\ \A s \in orphans : s \in Nat /\ s <= calls
  BY DEF NamesInv, TypeOK, Workers
<1>11. \A q \in Callers : pc'[q] # "idle" => Signer(q)' \notin orphans'
  BY <1>1, <1>4, <1>5, <1>10 DEF NamesInv
<1> QED BY <1>1, <1>3, <1>4, <1>9, <1>10, <1>11 DEF NamesInv

LEMMA NamesStep == TypeOK /\ NamesInv /\ [Next]_vars => NamesInv'
<1> SUFFICES ASSUME TypeOK, NamesInv, [Next]_vars PROVE NamesInv'
  OBVIOUS
<1>1. ASSUME NEW p \in Callers, Check(p) \/ Collect(p) \/ Load(p) \/ Interrupt(p) PROVE NamesInv'
  BY <1>1, NamesKept DEF Check, Collect, Load, Interrupt, Raise, TypeOK
<1>2. ASSUME NEW p \in Callers, TimeOut(p) \/ RecordFails(p) \/ Write(p) \/ Fsync(p)
      PROVE  NamesInv'
  BY <1>2, NamesKept DEF TimeOut, TimeLimitPasses, RecordFails, Write, Fsync, Raise, TypeOK
<1>3. ASSUME NEW p \in Callers, Replace(p) \/ Return(p) PROVE NamesInv'
  BY <1>3, NamesKept DEF Replace, Return, TypeOK
<1>4. ASSUME NEW p \in Callers, Kill(p) PROVE NamesInv'
  <2>1. UNCHANGED <<call, calls>> /\ pc' = [pc EXCEPT ![p] = "idle"]
    BY <1>4 DEF Kill
  <2>2. orphans' = orphans \/ (call[p].isolated /\ orphans' = orphans \cup {Signer(p)})
    BY <1>4 DEF Kill
  <2>3. call[p].isolated => Signer(p) = call[p].number
    BY DEF Signer
  <2>4. \A q \in Callers : pc'[q] # "idle" => q # p /\ pc[q] # "idle"
    BY <2>1 DEF TypeOK
  <2>5. \A q \in Callers : Signer(q)' = Signer(q)
    BY <2>1 DEF Signer
  <2> QED BY <2>1, <2>2, <2>3, <2>4, <2>5 DEF NamesInv
<1>5. ASSUME NEW s \in Processes, SigningStep(s) PROVE NamesInv'
  <2>1. orphans' \subseteq orphans
    BY <1>5 DEF SigningStep, Spawn, Keygen, EnterTry, SignMessage, Verify, Wipe, Exit
  <2> QED BY <1>5, <2>1, SigningTypes, NamesKept
<1>6. CASE Persist \/ UNCHANGED vars
  BY <1>6, NamesKept DEF Persist, vars
<1>7. CASE PowerLoss
  BY <1>7, NamesKept DEF PowerLoss
<1> QED BY <1>1, <1>2, <1>3, <1>4, <1>5, <1>6, <1>7, NamesCall, StepCases

\* A process that is signing does so for a call that waits for it, or was left
\* behind by one.
ServingInv ==
  \A s \in Processes :
    stage[s] # "off" => s \in orphans \/ \E p \in Callers : pc[p] = "signing" /\ Signer(p) = s

\* So nothing is signing for a call that is elsewhere, or in a caller that is.
LEMMA Quiet ==
  ASSUME TypeOK, NamesInv, ServingInv, NEW p \in Callers, pc[p] # "signing"
  PROVE  stage[p] = "off" /\ (pc[p] # "idle" => stage[Signer(p)] = "off")
<1>1. p \in Processes /\ p \notin orphans
  BY ProcessAssumption DEF Processes, TypeOK
<1>2. \A q \in Callers : Signer(q) = p => q = p
  BY SignerIsAProcess, ProcessAssumption
<1>3. stage[p] = "off"
  BY <1>1, <1>2 DEF ServingInv
<1>4. pc[p] # "idle" => stage[Signer(p)] = "off"
  BY SignerIsAProcess DEF ServingInv, NamesInv
<1> QED BY <1>3, <1>4

\* A worker that is still to come has not begun.
LEMMA Unborn ==
  ASSUME TypeOK, NamesInv, ServingInv, calls < MaxCalls
  PROVE  calls + 1 \in Workers /\ stage[calls + 1] = "off"
<1>1. calls \in Nat /\ calls + 1 \in Workers
  BY BoundAssumption DEF TypeOK, Workers
<1>2. calls + 1 \notin orphans
  BY <1>1 DEF NamesInv
<1>3. \A q \in Callers : Signer(q) # calls + 1
  <2> SUFFICES ASSUME NEW q \in Callers, Signer(q) = calls + 1 PROVE FALSE
    OBVIOUS
  <2>1. q \notin Workers /\ call[q].number \in Nat
    BY ProcessAssumption, BoundAssumption DEF TypeOK, CallRecord
  <2>2. call[q].number = calls + 1
    BY <1>1, <2>1, SignerIsAProcess
  <2> QED BY <1>1, <2>1, <2>2 DEF NamesInv
<1> QED BY <1>1, <1>2, <1>3 DEF ServingInv, Processes

\* A step of one caller keeps it if that caller's signing is over when it leaves.
LEMMA ServingKept ==
  ASSUME TypeOK, ServingInv, NEW p \in Callers, UNCHANGED <<call, orphans>>,
         \A q \in Callers \ {p} : pc'[q] = pc[q],
         \A s \in Processes \ {Signer(p)} : stage'[s] # "off" => stage[s] # "off",
         stage'[Signer(p)] = "off" \/ pc'[p] = "signing"
  PROVE  ServingInv'
<1>1. \A q \in Callers : Signer(q)' = Signer(q)
  BY DEF Signer
<1> QED BY <1>1 DEF ServingInv

LEMMA ServingStep == TypeOK /\ NamesInv /\ ServingInv /\ [Next]_vars => ServingInv'
<1> SUFFICES ASSUME TypeOK, NamesInv, ServingInv, [Next]_vars PROVE ServingInv'
  OBVIOUS
<1>0. \A p \in Callers : Signer(p) \in Processes /\ p \in Processes
  BY SignerIsAProcess DEF Processes
<1>1. ASSUME NEW p \in Callers, NEW c \in Cells, NEW isolated \in BOOLEAN, Call(p, c, isolated)
      PROVE  ServingInv'
  <2>1. /\ pc[p] = "idle" /\ UNCHANGED <<stage, orphans>>
        /\ \A q \in Callers \ {p} : pc'[q] = pc[q] /\ call'[q] = call[q]
    BY <1>1 DEF Call, TypeOK
  <2>2. \A q \in Callers \ {p} : Signer(q)' = Signer(q)
    BY <2>1 DEF Signer
  <2> QED BY <2>1, <2>2 DEF ServingInv
<1>2. ASSUME NEW p \in Callers, Check(p) \/ Collect(p) PROVE ServingInv'
  BY <1>0, <1>2, ServingKept DEF Check, Collect, Raise, TypeOK
<1>3. ASSUME NEW p \in Callers, TimeOut(p) \/ RecordFails(p) PROVE ServingInv'
  BY <1>0, <1>3, ServingKept DEF TimeOut, RecordFails, Raise, TypeOK
<1>4. ASSUME NEW p \in Callers, Load(p) PROVE ServingInv'
  <2>1. stage[Signer(p)] = "off" /\ UNCHANGED <<call, orphans>>
    BY <1>4, Quiet DEF Load
  <2> QED BY <1>0, <1>4, <2>1, ServingKept DEF Load, Raise, TypeOK
<1>5. ASSUME NEW p \in Callers, Write(p) \/ Fsync(p) \/ Replace(p) \/ Return(p) PROVE ServingInv'
  <2>1. stage[Signer(p)] = "off" /\ UNCHANGED <<call, orphans, stage>>
    BY <1>5, Quiet DEF Write, Fsync, Replace, Return
  <2>2. \A q \in Callers \ {p} : pc'[q] = pc[q]
    BY <1>5 DEF Write, Fsync, Replace, Return, TypeOK
  <2> QED BY <2>1, <2>2, ServingKept
<1>6. ASSUME NEW p \in Callers, Kill(p) PROVE ServingInv'
  <2>1. /\ UNCHANGED call /\ orphans \subseteq orphans'
        /\ \A q \in Callers \ {p} : pc'[q] = pc[q]
        /\ stage' = [stage EXCEPT ![p] = "off"]
        /\ pc[p] = "signing" /\ call[p].isolated => Signer(p) \in orphans'
    BY <1>6 DEF Kill, TypeOK
  <2>2. \A q \in Callers : Signer(q)' = Signer(q)
    BY <2>1 DEF Signer
  <2>3. \A s \in Processes : stage'[s] # "off" => stage[s] # "off" /\ s # p
    BY <1>0, <2>1 DEF TypeOK
  <2>4. ~call[p].isolated => Signer(p) = p
    BY DEF Signer
  <2> QED BY <2>1, <2>2, <2>3, <2>4 DEF ServingInv
<1>7. ASSUME NEW p \in Callers, Interrupt(p) PROVE ServingInv'
  <2>1. ~call[p].isolated => Signer(p) = p
    BY DEF Signer
  <2> QED BY <1>0, <1>7, <2>1, ServingKept DEF Interrupt, Raise, TypeOK
<1>8. ASSUME NEW s \in Processes, SigningStep(s) PROVE ServingInv'
  <2>1. /\ stage[s] # "off"
        /\ \A t \in Processes \ {s} : stage'[t] = stage[t]
        /\ \A t \in Processes : t \in orphans => t \in orphans' \/ stage'[t] = "off"
    BY <1>8 DEF SigningStep, Spawn, Keygen, EnterTry, SignMessage, Verify, Wipe, Exit, TypeOK
  <2>2. \A q \in Callers : Signer(q)' = Signer(q) /\ pc'[q] = pc[q]
    BY <1>8, SigningTypes DEF Signer
  <2> QED BY <2>1, <2>2 DEF ServingInv
<1>9. CASE Persist \/ UNCHANGED vars
  BY <1>9 DEF Persist, vars, ServingInv, Signer
<1>10. CASE PowerLoss
  BY <1>10 DEF PowerLoss, ServingInv
<1> QED BY <1>1, <1>2, <1>3, <1>4, <1>5, <1>6, <1>7, <1>8, <1>9, <1>10, StepCases

---------------------------------------------------------------------------
(* Key material *)

\* A key is live only between key generation and the wipe.
KeyOk(s) == key[s] = "live" => stage[s] \in {"generated", "sign", "verify", "wipe"}

\* The buffer is touched by no other step, and every way out of a signing goes
\* through the wipe or ends the process - except for an interrupt of a caller that
\* signs in its own process.
LEMMA KeyStep ==
  ASSUME TypeOK, NamesInv, ServingInv, [Next]_vars, NEW s \in Processes, KeyOk(s),
         s \in Workers \/ "interrupt" \notin Faults
  PROVE  KeyOk(s)'
<1>0. \A p \in Callers : Signer(p) \in Processes /\ p \in Processes
  BY SignerIsAProcess DEF Processes
<1> USE DEF TypeOK, KeyOk
<1>1. ASSUME NEW p \in Callers, NEW c \in Cells, NEW isolated \in BOOLEAN, Call(p, c, isolated)
      PROVE  KeyOk(s)'
  BY <1>1 DEF Call
<1>2. ASSUME NEW p \in Callers, Check(p) PROVE KeyOk(s)'
  <2>1. stage[Signer(p)] = "off"
    BY <1>2, Quiet DEF Check
  <2> QED BY <1>0, <1>2, <2>1 DEF Check, Raise
<1>3. ASSUME NEW p \in Callers, Collect(p) PROVE KeyOk(s)'
  <2>1. stage[Signer(p)] = "done" /\ UNCHANGED key /\ stage' = [stage EXCEPT ![Signer(p)] = "off"]
    BY <1>3 DEF Collect, Raise
  <2> QED BY <1>0, <2>1
<1>4. ASSUME NEW p \in Callers, TimeOut(p) PROVE KeyOk(s)'
  BY <1>0, <1>4 DEF TimeOut, Raise, MemoryGone
<1>5. ASSUME NEW p \in Callers, Load(p) \/ RecordFails(p) PROVE KeyOk(s)'
  <2>1. stage[Signer(p)] = "off"
    BY <1>5, Quiet DEF Load, RecordFails
  <2> QED BY <1>0, <1>5, <2>1 DEF Load, RecordFails, Raise
<1>6. ASSUME NEW p \in Callers, Write(p) \/ Fsync(p) \/ Replace(p) \/ Return(p) PROVE KeyOk(s)'
  BY <1>6 DEF Write, Fsync, Replace, Return
<1>7. ASSUME NEW p \in Callers, Kill(p) PROVE KeyOk(s)'
  BY <1>0, <1>7 DEF Kill, MemoryGone
<1>8. ASSUME NEW p \in Callers, Interrupt(p) PROVE KeyOk(s)'
  <2>1. CASE call[p].isolated
    BY <1>0, <1>8, <2>1 DEF Interrupt, Raise, MemoryGone
  <2>2. CASE ~call[p].isolated
    <3>1. Signer(p) = p /\ p # s
      BY <1>8, <2>2, ProcessAssumption DEF Signer, Interrupt
    <3> QED BY <1>0, <1>8, <2>2, <3>1 DEF Interrupt, Raise
  <2> QED BY <2>1, <2>2
<1>9. ASSUME NEW t \in Processes, SigningStep(t) PROVE KeyOk(s)'
  <2>1. CASE Spawn(t) \/ Keygen(t) \/ EnterTry(t) \/ Wipe(t)
    BY <2>1 DEF Spawn, Keygen, EnterTry, Wipe
  <2>2. CASE SignMessage(t) \/ Verify(t)
    BY <2>2 DEF SignMessage, Verify, AfterSignRaises
  <2>3. CASE Exit(t)
    BY <2>3 DEF Exit, MemoryGone
  <2> QED BY <1>9, <2>1, <2>2, <2>3 DEF SigningStep
<1>10. CASE Persist \/ UNCHANGED vars
  BY <1>10 DEF Persist, vars
<1>11. CASE PowerLoss
  BY <1>11 DEF PowerLoss
<1> QED
  BY <1>1, <1>2, <1>3, <1>4, <1>5, <1>6, <1>7, <1>8, <1>9, <1>10, <1>11, StepCases

\* Where every process is, and what the workers hold: with any writers and faults.
PlacesInv == NamesInv /\ ServingInv /\ \A w \in Workers : KeyOk(w)

LEMMA PlacesInit == Init => PlacesInv
<1> SUFFICES ASSUME Init PROVE PlacesInv
  OBVIOUS
<1>1. NamesInv
  BY BoundAssumption DEF Init, NamesInv, NoCall, Signer
<1> QED BY <1>1 DEF Init, PlacesInv, ServingInv, KeyOk, Processes

LEMMA PlacesStep == TypeOK /\ PlacesInv /\ [Next]_vars => PlacesInv'
<1> SUFFICES ASSUME TypeOK, PlacesInv, [Next]_vars PROVE PlacesInv'
  OBVIOUS
<1>1. \A w \in Workers : w \in Processes
  BY DEF Processes
<1>2. \A w \in Workers : KeyOk(w)'
  BY <1>1, KeyStep DEF PlacesInv
<1> QED BY <1>2, NamesStep, ServingStep DEF PlacesInv, Workers

\* Whatever happens, each process signs for one call or for none.
THEOREM EverySigningHasItsPlace == Spec => []PlacesInv
<1> QED BY PlacesInit, PlacesStep, SealTypeCorrect, PTL DEF Spec

\* A live key is in a signing that a call is waiting for, or in a worker that is
\* still at work for a caller that was killed - whoever else is sealing, whatever
\* fails and whoever is killed, unless a call is interrupted by a signal.
THEOREM KeysAreWiped ==
  ASSUME "interrupt" \notin Faults
  PROVE  Spec => []KeyWipedOnEveryExit
<1> DEFINE KeysOk == \A s \in Processes : KeyOk(s)
<1>1. Init => KeysOk
  BY DEF Init, KeyOk
<1>2. TypeOK /\ PlacesInv /\ KeysOk /\ [Next]_vars => KeysOk'
  BY KeyStep DEF PlacesInv, Processes, Workers
<1>3. PlacesInv /\ KeysOk => KeyWipedOnEveryExit
  BY DEF PlacesInv, ServingInv, KeyOk, KeyWipedOnEveryExit
<1> HIDE DEF KeysOk
<1> QED BY <1>1, <1>2, <1>3, EverySigningHasItsPlace, SealTypeCorrect, PTL DEF Spec

---------------------------------------------------------------------------
(* The seal file *)

\* What is renamed was synced.
FileInv ==
  /\ file.synced /\ ~file.torn
  /\ disk.synced /\ ~disk.torn
  /\ \A p \in Callers : pc[p] = "replace" => tmp[p] = "synced"

\* The rename comes after the sync, and only the caller touches its temporary
\* file in between.
LEMMA FileStep == TypeOK /\ FileInv /\ [Next]_vars => FileInv'
<1> SUFFICES ASSUME TypeOK, FileInv, [Next]_vars PROVE FileInv'
  OBVIOUS
<1> USE DEF TypeOK, FileInv
<1>1. ASSUME NEW p \in Callers, NEW c \in Cells, NEW isolated \in BOOLEAN, Call(p, c, isolated)
      PROVE  FileInv'
  BY <1>1 DEF Call
<1>2. ASSUME NEW p \in Callers, Check(p) \/ Collect(p) PROVE FileInv'
  BY <1>2 DEF Check, Collect, Raise, AfterSigning
<1>3. ASSUME NEW p \in Callers, TimeOut(p) \/ RecordFails(p) \/ Kill(p) \/ Interrupt(p)
      PROVE  FileInv'
  BY <1>3 DEF TimeOut, RecordFails, Kill, Interrupt, Raise
<1>4. ASSUME NEW p \in Callers, Load(p) \/ Write(p) \/ Fsync(p) \/ Return(p) PROVE FileInv'
  BY <1>4 DEF Load, Write, Fsync, Return, Raise, AfterWrite
<1>5. ASSUME NEW p \in Callers, Replace(p) PROVE FileInv'
  BY <1>5 DEF Replace
<1>6. ASSUME NEW s \in Processes, SigningStep(s) PROVE FileInv'
  BY <1>6, SigningTypes
<1>7. CASE Persist
  <2>1. disk'.torn = (file.torn \/ ~file.synced) /\ disk'.synced = file.synced
    BY <1>7 DEF Persist, SealFile
  <2> QED BY <1>7, <2>1 DEF Persist
<1>8. CASE PowerLoss
  BY <1>8 DEF PowerLoss
<1>9. CASE UNCHANGED vars
  BY <1>9 DEF vars
<1> QED BY <1>1, <1>2, <1>3, <1>4, <1>5, <1>6, <1>7, <1>8, <1>9, StepCases

\* Nobody ever finds a torn seal file: not a second writer, and not the first
\* one after a kill or a power loss.
THEOREM Untorn == Spec => []NeverTorn
<1>1. Init => FileInv
  BY DEF Init, FileInv, EmptyFile
<1>2. FileInv => NeverTorn
  BY DEF FileInv, NeverTorn
<1> QED BY <1>1, <1>2, FileStep, SealTypeCorrect, PTL DEF Spec

---------------------------------------------------------------------------
(* One signature per cell, with one writer and no power loss *)

\* The writer's place in its call decides what the file and the returned
\* signatures say of its cell, and what it read is still what is there.
WriterInv ==
  /\ ReturnedIsRecorded
  /\ OneSignaturePerCell
  /\ \A p \in Callers :
       /\ pc[p] \in {"signing", "load", "write", "fsync", "replace"} => call[p].cell \notin file.cells
       /\ pc[p] \in {"write", "fsync", "replace"} => loaded[p] = file.cells
       /\ pc[p] = "return" => /\ call[p].cell \in file.cells
                              /\ \A r \in returned : r[2] # call[p].cell

\* The steps that leave the file and the returned signatures alone: at most
\* the writer's place moves, to one that claims no more.
LEMMA WriterMoves ==
  ASSUME SingleWriter, TypeOK, WriterInv, NEW p \in Callers,
         \/ \E c \in Cells, isolated \in BOOLEAN : Call(p, c, isolated)
         \/ Check(p) \/ Collect(p) \/ TimeOut(p) \/ Load(p) \/ Write(p) \/ Fsync(p)
         \/ RecordFails(p) \/ Kill(p) \/ Interrupt(p)
  PROVE  WriterInv' /\ UNCHANGED <<file, returned>>
<1> USE DEF TypeOK, WriterInv
<1>1. UNCHANGED <<file, returned>>
  BY DEF Call, Check, Collect, TimeOut, Load, Write, Fsync, RecordFails, Kill, Interrupt
<1>2. ReturnedIsRecorded' /\ OneSignaturePerCell'
  BY <1>1 DEF ReturnedIsRecorded, OneSignaturePerCell
<1>3. \A q \in Callers : q = p
  BY DEF SingleWriter
<1>4. ASSUME NEW c \in Cells, NEW isolated \in BOOLEAN, Call(p, c, isolated)
      PROVE  WriterInv'
  BY <1>1, <1>2, <1>3, <1>4 DEF Call
<1>5. CASE Check(p)
  BY <1>1, <1>2, <1>3, <1>5 DEF Check, Raise, IsSealed
<1>6. CASE Collect(p)
  BY <1>1, <1>2, <1>3, <1>6 DEF Collect, Raise, AfterSigning
<1>7. CASE TimeOut(p) \/ RecordFails(p) \/ Kill(p)
  BY <1>1, <1>2, <1>3, <1>7 DEF TimeOut, RecordFails, Kill, Raise
<1>8. CASE Load(p)
  BY <1>1, <1>2, <1>3, <1>8 DEF Load, Raise
<1>9. CASE Write(p) \/ Fsync(p)
  BY <1>1, <1>2, <1>3, <1>9 DEF Write, Fsync, AfterWrite
<1>10. CASE Interrupt(p)
  BY <1>1, <1>2, <1>3, <1>10 DEF Interrupt, Raise
<1> QED BY <1>1, <1>4, <1>5, <1>6, <1>7, <1>8, <1>9, <1>10

\* A signing leaves all of it alone.
LEMMA WriterSigns ==
  ASSUME TypeOK, WriterInv, NEW s \in Processes, SigningStep(s)
  PROVE  WriterInv' /\ UNCHANGED <<file, returned>>
BY SigningTypes DEF WriterInv, ReturnedIsRecorded, OneSignaturePerCell

\* The rename adds the writer's cell to the file, and nothing else.
LEMMA WriterReplaces ==
  ASSUME SingleWriter, TypeOK, WriterInv, NEW p \in Callers, Replace(p)
  PROVE  WriterInv' /\ file'.cells = file.cells \cup {call[p].cell}
<1> USE DEF TypeOK, WriterInv
<1>1. file'.cells = file.cells \cup {call[p].cell}
  BY DEF Replace, Payload
<1>2. UNCHANGED <<returned, call>> /\ pc' = [pc EXCEPT ![p] = "return"]
  BY DEF Replace
<1>3. call[p].cell \notin file.cells
  BY DEF Replace
<1>4. \A r \in returned : r[2] # call[p].cell
  BY <1>3 DEF ReturnedIsRecorded
<1>5. \A q \in Callers : q = p
  BY DEF SingleWriter
<1>6. ReturnedIsRecorded' /\ OneSignaturePerCell'
  BY <1>1, <1>2 DEF ReturnedIsRecorded, OneSignaturePerCell
<1> QED BY <1>1, <1>2, <1>4, <1>5, <1>6

\* The signature handed out is the first one for its cell.
LEMMA WriterReturns ==
  ASSUME SingleWriter, TypeOK, WriterInv, NEW p \in Callers, Return(p)
  PROVE  WriterInv' /\ UNCHANGED file
<1> USE DEF TypeOK, WriterInv
<1>1. /\ UNCHANGED <<file, call>>
      /\ pc' = [pc EXCEPT ![p] = "idle"]
      /\ returned' = returned \cup {<<call[p].number, call[p].cell>>}
      /\ call[p].cell \in file.cells
      /\ \A r \in returned : r[2] # call[p].cell
  BY DEF Return
<1>2. ReturnedIsRecorded'
  BY <1>1 DEF ReturnedIsRecorded
<1>3. OneSignaturePerCell'
  BY <1>1 DEF OneSignaturePerCell
<1>4. \A q \in Callers : q = p
  BY DEF SingleWriter
<1> QED BY <1>1, <1>2, <1>3, <1>4

\* Every step of a single writer without power losses.
LEMMA WriterStep ==
  ASSUME SingleWriter, "powerloss" \notin Faults
  PROVE  TypeOK /\ WriterInv /\ [Next]_vars => WriterInv' /\ file.cells \subseteq file'.cells
<1> SUFFICES ASSUME TypeOK, WriterInv, [Next]_vars
             PROVE  WriterInv' /\ file.cells \subseteq file'.cells
  OBVIOUS
<1>1. ~Persist /\ ~PowerLoss
  BY DEF Persist, PowerLoss
<1>2. CASE UNCHANGED vars
  BY <1>2 DEF vars, WriterInv, ReturnedIsRecorded, OneSignaturePerCell
<1> QED BY <1>1, <1>2, WriterMoves, WriterSigns, WriterReplaces, WriterReturns, StepCases

\* With a single writer and no power loss, every signature that left the API
\* has its cell on file.
THEOREM FailClosed ==
  ASSUME SingleWriter, "powerloss" \notin Faults
  PROVE  Spec => []ReturnedIsRecorded
<1>1. Init => WriterInv
  BY DEF Init, WriterInv, ReturnedIsRecorded, OneSignaturePerCell
<1>2. WriterInv => ReturnedIsRecorded
  BY DEF WriterInv
<1> QED BY <1>1, <1>2, WriterStep, SealTypeCorrect, PTL DEF Spec

\* A single writer hands out at most one signature for a cell, ever, across
\* kills, interrupts, timeouts and restarts.
THEOREM SealedOnce ==
  ASSUME SingleWriter, "powerloss" \notin Faults
  PROVE  Spec => []OneSignaturePerCell
<1>1. Init => WriterInv
  BY DEF Init, WriterInv, ReturnedIsRecorded, OneSignaturePerCell
<1>2. WriterInv => OneSignaturePerCell
  BY DEF WriterInv
<1> QED BY <1>1, <1>2, WriterStep, SealTypeCorrect, PTL DEF Spec

\* The file of a single writer only grows.
THEOREM RecordsKept ==
  ASSUME SingleWriter, "powerloss" \notin Faults
  PROVE  Spec => RecordsAreNeverLost
<1>1. Init => WriterInv
  BY DEF Init, WriterInv, ReturnedIsRecorded, OneSignaturePerCell
<1>2. TypeOK /\ WriterInv /\ [Next]_vars => WriterInv' /\ [file.cells \subseteq file'.cells]_file
  BY WriterStep
<1> QED BY <1>1, <1>2, SealTypeCorrect, PTL DEF Spec, RecordsAreNeverLost

\* What a call holds once its signing is accepted, with any writers and faults.
HoldsGoodSeal ==
  \A p \in Callers :
    /\ pc[p] \notin {"idle", "signing"} => key[Signer(p)] = "none"
    /\ pc[p] = "signing" /\ stage[Signer(p)] \in {"spawn", "keygen", "done"}
         => key[Signer(p)] = "none"
    /\ pc[p] \in {"load", "write", "fsync", "replace"} => sig[p] = "good"

\* A caller signs in no process in which another one does, nor in another caller's.
LEMMA Apart ==
  ASSUME TypeOK, NamesInv, NEW p \in Callers, NEW q \in Callers, p # q
  PROVE  Signer(p) # Signer(q) /\ Signer(p) # q
BY SignerIsAProcess, ProcessAssumption DEF NamesInv

\* Only a verified signature gets past Collect, which follows the wipe.
LEMMA GoodSealStep == TypeOK /\ PlacesInv /\ HoldsGoodSeal /\ [Next]_vars => HoldsGoodSeal'
<1> SUFFICES ASSUME TypeOK, PlacesInv, HoldsGoodSeal, [Next]_vars, NEW q \in Callers
             PROVE  /\ pc'[q] \notin {"idle", "signing"} => key'[Signer(q)'] = "none"
                    /\ pc'[q] = "signing" /\ stage'[Signer(q)'] \in {"spawn", "keygen", "done"}
                         => key'[Signer(q)'] = "none"
                    /\ pc'[q] \in {"load", "write", "fsync", "replace"} => sig'[q] = "good"
  BY DEF HoldsGoodSeal
<1> DEFINE P == /\ pc'[q] \notin {"idle", "signing"} => key'[Signer(q)'] = "none"
                /\ pc'[q] = "signing" /\ stage'[Signer(q)'] \in {"spawn", "keygen", "done"}
                     => key'[Signer(q)'] = "none"
                /\ pc'[q] \in {"load", "write", "fsync", "replace"} => sig'[q] = "good"
<1>0. /\ \A p \in Callers : Signer(p) \in Processes /\ p \in Processes
      /\ \A p \in Callers \ {q} : Signer(q) # Signer(p) /\ Signer(q) # p /\ Signer(p) # q
      /\ NamesInv /\ ServingInv
  BY SignerIsAProcess, Apart DEF Processes, PlacesInv
<1>1. ASSUME UNCHANGED call PROVE Signer(q)' = Signer(q)
  BY <1>1 DEF Signer
<1> USE DEF TypeOK, HoldsGoodSeal
<1>2. ASSUME NEW p \in Callers, NEW c \in Cells, NEW isolated \in BOOLEAN, Call(p, c, isolated)
      PROVE  P
  <2>1. /\ key' = [key EXCEPT ![p] = "none"] /\ sig' = [sig EXCEPT ![p] = "none"]
        /\ pc' = [pc EXCEPT ![p] = "check"] /\ UNCHANGED stage
        /\ \A r \in Callers \ {p} : call'[r] = call[r]
    BY <1>2 DEF Call
  <2>2. CASE p = q
    <3>1. calls + 1 \in Processes /\ key[calls + 1] = "none"
      BY <1>0, <1>2, Unborn DEF Call, PlacesInv, KeyOk, Processes
    <3>2. Signer(q)' \in {q, calls + 1}
      BY <1>0, <1>2, <2>2, NamesCall
    <3> QED BY <1>0, <2>1, <2>2, <3>1, <3>2
  <2>3. CASE p # q
    <3>1. Signer(q)' = Signer(q)
      BY <2>1, <2>3 DEF Signer
    <3> QED BY <1>0, <2>1, <2>3, <3>1
  <2> QED BY <2>2, <2>3
<1>3. ASSUME NEW p \in Callers, Check(p) PROVE P
  BY <1>0, <1>1, <1>3 DEF Check, Raise
<1>4. ASSUME NEW p \in Callers, Collect(p) PROVE P
  <2>1. PICK received \in {"none", "good", "bad"} :
          /\ sig' = [sig EXCEPT ![Signer(p)] = "none", ![p] = received]
          /\ pc' = [pc EXCEPT ![p] = "idle"]
             \/ (received = "good" /\ pc' = [pc EXCEPT ![p] = "load"])
    <3>1. PICK received \in {sig[Signer(p)]}
                 \cup (IF call[p].isolated /\ sig[Signer(p)] # "none" THEN {"bad"} ELSE {}) :
            /\ sig' = [sig EXCEPT ![Signer(p)] = "none", ![p] = received]
            /\ IF received # "none" /\ SelfVerifies(received)
               THEN GoTo(p, AfterSigning) ELSE GoTo(p, "idle")
      BY <1>4 DEF Collect, Raise
    <3>2. received \in {"none", "good", "bad"}
      BY <1>0, <3>1
    <3> QED BY <3>1, <3>2 DEF AfterSigning, SelfVerifies
  <2>2. /\ pc[p] = "signing" /\ stage[Signer(p)] = "done" /\ UNCHANGED <<call, key>>
        /\ stage' = [stage EXCEPT ![Signer(p)] = "off"]
    BY <1>4 DEF Collect, Raise
  <2>3. CASE p = q
    BY <1>0, <1>1, <2>1, <2>2, <2>3
  <2>4. CASE p # q
    BY <1>0, <1>1, <2>1, <2>2, <2>4
  <2> QED BY <2>3, <2>4
<1>5. ASSUME NEW p \in Callers, TimeOut(p) PROVE P
  BY <1>0, <1>1, <1>5 DEF TimeOut, Raise, MemoryGone
<1>6. ASSUME NEW p \in Callers, Load(p) \/ RecordFails(p) PROVE P
  BY <1>0, <1>1, <1>6 DEF Load, RecordFails, Raise
<1>7. ASSUME NEW p \in Callers, Write(p) \/ Fsync(p) \/ Replace(p) \/ Return(p) PROVE P
  BY <1>1, <1>7 DEF Write, Fsync, Replace, Return, AfterWrite
<1>8. ASSUME NEW p \in Callers, Kill(p) PROVE P
  BY <1>0, <1>1, <1>8 DEF Kill, MemoryGone
<1>9. ASSUME NEW p \in Callers, Interrupt(p) PROVE P
  <2>1. CASE pc[p] = "signing" /\ ~call[p].isolated /\ stage[p] \in {"sign", "verify"}
    <3>1. Signer(p) = p
      BY <2>1 DEF Signer
    <3> QED BY <1>0, <1>1, <1>9, <2>1, <3>1 DEF Interrupt
  <2>2. CASE ~(pc[p] = "signing" /\ ~call[p].isolated /\ stage[p] \in {"sign", "verify"})
    BY <1>0, <1>1, <1>9, <2>2 DEF Interrupt, Raise, MemoryGone
  <2> QED BY <2>1, <2>2
<1>10. ASSUME NEW s \in Processes, SigningStep(s) PROVE P
  <2>1. UNCHANGED <<pc, call>>
    BY <1>10, SigningTypes
  <2>2. CASE s # Signer(q) /\ (s = q => pc[q] \notin {"load", "write", "fsync", "replace"})
    BY <1>0, <1>1, <1>10, <2>1, <2>2
       DEF SigningStep, Spawn, Keygen, EnterTry, SignMessage, Verify, Wipe, Exit, MemoryGone
  <2>3. CASE s = Signer(q) /\ pc[q] = "signing"
    <3>1. ~Exit(s)
      BY <1>0, <2>3 DEF Exit, NamesInv
    <3> QED BY <1>0, <1>1, <1>10, <2>1, <2>3, <3>1
            DEF SigningStep, Spawn, Keygen, EnterTry, SignMessage, Verify, Wipe, AfterSignRaises
  <2>4. CASE pc[q] = "idle"
    BY <2>1, <2>4
  <2>5. pc[q] \notin {"idle", "signing"} => s # Signer(q) /\ s # q
    <3>1. stage[s] # "off"
      BY <1>10 DEF SigningStep, Spawn, Keygen, EnterTry, SignMessage, Verify, Wipe, Exit
    <3> QED BY <1>0, <3>1, Quiet
  <2> QED BY <2>2, <2>3, <2>4, <2>5
<1>11. CASE Persist \/ UNCHANGED vars
  BY <1>1, <1>11 DEF Persist, vars
<1>12. CASE PowerLoss
  BY <1>12 DEF PowerLoss
<1> HIDE DEF TypeOK, HoldsGoodSeal
<1> QED
  BY <1>2, <1>3, <1>4, <1>5, <1>6, <1>7, <1>8, <1>9, <1>10, <1>11, <1>12, StepCases

\* A cell is consumed by a call that holds a verified signature for it and has
\* wiped its key; a signing that failed leaves the file as it was.
THEOREM ConsumedByGoodSeal ==
  ASSUME SingleWriter, "powerloss" \notin Faults
  PROVE  Spec => ConsumedOnlyByGoodSeal
<1>1. Init => WriterInv /\ HoldsGoodSeal
  BY DEF Init, WriterInv, ReturnedIsRecorded, OneSignaturePerCell, HoldsGoodSeal
<1>2. ASSUME TypeOK, WriterInv, HoldsGoodSeal, [Next]_vars
      PROVE  \A c \in file'.cells \ file.cells : \E p \in Callers :
               /\ pc[p] = "replace" /\ call[p].cell = c
               /\ sig[p] = "good" /\ key[Signer(p)] = "none"
  <2>1. ~Persist /\ ~PowerLoss
    BY DEF Persist, PowerLoss
  <2>2. CASE \E p \in Callers : Replace(p)
    <3>1. PICK p \in Callers : Replace(p)
      BY <2>2
    <3>2. file'.cells = file.cells \cup {call[p].cell} /\ pc[p] = "replace"
      BY <1>2, <3>1, WriterReplaces DEF Replace
    <3>3. sig[p] = "good" /\ key[Signer(p)] = "none"
      BY <1>2, <3>2 DEF HoldsGoodSeal
    <3> QED BY <3>2, <3>3
  <2>3. CASE ~\E p \in Callers : Replace(p)
    <3>1. UNCHANGED file
      BY <1>2, <2>1, <2>3, WriterMoves, WriterSigns, WriterReturns, StepCases DEF vars
    <3> QED BY <3>1
  <2> QED BY <2>2, <2>3
<1>3. TypeOK /\ PlacesInv /\ WriterInv /\ HoldsGoodSeal /\ [Next]_vars
        => WriterInv' /\ HoldsGoodSeal'
  BY WriterStep, GoodSealStep
<1> QED
  BY <1>1, <1>2, <1>3, EverySigningHasItsPlace, SealTypeCorrect, PTL
     DEF Spec, ConsumedOnlyByGoodSeal

---------------------------------------------------------------------------
(* Call numbers, with any writers and faults *)

\* A call under way has a number of its own, and it has handed nothing out.
NumbersInv ==
  /\ \A p \in Callers : pc[p] # "idle" =>
       /\ call[p].number \in 1 .. calls
       /\ \A r \in returned : r[1] # call[p].number
       /\ \A q \in Callers \ {p} : pc[q] # "idle" => call[q].number # call[p].number
  /\ \A r \in returned : r[1] \in 1 .. calls

\* The steps that neither begin a call nor end one with a signature.
LEMMA NumbersKept ==
  ASSUME TypeOK, NumbersInv, UNCHANGED <<call, calls, returned>>,
         \A p \in Callers : pc'[p] # "idle" => pc[p] # "idle"
  PROVE  NumbersInv'
BY DEF NumbersInv

LEMMA NumbersStep == TypeOK /\ NumbersInv /\ [Next]_vars => NumbersInv'
<1> SUFFICES ASSUME TypeOK, NumbersInv, [Next]_vars PROVE NumbersInv'
  OBVIOUS
<1>1. ASSUME NEW p \in Callers, NEW c \in Cells, NEW isolated \in BOOLEAN, Call(p, c, isolated)
      PROVE  NumbersInv'
  <2>1. /\ calls' = calls + 1 /\ calls \in Nat /\ returned' = returned
        /\ call'[p].number = calls + 1
        /\ \A q \in Callers \ {p} : call'[q] = call[q] /\ pc'[q] = pc[q]
    BY <1>1, BoundAssumption DEF Call, TypeOK
  <2> QED BY <2>1 DEF NumbersInv
<1>2. ASSUME NEW p \in Callers, Return(p) PROVE NumbersInv'
  <2>1. /\ UNCHANGED <<call, calls>>
        /\ pc[p] # "idle" /\ pc' = [pc EXCEPT ![p] = "idle"]
        /\ returned' = returned \cup {<<call[p].number, call[p].cell>>}
    BY <1>2 DEF Return
  <2>2. \A r \in returned' : r \in returned \/ r[1] = call[p].number
    BY <2>1
  <2> QED BY <2>1, <2>2 DEF NumbersInv, TypeOK
<1>3. ASSUME NEW p \in Callers, Check(p) \/ Collect(p) \/ Load(p) \/ Interrupt(p)
      PROVE  NumbersInv'
  BY <1>3, NumbersKept DEF Check, Collect, Load, Interrupt, Raise, TypeOK
<1>4. ASSUME NEW p \in Callers, TimeOut(p) \/ RecordFails(p) \/ Kill(p) PROVE NumbersInv'
  BY <1>4, NumbersKept DEF TimeOut, RecordFails, Kill, Raise, TypeOK
<1>5. ASSUME NEW p \in Callers, Write(p) \/ Fsync(p) \/ Replace(p) PROVE NumbersInv'
  BY <1>5, NumbersKept DEF Write, Fsync, Replace, TypeOK
<1>6. ASSUME NEW s \in Processes, SigningStep(s) PROVE NumbersInv'
  BY <1>6, SigningTypes, NumbersKept
<1>7. CASE Persist \/ UNCHANGED vars
  BY <1>7, NumbersKept DEF Persist, vars
<1>8. CASE PowerLoss
  BY <1>8, NumbersKept DEF PowerLoss
<1> QED BY <1>1, <1>2, <1>3, <1>4, <1>5, <1>6, <1>7, <1>8, StepCases

\* No two calls share a number, so whatever is made per call - a key pair - is
\* not made twice, with any number of writers.
THEOREM CallsAreDistinct == Spec => []NumbersInv
<1>1. Init => NumbersInv
  BY DEF Init, NumbersInv
<1> QED BY <1>1, NumbersStep, SealTypeCorrect, PTL DEF Spec

---------------------------------------------------------------------------
(* One writer implements the one-time seal *)

\* The state of every cell follows from the file, the returned signatures and
\* who is about to return.
LEMMA SameState ==
  ASSUME UNCHANGED <<file, returned>>,
         \A p \in Callers : (pc[p] = "return") = (pc'[p] = "return"),
         \A p \in Callers : pc[p] = "return" => call'[p] = call[p]
  PROVE  UNCHANGED Abstract!vars
<1>1. \A c \in Cells : SealState(c)' = SealState(c)
  BY DEF SealState
<1> QED BY <1>1 DEF Abstract!vars

\* So it does when a caller moves that is not about to return, before or after.
LEMMA SameStateMove ==
  ASSUME TypeOK, UNCHANGED <<file, returned>>, NEW p \in Callers, NEW l,
         pc' = pc \/ (pc' = [pc EXCEPT ![p] = l] /\ l # "return"),
         pc[p] # "return", \A q \in Callers \ {p} : call'[q] = call[q]
  PROVE  UNCHANGED Abstract!vars
<1>1. \A q \in Callers : (pc[q] = "return") = (pc'[q] = "return")
  BY DEF TypeOK
<1> QED BY <1>1, SameState

\* A writer that goes away before it returned forfeits the cell it sealed.
LEMMA Forfeits ==
  ASSUME SingleWriter, TypeOK, WriterInv, NEW p \in Callers,
         pc[p] = "return", pc'[p] = "idle", UNCHANGED <<file, returned, call>>
  PROVE  Abstract!Forfeit(call[p].cell)
<1> DEFINE c == call[p].cell
<1>1. \A q \in Callers : q = p
  BY DEF SingleWriter
<1>2. c \in Cells /\ c \in file.cells /\ \A r \in returned : r[2] # c
  BY DEF WriterInv, TypeOK, CallRecord
<1>3. SealState(c) = "held" /\ SealState(c)' = "forfeited"
  BY <1>1, <1>2 DEF SealState
<1>4. \A d \in Cells \ {c} : SealState(d)' = SealState(d)
  BY <1>1 DEF SealState
<1> QED BY <1>2, <1>3, <1>4 DEF Abstract!Forfeit

\* The rename commits the writer's cell, and nothing is held by anybody else.
LEMMA Commits ==
  ASSUME SingleWriter, TypeOK, WriterInv, NEW p \in Callers, Replace(p)
  PROVE  Abstract!Commit(call[p].cell)
<1> DEFINE c == call[p].cell
<1>1. \A q \in Callers : q = p
  BY DEF SingleWriter
<1>2. /\ pc[p] = "replace" /\ pc'[p] = "return" /\ UNCHANGED <<call, returned>>
      /\ file'.cells = file.cells \cup {c}
  BY WriterReplaces DEF Replace, TypeOK
<1>3. c \in Cells /\ c \notin file.cells /\ \A r \in returned : r[2] # c
  BY <1>2 DEF WriterInv, ReturnedIsRecorded, TypeOK, CallRecord
<1>4. \A d \in Cells : SealState(d) # "held"
  BY <1>1, <1>2 DEF SealState
<1>5. SealState(c) = "open" /\ SealState(c)' = "held"
  BY <1>2, <1>3 DEF SealState
<1>6. \A d \in Cells \ {c} : SealState(d)' = SealState(d)
  BY <1>1, <1>2 DEF SealState
<1> QED BY <1>2, <1>3, <1>4, <1>5, <1>6 DEF Abstract!Commit

\* The writer hands out the signature of the cell it holds, for the first time.
LEMMA HandsOut ==
  ASSUME SingleWriter, TypeOK, WriterInv, NumbersInv, NEW p \in Callers, Return(p)
  PROVE  Abstract!HandOut(call[p].number, call[p].cell) /\ call[p].number \in 1 .. MaxCalls
<1> DEFINE c == call[p].cell  n == call[p].number
<1>1. \A q \in Callers : q = p
  BY DEF SingleWriter
<1>2. /\ pc[p] = "return" /\ pc'[p] = "idle" /\ UNCHANGED <<call, file>>
      /\ returned' = returned \cup {<<n, c>>}
  BY DEF Return, TypeOK
<1>3. c \in Cells /\ c \in file.cells /\ \A r \in returned : r[2] # c
  BY <1>2 DEF WriterInv, TypeOK, CallRecord
<1>4. SealState(c) = "held"
  BY <1>1, <1>2, <1>3 DEF SealState
<1>5. SealState(c)' = "out"
  <2>1. <<n, c>> \in returned' /\ <<n, c>>[2] = c
    BY <1>2
  <2> QED BY <1>2, <1>3, <2>1 DEF SealState
<1>6. \A d \in Cells \ {c} : SealState(d)' = SealState(d)
  BY <1>1, <1>2 DEF SealState
<1>7. (\A r \in returned : r[1] # n) /\ n \in 1 .. MaxCalls
  BY <1>2, BoundAssumption DEF NumbersInv, TypeOK
<1> QED BY <1>2, <1>3, <1>4, <1>5, <1>6, <1>7 DEF Abstract!HandOut

\* Every step of a single writer is a step of the one-time seal or leaves it alone.
LEMMA AbstractStep ==
  ASSUME SingleWriter, "powerloss" \notin Faults
  PROVE  TypeOK /\ WriterInv /\ NumbersInv /\ [Next]_vars => [Abstract!Next]_(Abstract!vars)
<1> SUFFICES ASSUME TypeOK, WriterInv, NumbersInv, [Next]_vars
             PROVE  Abstract!Next \/ UNCHANGED Abstract!vars
  OBVIOUS
<1> USE DEF TypeOK
<1>1. ASSUME NEW p \in Callers PROVE call[p].cell \in Cells
  BY DEF CallRecord
<1>2. ASSUME NEW p \in Callers, NEW c \in Cells, NEW isolated \in BOOLEAN, Call(p, c, isolated)
      PROVE  UNCHANGED Abstract!vars
  <2>1. \E l \in {"check"} : pc' = [pc EXCEPT ![p] = l]
    BY <1>2 DEF Call
  <2> QED BY <1>2, <2>1, SameStateMove DEF Call
<1>3. ASSUME NEW p \in Callers, Check(p) PROVE UNCHANGED Abstract!vars
  <2>1. \E l \in {"signing", "idle"} : pc' = [pc EXCEPT ![p] = l]
    BY <1>3 DEF Check, Raise
  <2> QED BY <1>3, <2>1, SameStateMove DEF Check
<1>4. ASSUME NEW p \in Callers, Collect(p) PROVE UNCHANGED Abstract!vars
  <2>1. UNCHANGED <<file, returned, call>> /\ pc[p] = "signing"
    BY <1>4 DEF Collect
  <2>2. \E l \in {"load", "idle"} : pc' = [pc EXCEPT ![p] = l]
    BY <1>4 DEF Collect, Raise, AfterSigning
  <2> QED BY <2>1, <2>2, SameStateMove
<1>5. ASSUME NEW p \in Callers,
             TimeOut(p) \/ RecordFails(p) \/ Load(p) \/ Write(p) \/ Fsync(p)
      PROVE  UNCHANGED Abstract!vars
  <2>1. UNCHANGED <<file, returned, call>> /\ pc[p] # "return"
    BY <1>5 DEF TimeOut, RecordFails, Load, Write, Fsync, TimeLimitPasses
  <2>2. \E l \in {"idle", "write", "fsync", "replace"} : pc' = [pc EXCEPT ![p] = l]
    BY <1>5 DEF TimeOut, RecordFails, Load, Write, Fsync, Raise, AfterWrite
  <2> QED BY <2>1, <2>2, SameStateMove
<1>6. ASSUME NEW s \in Processes, SigningStep(s) PROVE UNCHANGED Abstract!vars
  BY <1>6, SigningTypes, SameState
<1>7. ASSUME NEW p \in Callers, Kill(p) \/ Interrupt(p)
      PROVE  Abstract!Next \/ UNCHANGED Abstract!vars
  <2>1. UNCHANGED <<file, returned, call>>
    BY <1>7 DEF Kill, Interrupt
  <2>2. CASE pc[p] = "return"
    <3>1. pc'[p] = "idle"
      BY <1>7, <2>2 DEF Kill, Interrupt, Raise
    <3> QED BY <1>1, <2>1, <2>2, <3>1, Forfeits DEF Abstract!Next
  <2>3. CASE pc[p] # "return"
    <3>1. \A q \in Callers : (pc[q] = "return") = (pc'[q] = "return")
      BY <1>7, <2>3 DEF Kill, Interrupt, Raise
    <3> QED BY <2>1, <3>1, SameState
  <2> QED BY <2>2, <2>3
<1>8. ASSUME NEW p \in Callers, Replace(p) PROVE Abstract!Next
  BY <1>1, <1>8, Commits DEF Abstract!Next
<1>9. ASSUME NEW p \in Callers, Return(p) PROVE Abstract!Next
  BY <1>1, <1>9, HandsOut DEF Abstract!Next
<1>10. ~Persist /\ ~PowerLoss
  BY DEF Persist, PowerLoss
<1>11. CASE UNCHANGED vars
  BY <1>11, SameState DEF vars
<1> HIDE DEF TypeOK
<1> QED
  BY <1>2, <1>3, <1>4, <1>5, <1>6, <1>7, <1>8, <1>9, <1>10, <1>11, StepCases

\* A single writer, killed and interrupted anywhere, is a one-time seal: each cell
\* is open, held, out or forfeited, in that order, and never leaves the last two.
THEOREM SealRefinement ==
  ASSUME SingleWriter, "powerloss" \notin Faults
  PROVE  Spec => IsOneTimeSeal
<1>1. Init => WriterInv
  BY DEF Init, WriterInv, ReturnedIsRecorded, OneSignaturePerCell
<1>2. ASSUME Init PROVE Abstract!Init
  <2>1. \A c \in Cells : SealState(c) = "open"
    BY <1>2 DEF Init, SealState, EmptyFile
  <2>2. returned = {}
    BY <1>2 DEF Init
  <2> QED BY <2>1, <2>2 DEF Abstract!Init
<1>3. TypeOK /\ WriterInv /\ [Next]_vars => WriterInv'
  BY WriterStep
<1> QED
  BY <1>1, <1>2, <1>3, AbstractStep, SealTypeCorrect, CallsAreDistinct, PTL
     DEF Spec, IsOneTimeSeal, Abstract!Spec

---------------------------------------------------------------------------
(* How long a call takes *)

\* What lies before a call, label by label and stage by stage.
LEMMA CountsLeft ==
  /\ \A l \in DOMAIN LabelsLeft : LabelsLeft[l] \in 0 .. 13
  /\ \A s \in DOMAIN StagesLeft : StagesLeft[s] \in 0 .. 6
  /\ LabelsLeft["idle"] = 0 /\ LabelsLeft["return"] = 1 /\ LabelsLeft["replace"] = 2
  /\ LabelsLeft["fsync"] = 3 /\ LabelsLeft["write"] = 4 /\ LabelsLeft["load"] = 5
  /\ LabelsLeft["signing"] = 6 /\ LabelsLeft["check"] = 13
  /\ StagesLeft["off"] = 0 /\ StagesLeft["done"] = 0 /\ StagesLeft["wipe"] = 1
  /\ StagesLeft["verify"] = 2 /\ StagesLeft["sign"] = 3 /\ StagesLeft["generated"] = 4
  /\ StagesLeft["keygen"] = 5 /\ StagesLeft["spawn"] = 6
BY DEF LabelsLeft, StagesLeft

\* What a call still has to do.
LEMMA CountTypes ==
  ASSUME TypeOK, NEW p \in Callers
  PROVE  LabelsLeft[pc[p]] \in 0 .. 13 /\ StagesLeft[StageOf(p)] \in 0 .. 6
<1>1. pc[p] \in DOMAIN LabelsLeft /\ StageOf(p) \in DOMAIN StagesLeft
  BY SignerIsAProcess DEF TypeOK, LabelsLeft, StagesLeft, StageOf
<1> QED BY <1>1, CountsLeft

\* A call that ends.
LEMMA Ending ==
  ASSUME TypeOK, NEW p \in Callers, pc[p] # "idle", pc'[p] = "idle"
  PROVE  StepsLeft(p)' < StepsLeft(p)
<1>1. LabelsLeft[pc[p]] > 0
  BY CountsLeft DEF TypeOK
<1>2. StageOf(p)' = "off"
  BY DEF StageOf
<1> QED BY <1>1, <1>2, CountTypes, CountsLeft DEF StepsLeft

\* Outside the signing a call moves from label to label.
LEMMA Moving ==
  ASSUME TypeOK, NEW p \in Callers, pc'[p] \in DOMAIN LabelsLeft,
         pc[p] # "signing", pc'[p] # "signing", LabelsLeft[pc'[p]] < LabelsLeft[pc[p]]
  PROVE  StepsLeft(p)' < StepsLeft(p)
<1>1. StageOf(p)' = "off" /\ StageOf(p) = "off"
  BY DEF StageOf
<1> QED BY <1>1, CountTypes, CountsLeft DEF StepsLeft

\* And inside it from stage to stage.
LEMMA Staging ==
  ASSUME TypeOK, NEW p \in Callers, pc[p] = "signing", pc'[p] = pc[p], UNCHANGED call,
         stage'[Signer(p)] \in DOMAIN StagesLeft,
         StagesLeft[stage'[Signer(p)]] < StagesLeft[stage[Signer(p)]]
  PROVE  StepsLeft(p)' < StepsLeft(p)
<1>1. StageOf(p)' = stage'[Signer(p)] /\ StageOf(p) = stage[Signer(p)]
  BY DEF StageOf, Signer
<1> QED BY <1>1, CountTypes, CountsLeft DEF StepsLeft

\* Each step of a call's own caller.
LEMMA Advances ==
  ASSUME TypeOK, NEW p \in Callers, CallerStep(p) \/ Kill(p) \/ Interrupt(p)
  PROVE  StepsLeft(p)' < StepsLeft(p)
<1>0. Signer(p) \in Processes
  BY SignerIsAProcess
<1>1. DOMAIN LabelsLeft = {"idle", "check", "signing", "load", "write", "fsync", "replace", "return"}
      /\ DOMAIN StagesLeft =
           {"off", "spawn", "keygen", "generated", "sign", "verify", "wipe", "done"}
  BY DEF LabelsLeft, StagesLeft
<1>2. CASE Check(p)
  <2>1. pc[p] = "check" /\ StageOf(p) = "off"
    BY <1>2 DEF Check, StageOf
  <2>2. CASE pc'[p] = "idle"
    BY <2>1, <2>2, Ending
  <2>3. CASE pc'[p] # "idle"
    <3>1. pc'[p] = "signing" /\ StageOf(p)' \in {"spawn", "keygen"}
      BY <1>0, <1>2, <2>3 DEF Check, Raise, StageOf, Signer, TypeOK
    <3> QED BY <2>1, <3>1, CountsLeft DEF StepsLeft
  <2> QED BY <2>2, <2>3
<1>3. CASE Collect(p)
  <2>1. pc[p] = "signing" /\ StageOf(p) = "done"
    BY <1>3 DEF Collect, StageOf
  <2>2. pc'[p] \in {"load", "idle"} /\ StageOf(p)' = "off"
    BY <1>3 DEF Collect, Raise, AfterSigning, StageOf, TypeOK
  <2> QED BY <2>1, <2>2, CountsLeft DEF StepsLeft
<1>4. CASE TimeOut(p) \/ RecordFails(p) \/ Kill(p)
  <2>1. pc[p] # "idle" /\ pc'[p] = "idle"
    BY <1>4 DEF TimeOut, TimeLimitPasses, RecordFails, Kill, Raise, TypeOK
  <2> QED BY <2>1, Ending
<1>5. CASE Load(p)
  <2>1. pc[p] = "load" /\ pc'[p] \in {"idle", "write"}
    BY <1>5 DEF Load, Raise, TypeOK
  <2> QED BY <1>1, <2>1, Moving, CountsLeft
<1>6. CASE Write(p) \/ Fsync(p) \/ Replace(p) \/ Return(p)
  <2>1. \/ pc[p] = "write" /\ pc'[p] = "fsync"
        \/ pc[p] = "fsync" /\ pc'[p] = "replace"
        \/ pc[p] = "replace" /\ pc'[p] = "return"
        \/ pc[p] = "return" /\ pc'[p] = "idle"
    BY <1>6 DEF Write, Fsync, Replace, Return, AfterWrite, TypeOK
  <2> QED BY <1>1, <2>1, Moving, CountsLeft
<1>7. CASE Interrupt(p)
  <2>1. CASE pc[p] = "signing" /\ ~call[p].isolated /\ stage[p] \in {"sign", "verify"}
    <3>1. Signer(p) = p
      BY <2>1 DEF Signer
    <3>2. pc'[p] = pc[p] /\ UNCHANGED call /\ stage'[Signer(p)] = "wipe"
      BY <1>0, <1>7, <2>1, <3>1 DEF Interrupt, TypeOK
    <3> QED BY <1>1, <2>1, <3>1, <3>2, Staging, CountsLeft
  <2>2. CASE ~(pc[p] = "signing" /\ ~call[p].isolated /\ stage[p] \in {"sign", "verify"})
    <3>1. pc[p] # "idle" /\ pc'[p] = "idle"
      BY <1>7, <2>2 DEF Interrupt, Raise, TypeOK
    <3> QED BY <3>1, Ending
  <2> QED BY <2>1, <2>2
<1> QED BY <1>2, <1>3, <1>4, <1>5, <1>6, <1>7 DEF CallerStep

\* A step of a signing is a step of the call that waits for it, and of no other.
LEMMA SigningAdvances ==
  ASSUME TypeOK, PlacesInv, NEW p \in Callers, NEW s \in Processes, SigningStep(s)
  PROVE  pc'[p] = pc[p] /\ (StageOf(p)' = StageOf(p) \/ StepsLeft(p)' < StepsLeft(p))
<1>1. UNCHANGED <<pc, call>> /\ Signer(p)' = Signer(p) /\ Signer(p) \in Processes
  BY SigningTypes, SignerIsAProcess DEF Signer
<1>2. \A t \in Processes \ {s} : stage'[t] = stage[t]
  BY DEF SigningStep, Spawn, Keygen, EnterTry, SignMessage, Verify, Wipe, Exit, TypeOK
<1>3. CASE pc[p] # "signing" \/ s # Signer(p)
  BY <1>1, <1>2, <1>3 DEF StageOf
<1>4. CASE pc[p] = "signing" /\ s = Signer(p)
  <2>1. ~Exit(s)
    BY <1>4 DEF Exit, PlacesInv, NamesInv
  <2>2. \/ stage[s] = "spawn" /\ stage'[s] \in {"keygen", "done"}
        \/ stage[s] = "keygen" /\ stage'[s] \in {"generated", "done"}
        \/ stage[s] = "generated" /\ stage'[s] = "sign"
        \/ stage[s] = "sign" /\ stage'[s] \in {"verify", "wipe"}
        \/ stage[s] = "verify" /\ stage'[s] = "wipe"
        \/ stage[s] = "wipe" /\ stage'[s] = "done"
    BY <2>1 DEF SigningStep, Spawn, Keygen, EnterTry, SignMessage, Verify, Wipe, AfterSignRaises,
                TypeOK
  <2>3. StagesLeft[stage'[s]] < StagesLeft[stage[s]] /\ stage'[s] \in DOMAIN StagesLeft
    <3>1. DOMAIN StagesLeft =
            {"off", "spawn", "keygen", "generated", "sign", "verify", "wipe", "done"}
      BY DEF StagesLeft
    <3> QED BY <2>2, <3>1, CountsLeft
  <2> QED BY <1>1, <1>4, <2>3, Staging
<1> QED BY <1>3, <1>4

\* A step of another caller is none of this one's.
LEMMA OthersStay ==
  ASSUME TypeOK, PlacesInv, NEW p \in Callers, NEW q \in Callers, p # q,
         \/ \E c \in Cells, isolated \in BOOLEAN : Call(q, c, isolated)
         \/ CallerStep(q) \/ Kill(q) \/ Interrupt(q)
  PROVE  pc'[p] = pc[p] /\ StageOf(p)' = StageOf(p)
<1>0. /\ Signer(p) \in Processes /\ Signer(q) \in Processes /\ q \in Processes
      /\ Signer(p) # Signer(q) /\ Signer(p) # q
  BY SignerIsAProcess, Apart DEF Processes, PlacesInv
<1>1. pc'[p] = pc[p] /\ call'[p] = call[p] /\ stage'[Signer(p)] = stage[Signer(p)]
  <2>1. CASE \E c \in Cells, isolated \in BOOLEAN : Call(q, c, isolated)
    BY <2>1 DEF Call, TypeOK
  <2>2. CASE Check(q) \/ Collect(q) \/ TimeOut(q) \/ Load(q) \/ RecordFails(q)
    BY <1>0, <2>2 DEF Check, Collect, TimeOut, Load, RecordFails, Raise, TypeOK
  <2>3. CASE Write(q) \/ Fsync(q) \/ Replace(q) \/ Return(q)
    BY <2>3 DEF Write, Fsync, Replace, Return, TypeOK
  <2>4. CASE Kill(q) \/ Interrupt(q)
    BY <1>0, <2>4 DEF Kill, Interrupt, Raise, TypeOK
  <2> QED BY <2>1, <2>2, <2>3, <2>4 DEF CallerStep
<1>2. Signer(p)' = Signer(p)
  BY <1>1 DEF Signer
<1> QED BY <1>1, <1>2 DEF StageOf

\* No call goes in circles, with any number of writers and any fault: the part of
\* "every call ends" that does not depend on who is scheduled.
THEOREM EveryStepAdvances == Spec => CallsAdvance
<1>1. TypeOK /\ PlacesInv /\ [Next]_vars =>
        [\A p \in Callers :
           call'[p] = call[p] /\ (CallerStep(p) \/ pc'[p] # pc[p] \/ StageOf(p)' # StageOf(p))
           => StepsLeft(p)' < StepsLeft(p)]_vars
  <2> SUFFICES ASSUME TypeOK, PlacesInv, Next, NEW p \in Callers, call'[p] = call[p],
                      ~CallerStep(p), pc'[p] # pc[p] \/ StageOf(p)' # StageOf(p)
               PROVE  StepsLeft(p)' < StepsLeft(p)
    BY Advances
  <2>1. CASE \E q \in Callers : \E c \in Cells, isolated \in BOOLEAN : Call(q, c, isolated)
    <3>1. PICK q \in Callers : \E c \in Cells, isolated \in BOOLEAN : Call(q, c, isolated)
      BY <2>1
    <3>2. call'[q].number = calls + 1 /\ calls \in Nat
      BY <3>1, BoundAssumption DEF Call, TypeOK
    <3>3. p # q
      BY <3>2, BoundAssumption DEF PlacesInv, NamesInv, TypeOK, CallRecord
    <3> QED BY <3>1, <3>3, OthersStay
  <2>2. CASE \E q \in Callers : CallerStep(q) \/ Kill(q) \/ Interrupt(q)
    <3>1. PICK q \in Callers : CallerStep(q) \/ Kill(q) \/ Interrupt(q)
      BY <2>2
    <3> QED BY <3>1, Advances, OthersStay
  <2>3. CASE \E s \in Processes : SigningStep(s)
    BY <2>3, SigningAdvances
  <2>4. CASE PowerLoss
    <3>1. pc'[p] = "idle" /\ StageOf(p)' = "off"
      BY <2>4 DEF PowerLoss, StageOf
    <3>2. pc[p] # "idle"
      BY <3>1 DEF StageOf
    <3> QED BY <3>1, <3>2, Ending
  <2>5. ~Persist
    BY DEF Persist, StageOf, Signer
  <2> QED BY <2>1, <2>2, <2>3, <2>4, <2>5 DEF Next
<1> QED
  BY <1>1, EverySigningHasItsPlace, SealTypeCorrect, PTL DEF Spec, CallsAdvance
=============================================================================
