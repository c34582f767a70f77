------------------------------ MODULE SealFlow ------------------------------
(***************************************************************************)
(* Sign-once-destroy (sdk/src/trelyan_pq/seal.py, _seal_worker.py and the  *)
(* key handling of falcon.py): generate a key pair, sign the one message   *)
(* of a cell, wipe the private key, record the cell in a file, and only    *)
(* then hand the signature out.                                            *)
(*                                                                         *)
(* Each caller is a process that makes calls one after the other.  A call  *)
(* is either keygen_sign_seal, which signs in the caller's own memory, or  *)
(* keygen_sign_seal_isolated, which signs in a worker process and waits    *)
(* for it with a timeout.  The callers share one JsonFileSealStore file.   *)
(* Each step below is one effect another process, a signal or a crash can  *)
(* fall between.                                                           *)
(*                                                                         *)
(* Abstracted: the contents of keys, messages and signatures (a signature  *)
(* is good if it verifies for the cell under the public key of its call),  *)
(* the page locking, and temporary files left by a crash.                  *)
(***************************************************************************)
EXTENDS Naturals, FiniteSets

CONSTANTS
  Callers,  \* processes that seal
  Cells,
  MaxCalls, \* bound on the number of calls ever made
  Faults    \* which of "kill", "interrupt", "powerloss" can strike

ASSUME FaultAssumption == Faults \subseteq {"kill", "interrupt", "powerloss"}
ASSUME CellAssumption == Cells # {}
ASSUME BoundAssumption == MaxCalls \in Nat

\* The processes in which keys are made: the callers, and the worker of each
\* isolated call, named by the number of the call.
Workers == 0 .. MaxCalls
Processes == Callers \cup Workers

ASSUME ProcessAssumption == Callers \cap Workers = {}

VARIABLES
  pc,       \* where each caller is in its call
  call,     \* each caller's call: its number, its cell, whether isolated
  stage,    \* where the signing is in each process
  key,      \* the private key buffer of each process
  sig,      \* the signature it made or was given
  orphans,  \* workers whose callers were killed while they waited for them
  loaded,   \* what record() read from the file
  tmp,      \* the temporary file of record()
  file,     \* external: the seal file as processes see it
  disk,     \* external: the seal file as it would be found after a power loss
  calls,    \* the number of calls made
  returned  \* <<call number, cell>> of every signature handed out

signingVars == <<stage, key, sig, orphans>>
recordVars == <<loaded, tmp>>
storeVars == <<file, disk>>
vars == <<pc, call, signingVars, recordVars, storeVars, calls, returned>>

---------------------------------------------------------------------------

CallRecord == [number : 0 .. MaxCalls, cell : Cells, isolated : BOOLEAN]

\* The bytes of the file were synced or not; a torn file does not parse.
SealFile == [cells : SUBSET Cells, synced : BOOLEAN, torn : BOOLEAN]

TypeOK ==
  /\ pc \in [Callers -> {"idle", "check", "signing", "load", "write", "fsync", "replace", "return"}]
  /\ call \in [Callers -> CallRecord]
  /\ stage \in
       [Processes -> {"off", "spawn", "keygen", "generated", "sign", "verify", "wipe", "done"}]
  /\ key \in [Processes -> {"none", "live"}]
  /\ sig \in [Processes -> {"none", "good", "bad"}]
  /\ orphans \subseteq Workers
  /\ loaded \in [Callers -> SUBSET Cells]
  /\ tmp \in [Callers -> {"none", "written", "synced"}]
  /\ file \in SealFile
  /\ disk \in SealFile
  /\ calls \in 0 .. MaxCalls
  /\ returned \subseteq (0 .. MaxCalls) \X Cells

\* The call of a caller that has not called yet.
NoCall == [number |-> 0, cell |-> CHOOSE c \in Cells : TRUE, isolated |-> FALSE]

EmptyFile == [cells |-> {}, synced |-> TRUE, torn |-> FALSE]

Init ==
  /\ pc = [p \in Callers |-> "idle"]
  /\ call = [p \in Callers |-> NoCall]
  /\ stage = [s \in Processes |-> "off"]
  /\ key = [s \in Processes |-> "none"]
  /\ sig = [s \in Processes |-> "none"]
  /\ orphans = {}
  /\ loaded = [p \in Callers |-> {}]
  /\ tmp = [p \in Callers |-> "none"]
  /\ file = EmptyFile
  /\ disk = EmptyFile
  /\ calls = 0
  /\ returned = {}

GoTo(p, label) == pc' = [pc EXCEPT ![p] = label]
SetStage(s, to) == stage' = [stage EXCEPT ![s] = to]

\* The process in which a caller's call signs.
Signer(p) == IF call[p].isolated THEN call[p].number ELSE p

---------------------------------------------------------------------------
(* The decisions of the code; each Faulty_ operator is one of them as a    *)
(* plausible slip would have left it.                                      *)

IsSealed(c) == c \in file.cells

Faulty_NoSelfVerify(s) == TRUE
SelfVerifies(s) == s = "good"

\* Where the signing goes when sign() raises: through the finally block.
Faulty_NoFinally == "done"
AfterSignRaises == "wipe"

\* What the caller does with an accepted signature: record it first.
Faulty_ReturnsFirst == "return"
AfterSigning == "load"

\* record() keeps what it read and adds its cell.
Faulty_RecordsCallNumber(p) == loaded[p] \cup {call[p].number}
Faulty_ForgetsEarlierCells(p) == {call[p].cell}
Payload(p) == loaded[p] \cup {call[p].cell}

\* record() syncs the temporary file before renaming it.
Faulty_RenamesUnsynced == "replace"
AfterWrite == "fsync"

Faulty_WaitsForEver(p) == FALSE
TimeLimitPasses(p) == pc[p] = "signing" /\ call[p].isolated

---------------------------------------------------------------------------
(* The caller *)

\* The call ends without a signature: an exception leaves it.
Raise(p) ==
  /\ GoTo(p, "idle")
  /\ SetStage(Signer(p), "off")
  /\ tmp' = [tmp EXCEPT ![p] = "none"]

Call(p, c, isolated) ==
  /\ pc[p] = "idle"
  /\ calls < MaxCalls
  /\ calls' = calls + 1
  /\ call' = [call EXCEPT ![p] = [number |-> calls + 1, cell |-> c, isolated |-> isolated]]
  /\ key' = [key EXCEPT ![p] = "none"]
  /\ sig' = [sig EXCEPT ![p] = "none"]
  /\ GoTo(p, "check")
  /\ UNCHANGED <<stage, orphans, recordVars, storeVars, returned>>

\* store.is_sealed: a file that does not parse raises, as a sealed cell does.
Check(p) ==
  /\ pc[p] = "check"
  /\ IF file.torn \/ IsSealed(call[p].cell)
     THEN Raise(p)
     ELSE /\ GoTo(p, "signing")
          /\ SetStage(Signer(p), IF call[p].isolated THEN "spawn" ELSE "keygen")
          /\ UNCHANGED tmp
  /\ UNCHANGED <<call, key, sig, orphans, loaded, storeVars, calls, returned>>

\* The signing is over: keep going with an accepted signature, else raise.
\* What a worker sends back may be damaged on the way and is verified again.
Collect(p) ==
  /\ pc[p] = "signing"
  /\ stage[Signer(p)] = "done"
  /\ \E received \in {sig[Signer(p)]}
                     \cup (IF call[p].isolated /\ sig[Signer(p)] # "none" THEN {"bad"} ELSE {}) :
       /\ sig' = [sig EXCEPT ![Signer(p)] = "none", ![p] = received]
       /\ IF received # "none" /\ SelfVerifies(received)
          THEN GoTo(p, AfterSigning) /\ SetStage(Signer(p), "off") /\ UNCHANGED tmp
          ELSE Raise(p)
  /\ UNCHANGED <<call, key, orphans, loaded, storeVars, calls, returned>>

\* A process is ended: the memory of the signing in it is gone.
MemoryGone(s) ==
  /\ key' = [key EXCEPT ![s] = "none"]
  /\ sig' = [sig EXCEPT ![s] = "none"]

\* subprocess.run gives up on the worker, kills it and raises.
TimeOut(p) ==
  /\ TimeLimitPasses(p)
  /\ Raise(p)
  /\ MemoryGone(Signer(p))
  /\ UNCHANGED <<call, orphans, loaded, storeVars, calls, returned>>

\* JsonFileSealStore.record: read, write a temporary file, sync it, rename it.
\* Any of them can fail, which removes the temporary file and raises.
Load(p) ==
  /\ pc[p] = "load"
  /\ IF file.torn
     THEN Raise(p) /\ UNCHANGED loaded
     ELSE GoTo(p, "write") /\ loaded' = [loaded EXCEPT ![p] = file.cells] /\ UNCHANGED <<stage, tmp>>
  /\ UNCHANGED <<call, key, sig, orphans, storeVars, calls, returned>>

Write(p) ==
  /\ pc[p] = "write"
  /\ GoTo(p, AfterWrite)
  /\ tmp' = [tmp EXCEPT ![p] = "written"]
  /\ UNCHANGED <<call, signingVars, loaded, storeVars, calls, returned>>

Fsync(p) ==
  /\ pc[p] = "fsync"
  /\ GoTo(p, "replace")
  /\ tmp' = [tmp EXCEPT ![p] = "synced"]
  /\ UNCHANGED <<call, signingVars, loaded, storeVars, calls, returned>>

Replace(p) ==
  /\ pc[p] = "replace"
  /\ GoTo(p, "return")
  /\ file' = [cells |-> Payload(p), synced |-> tmp[p] = "synced", torn |-> FALSE]
  /\ tmp' = [tmp EXCEPT ![p] = "none"]
  /\ UNCHANGED <<call, signingVars, loaded, disk, calls, returned>>

RecordFails(p) ==
  /\ pc[p] \in {"load", "write", "fsync", "replace"}
  /\ Raise(p)
  /\ UNCHANGED <<call, key, sig, orphans, loaded, storeVars, calls, returned>>

Return(p) ==
  /\ pc[p] = "return"
  /\ GoTo(p, "idle")
  /\ returned' = returned \cup {<<call[p].number, call[p].cell>>}
  /\ UNCHANGED <<call, signingVars, recordVars, storeVars, calls>>

---------------------------------------------------------------------------
(* The signing, in a caller's process or in a worker *)

SigningOnly == UNCHANGED <<pc, call, recordVars, storeVars, calls, returned>>

\* The worker starts, or refuses: a bad request, memory it cannot lock, ...
Spawn(s) ==
  /\ stage[s] = "spawn"
  /\ SetStage(s, "keygen") \/ SetStage(s, "done")
  /\ UNCHANGED <<key, sig, orphans>>
  /\ SigningOnly

\* Key generation fills the buffer, or fails and wipes what it wrote.
Keygen(s) ==
  /\ stage[s] = "keygen"
  /\ \/ SetStage(s, "generated") /\ key' = [key EXCEPT ![s] = "live"]
     \/ SetStage(s, "done") /\ UNCHANGED key
  /\ UNCHANGED <<sig, orphans>>
  /\ SigningOnly

EnterTry(s) ==
  /\ stage[s] = "generated"
  /\ SetStage(s, "sign")
  /\ UNCHANGED <<key, sig, orphans>>
  /\ SigningOnly

\* sign() returns a good signature or, from a divergent build, a bad one; or
\* it raises.
SignMessage(s) ==
  /\ stage[s] = "sign"
  /\ \/ /\ SetStage(s, "verify")
        /\ \E made \in {"good", "bad"} : sig' = [sig EXCEPT ![s] = made]
     \/ /\ SetStage(s, AfterSignRaises)
        /\ UNCHANGED sig
  /\ UNCHANGED <<key, orphans>>
  /\ SigningOnly

\* A signature that does not verify is not handed on.
Verify(s) ==
  /\ stage[s] = "verify"
  /\ SetStage(s, "wipe")
  /\ sig' = [sig EXCEPT ![s] = IF SelfVerifies(@) THEN @ ELSE "none"]
  /\ UNCHANGED <<key, orphans>>
  /\ SigningOnly

Wipe(s) ==
  /\ stage[s] = "wipe"
  /\ SetStage(s, "done")
  /\ key' = [key EXCEPT ![s] = "none"]
  /\ UNCHANGED <<sig, orphans>>
  /\ SigningOnly

\* A worker that nobody waits for exits: what it wrote is lost.
Exit(s) ==
  /\ stage[s] = "done" /\ s \in orphans
  /\ SetStage(s, "off")
  /\ MemoryGone(s)
  /\ orphans' = orphans \ {s}
  /\ SigningOnly

SigningStep(s) ==
  Spawn(s) \/ Keygen(s) \/ EnterTry(s) \/ SignMessage(s) \/ Verify(s) \/ Wipe(s) \/ Exit(s)

---------------------------------------------------------------------------
(* Faults *)

\* The caller's process is killed; its memory is gone.  A worker it was waiting
\* for is another process: it goes on, with its key, and with nobody to time it
\* out.
Kill(p) ==
  /\ "kill" \in Faults
  /\ pc[p] # "idle"
  /\ GoTo(p, "idle")
  /\ tmp' = [tmp EXCEPT ![p] = "none"]
  /\ MemoryGone(p)
  /\ stage' = [stage EXCEPT ![p] = "off"]
  /\ orphans' = IF pc[p] = "signing" /\ call[p].isolated
                THEN orphans \cup {Signer(p)} ELSE orphans
  /\ UNCHANGED <<call, loaded, storeVars, calls, returned>>

\* KeyboardInterrupt.  Inside the try the finally block wipes the key first;
\* after keygen and before the try, and at the entry of the finally block,
\* nothing does.  An interrupted wait kills the worker.
Interrupt(p) ==
  /\ "interrupt" \in Faults
  /\ pc[p] # "idle"
  /\ IF pc[p] = "signing" /\ ~call[p].isolated /\ stage[p] \in {"sign", "verify"}
     THEN /\ SetStage(p, "wipe")
          /\ sig' = [sig EXCEPT ![p] = "none"]
          /\ UNCHANGED <<pc, key, tmp>>
     ELSE /\ Raise(p)
          /\ IF call[p].isolated THEN MemoryGone(Signer(p)) ELSE UNCHANGED <<key, sig>>
  /\ UNCHANGED <<call, orphans, loaded, storeVars, calls, returned>>

\* The file system makes the last rename durable.  A file renamed before its
\* bytes were synced can be found torn.
Persist ==
  /\ "powerloss" \in Faults
  /\ disk # file
  /\ disk' = [file EXCEPT !.torn = @ \/ ~file.synced]
  /\ UNCHANGED <<pc, call, signingVars, recordVars, file, calls, returned>>

PowerLoss ==
  /\ "powerloss" \in Faults
  /\ pc' = [p \in Callers |-> "idle"]
  /\ stage' = [s \in Processes |-> "off"]
  /\ key' = [s \in Processes |-> "none"]
  /\ sig' = [s \in Processes |-> "none"]
  /\ orphans' = {}
  /\ tmp' = [p \in Callers |-> "none"]
  /\ file' = disk
  /\ UNCHANGED <<call, loaded, disk, calls, returned>>

---------------------------------------------------------------------------

CallerStep(p) ==
  \/ Check(p) \/ Collect(p) \/ TimeOut(p) \/ Load(p) \/ Write(p) \/ Fsync(p) \/ Replace(p)
  \/ RecordFails(p) \/ Return(p)

Next ==
  \/ \E p \in Callers :
       \/ \E c \in Cells, isolated \in BOOLEAN : Call(p, c, isolated)
       \/ CallerStep(p) \/ Kill(p) \/ Interrupt(p)
  \/ \E s \in Processes : SigningStep(s)
  \/ Persist
  \/ PowerLoss

Spec == Init /\ [][Next]_vars

\* A caller's own code keeps running, in-process signing included; a worker
\* may hang.
FairSpec ==
  /\ Spec
  /\ \A p \in Callers : WF_vars(CallerStep(p)) /\ WF_vars(SigningStep(p))

---------------------------------------------------------------------------
(* Properties *)

\* Fail-closed: a signature that has left the API belongs to a cell the store
\* holds, so the cell cannot be sealed again.
ReturnedIsRecorded == \A r \in returned : r[2] \in file.cells

\* The tripwire: no two calls ever hand out signatures for one cell, across
\* kills, interrupts and restarts of the one writer.
OneSignaturePerCell == \A r, s \in returned : r[2] = s[2] => r = s

\* A failed seal does not consume its cell: a cell is added to the file only
\* by a call that holds a verified signature for it, made with a key that is gone.
ConsumedOnlyByGoodSeal ==
  [][\A c \in file'.cells \ file.cells : \E p \in Callers :
       /\ pc[p] = "replace" /\ call[p].cell = c
       /\ sig[p] = "good" /\ key[Signer(p)] = "none"]_file

\* A private key lives no longer than the signing it was made for.  Either its
\* call is still waiting for that signing, or the caller was killed and left its
\* worker behind; that one loses its key when it comes to its end, but nothing
\* brings it there when it hangs (subprocess.run had the only timeout).
KeyWipedOnEveryExit ==
  \A s \in Processes : key[s] = "live" =>
    \/ \E p \in Callers : pc[p] = "signing" /\ Signer(p) = s
    \/ s \in orphans /\ stage[s] # "done"

\* A process never finds a torn seal file, not even after a power loss.
NeverTorn == ~file.torn /\ ~disk.torn

\* With one writer the file only grows.
RecordsAreNeverLost == [][file.cells \subseteq file'.cells]_file

\* One writer is a one-time seal: a cell whose signature was lost between the
\* rename and the return is forfeited, and no later call gets one for it.
SealState(c) ==
  IF c \notin file.cells THEN "open"
  ELSE IF \E r \in returned : r[2] = c THEN "out"
  ELSE IF \E p \in Callers : pc[p] = "return" /\ call[p].cell = c THEN "held"
  ELSE "forfeited"

Abstract == INSTANCE OneTimeSeal WITH
  Calls <- 1 .. MaxCalls, state <- [c \in Cells |-> SealState(c)], out <- returned

IsOneTimeSeal == Abstract!Spec

\* Every call ends, whatever its worker does.
EveryCallEnds == \A p \in Callers : pc[p] # "idle" ~> pc[p] = "idle"

\* And after at most thirteen steps: what lies before a call.
StagesLeft ==
  [s \in {"off", "spawn", "keygen", "generated", "sign", "verify", "wipe", "done"} |->
     CASE s = "spawn" -> 6 [] s = "keygen" -> 5 [] s = "generated" -> 4 [] s = "sign" -> 3
       [] s = "verify" -> 2 [] s = "wipe" -> 1 [] OTHER -> 0]
LabelsLeft ==
  [l \in {"idle", "check", "signing", "load", "write", "fsync", "replace", "return"} |->
     CASE l = "check" -> 13 [] l = "signing" -> 6 [] l = "load" -> 5 [] l = "write" -> 4
       [] l = "fsync" -> 3 [] l = "replace" -> 2 [] l = "return" -> 1 [] l = "idle" -> 0]
StageOf(p) == IF pc[p] = "signing" THEN stage[Signer(p)] ELSE "off"
StepsLeft(p) == LabelsLeft[pc[p]] + StagesLeft[StageOf(p)]

\* Every step of a call, its worker's and its faults' too, brings it nearer its end:
\* a failed signing is not tried again, and no step of another call, nor of a worker
\* another call left behind, takes this one back.
CallsAdvance ==
  [][\A p \in Callers :
       call'[p] = call[p] /\ (CallerStep(p) \/ pc'[p] # pc[p] \/ StageOf(p)' # StageOf(p))
       => StepsLeft(p)' < StepsLeft(p)]_vars
=============================================================================
