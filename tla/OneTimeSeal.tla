---------------------------- MODULE OneTimeSeal ----------------------------
(***************************************************************************)
(* What sign-once-destroy promises, without saying how.  A cell is open    *)
(* until a call seals it.  From then on its one signature is held by that  *)
(* call, and either leaves it or is forfeited with it; no cell is ever     *)
(* open again, and nobody but the call that sealed a cell gets its         *)
(* signature, not even when it was forfeited.                              *)
(***************************************************************************)
CONSTANTS Cells, Calls

VARIABLES
  state,   \* per cell
  out      \* <<call, cell>> of every signature that has left

vars == <<state, out>>

Init == state = [c \in Cells |-> "open"] /\ out = {}

\* One call at a time.
Commit(c) ==
  /\ state[c] = "open"
  /\ \A d \in Cells : state[d] # "held"
  /\ state' = [state EXCEPT ![c] = "held"]
  /\ UNCHANGED out

\* A call hands out one signature.
HandOut(n, c) ==
  /\ state[c] = "held"
  /\ \A r \in out : r[1] # n
  /\ state' = [state EXCEPT ![c] = "out"]
  /\ out' = out \cup {<<n, c>>}

Forfeit(c) ==
  /\ state[c] = "held"
  /\ state' = [state EXCEPT ![c] = "forfeited"]
  /\ UNCHANGED out

Next ==
  \E c \in Cells : Commit(c) \/ Forfeit(c) \/ \E n \in Calls : HandOut(n, c)

Spec == Init /\ [][Next]_vars
=============================================================================
