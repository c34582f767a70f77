---------------------------- MODULE MCDeployment ----------------------------
(***************************************************************************)
(* Values for the model checking of Deployment: every way to start a run   *)
(* with at most one thing wrong, bytes of one bit, hashes of one byte.     *)
(***************************************************************************)
EXTENDS Deployment

Sound(entry) ==
  [entry |-> entry, lib |-> IF entry \in {"fresh", "secure"} THEN "built" ELSE "pinned",
   mnemonic |-> "good", network |-> "testnet", staged |-> {}]

\* At most one thing wrong; a drifting Falcon tree builds a divergent library.
OneThingWrong ==
  LET sound == {Sound(entry) : entry \in Scripted \cup Examples}
      local == {r \in sound : r.entry # "workflow"}
  IN  sound
      \cup {[r EXCEPT !.lib = lib] : r \in local, lib \in Libs}
      \cup {[r EXCEPT !.mnemonic = words] : r \in sound, words \in {"none", "short"}}
      \cup {[r EXCEPT !.network = "other"] : r \in sound}
      \cup {[Sound("workflow") EXCEPT !.staged = staged, !.lib = "divergent"] :
              staged \in StagedTrees \ {{}}}

\* An earlier run stopped after its create call or its register call, or went through;
\* what it deployed is the current source, or was another.
LeftBefore ==
  {[stage |-> stage, program |-> Build(FirstSource, AVM_TARGET)] : stage \in {1, 4}}
  \cup {[stage |-> 5, program |-> Build(s, AVM_TARGET)] : s \in Sources \ {FirstSource}}

OneBitTag == <<1>>
ZeroHash == <<0>>
TwoNetworks == [network \in Networks |-> IF network = "testnet" THEN <<0>> ELSE <<1>>]

\* The two copies of build_message on bounded arguments: numbers below zero, at the limit of eight
\* bytes and past it, and hashes that are too short, too long and no bytes.
Near == {-1, 0, 1, 2, 3, 129, BASE * BASE * BASE * BASE * BASE * BASE * BASE * BASE - 1,
         BASE * BASE * BASE * BASE * BASE * BASE * BASE * BASE}
Strings == [1 .. HASH_LENGTH -> 0 .. BASE] \cup {<<>>, [n \in 1 .. HASH_LENGTH + 1 |-> 0]}

ASSUME CopiesAgree(Near, Strings)
=============================================================================
