------------------------------- MODULE Message -------------------------------
(***************************************************************************)
(* The message M that a Falcon key signs, in the three places that build   *)
(* it: the SDK (sdk/src/trelyan_pq/message.py), the contracts folder       *)
(* (contracts/falcon_det1024.py), and the application, which rebuilds it   *)
(* from its own ids.  A byte is a digit below BASE and a message is a      *)
(* sequence of bytes, since what matters is that fields laid end to end    *)
(* cannot be mistaken for one another.                                     *)
(***************************************************************************)
EXTENDS Integers, Sequences

CONSTANTS
  BASE,         \* the values of a byte: 256 in the code
  HASH_LENGTH,  \* bytes of a hash: 32 in the code
  DOMAIN_TAG    \* the constant prefix, 22 bytes in the code

Bytes == 0 .. BASE - 1
Hashes == [1 .. HASH_LENGTH -> Bytes]

ASSUME MessageAssumption ==
  /\ BASE \in Nat /\ BASE > 1
  /\ HASH_LENGTH \in Nat
  /\ DOMAIN_TAG \in Seq(Bytes)

\* An argument as Python sees it: a number and the type it came with.  True
\* and False are numbers too, of type bool.
Kinds == {"int", "bool", "float", "str"}
Argument == [kind : Kinds, value : Int]
IntArg(n) == [kind |-> "int", value |-> n]

\* A call that raises instead of returning a message.
Refused == <<>>

\* A hash as Python sees it: a buffer of bytes, a list or a tuple of numbers, or text.
\* A buffer holds nothing but bytes.
ByteArguments(Strings) ==
  {arg \in [kind : {"buffer", "sequence", "str"}, value : Strings] :
     arg.kind = "buffer" => \A i \in DOMAIN arg.value : arg.value[i] \in Bytes}
BufferArg(s) == [kind |-> "buffer", value |-> s]

\* What is laid end to end as it is, and what bytes() makes a buffer of first.
IsBuffer(arg) == arg.kind = "buffer"
MakesBytes(arg) ==
  \/ IsBuffer(arg)
  \/ arg.kind = "sequence" /\ \A i \in DOMAIN arg.value : arg.value[i] \in Bytes

\* The eight bytes of n, most significant first.
uint64_be(n) ==
  LET q1 == n \div BASE   q2 == q1 \div BASE  q3 == q2 \div BASE  q4 == q3 \div BASE
      q5 == q4 \div BASE  q6 == q5 \div BASE  q7 == q6 \div BASE
  IN  <<q7 % BASE, q6 % BASE, q5 % BASE, q4 % BASE, q3 % BASE, q2 % BASE, q1 % BASE, n % BASE>>

\* A number that eight bytes hold; to_bytes raises for any other.
FitsUint64(n) ==
  /\ n >= 0
  /\ (((((((n \div BASE) \div BASE) \div BASE) \div BASE) \div BASE) \div BASE) \div BASE) \div BASE = 0

\* isinstance(x, int): a bool passes.  The checks that exclude it say so.
IsInt(arg) == arg.kind \in {"int", "bool"}
StrictUint64(arg) == arg.kind = "int" /\ FitsUint64(arg.value)
LaxUint64(arg) == IsInt(arg) /\ FitsUint64(arg.value)

\* The fields end to end; the slip leaves the network out.
Faulty_WithoutNetwork(app, cell, artifact, genesis) ==
  DOMAIN_TAG \o uint64_be(app) \o uint64_be(cell) \o artifact
Assembled(app, cell, artifact, genesis) ==
  DOMAIN_TAG \o uint64_be(app) \o uint64_be(cell) \o artifact \o genesis

\* falcon_det1024.build_message: the hashes are concatenated as they come.
contracts_build_message(app, cell, artifact, genesis) ==
  IF /\ StrictUint64(app) /\ StrictUint64(cell)
     /\ Len(artifact.value) = HASH_LENGTH /\ Len(genesis.value) = HASH_LENGTH
     /\ IsBuffer(artifact) /\ IsBuffer(genesis)
  THEN Assembled(app.value, cell.value, artifact.value, genesis.value)
  ELSE Refused

\* trelyan_pq.message.build_message: the cell goes through cell_key, which has the
\* weaker check and the same encoding, and the hashes through bytes().
sdk_build_message(app, cell, artifact, genesis) ==
  IF /\ StrictUint64(app) /\ LaxUint64(cell)
     /\ Len(artifact.value) = HASH_LENGTH /\ Len(genesis.value) = HASH_LENGTH
     /\ MakesBytes(artifact) /\ MakesBytes(genesis)
  THEN Assembled(app.value, cell.value, artifact.value, genesis.value)
  ELSE Refused

\* TrelyanInscription._build_message: ids of the ledger, hashes of fixed width.
app_build_message(app, cell, artifact, genesis) == Assembled(app, cell, artifact, genesis)

---------------------------------------------------------------------------
(* Properties *)

\* No two inscriptions have one message: M names its application, cell, artifact
\* and network, so a signature over it is good for nothing else.
MessageBindsEveryField(Numbers) ==
  \A app1, app2, cell1, cell2 \in {n \in Numbers : FitsUint64(n)},
     artifact1, artifact2, genesis1, genesis2 \in Hashes :
    Assembled(app1, cell1, artifact1, genesis1) = Assembled(app2, cell2, artifact2, genesis2) =>
      app1 = app2 /\ cell1 = cell2 /\ artifact1 = artifact2 /\ genesis1 = genesis2

\* The two copies of build_message never return different bytes, and what either
\* returns is what the application rebuilds.  They do not refuse the same arguments:
\* the SDK takes more, which is a cell given as a bool or a hash given as a list or
\* a tuple of numbers, and nothing else.
CopiesAgree(Numbers, Strings) ==
  \A app, cell \in [kind : Kinds, value : Numbers], artifact, genesis \in ByteArguments(Strings) :
    LET sdk == sdk_build_message(app, cell, artifact, genesis)
        contracts == contracts_build_message(app, cell, artifact, genesis)
    IN  /\ contracts # Refused => sdk = contracts
        /\ sdk # Refused =>
             sdk = app_build_message(app.value, cell.value, artifact.value, genesis.value)
        /\ sdk # contracts => cell.kind = "bool" \/ "sequence" \in {artifact.kind, genesis.kind}
=============================================================================
