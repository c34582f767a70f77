--------------------------- MODULE MessageProofs ---------------------------
(***************************************************************************)
(* Proofs about Message, for every base, hash length and prefix, every     *)
(* number and every byte string.                                           *)
(***************************************************************************)
EXTENDS Message, SequenceTheorems, TLAPS

---------------------------------------------------------------------------
(* Numbers *)

\* Division by the base leaves a number and a digit.
LEMMA QuotientAndDigit ==
  ASSUME NEW n \in Nat
  PROVE  n \div BASE \in Nat /\ n % BASE \in Bytes
BY MessageAssumption DEF Bytes

\* A number is its quotient and its last digit.
LEMMA LastDigit ==
  ASSUME NEW m \in Nat, NEW n \in Nat, m \div BASE = n \div BASE, m % BASE = n % BASE
  PROVE  m = n
BY MessageAssumption

\* The eight digits of a number, one above the other.
LEMMA EightDigits ==
  ASSUME NEW n \in Nat
  PROVE  /\ uint64_be(n) \in Seq(Bytes)
         /\ Len(uint64_be(n)) = 8
<1> DEFINE q1 == n \div BASE
           q2 == q1 \div BASE
           q3 == q2 \div BASE
           q4 == q3 \div BASE
           q5 == q4 \div BASE
           q6 == q5 \div BASE
           q7 == q6 \div BASE
<1>1. /\ q1 \in Nat /\ q2 \in Nat /\ q3 \in Nat /\ q4 \in Nat
      /\ q5 \in Nat /\ q6 \in Nat /\ q7 \in Nat
  BY QuotientAndDigit
<1>2. /\ n % BASE \in Bytes /\ q1 % BASE \in Bytes /\ q2 % BASE \in Bytes
      /\ q3 % BASE \in Bytes /\ q4 % BASE \in Bytes /\ q5 % BASE \in Bytes
      /\ q6 % BASE \in Bytes /\ q7 % BASE \in Bytes
  BY <1>1, QuotientAndDigit
<1>3. uint64_be(n) = <<q7 % BASE, q6 % BASE, q5 % BASE, q4 % BASE,
                       q3 % BASE, q2 % BASE, q1 % BASE, n % BASE>>
  BY DEF uint64_be
<1> HIDE DEF q1, q2, q3, q4, q5, q6, q7
<1> QED
  BY <1>2, <1>3

\* Two numbers of eight bytes with the same bytes are the same number.
LEMMA BytesDetermineNumber ==
  ASSUME NEW m \in Nat, NEW n \in Nat, FitsUint64(m), FitsUint64(n),
         uint64_be(m) = uint64_be(n)
  PROVE  m = n
<1> DEFINE p1 == m \div BASE
           p2 == p1 \div BASE
           p3 == p2 \div BASE
           p4 == p3 \div BASE
           p5 == p4 \div BASE
           p6 == p5 \div BASE
           p7 == p6 \div BASE
           p8 == p7 \div BASE
           q1 == n \div BASE
           q2 == q1 \div BASE
           q3 == q2 \div BASE
           q4 == q3 \div BASE
           q5 == q4 \div BASE
           q6 == q5 \div BASE
           q7 == q6 \div BASE
           q8 == q7 \div BASE
<1>1. /\ p1 \in Nat /\ p2 \in Nat /\ p3 \in Nat /\ p4 \in Nat
      /\ p5 \in Nat /\ p6 \in Nat /\ p7 \in Nat
  BY QuotientAndDigit
<1>2. /\ q1 \in Nat /\ q2 \in Nat /\ q3 \in Nat /\ q4 \in Nat
      /\ q5 \in Nat /\ q6 \in Nat /\ q7 \in Nat
  BY QuotientAndDigit
<1>3. p8 = 0 /\ q8 = 0
  BY DEF FitsUint64
<1>4. <<p7 % BASE, p6 % BASE, p5 % BASE, p4 % BASE, p3 % BASE, p2 % BASE, p1 % BASE, m % BASE>>
      = <<q7 % BASE, q6 % BASE, q5 % BASE, q4 % BASE, q3 % BASE, q2 % BASE, q1 % BASE, n % BASE>>
  BY DEF uint64_be
<1>5. /\ p7 % BASE = q7 % BASE /\ p6 % BASE = q6 % BASE /\ p5 % BASE = q5 % BASE
      /\ p4 % BASE = q4 % BASE /\ p3 % BASE = q3 % BASE /\ p2 % BASE = q2 % BASE
      /\ p1 % BASE = q1 % BASE /\ m % BASE = n % BASE
  <2> HIDE DEF p1, p2, p3, p4, p5, p6, p7, q1, q2, q3, q4, q5, q6, q7
  <2> QED BY <1>4
<1>6. p7 = q7
  <2>1. p7 \div BASE = q7 \div BASE
    BY <1>3
  <2> HIDE DEF p7, q7
  <2> QED BY <2>1, <1>1, <1>2, <1>5, LastDigit
<1>7. p6 = q6
  <2>1. p6 \div BASE = q6 \div BASE
    BY <1>6
  <2> HIDE DEF p6, q6
  <2> QED BY <2>1, <1>1, <1>2, <1>5, LastDigit
<1>8. p5 = q5
  <2>1. p5 \div BASE = q5 \div BASE
    BY <1>7
  <2> HIDE DEF p5, q5
  <2> QED BY <2>1, <1>1, <1>2, <1>5, LastDigit
<1>9. p4 = q4
  <2>1. p4 \div BASE = q4 \div BASE
    BY <1>8
  <2> HIDE DEF p4, q4
  <2> QED BY <2>1, <1>1, <1>2, <1>5, LastDigit
<1>10. p3 = q3
  <2>1. p3 \div BASE = q3 \div BASE
    BY <1>9
  <2> HIDE DEF p3, q3
  <2> QED BY <2>1, <1>1, <1>2, <1>5, LastDigit
<1>11. p2 = q2
  <2>1. p2 \div BASE = q2 \div BASE
    BY <1>10
  <2> HIDE DEF p2, q2
  <2> QED BY <2>1, <1>1, <1>2, <1>5, LastDigit
<1>12. p1 = q1
  <2>1. p1 \div BASE = q1 \div BASE
    BY <1>11
  <2> HIDE DEF p1, q1
  <2> QED BY <2>1, <1>1, <1>2, <1>5, LastDigit
<1> QED
  BY <1>12, <1>5, LastDigit

---------------------------------------------------------------------------
(* Fields laid end to end *)

\* Where the first parts have one length, equal wholes have equal parts.
LEMMA PartsOfEqualLength ==
  ASSUME NEW S, NEW s \in Seq(S), NEW t \in Seq(S), NEW u \in Seq(S), NEW v \in Seq(S),
         Len(s) = Len(t), s \o u = t \o v
  PROVE  s = t /\ u = v
<1>1. Len(s) \in Nat /\ Len(u) \in Nat /\ Len(v) \in Nat
  BY LenProperties
<1>2. \A i \in 1 .. Len(s) : s[i] = t[i]
  <2> TAKE i \in 1 .. Len(s)
  <2>1. i \in 1 .. Len(s) + Len(u) /\ i \in 1 .. Len(t) + Len(v)
    BY <1>1
  <2>2. (s \o u)[i] = s[i]
    BY <2>1, ConcatProperties
  <2>3. (t \o v)[i] = t[i]
    BY <2>1, ConcatProperties
  <2> QED
    BY <2>2, <2>3
<1>3. s = t
  BY <1>2, SeqEqual
<1>4. s \o u = s \o v
  BY <1>3
<1>5. u = v
  BY <1>4, ConcatSimplifications
<1> QED
  BY <1>3, <1>5

\* Byte strings of one length, continued by byte strings of one length.
LEMMA StillOfEqualLength ==
  ASSUME NEW S, NEW s \in Seq(S), NEW t \in Seq(S), NEW u \in Seq(S), NEW v \in Seq(S),
         Len(s) = Len(t), Len(u) = Len(v)
  PROVE  s \o u \in Seq(S) /\ t \o v \in Seq(S) /\ Len(s \o u) = Len(t \o v)
<1>1. s \o u \in Seq(S) /\ Len(s \o u) = Len(s) + Len(u)
  BY ConcatProperties
<1>2. t \o v \in Seq(S) /\ Len(t \o v) = Len(t) + Len(v)
  BY ConcatProperties
<1> QED
  BY <1>1, <1>2

\* A hash is a byte string of the fixed length.
LEMMA HashIsAString ==
  ASSUME NEW hash \in Hashes
  PROVE  hash \in Seq(Bytes) /\ Len(hash) = HASH_LENGTH
BY MessageAssumption DEF Hashes

\* The fields end to end are a byte string.
LEMMA MessageIsAString ==
  ASSUME NEW app \in Nat, NEW cell \in Nat, NEW artifact \in Hashes, NEW genesis \in Hashes
  PROVE  Assembled(app, cell, artifact, genesis) \in Seq(Bytes)
<1> DEFINE A == DOMAIN_TAG \o uint64_be(app)
           B == A \o uint64_be(cell)
           C == B \o artifact
<1>1. A \in Seq(Bytes)
  <2>1. DOMAIN_TAG \in Seq(Bytes) /\ uint64_be(app) \in Seq(Bytes)
    BY MessageAssumption, EightDigits
  <2> QED BY <2>1, ConcatProperties
<1>2. B \in Seq(Bytes)
  <2>1. uint64_be(cell) \in Seq(Bytes)
    BY EightDigits
  <2> HIDE DEF A
  <2> QED BY <1>1, <2>1, ConcatProperties
<1>3. C \in Seq(Bytes)
  <2> HIDE DEF B
  <2> QED BY <1>2, HashIsAString, ConcatProperties
<1>4. C \o genesis \in Seq(Bytes)
  <2> HIDE DEF C
  <2> QED BY <1>3, HashIsAString, ConcatProperties
<1> QED
  BY <1>4 DEF Assembled

\* No two inscriptions have one message, whatever the numbers.
THEOREM MessageIsBinding ==
  ASSUME NEW Numbers \in SUBSET Int
  PROVE  MessageBindsEveryField(Numbers)
<1> SUFFICES ASSUME NEW app1 \in Nat, NEW app2 \in Nat, NEW cell1 \in Nat, NEW cell2 \in Nat,
                    FitsUint64(app1), FitsUint64(app2), FitsUint64(cell1), FitsUint64(cell2),
                    NEW artifact1 \in Hashes, NEW artifact2 \in Hashes,
                    NEW genesis1 \in Hashes, NEW genesis2 \in Hashes,
                    Assembled(app1, cell1, artifact1, genesis1) =
                      Assembled(app2, cell2, artifact2, genesis2)
             PROVE  /\ app1 = app2 /\ cell1 = cell2
                    /\ artifact1 = artifact2 /\ genesis1 = genesis2
  <2>1. \A n \in Int : FitsUint64(n) => n \in Nat
    BY DEF FitsUint64
  <2> QED
    BY <2>1 DEF MessageBindsEveryField
<1> DEFINE A1 == DOMAIN_TAG \o uint64_be(app1)
           A2 == DOMAIN_TAG \o uint64_be(app2)
           B1 == A1 \o uint64_be(cell1)
           B2 == A2 \o uint64_be(cell2)
           C1 == B1 \o artifact1
           C2 == B2 \o artifact2
<1>1. DOMAIN_TAG \in Seq(Bytes)
  BY MessageAssumption
<1>2. A1 \in Seq(Bytes) /\ A2 \in Seq(Bytes) /\ Len(A1) = Len(A2)
  <2>1. /\ uint64_be(app1) \in Seq(Bytes) /\ uint64_be(app2) \in Seq(Bytes)
        /\ Len(uint64_be(app1)) = Len(uint64_be(app2))
    BY EightDigits
  <2>2. A1 \in Seq(Bytes) /\ Len(A1) = Len(DOMAIN_TAG) + Len(uint64_be(app1))
    BY <1>1, <2>1, ConcatProperties
  <2>3. A2 \in Seq(Bytes) /\ Len(A2) = Len(DOMAIN_TAG) + Len(uint64_be(app2))
    BY <1>1, <2>1, ConcatProperties
  <2> QED BY <2>1, <2>2, <2>3
<1>3. B1 \in Seq(Bytes) /\ B2 \in Seq(Bytes) /\ Len(B1) = Len(B2)
  <2> HIDE DEF A1, A2
  <2> QED BY <1>2, EightDigits, StillOfEqualLength
<1>4. C1 \in Seq(Bytes) /\ C2 \in Seq(Bytes) /\ Len(C1) = Len(C2)
  <2> HIDE DEF B1, B2
  <2> QED BY <1>3, HashIsAString, StillOfEqualLength
<1>5. C1 \o genesis1 = C2 \o genesis2
  BY DEF Assembled
<1>6. C1 = C2 /\ genesis1 = genesis2
  <2> HIDE DEF C1, C2
  <2> QED BY <1>4, <1>5, HashIsAString, PartsOfEqualLength
<1>7. B1 = B2 /\ artifact1 = artifact2
  <2>1. B1 \o artifact1 = B2 \o artifact2
    BY <1>6
  <2> HIDE DEF B1, B2
  <2> QED BY <2>1, <1>3, HashIsAString, PartsOfEqualLength
<1>8. A1 = A2 /\ uint64_be(cell1) = uint64_be(cell2)
  <2>1. A1 \o uint64_be(cell1) = A2 \o uint64_be(cell2)
    BY <1>7
  <2> HIDE DEF A1, A2
  <2> QED BY <2>1, <1>2, EightDigits, PartsOfEqualLength
<1>9. uint64_be(app1) = uint64_be(app2)
  <2>1. DOMAIN_TAG \o uint64_be(app1) = DOMAIN_TAG \o uint64_be(app2)
    BY <1>8
  <2> QED BY <2>1, <1>1, EightDigits, PartsOfEqualLength
<1> QED
  BY <1>6, <1>7, <1>8, <1>9, BytesDetermineNumber

---------------------------------------------------------------------------
(* The two copies of build_message *)

\* What the contracts folder signs the SDK signs too, both sign what the application
\* rebuilds, and the SDK signs more only for a bool cell or a list or tuple of numbers.
THEOREM CopiesDoTheSame ==
  ASSUME NEW Numbers \in SUBSET Int, NEW Strings
  PROVE  CopiesAgree(Numbers, Strings)
<1> SUFFICES ASSUME NEW app \in [kind : Kinds, value : Numbers],
                    NEW cell \in [kind : Kinds, value : Numbers],
                    NEW artifact \in ByteArguments(Strings), NEW genesis \in ByteArguments(Strings)
             PROVE  LET sdk == sdk_build_message(app, cell, artifact, genesis)
                        contracts == contracts_build_message(app, cell, artifact, genesis)
                    IN  /\ contracts # Refused => sdk = contracts
                        /\ sdk # Refused =>
                             sdk = app_build_message(app.value, cell.value, artifact.value, genesis.value)
                        /\ sdk # contracts =>
                             cell.kind = "bool" \/ "sequence" \in {artifact.kind, genesis.kind}
  BY DEF CopiesAgree
<1> DEFINE sdk == sdk_build_message(app, cell, artifact, genesis)
           contracts == contracts_build_message(app, cell, artifact, genesis)
           whole == Assembled(app.value, cell.value, artifact.value, genesis.value)
           fits == /\ StrictUint64(app)
                   /\ Len(artifact.value) = HASH_LENGTH /\ Len(genesis.value) = HASH_LENGTH
<1>1. sdk = IF fits /\ LaxUint64(cell) /\ MakesBytes(artifact) /\ MakesBytes(genesis)
            THEN whole ELSE Refused
  BY DEF sdk_build_message
<1>2. contracts = IF fits /\ StrictUint64(cell) /\ IsBuffer(artifact) /\ IsBuffer(genesis)
                  THEN whole ELSE Refused
  BY DEF contracts_build_message
<1>3. /\ StrictUint64(cell) => LaxUint64(cell)
      /\ IsBuffer(artifact) => MakesBytes(artifact)
      /\ IsBuffer(genesis) => MakesBytes(genesis)
  BY DEF StrictUint64, LaxUint64, IsInt, MakesBytes
<1>4. /\ LaxUint64(cell) /\ cell.kind # "bool" => StrictUint64(cell)
      /\ MakesBytes(artifact) /\ artifact.kind # "sequence" => IsBuffer(artifact)
      /\ MakesBytes(genesis) /\ genesis.kind # "sequence" => IsBuffer(genesis)
  BY DEF StrictUint64, LaxUint64, IsInt, MakesBytes
<1>5. whole = app_build_message(app.value, cell.value, artifact.value, genesis.value)
  BY DEF app_build_message
<1> HIDE DEF sdk, contracts, whole, fits
<1>6. contracts # Refused => sdk = contracts
  BY <1>1, <1>2, <1>3
<1>7. sdk # Refused => sdk = app_build_message(app.value, cell.value, artifact.value, genesis.value)
  BY <1>1, <1>5
<1>8. sdk # contracts => cell.kind = "bool" \/ "sequence" \in {artifact.kind, genesis.kind}
  BY <1>1, <1>2, <1>3, <1>4
<1> QED
  BY <1>6, <1>7, <1>8 DEF sdk, contracts

\* Both copies, where they return, return what the application rebuilds.
THEOREM SignerAndApplicationAgree ==
  ASSUME NEW app \in Nat, NEW cell \in Nat, FitsUint64(app), FitsUint64(cell),
         NEW artifact \in Hashes, NEW genesis \in Hashes
  PROVE  /\ sdk_build_message(IntArg(app), IntArg(cell), BufferArg(artifact), BufferArg(genesis)) =
              app_build_message(app, cell, artifact, genesis)
         /\ contracts_build_message(IntArg(app), IntArg(cell), BufferArg(artifact), BufferArg(genesis)) =
              app_build_message(app, cell, artifact, genesis)
BY HashIsAString
   DEF sdk_build_message, contracts_build_message, app_build_message, StrictUint64, LaxUint64,
       IsInt, IntArg, BufferArg, IsBuffer, MakesBytes
=============================================================================
