-------------------------- MODULE CtSessionProofs --------------------------
(***************************************************************************)
(* Proofs about CtSession, for every threshold, every number of null and   *)
(* reference sessions and everything the stages can measure.               *)
(***************************************************************************)
EXTENDS CtSession, FiniteSetTheorems, TLAPS

---------------------------------------------------------------------------
(* The empirical p of judge_v2 *)

\* p = (ge + 1) / (n + 1) is below 1 / n exactly when no session of the bank
\* reaches the crop statistic: ties never fire, and one tie is enough.
THEOREM CropRule ==
  ASSUME NEW bank \in Seq(Nat), bank # <<>>, NEW crop \in Nat
  PROVE  BelowEmpiricalP(crop, bank) <=> \A i \in DOMAIN bank : crop > bank[i]
<1> DEFINE n == Len(bank)
           reach == {i \in 1 .. n : bank[i] >= crop}
           ge == Cardinality(reach)
<1>1. n \in Nat /\ n >= 1 /\ DOMAIN bank = 1 .. n
  OBVIOUS
<1>2. IsFiniteSet(reach) /\ ge \in Nat
  <2>1. IsFiniteSet(1 .. n) /\ reach \subseteq 1 .. n
    BY <1>1, FS_Interval
  <2>2. IsFiniteSet(reach)
    BY <2>1, FS_Subset
  <2> QED BY <2>2, FS_CardinalityType
<1>3. (ge = 0) <=> reach = {}
  BY <1>2, FS_EmptySet
<1>4. (ge + 1) * n < n + 1 <=> ge = 0
  <2>1. CASE ge = 0
    BY <1>1, <2>1
  <2>2. CASE ge # 0
    <3>1. ge >= 1
      BY <1>2, <2>2
    <3>2. (ge + 1) * n = ge * n + n /\ ge * n >= n /\ ge * n \in Nat
      BY <1>1, <1>2, <3>1
    <3> QED BY <1>1, <2>2, <3>2
  <2> QED BY <2>1, <2>2
<1>5. reach = {} <=> \A i \in DOMAIN bank : crop > bank[i]
  BY <1>1
<1> QED BY <1>3, <1>4, <1>5 DEF BelowEmpiricalP

---------------------------------------------------------------------------
(* The order of the session *)

\* The experiments that are behind a session that is at p.
Past(p) ==
  CASE p = "control-leaky" -> {"control-flat"}
    [] p = "sign-aa"       -> Controls
    [] p \in {"aa bank", "rr bank", "sign-kk-0"} -> Controls \cup {"sign-aa"}
    [] p = "sign-kk-1"     -> Controls \cup {"sign-aa", "sign-kk-0"}
    [] p = "sign-kk-2"     -> Controls \cup {"sign-aa", "sign-kk-0", "sign-kk-1"}
    [] p = "sign-rr"       -> Controls \cup {"sign-aa"} \cup KkPairs
    [] p = "sign-key"      -> Controls \cup {"sign-aa"} \cup Gated
    [] p = "sign-msg"      -> Controls \cup {"sign-aa", "sign-key"} \cup Gated
    [] p = "verify-ctrl"   -> Controls \cup {"sign-aa", "sign-key", "sign-msg"} \cup Gated
    [] p = "keygen"        -> Experiments \ {"keygen"}
    [] p \in {"report", "csv files", "done"} -> Experiments
    [] OTHER -> {}

BeforeBanks == {"options", "null", "control-flat", "control-leaky", "sign-aa", "stopped"}

\* The types of what the session collects, and how much it collects.
CollectedOK ==
  /\ pc \in Experiments \cup {"options", "null", "aa bank", "rr bank", "report", "csv files",
                              "done", "stopped"}
  /\ opts \in Options
  /\ null \in Seq(Measurement) /\ Len(null) <= opts.null_sessions
  /\ measured \in [Experiments -> Measurement \cup {NotRun}]
  /\ aa_bank \in Seq(Measurement) /\ Len(aa_bank) <= AaRepeats
  /\ rr_bank \in Seq(Measurement) /\ Len(rr_bank) <= RrSessions

\* What is behind the session is there: the experiments, the banks at their
\* sizes, and the report as it follows from them.
OrderInv ==
  /\ \A x \in Past(pc) : measured[x] \in Measurement
  /\ pc \notin {"options", "stopped"} => ~Refused(opts)
  /\ opts.null_design = "ss" =>
       /\ pc \notin BeforeBanks \cup {"aa bank"} => Len(aa_bank) = AaRepeats
       /\ pc \notin BeforeBanks \cup {"aa bank", "rr bank"} => Len(rr_bank) = RrSessions
  /\ Reported =>
       /\ pc \in {"csv files", "done", "stopped"}
       /\ \A x \in Experiments : measured[x] \in Measurement
       /\ ~Refused(opts)
       /\ opts.null_design = "ss" => Len(aa_bank) = AaRepeats /\ Len(rr_bank) = RrSessions
       /\ report = TheReport

\* An experiment puts itself behind the session, and nothing else.
LEMMA PastStep ==
  ASSUME NEW x \in Experiments
  PROVE  /\ Past(Following[x]) \subseteq Past(x) \cup {x}
         /\ Following[x] \in Experiments \cup {"aa bank", "report"}
         /\ x \notin BeforeBanks => Following[x] \notin BeforeBanks \cup {"aa bank", "rr bank"}
         /\ x \in BeforeBanks => Following[x] \in BeforeBanks \cup {"aa bank"}
<1> USE DEF Experiments, Controls, Rows, Gated, KkPairs, Screening, BeforeBanks
<1>1. CASE x = "control-flat"
  BY <1>1 DEF Past, Following
<1>2. CASE x = "control-leaky"
  BY <1>2 DEF Past, Following
<1>3. CASE x = "sign-aa"
  BY <1>3 DEF Past, Following
<1>4. CASE x = "sign-kk-0"
  BY <1>4 DEF Past, Following
<1>5. CASE x = "sign-kk-1"
  BY <1>5 DEF Past, Following
<1>6. CASE x = "sign-kk-2"
  BY <1>6 DEF Past, Following
<1>7. CASE x = "sign-rr"
  BY <1>7 DEF Past, Following
<1>8. CASE x = "sign-key"
  BY <1>8 DEF Past, Following
<1>9. CASE x = "sign-msg"
  BY <1>9 DEF Past, Following
<1>10. CASE x = "verify-ctrl"
  BY <1>10 DEF Past, Following
<1>11. CASE x = "keygen"
  BY <1>11 DEF Past, Following
<1> QED BY <1>1, <1>2, <1>3, <1>4, <1>5, <1>6, <1>7, <1>8, <1>9, <1>10, <1>11

\* The places of a session that are not experiments.
LEMMA PastElsewhere ==
  /\ Past("options") = {} /\ Past("null") = {} /\ Past("control-flat") = {}
  /\ Past("stopped") = {}
  /\ Past("rr bank") = Past("aa bank") /\ Past("sign-kk-0") = Past("aa bank")
  /\ Past("sign-kk-0") \subseteq Past("sign-aa") \cup {"sign-aa"}
  /\ Past("report") = Experiments /\ Past("csv files") = Experiments /\ Past("done") = Experiments
<1>1. Past("options") = {} /\ Past("null") = {} /\ Past("control-flat") = {} /\ Past("stopped") = {}
  BY DEF Past
<1>2. Past("rr bank") = Past("aa bank") /\ Past("sign-kk-0") = Past("aa bank")
  BY DEF Past
<1>3. Past("sign-kk-0") \subseteq Past("sign-aa") \cup {"sign-aa"}
  BY DEF Past
<1>4. Past("report") = Experiments /\ Past("csv files") = Experiments /\ Past("done") = Experiments
  BY DEF Past
<1> QED BY <1>1, <1>2, <1>3, <1>4

\* A loop that appends keeps a sequence of its type, one longer.
LEMMA AppendType ==
  ASSUME NEW S, NEW s \in Seq(S), NEW m \in S
  PROVE  /\ Append(s, m) \in Seq(S) /\ Len(Append(s, m)) = Len(s) + 1
         /\ \A n \in Nat : Len(s) < n => Len(Append(s, m)) <= n
OBVIOUS

\* What the session collects keeps its type, and no loop overruns.
LEMMA CollectedStep == CollectedOK /\ [Next]_vars => CollectedOK'
<1> SUFFICES ASSUME CollectedOK, [Next]_vars PROVE CollectedOK'
  OBVIOUS
<1> USE DEF CollectedOK
<1>1. AaRepeats \in Nat /\ RrSessions \in Nat /\ opts.null_sessions \in Nat
  BY ChoiceAssumption DEF AaRepeats, RrSessions, Options
<1>2. opts' = opts => AaRepeats' = AaRepeats /\ RrSessions' = RrSessions
  BY DEF AaRepeats, RrSessions
<1>3. opts.null_design \in {"rr", "ss"}
  BY DEF Options
<1>4. \A x \in Experiments \cup {"null", "aa bank", "rr bank"} :
        Outcomes[opts.null_design][x] \subseteq Measurement
  BY <1>3, OutcomeAssumption
<1>5. "control-flat" \in Experiments /\ "sign-kk-0" \in Experiments
  BY DEF Experiments, Controls, Rows, Gated, KkPairs
<1>6. CASE Prepare \/ Refuse \/ NullEnds \/ BankEnds \/ WriteReport \/ WriteCsvFiles \/ WriteFails
  BY <1>2, <1>5, <1>6
     DEF Prepare, Refuse, NullEnds, BankEnds, WriteReport, WriteCsvFiles, WriteFails, Stop
<1>7. CASE NullSession
  <2>1. PICK m \in Measurement : null' = Append(null, m)
    BY <1>4, <1>7 DEF NullSession
  <2>2. null' \in Seq(Measurement) /\ Len(null') = Len(null) + 1
    BY <2>1, AppendType
  <2> QED BY <1>1, <1>2, <1>7, <2>2 DEF NullSession, MoreToRun
<1>8. ASSUME NEW x \in Experiments, Measure(x) PROVE CollectedOK'
  <2>1. pc' \in Experiments \cup {"aa bank", "report"}
    BY <1>5, <1>8, PastStep DEF Measure
  <2>2. measured' \in [Experiments -> Measurement \cup {NotRun}]
    BY <1>4, <1>8 DEF Measure
  <2> QED BY <1>2, <1>8, <2>1, <2>2 DEF Measure
<1>9. CASE AaReference
  <2>1. CASE ReferenceFails("rr bank")
    BY <1>2, <2>1 DEF ReferenceFails, Stop
  <2>2. CASE ~ReferenceFails("rr bank")
    <3>1. PICK m \in Measurement : aa_bank' = Append(aa_bank, m)
      BY <1>4, <1>9, <2>2 DEF AaReference
    <3>2. aa_bank' \in Seq(Measurement) /\ \A n \in Nat : Len(aa_bank) < n => Len(aa_bank') <= n
      BY <3>1, AppendType
    <3>3. Len(aa_bank) < AaRepeats /\ UNCHANGED <<pc, opts, null, measured, rr_bank, report>>
      BY <1>9, <2>2 DEF AaReference, MoreToRun
    <3>4. Len(aa_bank') <= AaRepeats'
      BY <1>1, <1>2, <3>2, <3>3
    <3> QED BY <1>2, <3>2, <3>3, <3>4
  <2> QED BY <2>1, <2>2
<1>10. CASE RrReference
  <2>1. CASE ReferenceFails("sign-kk-0")
    BY <1>2, <2>1 DEF ReferenceFails, Stop
  <2>2. CASE ~ReferenceFails("sign-kk-0")
    <3>1. PICK m \in Measurement : rr_bank' = Append(rr_bank, m)
      BY <1>4, <1>10, <2>2 DEF RrReference
    <3>2. rr_bank' \in Seq(Measurement) /\ \A n \in Nat : Len(rr_bank) < n => Len(rr_bank') <= n
      BY <3>1, AppendType
    <3>3. Len(rr_bank) < RrSessions /\ UNCHANGED <<pc, opts, null, measured, aa_bank, report>>
      BY <1>10, <2>2 DEF RrReference, MoreToRun
    <3>4. Len(rr_bank') <= RrSessions'
      BY <1>1, <1>2, <3>2, <3>3
    <3> QED BY <1>2, <3>2, <3>3, <3>4
  <2> QED BY <2>1, <2>2
<1>11. CASE UNCHANGED vars
  BY <1>2, <1>11 DEF vars
<1> QED BY <1>6, <1>7, <1>8, <1>9, <1>10, <1>11 DEF Next

\* The report is a function of what was collected.
LEMMA ReportStable ==
  ASSUME UNCHANGED <<opts, null, measured, aa_bank, rr_bank>>
  PROVE  /\ TheReport' = TheReport
         /\ AaRepeats' = AaRepeats /\ RrSessions' = RrSessions /\ Refused(opts)' = Refused(opts)
BY DEF TheReport, Repeats, SessionVerdict, KkCombined, Shapes, VerdictOf, FlatForRule, ControlsOk,
       LeakyVerdict, FlatVerdict, Isolated, Bank, GateCrops, NullOk, AaRepeats, RrSessions,
       Refused, BankOptionsRefused

\* The sizes of the banks are numbers.
LEMMA BankSizes ==
  ASSUME CollectedOK
  PROVE  /\ opts.null_sessions \in Nat
         /\ opts.aa_repeats \in Nat \cup {NotGiven} /\ opts.rr_sessions \in Nat \cup {NotGiven}
         /\ AaRepeats \in Nat /\ RrSessions \in Nat
         /\ Len(aa_bank) \in Nat /\ Len(aa_bank) <= AaRepeats
         /\ Len(rr_bank) \in Nat /\ Len(rr_bank) <= RrSessions
<1>1. /\ opts.null_sessions \in Nat
      /\ opts.aa_repeats \in Nat \cup {NotGiven} /\ opts.rr_sessions \in Nat \cup {NotGiven}
  BY DEF CollectedOK, Options
<1>2. AaRepeats \in Nat /\ RrSessions \in Nat
  BY <1>1 DEF AaRepeats, RrSessions
<1>3. /\ aa_bank \in Seq(Measurement) /\ Len(aa_bank) <= AaRepeats
      /\ rr_bank \in Seq(Measurement) /\ Len(rr_bank) <= RrSessions
  BY DEF CollectedOK
<1>4. Len(aa_bank) \in Nat /\ Len(rr_bank) \in Nat
  BY <1>3
<1> QED BY <1>1, <1>2, <1>3, <1>4

\* A bank that is as long as it may be and as it must be.
LEMMA AtTheBound ==
  ASSUME NEW m \in Nat, NEW n \in Nat, m <= n, ~(m < n)
  PROVE  m = n
OBVIOUS

\* OrderInv, its second half on its own: what a written report rests on.
LEMMA ReportKept ==
  ASSUME CollectedOK, OrderInv, UNCHANGED <<opts, null, measured, aa_bank, rr_bank, report>>,
         Reported => pc' \in {"csv files", "done", "stopped"}
  PROVE  Reported' =>
           /\ pc' \in {"csv files", "done", "stopped"}
           /\ \A x \in Experiments : measured'[x] \in Measurement
           /\ ~Refused(opts)'
           /\ opts'.null_design = "ss" => Len(aa_bank') = AaRepeats' /\ Len(rr_bank') = RrSessions'
           /\ report' = TheReport'
<1>1. TheReport' = TheReport /\ AaRepeats' = AaRepeats /\ RrSessions' = RrSessions
      /\ Refused(opts)' = Refused(opts)
  BY ReportStable
<1>2. Reported' = Reported
  BY DEF Reported
<1> QED BY <1>1, <1>2 DEF OrderInv

\* The order of the session is kept by every step.
LEMMA OrderStep == CollectedOK /\ OrderInv /\ [Next]_vars => OrderInv'
<1> SUFFICES ASSUME CollectedOK, OrderInv, [Next]_vars PROVE OrderInv'
  OBVIOUS
<1> DEFINE Same == UNCHANGED <<opts, null, measured, aa_bank, rr_bank, report>>
<1>1. ASSUME Stop PROVE OrderInv'
  <2>1. Same /\ pc' = "stopped"
    BY <1>1 DEF Stop
  <2>2. Past(pc') = {} /\ pc' \in BeforeBanks
    BY <2>1, PastElsewhere DEF BeforeBanks
  <2>3. Reported' =>
           /\ pc' \in {"csv files", "done", "stopped"}
           /\ \A x \in Experiments : measured'[x] \in Measurement
           /\ ~Refused(opts)'
           /\ opts'.null_design = "ss" => Len(aa_bank') = AaRepeats' /\ Len(rr_bank') = RrSessions'
           /\ report' = TheReport'
    BY <2>1, ReportKept
  <2> QED BY <2>1, <2>2, <2>3 DEF OrderInv
<1>2. CASE Refuse \/ WriteFails
  BY <1>1, <1>2 DEF Refuse, WriteFails
<1>3. CASE Prepare
  <2>1. Same /\ pc = "options" /\ pc' = "null" /\ ~Refused(opts) /\ ~Reported
    BY <1>3 DEF Prepare, OrderInv
  <2>2. Past(pc') = {} /\ pc' \in BeforeBanks
    BY <2>1, PastElsewhere DEF BeforeBanks
  <2>3. ~Reported' /\ ~Refused(opts)'
    BY <2>1, ReportStable DEF Reported
  <2> QED BY <2>2, <2>3 DEF OrderInv
<1>4. CASE NullSession
  <2>1. pc = "null" /\ pc' = "null" /\ UNCHANGED <<opts, measured, report>>
    BY <1>4 DEF NullSession
  <2>2. ~Reported' /\ ~Refused(opts)'
    BY <2>1 DEF OrderInv, Reported, Refused, BankOptionsRefused
  <2>3. Past(pc') = {} /\ pc' \in BeforeBanks
    BY <2>1, PastElsewhere DEF BeforeBanks
  <2> QED BY <2>2, <2>3 DEF OrderInv
<1>5. CASE NullEnds
  <2>1. Same /\ pc = "null" /\ pc' = "control-flat" /\ ~Refused(opts) /\ ~Reported
    BY <1>5 DEF NullEnds, OrderInv
  <2>2. Past(pc') = {} /\ pc' \in BeforeBanks
    BY <2>1, PastElsewhere DEF BeforeBanks
  <2>3. ~Reported' /\ ~Refused(opts)'
    BY <2>1, ReportStable DEF Reported
  <2> QED BY <2>2, <2>3 DEF OrderInv
<1>6. ASSUME NEW x \in Experiments, Measure(x) PROVE OrderInv'
  <2>1. /\ pc = x /\ UNCHANGED <<opts, null, aa_bank, rr_bank, report>>
        /\ pc' = IF x = "sign-aa" /\ opts.null_design = "rr" THEN "sign-kk-0" ELSE Following[x]
    BY <1>6 DEF Measure
  <2>2. pc \notin {"options", "csv files", "done", "stopped", "aa bank", "rr bank"}
    BY <2>1 DEF Experiments, Controls, Rows, Gated, KkPairs, Screening
  <2>3. ~Reported' /\ ~Refused(opts)'
    BY <2>1, <2>2 DEF OrderInv, Reported, Refused, BankOptionsRefused
  <2>4. \A y \in Past(pc') : measured'[y] \in Measurement
    <3>1. opts.null_design \in {"rr", "ss"}
      BY DEF CollectedOK, Options
    <3>2. Outcomes[opts.null_design][x] \subseteq Measurement
      BY <3>1, OutcomeAssumption
    <3>3. PICK m \in Measurement : measured' = [measured EXCEPT ![x] = m]
      BY <1>6, <3>2 DEF Measure
    <3>4. Past(pc') \subseteq Past(x) \cup {x}
      BY <2>1, PastStep, PastElsewhere
    <3>5. DOMAIN measured = Experiments /\ \A y \in Past(x) : measured[y] \in Measurement
      BY <2>1 DEF OrderInv, CollectedOK
    <3> QED BY <3>3, <3>4, <3>5
  <2>5. opts'.null_design = "ss" =>
          /\ pc' \notin BeforeBanks \cup {"aa bank"} => Len(aa_bank') = AaRepeats'
          /\ pc' \notin BeforeBanks \cup {"aa bank", "rr bank"} => Len(rr_bank') = RrSessions'
    <3> SUFFICES ASSUME opts.null_design = "ss"
                 PROVE  /\ pc' \notin BeforeBanks \cup {"aa bank"} => Len(aa_bank') = AaRepeats'
                        /\ pc' \notin BeforeBanks \cup {"aa bank", "rr bank"}
                             => Len(rr_bank') = RrSessions'
      BY <2>1
    <3>1. AaRepeats' = AaRepeats /\ RrSessions' = RrSessions
      BY <2>1 DEF AaRepeats, RrSessions
    <3>2. pc' = Following[x]
      BY <2>1
    <3>3. pc' \notin BeforeBanks \cup {"aa bank"} => pc \notin BeforeBanks \cup {"aa bank", "rr bank"}
      BY <2>1, <2>2, <3>2, PastStep
    <3> QED BY <2>1, <3>1, <3>3 DEF OrderInv
  <2> QED BY <2>3, <2>4, <2>5 DEF OrderInv
<1>7. ASSUME pc \in {"aa bank", "rr bank"}, pc' = pc, UNCHANGED <<opts, measured, report>>,
             pc = "rr bank" => aa_bank' = aa_bank
      PROVE  OrderInv'
  <2>1. ~Reported' /\ ~Refused(opts)'
    BY <1>7 DEF OrderInv, Reported, Refused, BankOptionsRefused
  <2>2. \A y \in Past(pc') : measured'[y] \in Measurement
    BY <1>7 DEF OrderInv
  <2>3. AaRepeats' = AaRepeats
    BY <1>7 DEF AaRepeats
  <2> QED BY <1>7, <2>1, <2>2, <2>3 DEF OrderInv, BeforeBanks
<1>8. CASE AaReference
  BY <1>1, <1>7, <1>8 DEF AaReference, ReferenceFails
<1>9. CASE RrReference
  BY <1>1, <1>7, <1>9 DEF RrReference, ReferenceFails
<1>10. CASE BankEnds
  <2>1. Same
    BY <1>10 DEF BankEnds
  <2>2. AaRepeats' = AaRepeats /\ RrSessions' = RrSessions
    BY <2>1 DEF AaRepeats, RrSessions
  <2>3. \/ pc = "aa bank" /\ ~(Len(aa_bank) < AaRepeats) /\ pc' = "rr bank"
        \/ pc = "rr bank" /\ ~(Len(rr_bank) < RrSessions) /\ pc' = "sign-kk-0"
    BY <1>10 DEF BankEnds, MoreToRun
  <2>4. ~Reported' /\ ~Refused(opts)'
    BY <2>1, <2>3 DEF OrderInv, Reported, Refused, BankOptionsRefused
  <2>5. \A y \in Past(pc') : measured'[y] \in Measurement
    BY <2>1, <2>3, PastElsewhere DEF OrderInv
  <2>6. pc = "aa bank" => Len(aa_bank') = AaRepeats'
    <3>1. AaRepeats \in Nat /\ Len(aa_bank) \in Nat /\ Len(aa_bank) <= AaRepeats
      BY BankSizes
    <3>2. pc = "aa bank" => Len(aa_bank) = AaRepeats
      BY <2>3, <3>1, AtTheBound
    <3> QED BY <2>1, <2>2, <3>2
  <2>7. pc = "rr bank" => Len(rr_bank') = RrSessions'
    <3>1. RrSessions \in Nat /\ Len(rr_bank) \in Nat /\ Len(rr_bank) <= RrSessions
      BY BankSizes
    <3>2. pc = "rr bank" => Len(rr_bank) = RrSessions
      BY <2>3, <3>1, AtTheBound
    <3> QED BY <2>1, <2>2, <3>2
  <2>8. pc = "rr bank" /\ opts.null_design = "ss" => Len(aa_bank') = AaRepeats'
    BY <2>1, <2>2 DEF OrderInv, BeforeBanks
  <2> QED BY <2>1, <2>3, <2>4, <2>5, <2>6, <2>7, <2>8 DEF OrderInv, BeforeBanks
<1>11. CASE WriteReport
  <2>1. pc = "report" /\ pc' = "csv files" /\ report' = TheReport
        /\ UNCHANGED <<opts, null, measured, aa_bank, rr_bank>>
    BY <1>11 DEF WriteReport
  <2>2. TheReport' = TheReport /\ AaRepeats' = AaRepeats /\ RrSessions' = RrSessions
        /\ Refused(opts)' = Refused(opts)
    BY <2>1, ReportStable
  <2>3. \A x \in Experiments : measured'[x] \in Measurement
    BY <2>1, PastElsewhere DEF OrderInv
  <2>4. opts.null_design = "ss" => Len(aa_bank) = AaRepeats /\ Len(rr_bank) = RrSessions
    BY <2>1 DEF OrderInv, BeforeBanks
  <2>5. Past(pc') = Experiments /\ ~Refused(opts)
    BY <2>1, PastElsewhere DEF OrderInv
  <2> QED BY <2>1, <2>2, <2>3, <2>4, <2>5 DEF OrderInv
<1>12. CASE WriteCsvFiles
  <2>1. Same /\ pc = "csv files" /\ pc' = "done"
    BY <1>12 DEF WriteCsvFiles
  <2>2. AaRepeats' = AaRepeats /\ RrSessions' = RrSessions /\ Refused(opts)' = Refused(opts)
    BY <2>1, ReportStable
  <2>3. Past(pc') = Past(pc)
    BY <2>1, PastElsewhere
  <2>4. Reported' =>
           /\ pc' \in {"csv files", "done", "stopped"}
           /\ \A x \in Experiments : measured'[x] \in Measurement
           /\ ~Refused(opts)'
           /\ opts'.null_design = "ss" => Len(aa_bank') = AaRepeats' /\ Len(rr_bank') = RrSessions'
           /\ report' = TheReport'
    BY <2>1, ReportKept
  <2> QED BY <2>1, <2>2, <2>3, <2>4 DEF OrderInv, BeforeBanks
<1>13. CASE UNCHANGED vars
  <2>1. Same /\ pc' = pc
    BY <1>13 DEF vars
  <2>2. AaRepeats' = AaRepeats /\ RrSessions' = RrSessions /\ Refused(opts)' = Refused(opts)
    BY <2>1, ReportStable
  <2>3. Reported => pc' \in {"csv files", "done", "stopped"}
    BY <2>1 DEF OrderInv
  <2>4. Reported' =>
           /\ pc' \in {"csv files", "done", "stopped"}
           /\ \A x \in Experiments : measured'[x] \in Measurement
           /\ ~Refused(opts)'
           /\ opts'.null_design = "ss" => Len(aa_bank') = AaRepeats' /\ Len(rr_bank') = RrSessions'
           /\ report' = TheReport'
    BY <2>1, <2>3, ReportKept
  <2> QED BY <2>1, <2>2, <2>4 DEF OrderInv
<1> QED BY <1>2, <1>3, <1>4, <1>5, <1>6, <1>8, <1>9, <1>10, <1>11, <1>12, <1>13 DEF Next

\* Both hold from the start.
LEMMA CollectedInit == Init => CollectedOK /\ OrderInv
<1> SUFFICES ASSUME Init PROVE CollectedOK /\ OrderInv
  OBVIOUS
<1>1. opts \in Options /\ AaRepeats \in Nat /\ RrSessions \in Nat /\ opts.null_sessions \in Nat
  BY ChoiceAssumption DEF Init, AaRepeats, RrSessions, Options
<1>2. CollectedOK
  BY <1>1 DEF Init, CollectedOK
<1>3. Past(pc) = {} /\ pc \in BeforeBanks /\ ~Reported
  BY PastElsewhere DEF Init, BeforeBanks, Reported
<1> QED BY <1>2, <1>3 DEF Init, OrderInv

\* A report is written only after everything it speaks of has been measured, and
\* it says what the rules say of the measurements.
THEOREM ReportFollows == Spec => [](CollectedOK /\ OrderInv)
<1>1. Init => CollectedOK /\ OrderInv
  BY CollectedInit
<1>2. (CollectedOK /\ OrderInv) /\ [Next]_vars => (CollectedOK /\ OrderInv)'
  BY CollectedStep, OrderStep
<1> QED BY <1>1, <1>2, PTL DEF Spec

---------------------------------------------------------------------------
(* What a report may say *)

\* A reported session has the banks its options ask for.
LEMMA BanksAreWhole == CollectedOK /\ OrderInv => ReportHasWholeBanks
<1> SUFFICES ASSUME CollectedOK, OrderInv, Reported, opts.null_design = "ss"
             PROVE  /\ Len(aa_bank) = opts.aa_repeats /\ Len(aa_bank) >= 2
                    /\ Len(rr_bank) = RrSessions /\ Len(rr_bank) >= 1
  BY DEF ReportHasWholeBanks
<1>1. ~Refused(opts) /\ Len(aa_bank) = AaRepeats /\ Len(rr_bank) = RrSessions
  BY DEF OrderInv
<1>2. opts.aa_repeats \in Nat /\ opts.aa_repeats >= 2
  <2>1. opts.aa_repeats # 0 /\ opts.aa_repeats # 1 /\ opts.aa_repeats # NotGiven
    BY <1>1 DEF Refused, BankOptionsRefused
  <2>2. opts.aa_repeats \in Nat
    BY <2>1, BankSizes
  <2> QED BY <2>1, <2>2
<1>3. Len(aa_bank) = opts.aa_repeats
  BY <1>1, <1>2, ChoiceAssumption DEF AaRepeats
<1>4. RrSessions \in Nat /\ RrSessions >= 1
  <2>1. ~(opts.null_sessions < MIN_NULL_SESSIONS) /\ opts.rr_sessions # 0
    BY <1>1 DEF Refused, BankOptionsRefused
  <2>2. opts.null_sessions \in Nat /\ opts.null_sessions >= 1
    BY <2>1, BankSizes, ThresholdAssumption
  <2>3. RrSessions = opts.null_sessions \/ RrSessions = opts.rr_sessions
    BY DEF RrSessions
  <2>4. RrSessions \in Nat
    BY BankSizes
  <2> QED BY <2>1, <2>2, <2>3, <2>4
<1> QED BY <1>1, <1>2, <1>3, <1>4

\* A report is never built from a short bank or from a single A/A repeat.
THEOREM WholeBanks == Spec => []ReportHasWholeBanks
BY BanksAreWhole, ReportFollows, PTL

\* Worse keeps the worse of two verdicts: silence, then a failure, then a shape.
LEMMA WorseOfTwo ==
  ASSUME NEW u \in Verdicts, NEW v \in Verdicts
  PROVE  /\ Worse(u, v) \in {u, v}
         /\ Worse(u, v) # "INCONCLUSIVE" => u # "INCONCLUSIVE" /\ v # "INCONCLUSIVE"
         /\ Worse(u, v) = "PASS" => u = "PASS" /\ v = "PASS"
         /\ Worse(u, v) = "SHAPE" => u \in {"PASS", "SHAPE"} /\ v \in {"PASS", "SHAPE"}
<1>1. /\ Badness["PASS"] = 0 /\ Badness["SHAPE"] = 1
      /\ Badness["FAIL"] = 2 /\ Badness["INCONCLUSIVE"] = 3
  BY DEF Badness, Verdicts
<1> QED BY <1>1 DEF Worse, Verdicts

\* The crop statistics of some sessions.
LEMMA CropsOf ==
  ASSUME NEW sessions \in Seq(Measurement)
  PROVE  /\ Crops(sessions) \in Seq(Nat)
         /\ DOMAIN Crops(sessions) = DOMAIN sessions
         /\ \A i \in DOMAIN sessions : Crops(sessions)[i] = sessions[i].crop
         /\ Crops(sessions) = <<>> <=> sessions = <<>>
<1>1. \A i \in DOMAIN sessions : sessions[i].crop \in Nat
  <2>1. \A i \in DOMAIN sessions : sessions[i] \in Measurement
    OBVIOUS
  <2> QED BY <2>1 DEF Measurement
<1>2. DOMAIN sessions = 1 .. Len(sessions) /\ Len(sessions) \in Nat
  OBVIOUS
<1>3. Crops(sessions) \in [1 .. Len(sessions) -> Nat]
  BY <1>1, <1>2 DEF Crops
<1>4. Crops(sessions) \in Seq(Nat) /\ Len(Crops(sessions)) = Len(sessions)
  BY <1>2, <1>3
<1>5. Crops(sessions) = <<>> <=> sessions = <<>>
  BY <1>2, <1>4
<1> QED BY <1>4, <1>5 DEF Crops

\* What a verdict on a measurement, read against some sessions, says of it.
Says(v, m, sessions) ==
  /\ v \in Verdicts
  /\ v = "PASS" => sessions # <<>> /\ Quiet(m) /\ ~BeyondAll(m, sessions)
  /\ v = "SHAPE" => sessions # <<>> /\ Quiet(m) /\ BeyondAll(m, sessions)
  /\ v = "FAIL" => BeyondLine(m) /\ (sessions # <<>> => m.enough)

\* A measurement judged against the crop statistics of some sessions.
LEMMA JudgedAgainst ==
  ASSUME NEW m \in Measurement, NEW sessions \in Seq(Measurement)
  PROVE  Says(judge_v2(m, Crops(sessions)), m, sessions)
<1> SUFFICES ASSUME NEW bank, bank = Crops(sessions)
             PROVE  Says(judge_v2(m, bank), m, sessions)
  OBVIOUS
<1>1. m.enough \in BOOLEAN /\ m.t \in Nat /\ m.crop \in Nat /\ T_THRESHOLD \in Nat
  BY ThresholdAssumption DEF Measurement
<1>2. BeyondLine(m) <=> ~(m.t < T_THRESHOLD)
  BY <1>1 DEF BeyondLine
<1>3. bank = <<>> <=> sessions = <<>>
  BY CropsOf
<1>4. bank # <<>> => (BelowEmpiricalP(m.crop, bank) <=> BeyondAll(m, sessions))
  BY <1>1, CropsOf, CropRule DEF BeyondAll
<1>5. CASE bank = <<>>
  <2>1. judge_v2(m, bank) = IF BeyondLine(m) THEN "FAIL" ELSE "INCONCLUSIVE"
    BY <1>5 DEF judge_v2
  <2> QED BY <1>3, <1>5, <2>1 DEF Verdicts, Says
<1>6. CASE bank # <<>> /\ ~m.enough
  <2>1. judge_v2(m, bank) = "INCONCLUSIVE"
    BY <1>6 DEF judge_v2
  <2> QED BY <2>1 DEF Verdicts, Says
<1>7. CASE bank # <<>> /\ m.enough /\ BeyondLine(m)
  <2>1. judge_v2(m, bank) = "FAIL"
    BY <1>7 DEF judge_v2
  <2> QED BY <1>7, <2>1 DEF Verdicts, Says
<1>8. CASE bank # <<>> /\ m.enough /\ ~BeyondLine(m)
  <2>1. judge_v2(m, bank) = IF BelowEmpiricalP(m.crop, bank) THEN "SHAPE" ELSE "PASS"
    BY <1>8 DEF judge_v2
  <2>2. Quiet(m)
    BY <1>2, <1>8 DEF Quiet
  <2> QED BY <1>3, <1>4, <1>8, <2>1, <2>2 DEF Verdicts, Says
<1> QED BY <1>1, <1>5, <1>6, <1>7, <1>8

\* A synthetic control, judged on the raw statistic alone.
LEMMA JudgedRaw ==
  ASSUME NEW m \in Measurement
  PROVE  /\ judge_raw_only(m) \in Verdicts
         /\ judge_raw_only(m) = "PASS" => Quiet(m)
         /\ judge_raw_only(m) = "FAIL" => m.enough /\ BeyondLine(m)
<1>1. m.enough \in BOOLEAN /\ m.t \in Nat /\ T_THRESHOLD \in Nat
  BY ThresholdAssumption DEF Measurement
<1>2. CASE ~m.enough
  BY <1>2 DEF judge_raw_only, Verdicts
<1>3. CASE m.enough /\ BeyondLine(m)
  BY <1>3 DEF judge_raw_only, Verdicts
<1>4. CASE m.enough /\ ~BeyondLine(m)
  BY <1>1, <1>4 DEF judge_raw_only, Verdicts, Quiet, BeyondLine
<1> QED BY <1>1, <1>2, <1>3, <1>4

\* The sessions a row's crop statistic is read against.
Sessions(row) ==
  CASE opts.null_design = "ss" /\ row \in KkPairs -> aa_bank
    [] opts.null_design = "ss" /\ row = "sign-rr" -> rr_bank
    [] OTHER -> IF NullOk THEN null ELSE <<>>

\* Every row of a written report is judged against those sessions.
LEMMA RowJudged ==
  ASSUME CollectedOK, OrderInv, Reported, NEW row \in Rows
  PROVE  /\ Sessions(row) \in Seq(Measurement) /\ measured[row] \in Measurement
         /\ Isolated(row) = judge_v2(measured[row], Crops(Sessions(row)))
         /\ Isolated(row) \in Verdicts /\ VerdictOf(row) \in Verdicts
<1>1. measured[row] \in Measurement
  BY DEF OrderInv, Experiments
<1>2. null \in Seq(Measurement) /\ aa_bank \in Seq(Measurement) /\ rr_bank \in Seq(Measurement)
      /\ <<>> \in Seq(Measurement)
  <2>1. null \in Seq(Measurement) /\ aa_bank \in Seq(Measurement) /\ rr_bank \in Seq(Measurement)
    BY DEF CollectedOK
  <2>2. <<>> \in Seq(Measurement)
    OBVIOUS
  <2> QED BY <2>1, <2>2
<1>3. Sessions(row) \in Seq(Measurement) /\ Bank(row) = Crops(Sessions(row))
  <2>1. Crops(<<>>) = <<>>
    BY <1>2, CropsOf
  <2>2. GateCrops = Crops(IF NullOk THEN null ELSE <<>>)
    BY <2>1 DEF GateCrops
  <2>3. CASE opts.null_design = "ss" /\ row \in KkPairs
    BY <1>2, <2>3 DEF Sessions, Bank
  <2>4. CASE opts.null_design = "ss" /\ row = "sign-rr"
    <3>1. row \notin KkPairs
      BY <2>4 DEF KkPairs
    <3> QED BY <1>2, <2>4, <3>1 DEF Sessions, Bank
  <2>5. CASE ~(opts.null_design = "ss" /\ row \in KkPairs)
             /\ ~(opts.null_design = "ss" /\ row = "sign-rr")
    BY <1>2, <2>2, <2>5 DEF Sessions, Bank
  <2> QED BY <2>3, <2>4, <2>5
<1>4. Isolated(row) = judge_v2(measured[row], Crops(Sessions(row)))
  BY <1>3 DEF Isolated
<1>5. Isolated(row) \in Verdicts
  BY <1>1, <1>3, <1>4, JudgedAgainst DEF Says
<1>6. VerdictOf(row) \in {Isolated(row), "INCONCLUSIVE"}
  BY DEF VerdictOf
<1> QED BY <1>1, <1>3, <1>4, <1>5, <1>6 DEF Verdicts

\* So is every A/A repeat, against the null.
LEMMA RepeatJudged ==
  ASSUME CollectedOK, NEW i \in DOMAIN aa_bank
  PROVE  Says(Repeats[i], aa_bank[i], IF NullOk THEN null ELSE <<>>)
<1> DEFINE gate == IF NullOk THEN null ELSE <<>>
<1>1. aa_bank[i] \in Measurement /\ gate \in Seq(Measurement)
  <2>1. aa_bank \in Seq(Measurement) /\ null \in Seq(Measurement)
    BY DEF CollectedOK
  <2> QED BY <2>1
<1>2. GateCrops = Crops(gate)
  <2>1. <<>> \in Seq(Measurement)
    OBVIOUS
  <2>2. Crops(<<>>) = <<>>
    BY <2>1, CropsOf
  <2> QED BY <2>2 DEF GateCrops
<1>3. Repeats[i] = judge_v2(aa_bank[i], Crops(gate))
  BY <1>2 DEF Repeats
<1> HIDE DEF gate
<1>4. Says(Repeats[i], aa_bank[i], gate)
  BY <1>1, <1>3, JudgedAgainst
<1> QED BY <1>4 DEF gate

\* The combination of the three pairs.
LEMMA Combined ==
  ASSUME \A p \in KkPairs : VerdictOf(p) \in Verdicts
  PROVE  /\ KkCombined \in Verdicts
         /\ KkCombined # "INCONCLUSIVE" => \A p \in KkPairs : VerdictOf(p) # "INCONCLUSIVE"
         /\ KkCombined = "FAIL" => \E p \in KkPairs : VerdictOf(p) = "FAIL"
         /\ KkCombined \in {"PASS", "SHAPE"} => \A p \in KkPairs : VerdictOf(p) \in {"PASS", "SHAPE"}
         /\ KkCombined = "PASS" => Cardinality(Shapes) <= 1
         /\ KkCombined = "SHAPE" => Cardinality(Shapes) >= 2
<1> DEFINE Some(v) == \E p \in KkPairs : VerdictOf(p) = v
<1>1. Cardinality(Shapes) \in Nat
  <2>1. IsFiniteSet(KkPairs)
    <3>1. IsFiniteSet({})
      BY FS_EmptySet
    <3>2. IsFiniteSet({} \cup {"sign-kk-0"})
      BY <3>1, FS_AddElement
    <3>3. IsFiniteSet(({} \cup {"sign-kk-0"}) \cup {"sign-kk-1"})
      BY <3>2, FS_AddElement
    <3>4. IsFiniteSet((({} \cup {"sign-kk-0"}) \cup {"sign-kk-1"}) \cup {"sign-kk-2"})
      BY <3>3, FS_AddElement
    <3>5. KkPairs = (({} \cup {"sign-kk-0"}) \cup {"sign-kk-1"}) \cup {"sign-kk-2"}
      BY DEF KkPairs
    <3> QED BY <3>4, <3>5
  <2>2. IsFiniteSet(Shapes)
    BY <2>1, FS_Subset DEF Shapes
  <2> QED BY <2>2, FS_CardinalityType
<1>2. CASE Some("INCONCLUSIVE")
  BY <1>2 DEF KkCombined, Verdicts
<1>3. CASE ~Some("INCONCLUSIVE") /\ Some("FAIL")
  BY <1>3 DEF KkCombined, Verdicts
<1>4. CASE ~Some("INCONCLUSIVE") /\ ~Some("FAIL")
  <2>1. KkCombined = IF Cardinality(Shapes) >= 2 THEN "SHAPE" ELSE "PASS"
    BY <1>4 DEF KkCombined
  <2>2. \A p \in KkPairs : VerdictOf(p) \in {"PASS", "SHAPE"}
    BY <1>4 DEF Verdicts
  <2>3. ~(Cardinality(Shapes) >= 2) => Cardinality(Shapes) <= 1
    BY <1>1
  <2> QED BY <1>4, <2>1, <2>2, <2>3 DEF Verdicts
<1> QED BY <1>2, <1>3, <1>4

\* What the report's fields are.
LEMMA ReportSays ==
  ASSUME OrderInv, Reported
  PROVE  /\ report.session_verdict = SessionVerdict
         /\ \A row \in Rows : /\ report.rows[row].isolated = Isolated(row)
                              /\ report.rows[row].verdict = VerdictOf(row)
         /\ report.repeats = Repeats
<1>1. report = TheReport
  BY DEF OrderInv
<1> QED BY <1>1 DEF TheReport

\* A null that is accepted is complete and quiet.
LEMMA AcceptedNull ==
  ASSUME CollectedOK, NullOk
  PROVE  null # <<>> /\ Len(null) = opts.null_sessions /\ \A i \in DOMAIN null : Quiet(null[i])
<1>1. \A i \in DOMAIN null : null[i] \in Measurement
  <2>1. null \in Seq(Measurement)
    BY DEF CollectedOK
  <2> QED BY <2>1
<1>2. \A i \in DOMAIN null : null[i].t \in Nat /\ T_THRESHOLD \in Nat
  BY <1>1, ThresholdAssumption DEF Measurement
<1> QED BY <1>2 DEF NullOk, Quiet, BeyondLine

\* A row that is not silenced, and the controls that let it speak.
LEMMA RowSpeaks ==
  ASSUME CollectedOK, OrderInv, Reported, NEW row \in Gated \cup Screening, VerdictOf(row) # "INCONCLUSIVE"
  PROVE  /\ VerdictOf(row) = Isolated(row)
         /\ NullOk
         /\ FlatVerdict = "PASS" /\ LeakyVerdict = "FAIL" /\ Isolated("sign-aa") = "PASS"
<1>1. row # "sign-aa"
  BY DEF Gated, KkPairs, Screening
<1>2. FlatForRule = "PASS" /\ LeakyVerdict = "FAIL" /\ VerdictOf(row) = Isolated(row)
  BY <1>1 DEF VerdictOf
<1>3. Isolated("sign-aa") = "PASS" /\ (IF ControlsOk THEN FlatVerdict ELSE "INCONCLUSIVE") = "PASS"
  BY <1>2 DEF FlatForRule, FlatUnderAa
<1> QED BY <1>2, <1>3 DEF ControlsOk

\* The readings of the controls that let a row speak.
LEMMA ControlsOfSpeaker ==
  ASSUME CollectedOK, OrderInv, Reported, NullOk,
         FlatVerdict = "PASS", LeakyVerdict = "FAIL", Isolated("sign-aa") = "PASS"
  PROVE  ControlsBehaved
<1>1. "sign-aa" \in Rows /\ "sign-aa" \notin Gated
  BY DEF Gated, Rows, KkPairs
<1>2. measured["control-flat"] \in Measurement /\ measured["control-leaky"] \in Measurement
  BY DEF OrderInv, Experiments, Controls
<1>3. /\ Quiet(measured["control-flat"])
      /\ measured["control-leaky"].enough /\ BeyondLine(measured["control-leaky"])
  BY <1>2, JudgedRaw DEF FlatVerdict, LeakyVerdict
<1>4. Sessions("sign-aa") = null
  BY <1>1 DEF Sessions, Gated
<1>5. Quiet(measured["sign-aa"]) /\ ~BeyondAll(measured["sign-aa"], null)
  BY <1>1, <1>4, RowJudged, JudgedAgainst DEF Says
<1> QED BY <1>3, <1>5, AcceptedNull DEF ControlsBehaved

\* A session that speaks is an "rr" session whose gated rows all speak.
LEMMA SessionSpeaks ==
  ASSUME CollectedOK, OrderInv, Reported, SessionVerdict # "INCONCLUSIVE"
  PROVE  /\ opts.null_design = "rr"
         /\ SessionVerdict = Worse(KkCombined, VerdictOf("sign-rr"))
         /\ KkCombined \in Verdicts /\ VerdictOf("sign-rr") \in Verdicts
         /\ KkCombined # "INCONCLUSIVE"
         /\ \A row \in Gated : VerdictOf(row) # "INCONCLUSIVE"
         /\ \A p \in KkPairs : VerdictOf(p) \in Verdicts
<1>1. opts.null_design = "rr" /\ SessionVerdict = Worse(KkCombined, VerdictOf("sign-rr"))
  BY DEF SessionVerdict
<1>2. \A row \in Rows : VerdictOf(row) \in Verdicts
  BY RowJudged
<1>3. KkPairs \subseteq Rows /\ "sign-rr" \in Rows /\ Gated = KkPairs \cup {"sign-rr"}
  BY DEF Rows, Gated
<1>4. KkCombined \in Verdicts /\ VerdictOf("sign-rr") \in Verdicts
  BY <1>2, <1>3, Combined
<1>5. KkCombined # "INCONCLUSIVE" /\ VerdictOf("sign-rr") # "INCONCLUSIVE"
  BY <1>1, <1>4, WorseOfTwo
<1>6. \A p \in KkPairs : VerdictOf(p) # "INCONCLUSIVE"
  BY <1>2, <1>3, <1>5, Combined
<1> QED BY <1>1, <1>2, <1>3, <1>4, <1>5, <1>6

\* A session speaks only when every null session ran and was quiet, both
\* synthetic controls behaved and the A/A control was inside the null.
THEOREM ControlsGate == Spec => []ControlsGateTheSession
<1>1. CollectedOK /\ OrderInv => ControlsGateTheSession
  <2> SUFFICES ASSUME CollectedOK, OrderInv, Reported, report.session_verdict # "INCONCLUSIVE"
               PROVE  ControlsBehaved
    BY DEF ControlsGateTheSession
  <2>1. SessionVerdict # "INCONCLUSIVE" /\ "sign-rr" \in Gated
    BY ReportSays DEF Gated
  <2>2. VerdictOf("sign-rr") # "INCONCLUSIVE"
    BY <2>1, SessionSpeaks
  <2> QED BY <2>1, <2>2, RowSpeaks, ControlsOfSpeaker
<1> QED BY <1>1, ReportFollows, PTL

\* Under either design, a validation session's included, a row speaks only when every
\* control behaved, and its word is about its own reference sessions.
THEOREM RowsSpeak == Spec => []RowsSpeakUnderTheirControls
<1>1. CollectedOK /\ OrderInv => RowsSpeakUnderTheirControls
  <2> SUFFICES ASSUME CollectedOK, OrderInv, Reported, NEW row \in Gated \cup Screening,
                      report.rows[row].verdict # "INCONCLUSIVE"
               PROVE  /\ ControlsBehaved
                      /\ measured[row].enough
                      /\ report.rows[row].verdict = "FAIL" <=> BeyondLine(measured[row])
                      /\ report.rows[row].verdict = "SHAPE" <=>
                           ~BeyondLine(measured[row]) /\ BeyondAll(measured[row], Reference(row))
    BY DEF RowsSpeakUnderTheirControls
  <2>1. row \in Rows /\ report.rows[row].verdict = VerdictOf(row)
    BY ReportSays DEF Rows
  <2>2. /\ VerdictOf(row) = Isolated(row) /\ VerdictOf(row) \in Verdicts
        /\ NullOk /\ ControlsBehaved
    BY <2>1, RowSpeaks, ControlsOfSpeaker, RowJudged
  <2>3. Sessions(row) = Reference(row)
    BY <2>2 DEF Sessions, Reference
  <2>4. Sessions(row) # <<>>
    <3>1. CASE opts.null_design = "ss"
      <4>1. Len(aa_bank) >= 2 /\ Len(rr_bank) >= 1
        BY <3>1, BanksAreWhole DEF ReportHasWholeBanks
      <4>2. aa_bank # <<>> /\ rr_bank # <<>>
        BY <4>1
      <4> QED BY <2>2, <4>2, AcceptedNull DEF Sessions
    <3>2. CASE opts.null_design # "ss"
      BY <2>2, <3>2, AcceptedNull DEF Sessions
    <3> QED BY <3>1, <3>2
  <2>5. Says(VerdictOf(row), measured[row], Reference(row)) /\ measured[row] \in Measurement
    BY <2>1, <2>2, <2>3, RowJudged, JudgedAgainst
  <2>6. BeyondLine(measured[row]) <=> ~(measured[row].t < T_THRESHOLD)
    BY <2>5, ThresholdAssumption DEF BeyondLine, Measurement
  <2> QED BY <2>1, <2>2, <2>3, <2>4, <2>5, <2>6 DEF Says, Quiet, Verdicts
<1> QED BY <1>1, ReportFollows, PTL

\* The words of a session that speaks say what was measured.
THEOREM VerdictIsSound == Spec => []VerdictSaysWhatWasMeasured
<1> DEFINE Shaped == {x \in KkPairs : BeyondAll(measured[x], null)}
           said == report.session_verdict
<1>1. ASSUME CollectedOK, OrderInv, Reported
      PROVE  /\ said = "PASS" =>
                  /\ \A x \in Gated : Quiet(measured[x])
                  /\ Cardinality(Shaped) <= 1
                  /\ ~BeyondAll(measured["sign-rr"], null)
             /\ said = "SHAPE" =>
                  /\ \A x \in Gated : Quiet(measured[x])
                  /\ Cardinality(Shaped) >= 2 \/ BeyondAll(measured["sign-rr"], null)
             /\ said = "FAIL" =>
                  /\ \A x \in Gated : measured[x].enough
                  /\ \E x \in Gated : BeyondLine(measured[x])
  <2>1. said = SessionVerdict
    BY <1>1, ReportSays
  <2>2. Gated \subseteq Rows /\ Gated = KkPairs \cup {"sign-rr"} /\ "sign-rr" \notin KkPairs
    BY DEF Rows, Gated, KkPairs
  <2>3. ASSUME said # "INCONCLUSIVE"
        PROVE  \A x \in Gated : /\ VerdictOf(x) \in Verdicts \ {"INCONCLUSIVE"}
                                /\ Says(VerdictOf(x), measured[x], null)
                                /\ null # <<>>
    <3> SUFFICES ASSUME NEW x \in Gated
                 PROVE  /\ VerdictOf(x) \in Verdicts \ {"INCONCLUSIVE"}
                        /\ Says(VerdictOf(x), measured[x], null)
                        /\ null # <<>>
      OBVIOUS
    <3>1. VerdictOf(x) # "INCONCLUSIVE" /\ opts.null_design = "rr"
      BY <1>1, <2>1, <2>3, SessionSpeaks
    <3>2. VerdictOf(x) = Isolated(x) /\ NullOk
      BY <1>1, <3>1, RowSpeaks
    <3>3. Sessions(x) = null
      BY <3>1, <3>2 DEF Sessions
    <3>4. /\ measured[x] \in Measurement /\ null \in Seq(Measurement)
          /\ Isolated(x) = judge_v2(measured[x], Crops(null)) /\ VerdictOf(x) \in Verdicts
      BY <1>1, <2>2, <3>3, RowJudged
    <3>5. Says(VerdictOf(x), measured[x], null)
      BY <3>2, <3>4, JudgedAgainst
    <3> QED BY <1>1, <3>1, <3>2, <3>4, <3>5, AcceptedNull
  <2>4. ASSUME said # "INCONCLUSIVE"
        PROVE  /\ said = Worse(KkCombined, VerdictOf("sign-rr"))
               /\ KkCombined \in Verdicts /\ VerdictOf("sign-rr") \in Verdicts
               /\ \A p \in KkPairs : VerdictOf(p) \in Verdicts
    BY <1>1, <2>1, <2>4, SessionSpeaks
  <2>5. ASSUME said # "INCONCLUSIVE", \A p \in KkPairs : VerdictOf(p) \in {"PASS", "SHAPE"}
        PROVE  Shaped = Shapes
    BY <2>2, <2>3, <2>5 DEF Shapes, Says
  <2>6. CASE said = "PASS"
    <3>1. KkCombined = "PASS" /\ VerdictOf("sign-rr") = "PASS"
      BY <2>4, <2>6, WorseOfTwo
    <3>2. /\ \A p \in KkPairs : VerdictOf(p) \in {"PASS", "SHAPE"}
          /\ Cardinality(Shapes) <= 1
      BY <2>4, <2>6, <3>1, Combined
    <3>3. Cardinality(Shaped) <= 1
      BY <2>5, <2>6, <3>2
    <3>4. \A x \in Gated : Quiet(measured[x])
      BY <2>2, <2>3, <2>6, <3>1, <3>2 DEF Says
    <3>5. ~BeyondAll(measured["sign-rr"], null)
      BY <2>2, <2>3, <2>6, <3>1 DEF Says
    <3> QED BY <2>6, <3>3, <3>4, <3>5
  <2>7. CASE said = "SHAPE"
    <3>1. /\ KkCombined \in {"PASS", "SHAPE"} /\ VerdictOf("sign-rr") \in {"PASS", "SHAPE"}
          /\ KkCombined = "SHAPE" \/ VerdictOf("sign-rr") = "SHAPE"
      BY <2>4, <2>7, WorseOfTwo
    <3>2. /\ \A p \in KkPairs : VerdictOf(p) \in {"PASS", "SHAPE"}
          /\ KkCombined = "SHAPE" => Cardinality(Shapes) >= 2
      BY <2>4, <2>7, <3>1, Combined
    <3>3. KkCombined = "SHAPE" => Cardinality(Shaped) >= 2
      BY <2>5, <2>7, <3>2
    <3>4. \A x \in Gated : Quiet(measured[x])
      BY <2>2, <2>3, <2>7, <3>1, <3>2 DEF Says
    <3>5. VerdictOf("sign-rr") = "SHAPE" => BeyondAll(measured["sign-rr"], null)
      BY <2>2, <2>3, <2>7 DEF Says
    <3> QED BY <2>7, <3>1, <3>3, <3>4, <3>5
  <2>8. CASE said = "FAIL"
    <3>1. KkCombined = "FAIL" \/ VerdictOf("sign-rr") = "FAIL"
      BY <2>4, <2>8, WorseOfTwo
    <3>2. KkCombined = "FAIL" => \E p \in KkPairs : VerdictOf(p) = "FAIL"
      BY <2>4, <2>8, Combined
    <3>3. \E x \in Gated : VerdictOf(x) = "FAIL"
      BY <2>2, <3>1, <3>2
    <3>4. \E x \in Gated : BeyondLine(measured[x])
      BY <2>3, <2>8, <3>3 DEF Says
    <3>5. \A x \in Gated : measured[x].enough
      BY <2>3, <2>8 DEF Says, Quiet, Verdicts
    <3> QED BY <2>8, <3>4, <3>5
  <2> QED BY <2>6, <2>7, <2>8
<1>2. CollectedOK /\ OrderInv => VerdictSaysWhatWasMeasured
  BY <1>1 DEF VerdictSaysWhatWasMeasured
<1> QED BY <1>2, ReportFollows, PTL

\* No row is judged PASS or SHAPE from a null that was rejected or a bank that
\* is empty.
THEOREM NothingFromNothing == Spec => []NoVerdictFromNothing
<1>1. ASSUME CollectedOK, NullOk PROVE NullIsWhole
  BY <1>1, AcceptedNull DEF NullIsWhole
<1>2. ASSUME CollectedOK, OrderInv, Reported,
             NEW row \in Rows, report.rows[row].isolated \in {"PASS", "SHAPE"}
      PROVE  /\ Quiet(measured[row])
             /\ row \notin Gated \/ opts.null_design = "rr" => NullIsWhole
             /\ row \in Gated /\ opts.null_design = "ss" => aa_bank # <<>> /\ rr_bank # <<>>
  <2>1. report.rows[row].isolated = Isolated(row)
    BY <1>2, ReportSays
  <2>2. Quiet(measured[row]) /\ Sessions(row) # <<>>
    BY <1>2, <2>1, RowJudged, JudgedAgainst DEF Says
  <2>3. ASSUME row \notin Gated \/ opts.null_design = "rr" PROVE NullIsWhole
    <3>1. Sessions(row) = IF NullOk THEN null ELSE <<>>
      BY <2>3 DEF Sessions, Gated
    <3> QED BY <1>1, <1>2, <2>2, <3>1
  <2>4. ASSUME opts.null_design = "ss"
        PROVE  aa_bank # <<>> /\ rr_bank # <<>>
    <3>1. Len(aa_bank) >= 2 /\ Len(rr_bank) >= 1
      BY <1>2, <2>4, BanksAreWhole DEF ReportHasWholeBanks
    <3> QED BY <3>1
  <2> QED BY <2>2, <2>3, <2>4
<1>3. ASSUME CollectedOK, OrderInv, Reported,
             NEW i \in DOMAIN report.repeats, report.repeats[i] \in {"PASS", "SHAPE"}
      PROVE  Quiet(aa_bank[i]) /\ NullIsWhole
  <2>1. report.repeats = Repeats /\ DOMAIN Repeats = DOMAIN aa_bank
    BY <1>3, ReportSays DEF Repeats
  <2>2. Says(Repeats[i], aa_bank[i], IF NullOk THEN null ELSE <<>>)
    BY <1>3, <2>1, RepeatJudged
  <2> QED BY <1>1, <1>3, <2>1, <2>2 DEF Says
<1>4. CollectedOK /\ OrderInv => NoVerdictFromNothing
  BY <1>2, <1>3 DEF NoVerdictFromNothing
<1> QED BY <1>4, ReportFollows, PTL

\* The readings of sign-rr on its own, under "ss".
RawStates == {"absent", "no_reference_bank", "clears", "inconclusive_pool_offset",
              "fail_beyond_reference"}

\* What each reading of sign-rr says.
LEMMA RawReading ==
  ASSUME NEW m \in Measurement, NEW bank \in Seq(Measurement)
  PROVE  LET state == rr_raw_state(m.t, bank)
         IN /\ state \in RawStates
            /\ state = "no_reference_bank" <=> bank = <<>>
            /\ state = "clears" => ~BeyondLine(m)
            /\ state = "fail_beyond_reference" =>
                 BeyondLine(m) /\ \A i \in DOMAIN bank : m.t > bank[i].t
<1>1. m.t \in Nat /\ T_THRESHOLD \in Nat /\ \A i \in DOMAIN bank : bank[i].t \in Nat
  <2>1. \A i \in DOMAIN bank : bank[i] \in Measurement
    OBVIOUS
  <2> QED BY <2>1, ThresholdAssumption DEF Measurement
<1>2. CASE bank = <<>>
  <2>1. rr_raw_state(m.t, bank) = "no_reference_bank"
    BY <1>2 DEF rr_raw_state
  <2> QED BY <1>2, <2>1 DEF RawStates
<1>3. CASE bank # <<>> /\ m.t < T_THRESHOLD
  <2>1. ~(m.t >= T_THRESHOLD)
    BY <1>1, <1>3
  <2>2. rr_raw_state(m.t, bank) = "clears"
    BY <1>3, <2>1 DEF rr_raw_state
  <2> QED BY <1>1, <1>3, <2>1, <2>2 DEF RawStates, BeyondLine
<1>4. CASE bank # <<>> /\ m.t >= T_THRESHOLD
  <2>1. rr_raw_state(m.t, bank) = IF \E i \in DOMAIN bank : m.t <= bank[i].t
                                  THEN "inconclusive_pool_offset" ELSE "fail_beyond_reference"
    BY <1>4 DEF rr_raw_state
  <2> QED BY <1>1, <1>4, <2>1 DEF RawStates, BeyondLine
<1> QED BY <1>1, <1>2, <1>3, <1>4

\* Under "ss" sign-rr fails its raw reading only against a whole bank, every
\* session of which it exceeds, and clears it only inside the line.
THEOREM RawReadingIsSound == Spec => []RawStateIsSound
<1>1. CollectedOK /\ OrderInv /\ ReportHasWholeBanks => RawStateIsSound
  <2> SUFFICES ASSUME CollectedOK, OrderInv, ReportHasWholeBanks, Reported,
                      opts.null_design = "ss"
               PROVE  /\ report.rr_raw_state = "fail_beyond_reference" =>
                           /\ BeyondLine(measured["sign-rr"])
                           /\ Len(rr_bank) = RrSessions
                           /\ \A i \in DOMAIN rr_bank : measured["sign-rr"].t > rr_bank[i].t
                      /\ report.rr_raw_state = "clears" => report.rows["sign-rr"].isolated # "FAIL"
                      /\ report.rr_raw_state # "no_reference_bank"
    BY DEF RawStateIsSound
  <2>1. measured["sign-rr"] \in Measurement /\ "sign-rr" \in Rows
    BY DEF OrderInv, Experiments, Rows, Gated
  <2>2. rr_bank \in Seq(Measurement)
    BY DEF CollectedOK
  <2>3. report.rr_raw_state = rr_raw_state(measured["sign-rr"].t, rr_bank)
    <3>1. report = TheReport
      BY DEF OrderInv
    <3>2. opts.null_design # "rr"
      OBVIOUS
    <3> QED BY <3>1, <3>2 DEF TheReport
  <2>4. Len(rr_bank) = RrSessions /\ rr_bank # <<>>
    <3>1. Len(rr_bank) = RrSessions /\ Len(rr_bank) >= 1
      BY DEF ReportHasWholeBanks
    <3> QED BY <3>1
  <2>5. report.rows["sign-rr"].isolated = "FAIL" => BeyondLine(measured["sign-rr"])
    BY <2>1, ReportSays, RowJudged, JudgedAgainst DEF Says
  <2> QED BY <2>1, <2>2, <2>3, <2>4, <2>5, RawReading
<1> QED BY <1>1, ReportFollows, WholeBanks, PTL

\* Type correctness, and no loop of the session overruns its count.
THEOREM CtTypeCorrect == Spec => []CtTypeOK
<1>1. CollectedOK /\ OrderInv => CtTypeOK
  <2> SUFFICES ASSUME CollectedOK, OrderInv PROVE CtTypeOK
    OBVIOUS
  <2> DEFINE Reports ==
        [session_verdict : Verdicts,
         rows : [Rows -> [isolated : Verdicts, verdict : Verdicts]],
         repeats : Seq(Verdicts),
         gated : SUBSET Rows,
         rr_raw_state : {"absent", "no_reference_bank", "clears", "inconclusive_pool_offset",
                         "fail_beyond_reference"}]
  <2>1. ASSUME Reported PROVE report \in Reports
    <3>1. report = TheReport
      BY <2>1 DEF OrderInv
    <3>2. \A row \in Rows : Isolated(row) \in Verdicts /\ VerdictOf(row) \in Verdicts
      BY <2>1, RowJudged
    <3>3. SessionVerdict \in Verdicts
      <4>1. SessionVerdict = "INCONCLUSIVE" \/ SessionVerdict \in Verdicts
        BY <2>1, SessionSpeaks, WorseOfTwo
      <4> QED BY <4>1 DEF Verdicts
    <3>4. Gated \subseteq Rows
      BY DEF Rows
    <3>5. measured["sign-rr"] \in Measurement /\ rr_bank \in Seq(Measurement)
      BY <2>1 DEF OrderInv, CollectedOK, Experiments, Rows, Gated
    <3>6. rr_raw_state(measured["sign-rr"].t, rr_bank) \in RawStates
      BY <3>5, RawReading
    <3>7. TheReport \in Reports
      <4> DEFINE raw == IF opts.null_design = "rr" THEN "absent"
                        ELSE rr_raw_state(measured["sign-rr"].t, rr_bank)
                 rows == [row \in Rows |->
                            [isolated |-> Isolated(row), verdict |-> VerdictOf(row)]]
                 gated == IF opts.null_design = "rr" THEN Gated ELSE {}
      <4>1. raw \in RawStates
        BY <3>6 DEF RawStates
      <4>2. rows \in [Rows -> [isolated : Verdicts, verdict : Verdicts]]
        BY <3>2
      <4>3. gated \in SUBSET Rows
        BY <3>4
      <4>4. TheReport = [session_verdict |-> SessionVerdict, rows |-> rows,
                         repeats |-> Repeats, gated |-> gated, rr_raw_state |-> raw]
        BY DEF TheReport
      <4>5. Repeats \in Seq(Verdicts)
        <5>1. DOMAIN aa_bank = 1 .. Len(aa_bank) /\ Len(aa_bank) \in Nat
          <6>1. aa_bank \in Seq(Measurement)
            BY DEF CollectedOK
          <6> QED BY <6>1
        <5>2. \A i \in DOMAIN aa_bank : Repeats[i] \in Verdicts
          BY RepeatJudged DEF Says
        <5>3. Repeats \in [1 .. Len(aa_bank) -> Verdicts]
          BY <5>1, <5>2 DEF Repeats
        <5> QED BY <5>1, <5>3
      <4> HIDE DEF raw, rows, gated
      <4> QED BY <3>3, <4>1, <4>2, <4>3, <4>4, <4>5 DEF RawStates
    <3> QED BY <3>1, <3>7
  <2>2. report \in {NoReport} \cup Reports
    BY <2>1 DEF Reported
  <2> QED BY <2>2 DEF CtTypeOK, CollectedOK
<1> QED BY <1>1, ReportFollows, PTL
=============================================================================
