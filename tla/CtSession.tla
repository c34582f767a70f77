----------------------------- MODULE CtSession -----------------------------
(***************************************************************************)
(* One session of the timing harness (rust/crates/falcon-ct): read the     *)
(* options, measure the null sessions, the two synthetic controls and the  *)
(* A/A control, build the reference banks of the "ss" design, measure the  *)
(* gated and the informational experiments, judge all of it, write the     *)
(* report.                                                                 *)
(*                                                                         *)
(* A measurement is what the verdicts read of it: whether both classes     *)
(* have enough samples, the absolute raw Welch t and the crop statistic,   *)
(* the last two as ranks on a scale of naturals.  How timings become       *)
(* statistics is left out, and so are the summaries of sessions that no    *)
(* verdict is given on and what the raw CSV files hold.  welch_t is finite for every input, so   *)
(* no statistic is NaN.                                                    *)
(*                                                                         *)
(* A row is judged when it is measured, from controls and banks that are   *)
(* complete by then and change no more; the verdicts are operators of what *)
(* has been measured, and the report is their values when it is written.   *)
(***************************************************************************)
EXTENDS Naturals, Sequences, FiniteSets

CONSTANTS
  T_THRESHOLD,       \* 4.5 on the scale of t
  MIN_SAMPLES,       \* the smallest --samples
  MIN_NULL_SESSIONS, \* the smallest --null-sessions
  NotGiven,          \* an option that was not supplied
  NotRun,            \* the measurement of an experiment that has not run
  NoReport,          \* the report before it is written
  OptionChoices,     \* the command lines
  Outcomes           \* Outcomes[d][x]: the measurements stage x of a design d session can yield

Options ==
  [samples : Nat, null_sessions : Nat, null_design : {"rr", "ss"},
   aa_repeats : Nat \cup {NotGiven}, rr_sessions : Nat \cup {NotGiven}]

Measurement == [enough : BOOLEAN, t : Nat, crop : Nat]

KkPairs == {"sign-kk-0", "sign-kk-1", "sign-kk-2"}
Gated == KkPairs \cup {"sign-rr"}
Screening == {"sign-key", "sign-msg", "verify-ctrl", "keygen"}
Controls == {"control-flat", "control-leaky"}
Rows == {"sign-aa"} \cup Gated \cup Screening
Experiments == Controls \cup Rows

\* What runs after an experiment; the banks come between sign-aa and sign-kk-0.
Following ==
  [x \in Experiments |->
     CASE x = "control-flat"  -> "control-leaky"
       [] x = "control-leaky" -> "sign-aa"
       [] x = "sign-aa"       -> "aa bank"
       [] x = "sign-kk-0"     -> "sign-kk-1"
       [] x = "sign-kk-1"     -> "sign-kk-2"
       [] x = "sign-kk-2"     -> "sign-rr"
       [] x = "sign-rr"       -> "sign-key"
       [] x = "sign-key"      -> "sign-msg"
       [] x = "sign-msg"      -> "verify-ctrl"
       [] x = "verify-ctrl"   -> "keygen"
       [] x = "keygen"        -> "report"]

ASSUME ThresholdAssumption == T_THRESHOLD \in Nat \ {0} /\ MIN_NULL_SESSIONS \in Nat \ {0}
ASSUME ChoiceAssumption == OptionChoices \subseteq Options /\ NotGiven \notin Nat
ASSUME OutcomeAssumption ==
  /\ Outcomes \in [{"rr", "ss"} ->
       [Experiments \cup {"null", "aa bank", "rr bank"} -> SUBSET Measurement]]
  /\ NotRun \notin Measurement

VARIABLES
  pc,       \* what the session does next
  opts,     \* its options
  null,     \* the null sessions so far
  measured, \* the measurement of each experiment
  aa_bank,  \* "ss": the A/A reference repeats
  rr_bank,  \* "ss": the null-rr reference sessions
  report

vars == <<pc, opts, null, measured, aa_bank, rr_bank, report>>

---------------------------------------------------------------------------
(* Options *)

\* check_v4_options: an option that would not be honoured is refused, and so
\* is an "ss" session without a bank of two.
BankOptionsRefused(o) ==
  \/ o.aa_repeats = 0 \/ o.rr_sessions = 0
  \/ o.null_design = "rr" /\ (o.aa_repeats # NotGiven \/ o.rr_sessions # NotGiven)
  \/ o.null_design = "ss" /\ o.aa_repeats \in {NotGiven, 1}

Refused(o) ==
  \/ BankOptionsRefused(o)
  \/ o.samples < MIN_SAMPLES
  \/ o.null_sessions < MIN_NULL_SESSIONS

\* How many reference sessions the banks are to have.
AaRepeats == IF opts.aa_repeats = NotGiven THEN 0 ELSE opts.aa_repeats
RrSessions == IF opts.rr_sessions = NotGiven THEN opts.null_sessions ELSE opts.rr_sessions

---------------------------------------------------------------------------
(* Judging one measurement *)

Verdicts == {"PASS", "SHAPE", "FAIL", "INCONCLUSIVE"}

BeyondLine(m) == m.t >= T_THRESHOLD

\* judge_raw_only: the synthetic controls.
judge_raw_only(m) ==
  CASE ~m.enough -> "INCONCLUSIVE"
    [] m.enough /\ BeyondLine(m) -> "FAIL"
    [] m.enough /\ ~BeyondLine(m) -> "PASS"

\* The empirical p = (ge + 1) / (n + 1) of a crop statistic is below 1 / n.
BelowEmpiricalP(crop, bank) ==
  LET n  == Len(bank)
      ge == Cardinality({i \in 1 .. n : bank[i] >= crop})
  IN (ge + 1) * n < n + 1

\* judge_v2 without its arm for an empty null: p is (0 + 1) / (0 + 1).
Faulty_EmptyNullJudges(m, bank) ==
  CASE ~m.enough -> "INCONCLUSIVE"
    [] m.enough /\ BeyondLine(m) -> "FAIL"
    [] m.enough /\ ~BeyondLine(m) ->
         IF bank # <<>> /\ BelowEmpiricalP(m.crop, bank) THEN "SHAPE" ELSE "PASS"

\* The raw statistic decides first; the crop statistic is read against a bank.
judge_v2(m, bank) ==
  CASE bank = <<>> -> IF BeyondLine(m) THEN "FAIL" ELSE "INCONCLUSIVE"
    [] bank # <<>> /\ ~m.enough -> "INCONCLUSIVE"
    [] bank # <<>> /\ m.enough /\ BeyondLine(m) -> "FAIL"
    [] bank # <<>> /\ m.enough /\ ~BeyondLine(m) ->
         IF BelowEmpiricalP(m.crop, bank) THEN "SHAPE" ELSE "PASS"

\* Verdict::worse.
Badness == [v \in Verdicts |->
  CASE v = "PASS" -> 0 [] v = "SHAPE" -> 1 [] v = "FAIL" -> 2 [] v = "INCONCLUSIVE" -> 3]
Worse(u, v) == IF Badness[u] >= Badness[v] THEN u ELSE v

\* The raw reading of sign-rr against its own reference sessions.
Faulty_BeyondOneReference(t, bank) ==
  CASE t < T_THRESHOLD -> "clears"
    [] t >= T_THRESHOLD /\ (\A i \in DOMAIN bank : t <= bank[i].t) -> "inconclusive_pool_offset"
    [] OTHER -> "fail_beyond_reference"
rr_raw_state(t, bank) ==
  CASE bank = <<>> -> "no_reference_bank"
    [] bank # <<>> /\ t < T_THRESHOLD -> "clears"
    [] bank # <<>> /\ t >= T_THRESHOLD ->
         IF \E i \in DOMAIN bank : t <= bank[i].t
         THEN "inconclusive_pool_offset" ELSE "fail_beyond_reference"

---------------------------------------------------------------------------
(* Judging the session *)

Crops(sessions) == [i \in DOMAIN sessions |-> sessions[i].crop]

\* fold_null and null_from_sessions: every null session ran, has enough
\* samples and passes on the raw statistic.
NullOk ==
  /\ Len(null) = opts.null_sessions
  /\ null # <<>>
  /\ \A i \in DOMAIN null : null[i].enough /\ ~BeyondLine(null[i])

GateCrops == IF NullOk THEN Crops(null) ELSE <<>>

FlatVerdict == judge_raw_only(measured["control-flat"])
LeakyVerdict == judge_raw_only(measured["control-leaky"])

ControlsOk == NullOk /\ FlatVerdict = "PASS" /\ LeakyVerdict = "FAIL"

\* The reference each row's crop statistic is read against; before the banks it
\* was the null for all of them.
Faulty_OneReference(row) == GateCrops
Bank(row) ==
  CASE opts.null_design = "ss" /\ row \in KkPairs -> Crops(aa_bank)
    [] opts.null_design = "ss" /\ row = "sign-rr" -> Crops(rr_bank)
    [] OTHER -> GateCrops

Isolated(row) == judge_v2(measured[row], Bank(row))

\* flat_verdict_under_aa: only a PASS of the A/A control lets the session speak.
Faulty_OnlyFailSilences(aa, flat) == IF aa = "FAIL" THEN "INCONCLUSIVE" ELSE flat
FlatUnderAa(aa, flat) == IF aa = "PASS" THEN flat ELSE "INCONCLUSIVE"

FlatForRule ==
  FlatUnderAa(Isolated("sign-aa"), IF ControlsOk THEN FlatVerdict ELSE "INCONCLUSIVE")

\* apply_controls; the A/A control itself is reported as it was judged.
VerdictOf(row) ==
  IF row = "sign-aa" \/ (FlatForRule = "PASS" /\ LeakyVerdict = "FAIL")
  THEN Isolated(row)
  ELSE "INCONCLUSIVE"

\* The combination rule of the three key pairs.
Shapes == {p \in KkPairs : VerdictOf(p) = "SHAPE"}
Faulty_IgnoresInconclusive ==
  CASE \E p \in KkPairs : VerdictOf(p) = "FAIL" -> "FAIL"
    [] OTHER -> IF Cardinality(Shapes) >= 2 THEN "SHAPE" ELSE "PASS"
KkCombined ==
  LET Some(v) == \E p \in KkPairs : VerdictOf(p) = v
  IN CASE Some("INCONCLUSIVE") -> "INCONCLUSIVE"
       [] ~Some("INCONCLUSIVE") /\ Some("FAIL") -> "FAIL"
       [] OTHER -> IF Cardinality(Shapes) >= 2 THEN "SHAPE" ELSE "PASS"

\* An "ss" session is for validation only: its rows are judged, the session is not.
SessionVerdict ==
  IF opts.null_design = "rr" THEN Worse(KkCombined, VerdictOf("sign-rr")) ELSE "INCONCLUSIVE"

\* The A/A repeats of an "ss" session are rows of the report too: judged against
\* the null, and reported as they were judged, whatever the controls say.
Repeats == [i \in DOMAIN aa_bank |-> judge_v2(aa_bank[i], GateCrops)]

TheReport ==
  [session_verdict |-> SessionVerdict,
   rows |-> [row \in Rows |-> [isolated |-> Isolated(row), verdict |-> VerdictOf(row)]],
   repeats |-> Repeats,
   gated |-> IF opts.null_design = "rr" THEN Gated ELSE {},
   rr_raw_state |-> IF opts.null_design = "rr" THEN "absent"
                    ELSE rr_raw_state(measured["sign-rr"].t, rr_bank)]

---------------------------------------------------------------------------
(* The session *)

Init ==
  /\ pc = "options"
  /\ opts \in OptionChoices
  /\ null = <<>>
  /\ measured = [x \in Experiments |-> NotRun]
  /\ aa_bank = <<>>
  /\ rr_bank = <<>>
  /\ report = NoReport

Faulty_OneMore(sessions, n) == Len(sessions) <= n
MoreToRun(sessions, n) == Len(sessions) < n

\* The session ends with an error: nothing more is written.
Stop == pc' = "stopped" /\ UNCHANGED <<opts, null, measured, aa_bank, rr_bank, report>>

\* The options are checked, the fixtures' keys generated; either can fail.
Prepare ==
  /\ pc = "options"
  /\ ~Refused(opts)
  /\ pc' = "null"
  /\ UNCHANGED <<opts, null, measured, aa_bank, rr_bank, report>>

Refuse == pc = "options" /\ Stop

NullSession ==
  /\ pc = "null"
  /\ MoreToRun(null, opts.null_sessions)
  /\ \E m \in Outcomes[opts.null_design]["null"] : null' = Append(null, m)
  /\ UNCHANGED <<pc, opts, measured, aa_bank, rr_bank, report>>

\* The null is complete, or a session could not run and the loop breaks.
NullEnds ==
  /\ pc = "null"
  /\ pc' = "control-flat"
  /\ UNCHANGED <<opts, null, measured, aa_bank, rr_bank, report>>

Measure(x) ==
  /\ pc = x
  /\ \E m \in Outcomes[opts.null_design][x] : measured' = [measured EXCEPT ![x] = m]
  /\ pc' = IF x = "sign-aa" /\ opts.null_design = "rr" THEN "sign-kk-0" ELSE Following[x]
  /\ UNCHANGED <<opts, null, aa_bank, rr_bank, report>>

\* collect_sessions: a bank exists at its size, or the session stops.
Faulty_KeepsShortBank(then) ==
  pc' = then /\ UNCHANGED <<opts, null, measured, aa_bank, rr_bank, report>>
ReferenceFails(then) == Stop

AaReference ==
  /\ pc = "aa bank"
  /\ MoreToRun(aa_bank, AaRepeats)
  /\ \/ /\ \E m \in Outcomes[opts.null_design]["aa bank"] : aa_bank' = Append(aa_bank, m)
        /\ UNCHANGED <<pc, opts, null, measured, rr_bank, report>>
     \/ ReferenceFails("rr bank")

RrReference ==
  /\ pc = "rr bank"
  /\ MoreToRun(rr_bank, RrSessions)
  /\ \/ /\ \E m \in Outcomes[opts.null_design]["rr bank"] : rr_bank' = Append(rr_bank, m)
        /\ UNCHANGED <<pc, opts, null, measured, aa_bank, report>>
     \/ ReferenceFails("sign-kk-0")

BankEnds ==
  /\ \/ pc = "aa bank" /\ ~MoreToRun(aa_bank, AaRepeats) /\ pc' = "rr bank"
     \/ pc = "rr bank" /\ ~MoreToRun(rr_bank, RrSessions) /\ pc' = "sign-kk-0"
  /\ UNCHANGED <<opts, null, measured, aa_bank, rr_bank, report>>

\* report.json is written first, the raw samples after it.
WriteReport ==
  /\ pc = "report"
  /\ report' = TheReport
  /\ pc' = "csv files"
  /\ UNCHANGED <<opts, null, measured, aa_bank, rr_bank>>

WriteCsvFiles ==
  /\ pc = "csv files"
  /\ pc' = "done"
  /\ UNCHANGED <<opts, null, measured, aa_bank, rr_bank, report>>

WriteFails == pc \in {"report", "csv files"} /\ Stop

Next ==
  \/ Prepare \/ Refuse
  \/ NullSession \/ NullEnds
  \/ \E x \in Experiments : Measure(x)
  \/ AaReference \/ RrReference \/ BankEnds
  \/ WriteReport \/ WriteCsvFiles \/ WriteFails

Spec == Init /\ [][Next]_vars

---------------------------------------------------------------------------
(* Properties *)

CtTypeOK ==
  /\ pc \in Experiments \cup {"options", "null", "aa bank", "rr bank", "report", "csv files",
                              "done", "stopped"}
  /\ opts \in Options
  /\ null \in Seq(Measurement) /\ Len(null) <= opts.null_sessions
  /\ measured \in [Experiments -> Measurement \cup {NotRun}]
  /\ aa_bank \in Seq(Measurement) /\ Len(aa_bank) <= AaRepeats
  /\ rr_bank \in Seq(Measurement) /\ Len(rr_bank) <= RrSessions
  /\ report \in {NoReport} \cup
       [session_verdict : Verdicts,
        rows : [Rows -> [isolated : Verdicts, verdict : Verdicts]],
        repeats : Seq(Verdicts),
        gated : SUBSET Rows,
        rr_raw_state : {"absent", "no_reference_bank", "clears", "inconclusive_pool_offset",
                        "fail_beyond_reference"}]

Reported == report # NoReport

Quiet(m) == m.enough /\ m.t < T_THRESHOLD
BeyondAll(m, sessions) == \A i \in DOMAIN sessions : m.crop > sessions[i].crop

\* A session speaks only when every control behaved: each null session ran and
\* was quiet, the flat control was quiet, the leaky one was caught, and the A/A
\* control was quiet and inside the null.  The five readings reach the verdict
\* by five different routes through the code.
ControlsBehaved ==
  /\ Len(null) = opts.null_sessions
  /\ \A i \in DOMAIN null : Quiet(null[i])
  /\ Quiet(measured["control-flat"])
  /\ measured["control-leaky"].enough /\ BeyondLine(measured["control-leaky"])
  /\ Quiet(measured["sign-aa"]) /\ ~BeyondAll(measured["sign-aa"], null)

ControlsGateTheSession ==
  Reported /\ report.session_verdict # "INCONCLUSIVE" => ControlsBehaved

\* The words of a session that speaks: PASS means that no gated experiment went
\* beyond the line, that sign-rr and all key pairs but one stayed inside the
\* null; FAIL means that one went beyond the line; none of the two lacked
\* samples.
VerdictSaysWhatWasMeasured ==
  Reported =>
    LET Shaped == {x \in KkPairs : BeyondAll(measured[x], null)}
    IN /\ report.session_verdict = "PASS" =>
            /\ \A x \in Gated : Quiet(measured[x])
            /\ Cardinality(Shaped) <= 1
            /\ ~BeyondAll(measured["sign-rr"], null)
       /\ report.session_verdict = "SHAPE" =>
            /\ \A x \in Gated : Quiet(measured[x])
            /\ Cardinality(Shaped) >= 2 \/ BeyondAll(measured["sign-rr"], null)
       /\ report.session_verdict = "FAIL" =>
            /\ \A x \in Gated : measured[x].enough
            /\ \E x \in Gated : BeyondLine(measured[x])

\* No row, not even one that is read on its own, is judged PASS or SHAPE from a
\* null that was rejected or a bank that is empty; nor is an A/A repeat, which no
\* control silences.
NullIsWhole == Len(null) = opts.null_sessions /\ \A i \in DOMAIN null : Quiet(null[i])

NoVerdictFromNothing ==
  Reported =>
    /\ \A row \in Rows : report.rows[row].isolated \in {"PASS", "SHAPE"} =>
         /\ Quiet(measured[row])
         /\ row \notin Gated \/ opts.null_design = "rr" => NullIsWhole
         /\ row \in Gated /\ opts.null_design = "ss" => aa_bank # <<>> /\ rr_bank # <<>>
    /\ \A i \in DOMAIN report.repeats : report.repeats[i] \in {"PASS", "SHAPE"} =>
         Quiet(aa_bank[i]) /\ NullIsWhole

\* A report is never built from a bank that is shorter than what was asked for,
\* or from one A/A repeat.
ReportHasWholeBanks ==
  Reported /\ opts.null_design = "ss" =>
    /\ Len(aa_bank) = opts.aa_repeats /\ Len(aa_bank) >= 2
    /\ Len(rr_bank) = RrSessions /\ Len(rr_bank) >= 1

\* The three readings of sign-rr under "ss": beyond every reference session of a
\* whole bank, inside the line, or neither.
RawStateIsSound ==
  Reported /\ opts.null_design = "ss" =>
    /\ report.rr_raw_state = "fail_beyond_reference" =>
         /\ BeyondLine(measured["sign-rr"])
         /\ Len(rr_bank) = RrSessions
         /\ \A i \in DOMAIN rr_bank : measured["sign-rr"].t > rr_bank[i].t
    /\ report.rr_raw_state = "clears" => report.rows["sign-rr"].isolated # "FAIL"
    /\ report.rr_raw_state # "no_reference_bank"

\* The rows of a report have verdicts of their own, and a validation session, whose
\* session verdict is always INCONCLUSIVE, still publishes them.  Under either design
\* such a row speaks only when every control behaved, and its word is then about
\* its own reference: FAIL is beyond the line, SHAPE inside the line but beyond every
\* A/A repeat (a key pair of a validation session), every null-rr session (its
\* sign-rr) or every null session (all others).
Reference(row) ==
  CASE opts.null_design = "ss" /\ row \in KkPairs -> aa_bank
    [] opts.null_design = "ss" /\ row = "sign-rr" -> rr_bank
    [] OTHER -> null

RowsSpeakUnderTheirControls ==
  Reported =>
    \A row \in Gated \cup Screening :
      LET said == report.rows[row].verdict
          m    == measured[row]
      IN said # "INCONCLUSIVE" =>
           /\ ControlsBehaved
           /\ m.enough
           /\ said = "FAIL" <=> BeyondLine(m)
           /\ said = "SHAPE" <=> ~BeyondLine(m) /\ BeyondAll(m, Reference(row))
=============================================================================
