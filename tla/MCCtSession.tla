---------------------------- MODULE MCCtSession ----------------------------
(***************************************************************************)
(* Values for the model checking of CtSession: t beyond the line is 1 or   *)
(* more, a session has two null sessions.                                  *)
(***************************************************************************)
EXTENDS CtSession

Of(enough, t, crop) == [enough |-> enough, t |-> t, crop |-> crop]

Inside == Of(TRUE, 0, 0)
Shaped == Of(TRUE, 0, 1)
Beyond == Of(TRUE, 1, 0)
FarBeyond == Of(TRUE, 2, 1)
TooFew == Of(FALSE, 1, 1)

Command(samples, nulls, design, aa, rr) ==
  [samples |-> samples, null_sessions |-> nulls, null_design |-> design,
   aa_repeats |-> aa, rr_sessions |-> rr]

\* The default design, every refusal, and nothing else.
DefaultCommands ==
  {Command(4600, 2, "rr", NotGiven, NotGiven), Command(4599, 2, "rr", NotGiven, NotGiven),
   Command(4600, 1, "rr", NotGiven, NotGiven), Command(4600, 2, "rr", 2, NotGiven)}

\* The validation design with its banks, and the refusals of it.
ValidationCommands ==
  {Command(4600, 2, "ss", aa, rr) : aa \in {NotGiven, 0, 1, 2}, rr \in {NotGiven, 0, 1}}

BothDesigns == DefaultCommands \cup ValidationCommands

\* All that can be told apart wherever a verdict depends on it; a validation
\* session varies what its banks and sign-rr yield.
SomeOutcomes ==
  [rr |-> [x \in Experiments \cup {"null", "aa bank", "rr bank"} |->
            CASE x = "null" -> {Inside, Shaped, Beyond}
              [] x = "control-flat" -> {Inside, Beyond, TooFew}
              [] x = "control-leaky" -> {Inside, Beyond}
              [] x \in Screening -> {Shaped}
              [] OTHER -> {Inside, Shaped, Beyond, TooFew}],
   ss |-> [x \in Experiments \cup {"null", "aa bank", "rr bank"} |->
            CASE x \in {"null", "sign-aa"} -> {Inside, TooFew}
              [] x \in {"aa bank", "sign-kk-0"} -> {Inside, Shaped, TooFew}
              [] x = "rr bank" -> {Inside, Beyond, FarBeyond}
              [] x = "sign-rr" -> {Inside, Beyond, FarBeyond, TooFew}
              [] x = "control-leaky" -> {Beyond}
              [] OTHER -> {Inside}]]
=============================================================================
