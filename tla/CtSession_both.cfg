\* A session under either design.
SPECIFICATION Spec
CONSTANTS
  T_THRESHOLD = 1
  MIN_SAMPLES = 4600
  MIN_NULL_SESSIONS = 2
  NotGiven = NotGiven
  NotRun = NotRun
  NoReport = NoReport
  OptionChoices <- BothDesigns
  Outcomes <- SomeOutcomes
INVARIANTS CtTypeOK ControlsGateTheSession VerdictSaysWhatWasMeasured NoVerdictFromNothing ReportHasWholeBanks RawStateIsSound RowsSpeakUnderTheirControls
CHECK_DEADLOCK FALSE
