SPECIFICATION FairFlowSpec
CONSTANTS
  p1 = p1  p2 = p2  w1 = w1  b1 = b1  b2 = b2
  Proposers <- TwoProposers
  ExpectedProposers = 2
  Backups <- TwoBackups
  Waits <- OneWait
  CrashingProposers <- OneProposer
  MaxChanges = 1
  MaxAnswers = 1
INVARIANTS RerouteInvariant FlowInvariant RerouteOnce AddressIsKnown
PROPERTIES LinkIsRerouted WinnerInforms ImplementsRecovery
CHECK_DEADLOCK FALSE
