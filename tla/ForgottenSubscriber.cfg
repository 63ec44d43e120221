SPECIFICATION FlowSpec
CONSTANTS
  p1 = p1  p2 = p2  w1 = w1  b1 = b1  b2 = b2
  Proposers <- OneProposer
  ExpectedProposers = 1
  Backups <- OneBackup
  Waits <- OneWait
  CrashingProposers <- NoOne
  MaxChanges = 1
  MaxAnswers = 1
INVARIANT WhoAskedIsInformed
CHECK_DEADLOCK FALSE
