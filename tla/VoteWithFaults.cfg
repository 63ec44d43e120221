SPECIFICATION FairSpec
CONSTANTS
  p1 = p1  p2 = p2  p3 = p3  r1 = r1
  a1 = a1  a2 = a2  a3 = a3
  HalfRange = 1000
  Version = 2
  FailedBroker <- Broker
  NewAcceptorList <- NewList
  Compared <- EveryKind
  Proposers <- OneProposer
  Requestors <- OneRequestor
  Acceptors <- TwoAcceptors
  ForgetfulAcceptors <- OneAcceptor
  ImpatientProposers <- OneProposer
  LossyAcceptors <- OtherAcceptor
  CrashingVoters <- ProposerAndRequestor
  Backups <- AnyOfTwoBackups
INVARIANTS WinnerHasMajority OutcomeIsFinishedDecision
PROPERTIES OutcomeIsFinal AcceptorsLearnOutcome
CHECK_DEADLOCK FALSE
