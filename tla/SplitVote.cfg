SPECIFICATION Spec
CONSTANTS
  p1 = p1  p2 = p2  p3 = p3  r1 = r1
  a1 = a1  a2 = a2  a3 = a3
  HalfRange = 1000
  Version = 2
  FailedBroker <- Broker
  NewAcceptorList <- NewList
  Compared <- EveryKind
  Proposers <- ThreeProposers
  Requestors <- NoOne
  Acceptors <- ThreeAcceptors
  ForgetfulAcceptors <- NoOne
  ImpatientProposers <- NoOne
  LossyAcceptors <- NoOne
  CrashingVoters <- NoOne
  Backups <- SameBackup
SYMMETRY Symmetry
INVARIANT NoSilentAbandonment
CHECK_DEADLOCK FALSE
