SPECIFICATION Spec
CONSTANTS
  a1 = a1  a2 = a2  a3 = a3
  p1 = p1  p2 = p2
  r1 = r1  nobody = nobody
  Acceptors <- ThreeAcceptors
  Proposers <- TwoProposers
  Requestor = r1
  Nobody = nobody
  ExpectedAcceptors = 2
  ExpectedProposers = 1
  MaxLost = 1
SYMMETRY Symmetry
INVARIANTS TypeOK OneDecisionPerVersion RecoveredOnce NobodyIsEarly RecoveryIsRestarted RecoveryIsKept
PROPERTIES VersionsOnlyRise ImplementsChain
CHECK_DEADLOCK FALSE
