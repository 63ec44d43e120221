----------------------- MODULE PaxosVoteRefinement -----------------------
(***************************************************************************)
(* PaxosVote implements RecoveryDecision when its majorities are reliable. *)
(***************************************************************************)
EXTENDS PaxosVoteSafety

(* Every step keeps winners from voting again. *)
LEMMA WinnerActsNext ==
    TypeInv /\ CountInv /\ OutcomeInv /\ WinnerActs /\ [Next]_vars => WinnerActs'
  <1> SUFFICES ASSUME TypeInv, CountInv, OutcomeInv, WinnerActs, [Next]_vars PROVE WinnerActs'
    OBVIOUS
  <1>1. ASSUME UNCHANGED decision, finished \subseteq finished',
               \A v \in busy : v \in busy' \/ v \in finished' \/ v \notin alive',
               alive' \subseteq alive
        PROVE  WinnerActs'
    BY <1>1 DEF WinnerActs, Winners
  <1>2. ASSUME NEW v \in Voters, NEW p, CommitSelf(v, p), UNCHANGED <<finished, alive>>
        PROVE  WinnerActs'
    <2>1. v \in busy' /\ busy \subseteq busy' /\ \A w \in Voters \ {v} : decision'[w] = decision[w]
      BY <1>2 DEF CommitSelf, TypeInv, TypeOK
    <2> QED
      BY <1>2, <2>1 DEF WinnerActs, Winners
  <1>3. ASSUME NEW v \in Voters, NEW p, NewProposal(v, p), UNCHANGED alive PROVE WinnerActs'
    BY <1>1, <1>2, <1>3 DEF NewProposal
  <1>4. ASSUME NEW v \in Voters, NEW a \in Acceptors, voterPhase2(v, a) PROVE WinnerActs'
    <2>1. UNCHANGED <<finished, alive>>
      BY <1>4 DEF voterPhase2
    <2>2. UNCHANGED <<busy, decision>> \/ CommitSelf(v, proposal[v])
      BY <1>4 DEF voterPhase2
    <2> QED
      BY <1>1, <1>2, <2>1, <2>2
  <1>5. ASSUME NEW v \in Voters, finishCommit(v) PROVE WinnerActs'
    BY <1>1, <1>5 DEF finishCommit
  <1>6. ASSUME NEW S, stopVoters(S), UNCHANGED historyVars PROVE WinnerActs'
    BY <1>1, <1>6 DEF stopVoters, historyVars
  <1>7. ASSUME UNCHANGED <<decision, finished, busy, alive>> PROVE WinnerActs'
    BY <1>1, <1>7
  <1>8. ASSUME NEW v \in Voters, NEW a \in Acceptors,
               voterPhase1(v, a) \/ voterPhase3(v, a) \/ acceptorStep(v, a) \/ connectionLost(v, a)
        PROVE  WinnerActs'
    BY <1>7, <1>8 DEF voterPhase1, voterPhase3, acceptorStep, acceptorPhase1, acceptorPhase2,
         acceptorPhase3, connectionLost, programVars, historyVars
  <1>9. ASSUME NEW p \in Proposers, startRecovery(p) \/ voterTimeout(p) PROVE WinnerActs'
    BY <1>3, <1>7, <1>9 DEF startRecovery, voterTimeout, programVars, Voters
  <1>10. ASSUME NEW r \in Requestors, proposeAcceptorChange(r) PROVE WinnerActs'
    BY <1>3, <1>10 DEF proposeAcceptorChange, Voters
  <1>11. ASSUME loseHeartbeat \/ (\E v \in Voters : crash(v)) PROVE WinnerActs'
    BY <1>6, <1>7, <1>11 DEF loseHeartbeat, crash, historyVars
  <1>12. ASSUME (\E a \in Acceptors : acceptorTimeout(a)) \/ UNCHANGED vars PROVE WinnerActs'
    BY <1>7, <1>12 DEF acceptorTimeout, vars, programVars, historyVars
  <1> QED
    BY <1>4, <1>5, <1>8, <1>9, <1>10, <1>11, <1>12 DEF Next, voterStep
-----------------------------------------------------------------------------
(* What a step does to the outcome x holds. *)
VoterKeeps(v) ==
    \/ vstate[v] = "PHASE3" /\ vstate'[v] = "PHASE3" /\ vlastcommit'[v] = vlastcommit[v]
    \/ vstate[v] # "PHASE3" /\ vstate'[v] # "PHASE3"
AcceptorKeeps(a) ==
    \/ astate[a] = "PHASE3" /\ astate'[a] = "PHASE3" /\ alastcommit'[a] = alastcommit[a]
    \/ astate[a] # "PHASE3" /\ astate'[a] # "PHASE3"

(* The outcome a voter and an acceptor hold, as RecoveryDecision sees it.   *)
LEMMA LearnedBy ==
    /\ \A v \in Voters : Learned[v] = IF vstate[v] = "PHASE3" THEN vlastcommit[v] ELSE NoProposal
    /\ \A a \in Acceptors : Learned[a] = IF astate[a] = "PHASE3" THEN alastcommit[a] ELSE NoProposal
  BY VotersAssumption DEF Learned

(* The same after a step. *)
LEMMA LearnedByAfter ==
    /\ \A v \in Voters : Learned'[v] = IF vstate'[v] = "PHASE3" THEN vlastcommit'[v] ELSE NoProposal
    /\ \A a \in Acceptors : Learned'[a] = IF astate'[a] = "PHASE3" THEN alastcommit'[a] ELSE NoProposal
  BY VotersAssumption DEF Learned

(* A step after which all parties but x hold what they held. *)
LEMMA OnlyOneLearns ==
    ASSUME NEW x \in Voters \cup Acceptors,
           \A v \in Voters \ {x} : VoterKeeps(v),
           \A a \in Acceptors \ {x} : AcceptorKeeps(a)
    PROVE  Learned' = [Learned EXCEPT ![x] = Learned'[x]]
  <1>1. \A y \in (Voters \cup Acceptors) \ {x} : Learned'[y] = Learned[y]
    BY LearnedBy, LearnedByAfter DEF VoterKeeps, AcceptorKeeps
  <1>2. /\ Learned = [y \in Voters \cup Acceptors |-> Learned[y]]
        /\ Learned' = [y \in Voters \cup Acceptors |-> Learned'[y]]
    BY DEF Learned
  <1> QED
    BY <1>1, <1>2

(* A step after which every party holds what it held. *)
LEMMA NobodyLearns ==
    ASSUME \A v \in Voters : VoterKeeps(v), \A a \in Acceptors : AcceptorKeeps(a)
    PROVE  Learned' = Learned
  <1>1. \A y \in Voters \cup Acceptors : Learned'[y] = Learned[y]
    BY LearnedBy, LearnedByAfter DEF VoterKeeps, AcceptorKeeps
  <1>2. /\ Learned = [y \in Voters \cup Acceptors |-> Learned[y]]
        /\ Learned' = [y \in Voters \cup Acceptors |-> Learned'[y]]
    BY DEF Learned
  <1> QED
    BY <1>1, <1>2
-----------------------------------------------------------------------------
(* Each step is a step of RecoveryDecision, or changes nothing it sees. *)

(* Steps that decide nothing, finish nothing and teach nobody. *)
LEMMA UnseenStep ==
    ASSUME UNCHANGED <<decision, finished>>,
           \A v \in Voters : VoterKeeps(v), \A a \in Acceptors : AcceptorKeeps(a)
    PROVE  UNCHANGED Decision!vars
  <1>1. Learned' = Learned
    BY NobodyLearns
  <1>2. Won' = Won
    BY DEF Won, Winners
  <1> QED
    BY <1>1, <1>2 DEF Decision!vars

(* A party that takes an outcome it was sent learns, or knew already. *)
LEMMA LearnStep ==
    ASSUME InductiveInvariant, SingleWinner, NEW x \in Voters \cup Acceptors, NEW p \in Outcomes,
           Learned[x] = NoProposal \/ Learned[x] \in Outcomes,
           Learned' = [Learned EXCEPT ![x] = p], UNCHANGED <<decision, finished>>
    PROVE  [Decision!Next]_(Decision!vars)
  <1>1. finished # {} /\ finished \subseteq Winners
    BY OutcomeFacts DEF Outcomes, Winners, InductiveInvariant, TypeInv, TypeOK
  <1>2. Won' = Won
    BY DEF Won, Winners
  <1>3. CASE Learned[x] = NoProposal
    <2>1. PICK v \in finished : p = decision[v]
      BY DEF Outcomes
    <2>2. <<v, p>> \in Won /\ <<v, p>>[2] = p
      BY <1>1, <2>1 DEF Won
    <2>3. \E w \in Won : Learned' = [Learned EXCEPT ![x] = w[2]]
      BY <2>2
    <2>4. (finished # {})' = (finished # {})
      OBVIOUS
    <2> QED
      BY <1>1, <1>2, <1>3, <2>3, <2>4 DEF Decision!Next, Decision!Learn
  <1>4. CASE Learned[x] \in Outcomes
    <2>1. \A o, q \in Outcomes : o = q
      BY <1>1 DEF SingleWinner, Outcomes
    <2>2. Learned[x] = p
      BY <1>4, <2>1
    <2>3. Learned = [y \in Voters \cup Acceptors |-> Learned[y]]
      BY DEF Learned
    <2>4. Learned' = Learned
      BY <2>2, <2>3
    <2> QED
      BY <1>2, <2>4 DEF Decision!vars
  <1> QED
    BY <1>3, <1>4

(* The second phase's majority is a win: nobody has won before. *)
LEMMA VoterPhase2Wins ==
    ASSUME InductiveInvariant, SingleWinner', NEW v \in Voters, NEW a \in Acceptors,
           voterPhase2(v, a)
    PROVE  [Decision!Next]_(Decision!vars)
  <1>1. UNCHANGED <<finished, vstate, vlastcommit, astate, alastcommit>>
    BY DEF voterPhase2, acceptorVars
  <1>2. /\ \A w \in Voters : VoterKeeps(w)
        /\ \A b \in Acceptors : AcceptorKeeps(b)
    BY <1>1 DEF VoterKeeps, AcceptorKeeps
  <1>3. CASE UNCHANGED decision
    BY <1>1, <1>2, <1>3, UnseenStep
  <1>4. CASE vstate[v] = "PHASE2" /\ CommitSelf(v, proposal[v])
    <2>1. proposal[v] \in Proposals
      BY <1>4, OwnProposalTypes DEF InductiveInvariant, TypeInv, VotingHasProposal
    <2>2. proposal[v] # NoProposal
      BY <2>1 DEF Proposals, RecoveryTo, RecoveryProposal, NewAcceptors, AcceptorChangeProposal,
                  NoProposal
    <2>3. /\ decision'[v] = proposal[v]
          /\ \A w \in Voters \ {v} : decision'[w] = decision[w]
      BY <1>4 DEF CommitSelf, InductiveInvariant, TypeInv, TypeOK
    <2>4. v \notin finished /\ v \in alive \ busy
      BY <1>4, OutcomeFacts DEF InductiveInvariant, voterPhase2, ReceiveFromAcceptor, NextFromAcceptor
    <2>5. v \notin Winners
      BY <2>4 DEF InductiveInvariant, WinnerActs
    <2>6. Winners' = Winners \cup {v}
      BY <2>2, <2>3 DEF Winners
    <2>7. Winners = {} /\ Winners' = {v}
      BY <2>5, <2>6 DEF SingleWinner
    <2>8. Won = {} /\ Won' = {<<v, proposal[v]>>}
      BY <2>3, <2>7 DEF Won
    <2>9. Learned' = Learned
      BY <1>2, NobodyLearns
    <2>10. (finished # {})' = (finished # {})
      BY <1>1
    <2> QED
      BY <2>1, <2>8, <2>9, <2>10 DEF Decision!Next, Decision!Win
  <1> QED
    BY <1>3, <1>4 DEF voterPhase2

(* The winner finishes, before anybody else. *)
LEMMA FinishCommitFinishes ==
    ASSUME InductiveInvariant, SingleWinner, NEW v \in Voters, finishCommit(v)
    PROVE  [Decision!Next]_(Decision!vars)
  <1>1. /\ v \in busy /\ vstate[v] = "PHASE2" /\ decision[v] = proposal[v]
        /\ proposal[v] \in Proposals
    BY OwnProposalTypes, OutcomeFacts
    DEF InductiveInvariant, finishCommit, TypeInv, VotingHasProposal
  <1>2. proposal[v] # NoProposal
    BY <1>1 DEF Proposals, RecoveryTo, RecoveryProposal, NewAcceptors, AcceptorChangeProposal,
                NoProposal
  <1>3. Winners = {v}
    BY <1>1, <1>2 DEF Winners, SingleWinner
  <1>4. Won = {<<v, proposal[v]>>}
    BY <1>1, <1>3 DEF Won
  <1>5. finished = {}
    BY <1>1, <1>3, OutcomeFacts DEF InductiveInvariant, TypeInv, TypeOK, Winners
  <1>6. finished' # {}
    BY DEF finishCommit
  <1>7. Won' = Won
    BY DEF Won, Winners, finishCommit
  <1>8. /\ vstate'[v] = "PHASE3" /\ vlastcommit'[v] = proposal[v]
        /\ \A w \in Voters \ {v} : vstate'[w] = vstate[w] /\ vlastcommit'[w] = vlastcommit[w]
        /\ UNCHANGED <<astate, alastcommit>>
    BY DEF finishCommit, CommittingProposal, acceptorVars, InductiveInvariant, TypeInv, TypeOK
  <1>9. /\ \A w \in Voters \ {v} : VoterKeeps(w)
        /\ \A b \in Acceptors : AcceptorKeeps(b)
    BY <1>8 DEF VoterKeeps, AcceptorKeeps
  <1>10. Learned'[v] = proposal[v]
    BY <1>8, LearnedByAfter
  <1>11. Learned' = [Learned EXCEPT ![v] = proposal[v]]
    BY <1>9, <1>10, OnlyOneLearns
  <1>12. Decision!Finish(v, proposal[v])
    BY <1>4, <1>5, <1>6, <1>7, <1>11 DEF Decision!Finish
  <1> QED
    BY <1>1, <1>12 DEF Decision!Next

(* A voter learns from an acceptor. *)
LEMMA VoterPhase3Learns ==
    ASSUME InductiveInvariant, SingleWinner, NEW v \in Voters, NEW a \in Acceptors,
           voterPhase3(v, a)
    PROVE  [Decision!Next]_(Decision!vars)
  <1> DEFINE m == Head(toVoter[v][a])
  <1>1. m.type = "PHASE3COMMIT" /\ m \in Contents(toVoter[v][a])
    BY QueueTail DEF voterPhase3, NextFromAcceptor, InductiveInvariant, TypeInv, TypeOK
  <1>2. m.proposal \in Outcomes
    BY <1>1, OutcomeFacts DEF InductiveInvariant
  <1>3. /\ vstate' = [vstate EXCEPT ![v] = "PHASE3"]
        /\ vlastcommit' = [vlastcommit EXCEPT ![v] = m.proposal]
        /\ UNCHANGED <<decision, finished, astate, alastcommit>>
    BY DEF voterPhase3, acceptorVars, historyVars
  <1> HIDE DEF m
  <1>4. /\ vstate'[v] = "PHASE3" /\ vlastcommit'[v] = m.proposal
        /\ \A w \in Voters \ {v} : vstate'[w] = vstate[w] /\ vlastcommit'[w] = vlastcommit[w]
    BY <1>3 DEF InductiveInvariant, TypeInv, TypeOK
  <1>5. /\ \A w \in Voters \ {v} : VoterKeeps(w)
        /\ \A b \in Acceptors : AcceptorKeeps(b)
    BY <1>3, <1>4 DEF VoterKeeps, AcceptorKeeps
  <1>6. Learned'[v] = m.proposal
    BY <1>4, LearnedByAfter
  <1>7. Learned' = [Learned EXCEPT ![v] = m.proposal]
    BY <1>5, <1>6, OnlyOneLearns
  <1>8. Learned[v] = NoProposal \/ Learned[v] \in Outcomes
    BY LearnedBy, OutcomeFacts DEF InductiveInvariant
  <1> QED
    BY <1>2, <1>3, <1>7, <1>8, LearnStep

(* An acceptor learns from the winner; accepting teaches nobody. *)
LEMMA AcceptorLearns ==
    ASSUME InductiveInvariant, SingleWinner, NEW v \in Voters, NEW a \in Acceptors,
           acceptorStep(v, a)
    PROVE  [Decision!Next]_(Decision!vars)
  <1>1. UNCHANGED <<decision, finished, vstate, vlastcommit>>
    BY DEF acceptorStep, acceptorPhase1, acceptorPhase2, acceptorPhase3, machineVars, historyVars
  <1>2. \A w \in Voters : VoterKeeps(w)
    BY <1>1 DEF VoterKeeps
  <1> astate \in [Acceptors -> AcceptorStates]
    BY DEF InductiveInvariant, TypeInv, TypeOK
  <1>3. CASE UNCHANGED <<astate, alastcommit>>
    <2>1. \A b \in Acceptors : AcceptorKeeps(b)
      BY <1>3 DEF AcceptorKeeps
    <2> QED
      BY <1>1, <1>2, <2>1, UnseenStep
  <1>4. CASE /\ astate[a] = "PHASE1" /\ astate' = [astate EXCEPT ![a] = "PHASE2"]
             /\ UNCHANGED alastcommit
    <2>1. \A b \in Acceptors : AcceptorKeeps(b)
      BY <1>4 DEF AcceptorKeeps
    <2> QED
      BY <1>1, <1>2, <2>1, UnseenStep
  <1>5. CASE acceptorPhase3(v, a) /\ TakesOutcome(a)
    <2> DEFINE m == Head(toAcceptor[v][a])
    <2>1. m \in Contents(toAcceptor[v][a]) /\ m.type = "PHASE3COMMIT"
      BY <1>5, QueueTail
      DEF acceptorPhase3, ReceiveFromVoter, InductiveInvariant, TypeInv, TypeOK
    <2>2. m.proposal \in Outcomes
      BY <2>1, OutcomeFacts DEF InductiveInvariant
    <2>3. /\ astate' = [astate EXCEPT ![a] = "PHASE3"]
          /\ alastcommit' = [alastcommit EXCEPT ![a] = m.proposal]
      BY <1>5 DEF acceptorPhase3
    <2> HIDE DEF m
    <2>4. /\ astate'[a] = "PHASE3" /\ alastcommit'[a] = m.proposal
          /\ \A b \in Acceptors \ {a} : astate'[b] = astate[b] /\ alastcommit'[b] = alastcommit[b]
      BY <2>3 DEF InductiveInvariant, TypeInv, TypeOK
    <2>5. \A b \in Acceptors \ {a} : AcceptorKeeps(b)
      BY <2>4 DEF AcceptorKeeps
    <2>6. Learned'[a] = m.proposal
      BY <2>4, LearnedByAfter
    <2>7. Learned' = [Learned EXCEPT ![a] = m.proposal]
      BY <1>2, <2>5, <2>6, OnlyOneLearns
    <2>8. Learned[a] = NoProposal \/ Learned[a] \in Outcomes
      BY LearnedBy, OutcomeFacts DEF InductiveInvariant
    <2> QED
      BY <1>1, <2>2, <2>7, <2>8, LearnStep
  <1> QED
    BY <1>3, <1>4, <1>5
    DEF acceptorStep, acceptorPhase1, acceptorPhase2, acceptorPhase3, Accepts

(* Nothing else is seen: proposing, asking for phase 2, giving up and what  *)
(* the environment does.                                                    *)
LEMMA OthersUnseen ==
    ASSUME InductiveInvariant, nacceptor # 0,
           \/ \E p \in Proposers : startRecovery(p) \/ voterTimeout(p)
           \/ \E r \in Requestors : proposeAcceptorChange(r)
           \/ \E v \in Voters, a \in Acceptors : voterPhase1(v, a) \/ connectionLost(v, a)
           \/ \E v \in Voters : crash(v)
           \/ \E a \in Acceptors : acceptorTimeout(a)
           \/ loseHeartbeat
           \/ UNCHANGED vars
    PROVE  UNCHANGED Decision!vars
  <1> /\ vstate \in [Voters -> VoterStates] /\ astate \in [Acceptors -> AcceptorStates]
      /\ Proposers \subseteq Voters /\ Requestors \subseteq Voters
    BY DEF InductiveInvariant, TypeInv, TypeOK, Voters
  <1>1. ASSUME UNCHANGED <<vstate, vlastcommit, astate, alastcommit, decision, finished>>
        PROVE  UNCHANGED Decision!vars
    BY <1>1, UnseenStep DEF VoterKeeps, AcceptorKeeps
  <1>2. ASSUME NEW v \in Voters, NEW s \in {"INITIAL", "PHASE1", "PHASE2"},
               vstate[v] # "PHASE3", vstate' = [vstate EXCEPT ![v] = s],
               UNCHANGED <<vlastcommit, astate, alastcommit, decision, finished>>
        PROVE  UNCHANGED Decision!vars
    <2>1. \A w \in Voters : VoterKeeps(w)
      BY <1>2 DEF VoterKeeps
    <2>2. \A a \in Acceptors : AcceptorKeeps(a)
      BY <1>2 DEF AcceptorKeeps
    <2> QED
      BY <1>2, <2>1, <2>2, UnseenStep
  <1>3. ASSUME NEW v \in Voters, NEW p, NewProposal(v, p), vstate[v] = "INITIAL",
               UNCHANGED acceptorVars
        PROVE  UNCHANGED Decision!vars
    BY <1>2, <1>3 DEF NewProposal, acceptorVars
  <1>4. ASSUME NEW p \in Proposers, startRecovery(p) PROVE UNCHANGED Decision!vars
    <2>1. vstate[p] = "INITIAL"
      BY <1>4 DEF startRecovery, InductiveInvariant, CountInv, UnproposedIsFresh, Unproposed
    <2> QED
      BY <1>3, <1>4, <2>1 DEF startRecovery
  <1>5. ASSUME NEW r \in Requestors, proposeAcceptorChange(r) PROVE UNCHANGED Decision!vars
    BY <1>3, <1>5 DEF proposeAcceptorChange
  <1>6. ASSUME NEW p \in Proposers, voterTimeout(p) PROVE UNCHANGED Decision!vars
    BY <1>2, <1>6 DEF voterTimeout, acceptorVars
  <1>7. ASSUME NEW v \in Voters, NEW a \in Acceptors, voterPhase1(v, a)
        PROVE  UNCHANGED Decision!vars
    <2>1. UNCHANGED <<vlastcommit, astate, alastcommit, decision, finished>>
      BY <1>7 DEF voterPhase1, acceptorVars, historyVars
    <2>2. \/ UNCHANGED vstate
          \/ vstate[v] = "PHASE1" /\ vstate' = [vstate EXCEPT ![v] = "PHASE2"]
      BY <1>7 DEF voterPhase1
    <2> QED
      BY <1>1, <1>2, <2>1, <2>2
  <1>8. ASSUME NEW a \in Acceptors, acceptorTimeout(a) PROVE UNCHANGED Decision!vars
    <2>1. UNCHANGED <<vstate, vlastcommit, alastcommit, decision, finished>>
      BY <1>8 DEF acceptorTimeout, machineVars, historyVars
    <2>2. astate[a] # "PHASE3" /\ astate' = [astate EXCEPT ![a] = "PHASE1"]
      BY <1>8 DEF acceptorTimeout, ResetByTimer
    <2>3. /\ \A v \in Voters : VoterKeeps(v)
          /\ \A b \in Acceptors : AcceptorKeeps(b)
      BY <2>1, <2>2 DEF VoterKeeps, AcceptorKeeps
    <2> QED
      BY <2>1, <2>3, UnseenStep
  <1>9. ASSUME \/ loseHeartbeat
               \/ \E v \in Voters : crash(v)
               \/ \E v \in Voters, a \in Acceptors : connectionLost(v, a)
               \/ UNCHANGED vars
        PROVE  UNCHANGED Decision!vars
    BY <1>1, <1>9 DEF loseHeartbeat, crash, connectionLost, vars, machineVars, acceptorVars,
         historyVars
  <1> QED
    BY <1>4, <1>5, <1>6, <1>7, <1>8, <1>9

(* Every step is a step of the abstract decision or a stutter. *)
LEMMA StepRefines ==
    ASSUME InductiveInvariant, SingleWinner, SingleWinner', nacceptor # 0, [Next]_vars
    PROVE  [Decision!Next]_(Decision!vars)
  BY OthersUnseen, VoterPhase2Wins, VoterPhase3Learns, FinishCommitFinishes, AcceptorLearns
  DEF Next, voterStep

(* Before the vote nobody won, finished or learned anything. *)
LEMMA InitRefines == Init => Decision!Init
  <1> SUFFICES ASSUME Init PROVE Decision!Init
    OBVIOUS
  <1>1. Won = {}
    BY DEF Init, Won, Winners
  <1>2. Learned = [x \in Voters \cup Acceptors |-> NoProposal]
    BY LearnedBy DEF Init, Learned
  <1>3. finished = {}
    BY DEF Init
  <1> QED
    BY <1>1, <1>2, <1>3 DEF Decision!Init

(* The invariant behind all theorems about the vote, whatever the sets of   *)
(* programs that forget, crash or lose connections: each of its parts holds *)
(* without any assumption on majorities.                                    *)
THEOREM VoteInductive == Spec => []InductiveInvariant
  <1>1. Init => InductiveInvariant
    BY TypeInit, CountInit, OutcomeInit
    DEF InductiveInvariant, Init, AcceptOnce, WinnerActs, Winners
  <1>2. InductiveInvariant /\ [Next]_vars => InductiveInvariant'
    BY TypeNext, CountNext, OutcomeNext, AcceptOnceNext, WinnerActsNext DEF InductiveInvariant
  <1> QED
    BY <1>1, <1>2, PTL DEF Spec

(* The vote implements the decision it promises, if any two majorities of   *)
(* the acceptors share one that does not forget: one voter wins, it carries *)
(* its proposal out, and only then others learn that same proposal.  Timers *)
(* of proposers, crashes and lost connections may interfere at any step.    *)
THEOREM VoteImplementsDecision ==
    ASSUME ReliableMajorities
    PROVE  Spec => ImplementsDecision
  <1>1. InductiveInvariant => SingleWinner
    BY MajoritiesShareAcceptor DEF InductiveInvariant, TypeInv, CountInv
  <1>2. InductiveInvariant /\ InductiveInvariant' /\ [Next]_vars => [Decision!Next]_(Decision!vars)
    <2>1. nacceptor # 0
      BY DEF ReliableMajorities
    <2>2. InductiveInvariant' => SingleWinner'
      BY <1>1, PTL
    <2> QED
      BY <1>1, <2>1, <2>2, StepRefines
  <1> QED
    BY <1>2, VoteInductive, InitRefines, PTL DEF Spec, ImplementsDecision, Decision!Spec
=============================================================================
