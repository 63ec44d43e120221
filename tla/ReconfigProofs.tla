-------------------------- MODULE ReconfigProofs --------------------------
(***************************************************************************)
(* Proofs about Reconfig.                                                  *)
(***************************************************************************)
EXTENDS ReconfigInv, FiniteSetTheorems, TLAPS

LEMMA Constructors ==
    /\ \A v \in Nat, l \in SUBSET Acceptors :
          /\ AcceptorChange(v, l) \in Proposals
          /\ AcceptorChange(v, l).type = "ACCEPTORCHANGE"
          /\ AcceptorChange(v, l).version = v /\ AcceptorChange(v, l).list = l
    /\ \A v, n \in Nat, p \in Proposers :
          /\ Recovery(v, p, n) \in Proposals
          /\ Recovery(v, p, n).type = "RECOVERY" /\ Recovery(v, p, n).version = v
    /\ NoProposal \in Proposals /\ NoProposal.type = "NOPROPOSAL"
    /\ Ack \in Proposals /\ Ack.type = "ACK"
    /\ \A v \in Nat, l \in SUBSET Acceptors :
          /\ Machine(v, l) \in Machines
          /\ Machine(v, l).version = v /\ Machine(v, l).list = l
          /\ Machine(v, l).state = "INITIAL" /\ Machine(v, l).proposal = NoProposal
          /\ Machine(v, l).acks = {} /\ Machine(v, l).connected = l
  BY DEF AcceptorChange, Recovery, NoProposal, Ack, Machine, Proposals, Machines, Voters

LEMMA Fields ==
    /\ \A d \in Proposals : d.version \in Nat /\ d.list \subseteq Acceptors
    /\ \A x \in Machines : /\ x.version \in Nat /\ x.list \subseteq Acceptors
                           /\ x.proposal \in Proposals
                           /\ x.state \in {"INITIAL", "VOTING", "WON", "PHASE3"}
                           /\ x.acks \subseteq Acceptors /\ x.connected \subseteq Acceptors
    /\ \A x \in AcceptorMachines : /\ x.version \in Nat /\ x.lastcommit \in Proposals
                                   /\ x.state \in {"PHASE1", "PHASE2", "PHASE3"}
    /\ \A m \in VoteMessages : /\ m.to \in Acceptors /\ m.from \in Voters \cup {Nobody}
                               /\ m.proposal \in Proposals
    /\ \A m \in AnswerMessages : m.to \in Voters /\ m.from \in Acceptors /\ m.outcome \in Proposals
    /\ \A m \in CommitMessages : m.to \in Acceptors /\ m.proposal \in Proposals
  BY DEF Proposals, Machines, AcceptorMachines, VoteMessages, AnswerMessages, CommitMessages

(* What the shared parts of actions do to the variables.                   *)
LEMMA Disconnected ==
    ASSUME Types, NEW w \in Voters, disconnect(w)
    PROVE  /\ votes' \subseteq VoteMessages
           /\ answers' \subseteq answers
           /\ \A m \in answers' : m.to # w
           /\ \A m \in votes' : m.from # w
           /\ \A m \in votes' : \E n \in votes : /\ m.to = n.to /\ m.proposal = n.proposal
                                                 /\ m.from \in {n.from, Nobody}
           /\ \A m \in votes' : m.from # Nobody => m \in votes
  <1>1. ASSUME NEW m \in votes'
        PROVE  /\ m.from # w
               /\ m \in VoteMessages
               /\ m.from # Nobody => m \in votes
               /\ \E n \in votes : /\ m.to = n.to /\ m.proposal = n.proposal
                                   /\ m.from \in {n.from, Nobody}
    <2>1. PICK n \in votes : m = IF n.from = w THEN [n EXCEPT !.from = Nobody] ELSE n
      BY DEF disconnect
    <2>2. n \in VoteMessages
      BY DEF Types
    <2>3. CASE n.from = w
      <3>1. /\ m \in VoteMessages /\ m.to = n.to /\ m.proposal = n.proposal /\ m.from = Nobody
        BY <2>1, <2>2, <2>3 DEF VoteMessages
      <3>2. Nobody # w
        BY PartiesAssumption
      <3> QED
        BY <3>1, <3>2
    <2>4. CASE n.from # w
      BY <2>1, <2>2, <2>4
    <2> QED
      BY <2>3, <2>4
  <1> QED
    BY <1>1 DEF disconnect

LEMMA Proposed ==
    ASSUME Types, NEW w \in Voters, NEW p \in Proposals, newProposal(w, p)
    PROVE  /\ psm' \in [Voters -> Machines]
           /\ \A x \in Voters : x # w => psm'[x] = psm[x]
           /\ psm'[w].version = psm[w].version /\ psm'[w].list = psm[w].list
           /\ psm'[w].connected = psm[w].connected
           /\ psm'[w].proposal = p /\ psm'[w].acks = {}
           /\ psm'[w].state = IF Majority({}, psm[w].list) THEN "WON" ELSE "VOTING"
           /\ decided' = IF Majority({}, psm[w].list) THEN decided \cup {p} ELSE decided
           /\ votes \subseteq votes' /\ votes' \subseteq VoteMessages
           /\ \A m \in votes' : \/ m \in votes
                                \/ /\ m.from = w /\ m.proposal = p /\ m.to \in psm[w].connected
  <1> DEFINE won == Majority({}, psm[w].list)
             new == [psm[w] EXCEPT !.proposal = p, !.acks = {},
                                   !.state = IF won THEN "WON" ELSE "VOTING"]
  <1>1. psm \in [Voters -> Machines] /\ psm[w] \in Machines /\ won \in BOOLEAN
    BY DEF Types, Majority
  <1> HIDE DEF won
  <1>2. psm' = [psm EXCEPT ![w] = new]
    BY <1>1 DEF newProposal, Machines, won
  <1>3. /\ new \in Machines
        /\ new.version = psm[w].version /\ new.list = psm[w].list
        /\ new.connected = psm[w].connected
        /\ new.proposal = p /\ new.acks = {}
        /\ new.state = IF won THEN "WON" ELSE "VOTING"
    BY <1>1 DEF Machines
  <1>4. \A m \in votes' : \/ m \in votes
                          \/ /\ m.from = w /\ m.proposal = p /\ m.to \in psm[w].connected
                             /\ m \in VoteMessages
    <2>1. votes' = votes \cup {[to |-> a, from |-> w, proposal |-> p] : a \in psm[w].connected}
      BY DEF newProposal
    <2> QED
      BY <2>1, <1>1, Fields DEF VoteMessages
  <1>5. decided' = IF won THEN decided \cup {p} ELSE decided
    BY DEF newProposal, won
  <1>6. votes \subseteq votes'
    BY DEF newProposal
  <1>7. votes' \subseteq VoteMessages
    BY <1>4 DEF Types
  <1>8. w \in DOMAIN psm
    BY <1>1
  <1> HIDE DEF new
  <1>9. psm' \in [Voters -> Machines] /\ psm'[w] = new /\ \A x \in Voters : x # w => psm'[x] = psm[x]
    BY <1>1, <1>2, <1>3
  <1> QED
    BY <1>3, <1>4, <1>5, <1>6, <1>7, <1>9 DEF won

LEMMA Counted ==
    ASSUME Types, NEW w \in Voters, NEW a \in Acceptors, countAck(w, a)
    PROVE  /\ psm' \in [Voters -> Machines]
           /\ \A x \in Voters : x # w => psm'[x] = psm[x]
           /\ psm'[w].version = psm[w].version /\ psm'[w].list = psm[w].list
           /\ psm'[w].connected = psm[w].connected /\ psm'[w].proposal = psm[w].proposal
           /\ psm'[w].acks \subseteq psm[w].acks \cup {a}
           /\ \/ psm' = psm /\ decided' = decided
              \/ psm[w].state = "VOTING" /\ psm'[w].state = "VOTING" /\ decided' = decided
              \/ /\ psm[w].state = "VOTING" /\ psm'[w].state = "WON"
                 /\ decided' = decided \cup {psm[w].proposal}
                 /\ Majority(psm'[w].acks, psm[w].list)
  <1>1. psm \in [Voters -> Machines] /\ psm[w] \in Machines
    BY DEF Types
  <1>2. CASE psm[w].state # "VOTING"
    BY <1>1, <1>2 DEF countAck
  <1>3. CASE psm[w].state = "VOTING"
    <2> DEFINE acks == psm[w].acks \cup {a}
               won == Majority(acks, psm[w].list)
               new == [psm[w] EXCEPT !.acks = acks, !.state = IF won THEN "WON" ELSE @]
    <2>1. won \in BOOLEAN
      BY DEF Majority
    <2>2. /\ psm' = [psm EXCEPT ![w].acks = acks, ![w].state = IF won THEN "WON" ELSE @]
          /\ decided' = IF won THEN decided \cup {psm[w].proposal} ELSE decided
      BY <1>3 DEF countAck
    <2> HIDE DEF won
    <2>3. psm' = [psm EXCEPT ![w] = new]
      BY <1>1, <2>1, <2>2 DEF Machines
    <2>4. /\ new \in Machines
          /\ new.version = psm[w].version /\ new.list = psm[w].list
          /\ new.connected = psm[w].connected
          /\ new.proposal = psm[w].proposal /\ new.acks = acks
          /\ new.state = IF won THEN "WON" ELSE "VOTING"
      BY <1>1, <1>3, <2>1 DEF Machines
    <2> HIDE DEF new
    <2>5. /\ psm' \in [Voters -> Machines] /\ psm'[w] = new
          /\ \A x \in Voters : x # w => psm'[x] = psm[x]
      BY <1>1, <2>3, <2>4
    <2>6. won => Majority(acks, psm[w].list)
      BY DEF won
    <2> QED
      BY <1>3, <2>2, <2>4, <2>5, <2>6
  <1> QED
    BY <1>2, <1>3

(* A machine that hears of another's outcome, or has sent its own.         *)
LEMMA Ended3 ==
    ASSUME Types, NEW w \in Voters,
           psm' = [psm EXCEPT ![w].state = "PHASE3", ![w].connected = {}]
    PROVE  /\ psm' \in [Voters -> Machines]
           /\ \A x \in Voters : x # w => psm'[x] = psm[x]
           /\ psm'[w].version = psm[w].version /\ psm'[w].list = psm[w].list
           /\ psm'[w].connected = {} /\ psm'[w].proposal = psm[w].proposal
           /\ psm'[w].acks = psm[w].acks /\ psm'[w].state = "PHASE3"
  <1> DEFINE new == [psm[w] EXCEPT !.state = "PHASE3", !.connected = {}]
  <1>1. psm \in [Voters -> Machines] /\ psm[w] \in Machines
    BY DEF Types
  <1>2. psm' = [psm EXCEPT ![w] = new]
    BY <1>1 DEF Machines
  <1>3. /\ new \in Machines
        /\ new.version = psm[w].version /\ new.list = psm[w].list
        /\ new.connected = {} /\ new.proposal = psm[w].proposal
        /\ new.acks = psm[w].acks /\ new.state = "PHASE3"
    BY <1>1 DEF Machines
  <1> HIDE DEF new
  <1> QED
    BY <1>1, <1>2, <1>3

LEMMA InitTypes == Init => Types
  <1> SUFFICES ASSUME Init PROVE Types
    OBVIOUS
  <1> USE Constructors, ExpectedAssumption, PartiesAssumption DEF Init
  <1>1. psm \in [Voters -> Machines]
    BY DEF Voters
  <1>2. requests \in [Acceptors \cup Proposers -> Seq(Proposals)]
    OBVIOUS
  <1>3. asm \in [Acceptors -> AcceptorMachines]
    BY DEF AcceptorMachines
  <1> QED
    BY <1>1, <1>2, <1>3 DEF Types

LEMMA Parties ==
    /\ Requestor \in Voters /\ Proposers \subseteq Voters /\ Voters = Proposers \cup {Requestor}
    /\ \A p \in Proposers : p # Requestor
    /\ \A w \in Voters : w # Nobody /\ w \notin Acceptors
    /\ \A p \in Proposers : p \notin Acceptors
  BY PartiesAssumption DEF Voters

LEMMA NewMachine ==
    ASSUME NEW v \in Nat, NEW l \in SUBSET Acceptors
    PROVE  /\ Machine(v, l) \in Machines
           /\ Machine(v, l).version = v /\ Machine(v, l).list = l
           /\ Machine(v, l).state = "INITIAL" /\ Machine(v, l).proposal = NoProposal
           /\ Machine(v, l).acks = {} /\ Machine(v, l).connected = l
  BY Constructors

LEMMA Replaced ==
    ASSUME Types, NEW w \in Voters, NEW M \in Machines, psm' = [psm EXCEPT ![w] = M]
    PROVE  /\ psm' \in [Voters -> Machines]
           /\ \A x \in Voters : x # w => psm'[x] = psm[x]
           /\ psm'[w] = M
  BY DEF Types

LEMMA TimedOut ==
    ASSUME Types, NEW p \in Proposers, checkTimeout(p)
    PROVE  /\ psm' \in [Voters -> Machines]
           /\ \A x \in Voters : x # p => psm'[x] = psm[x]
           /\ psm[p].state = "VOTING" /\ psm'[p].state = "INITIAL"
           /\ psm'[p].version = psm[p].version /\ psm'[p].list = psm[p].list
           /\ psm'[p].connected = psm[p].connected /\ psm'[p].proposal = psm[p].proposal
           /\ psm'[p].acks = {}
  <1> DEFINE new == [psm[p] EXCEPT !.state = "INITIAL", !.acks = {}]
  <1>1. psm \in [Voters -> Machines] /\ psm[p] \in Machines /\ p \in Voters
    BY DEF Types, Voters
  <1>2. psm' = [psm EXCEPT ![p] = new]
    BY <1>1 DEF checkTimeout, Machines
  <1>3. /\ new \in Machines /\ new.state = "INITIAL"
        /\ new.version = psm[p].version /\ new.list = psm[p].list
        /\ new.connected = psm[p].connected /\ new.proposal = psm[p].proposal
        /\ new.acks = {}
    BY <1>1 DEF Machines
  <1> HIDE DEF new
  <1> QED
    BY <1>1, <1>2, <1>3 DEF checkTimeout

LEMMA Participated ==
    ASSUME Types, NEW x \in Acceptors \cup Proposers, NEW l \in SUBSET Acceptors, Participate(x, l)
    PROVE  /\ requests' \in [Acceptors \cup Proposers -> Seq(Proposals)]
           /\ \A y \in Acceptors \cup Proposers : y # x => requests'[y] = requests[y]
           /\ requests'[x] = Append(requests[x], AcceptorChange(currentversion, l))
           /\ AcceptorChange(currentversion, l) \in Proposals
           /\ requests[x] \in Seq(Proposals)
  BY Constructors DEF Participate, Types

LEMMA CommitmentRead ==
    ASSUME Types, NEW m \in commits, handleCommitment(m)
    PROVE  /\ m \in CommitMessages /\ commits' = commits \ {m}
           /\ asm' \in [Acceptors -> AcceptorMachines]
           /\ \A a \in Acceptors :
                 /\ asm'[a].version = asm[a].version
                 /\ \/ asm'[a] = asm[a]
                    \/ /\ asm'[a].state = "PHASE3" /\ asm'[a].lastcommit = m.proposal
                       /\ asm[a].version = m.proposal.version
           /\ UNCHANGED <<requestorVars, requests, psm, proposerVars, votes, answers, historyVars>>
  <1>1. m \in CommitMessages /\ m.to \in Acceptors /\ m.proposal \in Proposals
    BY Fields DEF Types
  <1>2. CASE UNCHANGED asm
    BY <1>1, <1>2 DEF handleCommitment, Types
  <1>3. CASE /\ asm[m.to].version = m.proposal.version
             /\ asm' = [asm EXCEPT ![m.to].state = "PHASE3", ![m.to].lastcommit = m.proposal]
    <2> DEFINE b == m.to
               new == [asm[b] EXCEPT !.state = "PHASE3", !.lastcommit = m.proposal]
    <2>1. asm \in [Acceptors -> AcceptorMachines] /\ asm[b] \in AcceptorMachines
      BY <1>1 DEF Types
    <2>2. asm' = [asm EXCEPT ![b] = new]
      BY <1>1, <1>3, <2>1 DEF AcceptorMachines
    <2>3. /\ new \in AcceptorMachines /\ new.version = asm[b].version
          /\ new.state = "PHASE3" /\ new.lastcommit = m.proposal
      BY <1>1, <2>1 DEF AcceptorMachines
    <2> HIDE DEF new
    <2>4. asm' \in [Acceptors -> AcceptorMachines] /\ \A a \in Acceptors : asm'[a] = IF a = b THEN new ELSE asm[a]
      BY <2>1, <2>2, <2>3
    <2> QED
      BY <1>1, <1>3, <2>1, <2>3, <2>4 DEF handleCommitment
  <1> QED
    BY <1>2, <1>3 DEF handleCommitment

(* What a vote does at the acceptor. *)
LEMMA Voted ==
    ASSUME Types, NEW m \in votes, handleVote(m)
    PROVE  /\ m \in VoteMessages /\ votes' = votes \ {m}
           /\ psm' \in [Voters -> Machines]
           /\ \A w \in Voters :
                 /\ psm'[w].version = psm[w].version /\ psm'[w].list = psm[w].list
                 /\ psm'[w].state = psm[w].state /\ psm'[w].proposal = psm[w].proposal
                 /\ psm'[w].acks = psm[w].acks /\ psm'[w].connected \subseteq psm[w].connected
           /\ UNCHANGED <<requestorVars, requests, proposerVars, commits, decided>>
           /\ \/ UNCHANGED <<asm, accepted, answers>>
              \/ /\ UNCHANGED <<asm, accepted>>
                 /\ \/ /\ asm[m.to].version > m.proposal.version
                       /\ asm[m.to].lastcommit.version >= m.proposal.version
                    \/ asm[m.to].version = m.proposal.version /\ asm[m.to].state = "PHASE3"
                 /\ m.from # Nobody
                 /\ answers' = answers \cup {[to |-> m.from, from |-> m.to,
                                              outcome |-> asm[m.to].lastcommit]}
              \/ /\ asm[m.to].version = m.proposal.version /\ asm[m.to].state = "PHASE1"
                 /\ asm' = [asm EXCEPT ![m.to].state = "PHASE2"]
                 /\ accepted' = accepted \cup {<<m.to, m.proposal>>}
                 /\ \/ m.from = Nobody /\ answers' = answers
                    \/ /\ m.from # Nobody
                       /\ answers' = answers \cup {[to |-> m.from, from |-> m.to, outcome |-> Ack]}
  <1>1. m \in VoteMessages /\ psm \in [Voters -> Machines]
    BY DEF Types
  <1>2. UNCHANGED <<requestorVars, requests, proposerVars, commits, decided>>
    BY DEF handleVote
  <1>3. CASE notTold(m.to, m)
    <2>1. CASE UNCHANGED psm
      BY <1>1, <1>2, <1>3, <2>1 DEF notTold
    <2>2. CASE m.from # Nobody /\ psm' = [psm EXCEPT ![m.from].connected = @ \ {m.to}]
      <3> DEFINE w == m.from
                 new == [psm[w] EXCEPT !.connected = psm[w].connected \ {m.to}]
      <3>1. w \in Voters /\ psm[w] \in Machines
        BY <1>1, <2>2, Fields
      <3>2. psm' = [psm EXCEPT ![w] = new]
        BY <1>1, <2>2, <3>1 DEF Machines
      <3>3. /\ new \in Machines
            /\ new.version = psm[w].version /\ new.list = psm[w].list
            /\ new.state = psm[w].state /\ new.proposal = psm[w].proposal
            /\ new.acks = psm[w].acks /\ new.connected \subseteq psm[w].connected
        BY <3>1 DEF Machines
      <3> HIDE DEF new, w
      <3>4. \A x \in Voters : psm'[x] = IF x = w THEN new ELSE psm[x]
        BY <1>1, <3>1, <3>2
      <3>5. psm' \in [Voters -> Machines]
        BY <1>1, <3>1, <3>2, <3>3
      <3> QED
        BY <1>1, <1>2, <1>3, <3>3, <3>4, <3>5 DEF notTold
    <2> QED
      BY <2>1, <2>2, <1>3 DEF notTold
  <1>4. CASE outdated(m.to, m)
    BY <1>1, <1>2, <1>4 DEF outdated, answer
  <1>5. CASE sameVersion(m.to, m)
    <2>1. CASE asm[m.to].state = "PHASE3" /\ answer(m, asm[m.to].lastcommit) /\ UNCHANGED <<asm, accepted>>
      BY <1>1, <1>2, <1>5, <2>1 DEF sameVersion, answer
    <2>2. CASE /\ asm[m.to].state = "PHASE1"
               /\ asm' = [asm EXCEPT ![m.to].state = "PHASE2"]
               /\ accepted' = accepted \cup {<<m.to, m.proposal>>}
               /\ answer(m, Ack)
      BY <1>1, <1>2, <1>5, <2>2 DEF sameVersion, answer
    <2>3. CASE votes' = votes \ {m} /\ UNCHANGED <<answers, asm, accepted>>
      BY <1>1, <1>2, <1>5, <2>3 DEF sameVersion
    <2> QED
      BY <1>5, <2>1, <2>2, <2>3 DEF sameVersion
  <1> QED
    BY <1>3, <1>4, <1>5 DEF handleVote

LEMMA TypesStep == Types /\ [Next]_vars => Types'
  <1> SUFFICES ASSUME Types, [Next]_vars PROVE Types'
    OBVIOUS
  <1> USE Constructors, Fields, ExpectedAssumption, PartiesAssumption
          DEF requestorVars, proposerVars, connectionVars, historyVars
  <1>0. Requestor \in Voters /\ Proposers \subseteq Voters
    BY DEF Voters
  <1>1. CASE stop
    BY <1>1, Disconnected, <1>0 DEF stop, Types
  <1>2. CASE proposeChange
    <2>1. PICK list \in SUBSET Acceptors :
             newProposal(Requestor, AcceptorChange(currentversion + 1, list)) /\ unused' = unused \ list
      BY <1>2 DEF proposeChange
    <2>2. AcceptorChange(currentversion + 1, list) \in Proposals
      BY DEF Types
    <2>3. psm' \in [Voters -> Machines] /\ votes' \subseteq VoteMessages /\ decided' \subseteq Proposals
      BY <2>1, <2>2, <1>0, Proposed DEF Types
    <2> QED
      BY <1>2, <2>1, <2>3 DEF proposeChange, Types
  <1>3. CASE changeAcceptor
    <2>1. psm[Requestor].proposal.list \subseteq Acceptors /\ psm[Requestor].version \in Nat
      BY <1>0 DEF Types
    <2> QED
      BY <1>3, <2>1 DEF changeAcceptor, recipients, Types
  <1>4. ASSUME NEW x \in Acceptors \cup Proposers, tell(x) PROVE Types'
    BY <1>4 DEF tell, Participate, Types
  <1>5. CASE finishChange
    <2>1. psm[Requestor] \in Machines /\ psm[Requestor].proposal \in Proposals
      BY <1>0 DEF Types
    <2>2. commits' \subseteq CommitMessages
      <3>1. commitments(Requestor) \subseteq CommitMessages
        BY <2>1 DEF commitments, CommitMessages
      <3> QED
        BY <1>5, <3>1 DEF finishChange, Types
    <2>3. votes' \subseteq VoteMessages /\ answers' \subseteq AnswerMessages
      BY <1>5, <1>0, Disconnected DEF finishChange, Types
    <2>4. psm' \in [Voters -> Machines]
      BY <1>5, <1>0, <2>1 DEF finishChange, Types
    <2> QED
      BY <1>5, <2>2, <2>3, <2>4 DEF finishChange, Types
  <1>6. CASE requestProposer
    <2>1. PICK p \in unused \cap Proposers :
             /\ unused' = unused \ {p}
             /\ \/ proposers' = proposers \cup {p} /\ Participate(p, heard)
                \/ UNCHANGED <<proposers, requests>>
      BY <1>6 DEF requestProposer
    <2>2. requests' \in [Acceptors \cup Proposers -> Seq(Proposals)]
      BY <2>1, Participated DEF Types
    <2> QED
      BY <1>6, <2>1, <2>2 DEF requestProposer, Types
  <1>7. ASSUME NEW a \in Acceptors, loseAcceptor(a) PROVE Types'
    BY <1>7 DEF loseAcceptor, Types
  <1>8. ASSUME NEW a \in Acceptors, createAcceptor(a) PROVE Types'
    <2>1. /\ requests[a] \in Seq(Proposals) /\ requests[a] # <<>>
          /\ Head(requests[a]) \in Proposals /\ Tail(requests[a]) \in Seq(Proposals)
      BY <1>8 DEF createAcceptor, Types
    <2>2. [version |-> nextVersion(Head(requests[a])), state |-> "PHASE1",
           lastcommit |-> Head(requests[a])] \in AcceptorMachines
      BY <2>1 DEF AcceptorMachines, nextVersion
    <2> QED
      BY <1>8, <2>1, <2>2 DEF createAcceptor, Types
  <1>9. ASSUME NEW p \in Proposers, loseProposer(p) PROVE Types'
    BY <1>9 DEF loseProposer, Types
  <1>10. ASSUME NEW p \in Proposers, createProposer(p) PROVE Types'
    <2>1. /\ requests[p] \in Seq(Proposals) /\ requests[p] # <<>>
          /\ Head(requests[p]) \in Proposals /\ Tail(requests[p]) \in Seq(Proposals)
      BY <1>10 DEF createProposer, Types
    <2>2. psm' \in [Voters -> Machines]
      <3>1. nextVersion(Head(requests[p])) \in Nat /\ Head(requests[p]).list \in SUBSET Acceptors
        BY <2>1 DEF nextVersion
      <3>2. /\ p \in Voters
            /\ psm' = [psm EXCEPT ![p] = Machine(nextVersion(Head(requests[p])), Head(requests[p]).list)]
        BY <1>0, <1>10 DEF createProposer
      <3>3. Machine(nextVersion(Head(requests[p])), Head(requests[p]).list) \in Machines
        BY <3>1, NewMachine
      <3> QED
        BY ONLY Types, <3>2, <3>3, Replaced
    <2>3. votes' \subseteq VoteMessages /\ answers' \subseteq AnswerMessages
      BY <1>10, <1>0, Disconnected DEF createProposer, Types
    <2>4. requests' \in [Acceptors \cup Proposers -> Seq(Proposals)]
      BY <1>10, <2>1 DEF createProposer, Types
    <2> QED
      BY <1>10, <2>2, <2>3, <2>4 DEF createProposer, Types
  <1>11. ASSUME NEW p \in Proposers, startRecovery(p) PROVE Types'
    <2>1. /\ psm[p].version \in Nat
          /\ newProposal(p, Recovery(psm[p].version, p, taken[p] + 1))
          /\ Recovery(psm[p].version, p, taken[p] + 1) \in Proposals
      BY <1>0, <1>11 DEF startRecovery, Types
    <2>2. psm' \in [Voters -> Machines] /\ votes' \subseteq VoteMessages /\ decided' \subseteq Proposals
      BY <2>1, <1>0, Proposed DEF Types
    <2> QED
      BY <1>11, <2>2 DEF startRecovery, Types
  <1>12. ASSUME NEW p \in Proposers, checkTimeout(p) PROVE Types'
    <2>1. psm' \in [Voters -> Machines]
      BY <1>12, TimedOut
    <2> QED
      BY <1>12, <2>1 DEF checkTimeout, Types
  <1>13. ASSUME NEW p \in Proposers, sendCommitment(p) PROVE Types'
    <2>1. psm[p] \in Machines /\ psm[p].proposal \in Proposals
      BY <1>0 DEF Types
    <2>2. commits' \subseteq CommitMessages
      <3>1. commitments(p) \subseteq CommitMessages
        BY <2>1 DEF commitments, CommitMessages
      <3> QED
        BY <1>13, <3>1 DEF sendCommitment, Types
    <2>3. votes' \subseteq VoteMessages /\ answers' \subseteq AnswerMessages
      BY <1>13, <1>0, Disconnected DEF sendCommitment, Types
    <2>4. psm' \in [Voters -> Machines]
      BY <1>13, <1>0, Ended3 DEF sendCommitment, Types
    <2> QED
      BY <1>13, <2>2, <2>3, <2>4 DEF sendCommitment, Types
  <1>14. ASSUME NEW m \in answers, requestorReads(m) PROVE Types'
    <2>1. m \in AnswerMessages
      BY DEF Types
    <2>2. CASE m.outcome = Ack /\ countAck(Requestor, m.from) /\ answers' = answers \ {m}
               /\ UNCHANGED <<currentversion, votes>>
      <3>1. psm' \in [Voters -> Machines] /\ decided' \subseteq Proposals
        <4>1. Requestor \in Voters /\ psm[Requestor].proposal \in Proposals /\ m.from \in Acceptors
          BY <1>0, <2>1 DEF Types
        <4>2. /\ psm' \in [Voters -> Machines]
              /\ decided' = decided \/ decided' = decided \cup {psm[Requestor].proposal}
          BY ONLY Types, <2>2, <4>1, Counted
        <4> QED
          BY <4>1, <4>2 DEF Types
      <3> QED
        BY <1>14, <2>2, <3>1 DEF requestorReads, Types
    <2>3. CASE /\ psm' = [psm EXCEPT ![Requestor].state = "PHASE3", ![Requestor].connected = {}]
               /\ currentversion' = m.outcome.version
               /\ disconnect(Requestor)
               /\ UNCHANGED decided
      <3>1. psm' \in [Voters -> Machines]
        BY <2>3, <1>0, Ended3
      <3>2. votes' \subseteq VoteMessages /\ answers' \subseteq AnswerMessages
        BY <2>3, <1>0, Disconnected DEF Types
      <3> QED
        BY <1>14, <2>1, <2>3, <3>1, <3>2 DEF requestorReads, Types
    <2> QED
      BY <1>14, <2>2, <2>3 DEF requestorReads
  <1>15. ASSUME NEW p \in Proposers, NEW m \in answers, proposerReads(p, m) PROVE Types'
    <2>1. m \in AnswerMessages
      BY DEF Types
    <2>2. CASE m.outcome = Ack /\ countAck(p, m.from) /\ answers' = answers \ {m}
               /\ UNCHANGED <<votes, superseded>>
      <3>1. psm' \in [Voters -> Machines] /\ decided' \subseteq Proposals
        <4>1. p \in Voters /\ psm[p].proposal \in Proposals /\ m.from \in Acceptors
          BY <1>0, <2>1 DEF Types
        <4>2. /\ psm' \in [Voters -> Machines]
              /\ decided' = decided \/ decided' = decided \cup {psm[p].proposal}
          BY ONLY Types, <2>2, <4>1, Counted
        <4> QED
          BY <4>1, <4>2 DEF Types
      <3> QED
        BY <1>15, <2>2, <3>1 DEF proposerReads, Types
    <2>3. CASE /\ psm' = [psm EXCEPT ![p].state = "PHASE3", ![p].connected = {}]
               /\ disconnect(p)
               /\ UNCHANGED <<superseded, decided>>
      <3>1. psm' \in [Voters -> Machines]
        BY <2>3, <1>0, Ended3
      <3>2. votes' \subseteq VoteMessages /\ answers' \subseteq AnswerMessages
        BY <2>3, <1>0, Disconnected DEF Types
      <3> QED
        BY <1>15, <2>3, <3>1, <3>2 DEF proposerReads, Types
    <2>4. CASE /\ psm' = [psm EXCEPT ![p] = Machine(nextVersion(m.outcome), m.outcome.list)]
               /\ superseded' = superseded \cup {p}
               /\ disconnect(p)
               /\ UNCHANGED decided
      <3>1. psm' \in [Voters -> Machines]
        <4>1. nextVersion(m.outcome) \in Nat /\ m.outcome.list \in SUBSET Acceptors
          BY <2>1, Fields DEF nextVersion
        <4>2. Machine(nextVersion(m.outcome), m.outcome.list) \in Machines
          BY <4>1, Constructors
        <4> QED
          BY ONLY <2>4, <4>2, Types DEF Types
      <3>2. votes' \subseteq VoteMessages /\ answers' \subseteq AnswerMessages
        BY <2>4, <1>0, Disconnected DEF Types
      <3> QED
        BY <1>15, <2>4, <3>1, <3>2 DEF proposerReads, Types
    <2> QED
      BY <1>15, <2>2, <2>3, <2>4 DEF proposerReads
  <1>16. ASSUME NEW m \in votes, handleVote(m) PROVE Types'
    <2>1. /\ m \in VoteMessages /\ votes' = votes \ {m}
          /\ psm' \in [Voters -> Machines]
          /\ UNCHANGED <<requestorVars, requests, proposerVars, commits, decided>>
      BY <1>16, Voted
    <2>2. asm' \in [Acceptors -> AcceptorMachines] /\ accepted' \subseteq Acceptors \X Proposals
      <3>1. CASE UNCHANGED <<asm, accepted>>
        BY <3>1 DEF Types
      <3>2. CASE /\ asm' = [asm EXCEPT ![m.to].state = "PHASE2"]
                 /\ accepted' = accepted \cup {<<m.to, m.proposal>>}
        <4>1. m.to \in Acceptors /\ m.proposal \in Proposals
          BY <2>1
        <4>2. [asm[m.to] EXCEPT !.state = "PHASE2"] \in AcceptorMachines
          <5>1. asm[m.to] \in AcceptorMachines
            BY <4>1 DEF Types
          <5> QED
            BY ONLY <5>1 DEF AcceptorMachines
        <4>3. asm' = [asm EXCEPT ![m.to] = [asm[m.to] EXCEPT !.state = "PHASE2"]]
          BY <3>2, <4>1 DEF Types
        <4> QED
          BY <3>2, <4>1, <4>2, <4>3 DEF Types
      <3> QED
        BY <1>16, Voted, <3>1, <3>2
    <2>3. answers' \subseteq AnswerMessages
      <3>1. CASE answers' = answers
        BY <3>1 DEF Types
      <3>2. ASSUME NEW o \in Proposals, m.from # Nobody,
                   answers' = answers \cup {[to |-> m.from, from |-> m.to, outcome |-> o]}
            PROVE  answers' \subseteq AnswerMessages
        BY <2>1, <3>2 DEF Types, AnswerMessages
      <3>3. asm[m.to].lastcommit \in Proposals
        BY <2>1 DEF Types
      <3> QED
        BY <1>16, Voted, <3>1, <3>2, <3>3
    <2> QED
      BY <2>1, <2>2, <2>3 DEF Types
  <1>17. ASSUME NEW m \in commits, handleCommitment(m) PROVE Types'
    <2>1. m \in CommitMessages
      BY DEF Types
    <2>2. asm' \in [Acceptors -> AcceptorMachines]
      BY <1>17, CommitmentRead
    <2> QED
      BY <1>17, <2>2 DEF handleCommitment, Types
  <1>18. CASE UNCHANGED vars
    BY <1>18 DEF vars, Types
  <1> QED
    BY <1>1, <1>2, <1>3, <1>4, <1>5, <1>6, <1>7, <1>8, <1>9, <1>10, <1>11, <1>12, <1>13, <1>14,
       <1>15, <1>16, <1>17, <1>18 DEF Next, insufficientAcceptors, insufficientProposers, crash

LEMMA TypesInvariant == Spec => []Types
  BY InitTypes, TypesStep, PTL DEF Spec
-----------------------------------------------------------------------------
(* The requestor.                                                          *)

(* What the others do to what the requestor's invariant speaks of.         *)
OtherStep ==
    \/ \E a \in Acceptors : createAcceptor(a)
    \/ \E p \in Proposers : createProposer(p) \/ startRecovery(p) \/ checkTimeout(p) \/ sendCommitment(p)
    \/ \E p \in Proposers, m \in answers : proposerReads(p, m)
    \/ \E m \in votes : handleVote(m)
    \/ \E m \in commits : handleCommitment(m)

LEMMA OthersKeep ==
    ASSUME Types, OtherStep
    PROVE  /\ UNCHANGED requestorVars
           /\ \A x \in {Requestor} : /\ psm'[x].version = psm[x].version /\ psm'[x].list = psm[x].list
                                     /\ psm'[x].state = psm[x].state
                                     /\ psm'[x].proposal = psm[x].proposal
                                     /\ psm'[x].acks = psm[x].acks
           /\ \A m \in votes' : m.from = Requestor => m \in votes
           /\ \A m \in answers' : m.to = Requestor =>
                 m \in answers \/ \E n \in votes : n.from = Requestor
  <1> USE PartiesAssumption
  <1>0. /\ Requestor \in Voters /\ Proposers \subseteq Voters /\ Requestor # Nobody
        /\ \A p \in Proposers : p # Requestor
    BY DEF Voters
  <1>1. ASSUME NEW a \in Acceptors, createAcceptor(a) PROVE UNCHANGED <<requestorVars, psm, votes, answers>>
    BY <1>1 DEF createAcceptor, connectionVars
  <1>2. ASSUME NEW p \in Proposers, createProposer(p) \/ sendCommitment(p)
        PROVE  /\ UNCHANGED requestorVars
               /\ psm'[Requestor] = psm[Requestor]
               /\ \A m \in votes' : m.from = Requestor => m \in votes
               /\ answers' \subseteq answers
    <2>1. UNCHANGED requestorVars /\ disconnect(p)
      BY <1>2 DEF createProposer, sendCommitment
    <2>2. psm'[Requestor] = psm[Requestor]
      BY <1>0, <1>2 DEF createProposer, sendCommitment, Types
    <2> QED
      BY <2>1, <2>2, <1>0, Disconnected
  <1>3. ASSUME NEW p \in Proposers, startRecovery(p)
        PROVE  /\ UNCHANGED <<requestorVars, answers>>
               /\ psm'[Requestor] = psm[Requestor]
               /\ \A m \in votes' : m.from = Requestor => m \in votes
    <2>1. /\ psm[p].version \in Nat
          /\ newProposal(p, Recovery(psm[p].version, p, taken[p] + 1))
          /\ Recovery(psm[p].version, p, taken[p] + 1) \in Proposals
          /\ UNCHANGED <<requestorVars, answers>>
      BY <1>0, <1>3, Constructors, Fields DEF startRecovery, Types
    <2> QED
      BY <2>1, <1>0, Proposed
  <1>4. ASSUME NEW p \in Proposers, checkTimeout(p)
        PROVE  UNCHANGED <<requestorVars, answers, votes>> /\ psm'[Requestor] = psm[Requestor]
    BY <1>0, <1>4, TimedOut DEF checkTimeout, connectionVars
  <1>5. ASSUME NEW p \in Proposers, NEW m \in answers, proposerReads(p, m)
        PROVE  /\ UNCHANGED requestorVars
               /\ psm'[Requestor] = psm[Requestor]
               /\ \A n \in votes' : n.from = Requestor => n \in votes
               /\ answers' \subseteq answers
    <2>1. UNCHANGED requestorVars
      BY <1>5 DEF proposerReads
    <2>2. psm'[Requestor] = psm[Requestor]
      BY <1>0, <1>5 DEF proposerReads, countAck, Types
    <2>3. disconnect(p) \/ (answers' = answers \ {m} /\ UNCHANGED votes)
      BY <1>5 DEF proposerReads
    <2> QED
      BY <2>1, <2>2, <2>3, <1>0, Disconnected
  <1>6. ASSUME NEW m \in votes, handleVote(m)
        PROVE  /\ UNCHANGED requestorVars
               /\ \A x \in {Requestor} : /\ psm'[x].version = psm[x].version /\ psm'[x].list = psm[x].list
                                         /\ psm'[x].state = psm[x].state
                                         /\ psm'[x].proposal = psm[x].proposal
                                         /\ psm'[x].acks = psm[x].acks
               /\ votes' \subseteq votes
               /\ \A n \in answers' : n.to = Requestor => n \in answers \/ m.from = Requestor
    <2>1. /\ UNCHANGED requestorVars
          /\ \A w \in Voters : /\ psm'[w].version = psm[w].version /\ psm'[w].list = psm[w].list
                               /\ psm'[w].state = psm[w].state /\ psm'[w].proposal = psm[w].proposal
                               /\ psm'[w].acks = psm[w].acks
          /\ votes' \subseteq votes
      BY <1>6, Voted
    <2>2. answers' = answers \/ \E o : answers' = answers \cup {[to |-> m.from, from |-> m.to, outcome |-> o]}
      BY <1>6, Voted
    <2> QED
      BY <1>0, <2>1, <2>2
  <1>7. ASSUME NEW m \in commits, handleCommitment(m) PROVE UNCHANGED <<requestorVars, psm, votes, answers>>
    BY <1>7 DEF handleCommitment
  <1> QED
    BY <1>1, <1>2, <1>3, <1>4, <1>5, <1>6, <1>7 DEF OtherStep

(* The steps of the requestor's own program, and none.                     *)
RequestorStep ==
    \/ stop \/ proposeChange \/ changeAcceptor \/ finishChange \/ requestProposer
    \/ \E x \in Acceptors \cup Proposers : tell(x)
    \/ \E a \in Acceptors : loseAcceptor(a)
    \/ \E p \in Proposers : loseProposer(p)
    \/ \E m \in answers : requestorReads(m)

LEMMA TwoKinds == [Next]_vars => OtherStep \/ RequestorStep \/ UNCHANGED vars
  BY DEF Next, OtherStep, RequestorStep, insufficientAcceptors, insufficientProposers, crash

LEMMA RequestorInit == Init => RequestorInv
  <1> SUFFICES ASSUME Init PROVE RequestorInv
    OBVIOUS
  <1>1. psm[Requestor] = Machine(1, {})
    BY DEF Init, Voters
  <1>2. /\ machine.version = 1 /\ machine.list = {} /\ machine.state = "INITIAL"
    BY <1>1, Constructors DEF machine
  <1>3. heard \subseteq machine.list /\ Cardinality(machine.list \ heard) = 0
    <2>1. machine.list \ heard = {}
      BY <1>2
    <2> QED
      BY <2>1, FS_EmptySet DEF Init
  <1>4. /\ currentversion = 0 /\ needchange /\ ~changing /\ telling = {}
        /\ votes = {} /\ answers = {}
    BY DEF Init
  <1> HIDE DEF machine, Init
  <1> QED
    BY <1>2, <1>3, <1>4, ExpectedAssumption DEF RequestorInv

(* Finite sets of acceptors.                                               *)
LEMMA Finite ==
    ASSUME NEW S \in SUBSET Acceptors
    PROVE  IsFiniteSet(S) /\ Cardinality(S) \in Nat
  BY PartiesAssumption, FS_Subset, FS_CardinalityType

LEMMA RequestorStepKeeps == Types /\ RequestorInv /\ [Next]_vars => RequestorInv'
  <1> SUFFICES ASSUME Types, RequestorInv, [Next]_vars PROVE RequestorInv'
    OBVIOUS
  <1> USE PartiesAssumption, ExpectedAssumption
  <1>0. /\ Requestor \in Voters /\ machine \in Machines /\ currentversion \in Nat
        /\ machine.version \in Nat /\ machine.list \subseteq Acceptors
        /\ machine.proposal.list \subseteq Acceptors
        /\ machine.state \in {"INITIAL", "VOTING", "WON", "PHASE3"}
        /\ heard \subseteq Acceptors
    BY Fields DEF Voters, Types, machine
  <1>1. CASE OtherStep
    <2>1. /\ machine'.version = machine.version /\ machine'.list = machine.list
          /\ machine'.state = machine.state /\ machine'.proposal = machine.proposal
          /\ UNCHANGED <<currentversion, needchange, changing, heard, telling>>
          /\ \A m \in votes' : m.from = Requestor => m \in votes
          /\ \A m \in answers' : m.to = Requestor =>
                m \in answers \/ \E n \in votes : n.from = Requestor
      BY <1>1, OthersKeep DEF machine, requestorVars
    <2> QED
      BY <2>1 DEF RequestorInv
  <1>2. CASE stop
    <2>1. disconnect(Requestor) /\ UNCHANGED <<currentversion, needchange, changing, heard, telling, psm>>
      BY <1>2 DEF stop
    <2>2. (\A m \in votes' : m.from # Requestor) /\ (\A m \in answers' : m.to # Requestor)
      BY <2>1, <1>0, Disconnected
    <2> QED
      BY <2>1, <2>2 DEF RequestorInv, machine
  <1>3. CASE proposeChange
    <2>1. PICK list \in SUBSET Acceptors :
             /\ newProposal(Requestor, AcceptorChange(currentversion + 1, list))
             /\ Cardinality(list) = ExpectedAcceptors
      BY <1>3 DEF proposeChange
    <2> DEFINE c == AcceptorChange(currentversion + 1, list)
    <2>2. c \in Proposals /\ c.list = list
      BY <1>0, Constructors
    <2>3. machine.state = "INITIAL" /\ currentversion + 1 = machine.version
      BY <1>0, <1>3 DEF proposeChange, missesAcceptor, RequestorInv
    <2> HIDE DEF c
    <2>4. /\ machine'.version = machine.version /\ machine'.list = machine.list
          /\ machine'.proposal = c
          /\ machine'.state = IF Majority({}, machine.list) THEN "WON" ELSE "VOTING"
      BY <2>1, <2>2, <1>0, Proposed DEF machine, c
    <2>5. UNCHANGED <<currentversion, heard, telling>> /\ changing'
      BY <1>3 DEF proposeChange
    <2>6. machine.version = 1 => machine'.state = "WON"
      BY <2>4 DEF RequestorInv, Majority
    <2> HIDE DEF c
    <2> QED
      BY <1>0, <2>1, <2>2, <2>3, <2>4, <2>5, <2>6 DEF RequestorInv, c
  <1>4. CASE changeAcceptor
    BY <1>0, <1>4 DEF RequestorInv, machine, changeAcceptor, connectionVars
  <1>5. ASSUME NEW x \in Acceptors \cup Proposers, tell(x) PROVE RequestorInv'
    BY <1>5 DEF RequestorInv, machine, tell, connectionVars
  <1>6. CASE finishChange
    <2>1. /\ psm' = [psm EXCEPT ![Requestor] = Machine(currentversion + 1, psm[Requestor].proposal.list)]
          /\ currentversion + 1 \in Nat /\ psm[Requestor].proposal.list \in SUBSET Acceptors
      BY <1>0, <1>6 DEF finishChange, machine
    <2>2. /\ machine'.version = currentversion + 1 /\ machine'.list = machine.proposal.list
          /\ machine'.state = "INITIAL"
      <3> DEFINE M == Machine(currentversion + 1, psm[Requestor].proposal.list)
      <3>1. /\ M \in Machines /\ M.version = currentversion + 1
            /\ M.list = psm[Requestor].proposal.list /\ M.state = "INITIAL"
        BY <2>1, NewMachine
      <3>2. psm' = [psm EXCEPT ![Requestor] = M]
        BY <2>1
      <3> HIDE DEF M
      <3>3. psm'[Requestor] = M
        BY <3>1, <3>2, <1>0, Replaced
      <3> QED
        BY <3>1, <3>3 DEF machine
    <2>3. (\A m \in votes' : m.from # Requestor) /\ (\A m \in answers' : m.to # Requestor)
      BY <1>0, <1>6, Disconnected DEF finishChange
    <2>4. /\ UNCHANGED <<currentversion, heard, telling>> /\ telling = {} /\ ~changing'
          /\ machine.state = "WON" /\ currentversion = machine.version
      BY <1>6 DEF finishChange, machine
    <2>5. heard = machine.proposal.list /\ machine.version >= 1
      BY <2>4 DEF RequestorInv
    <2>6. Cardinality(machine'.list \ heard') = 0
      BY <2>2, <2>4, <2>5, FS_EmptySet, machine'.list \ heard' = {}
    <2> QED
      BY <1>0, <2>2, <2>3, <2>4, <2>5, <2>6 DEF RequestorInv
  <1>7. CASE requestProposer
    BY <1>7 DEF RequestorInv, machine, requestProposer, connectionVars
  <1>8. ASSUME NEW a \in Acceptors, loseAcceptor(a) PROVE RequestorInv'
    <2>1. /\ heard' = heard \ {a} /\ a \in heard /\ needchange' \in {TRUE, needchange}
          /\ Cardinality(machine.list \ heard) < MaxLost /\ machine.state # "WON"
          /\ UNCHANGED <<currentversion, changing, telling, psm, votes, answers>>
      BY <1>8 DEF loseAcceptor, Select, machine, connectionVars
    <2>2. heard \subseteq machine.list
      BY <2>1 DEF RequestorInv
    <2>3. machine.list \ heard' = (machine.list \ heard) \cup {a} /\ a \notin machine.list \ heard
      BY <2>1, <2>2
    <2>4. Cardinality(machine.list \ heard') = Cardinality(machine.list \ heard) + 1
      BY <1>0, <2>3, Finite, FS_AddElement
    <2>5. Cardinality(machine.list \ heard) \in Nat
      BY <1>0, Finite
    <2>6. Cardinality(machine.list \ heard') <= MaxLost
      BY <2>1, <2>4, <2>5
    <2> QED
      BY <2>1, <2>2, <2>6 DEF RequestorInv, machine
  <1>9. ASSUME NEW p \in Proposers, loseProposer(p) PROVE RequestorInv'
    BY <1>9 DEF RequestorInv, machine, loseProposer, connectionVars
  <1>10. ASSUME NEW m \in answers, requestorReads(m) PROVE RequestorInv'
    <2>1. machine.state = "VOTING"
      BY <1>0, <1>10 DEF requestorReads, Select, RequestorInv, machine
    <2>2. m.from \in Acceptors /\ m.outcome.version \in Nat
      BY Fields DEF Types
    <2>3. UNCHANGED <<needchange, changing, heard, telling>>
      BY <1>10 DEF requestorReads
    <2>4. CASE countAck(Requestor, m.from) /\ answers' = answers \ {m}
               /\ UNCHANGED <<currentversion, votes>>
      <3>1. /\ machine'.version = machine.version /\ machine'.list = machine.list
            /\ machine'.proposal = machine.proposal /\ machine'.state \in {"VOTING", "WON"}
        BY <1>0, <2>1, <2>2, <2>4, Counted DEF machine
      <3> QED
        BY <1>0, <2>1, <2>3, <2>4, <3>1 DEF RequestorInv
    <2>5. CASE /\ psm' = [psm EXCEPT ![Requestor].state = "PHASE3", ![Requestor].connected = {}]
               /\ disconnect(Requestor)
      <3>1. /\ machine'.version = machine.version /\ machine'.list = machine.list
            /\ machine'.state = "PHASE3"
        BY <1>0, <2>5, Ended3 DEF machine
      <3>2. (\A n \in votes' : n.from # Requestor) /\ (\A n \in answers' : n.to # Requestor)
        BY <1>0, <2>5, Disconnected
      <3> QED
        BY <1>0, <2>1, <2>3, <3>1, <3>2 DEF RequestorInv
    <2> QED
      BY <1>10, <2>4, <2>5 DEF requestorReads
  <1>11. CASE UNCHANGED vars
    BY <1>11 DEF RequestorInv, machine, vars, requestorVars, connectionVars
  <1> QED
    BY <1>1, <1>2, <1>3, <1>4, <1>5, <1>6, <1>7, <1>8, <1>9, <1>10, <1>11, TwoKinds DEF RequestorStep
-----------------------------------------------------------------------------
(* What each action does, in the form the later proofs use.                *)

(* At most w's machine changes. *)
Only(w) == psm' \in [Voters -> Machines] /\ \A x \in Voters : x # w => psm'[x] = psm[x]

SameProposal(w) ==
    /\ psm'[w].version = psm[w].version /\ psm'[w].list = psm[w].list
    /\ psm'[w].proposal = psm[w].proposal

Reset(w, v, l) ==
    /\ psm'[w].version = v /\ psm'[w].list = l /\ psm'[w].connected = l
    /\ psm'[w].state = "INITIAL" /\ psm'[w].proposal = NoProposal /\ psm'[w].acks = {}

(* w's connections close. *)
Cut(w) ==
    /\ answers' \subseteq answers
    /\ \A m \in answers' : m.to # w
    /\ \A m \in votes' : m.from # w
    /\ \A m \in votes' : \E n \in votes : m.to = n.to /\ m.proposal = n.proposal
    /\ \A m \in votes' : m.from # Nobody => m \in votes

(* w proposes p. *)
Proposes(w, p) ==
    /\ Only(w)
    /\ psm'[w].version = psm[w].version /\ psm'[w].list = psm[w].list
    /\ psm'[w].connected = psm[w].connected
    /\ psm'[w].proposal = p /\ psm'[w].acks = {}
    /\ psm'[w].state = IF Majority({}, psm[w].list) THEN "WON" ELSE "VOTING"
    /\ decided' = IF Majority({}, psm[w].list) THEN decided \cup {p} ELSE decided
    /\ \A m \in votes' : \/ m \in votes
                         \/ /\ m.from = w /\ m.proposal = p /\ m.to \in psm[w].connected

(* w reads an acknowledgement, another's outcome. *)
ReadsAck(w, m) ==
    /\ m.outcome = Ack
    /\ Only(w) /\ SameProposal(w) /\ psm'[w].connected = psm[w].connected
    /\ psm'[w].acks \subseteq psm[w].acks \cup {m.from}
    /\ votes' = votes /\ answers' = answers \ {m}
    /\ \/ psm' = psm /\ decided' = decided
       \/ psm[w].state = "VOTING" /\ psm'[w].state = "VOTING" /\ decided' = decided
       \/ /\ psm[w].state = "VOTING" /\ psm'[w].state = "WON"
          /\ decided' = decided \cup {psm[w].proposal}
          /\ Majority(psm'[w].acks, psm[w].list)

Ends(w) ==
    /\ Only(w) /\ SameProposal(w) /\ psm'[w].connected = {} /\ psm'[w].acks = psm[w].acks
    /\ psm'[w].state = "PHASE3"
    /\ Cut(w)

(* x is sent, takes, a request. *)
IsSent(x, r) ==
    /\ r \in Proposals
    /\ \A y \in Acceptors \cup Proposers : y # x => requests'[y] = requests[y]
    /\ requests[x] \in Seq(Proposals) /\ requests'[x] = Append(requests[x], r)

Takes(x, r) ==
    /\ r \in Proposals
    /\ \A y \in Acceptors \cup Proposers : y # x => requests'[y] = requests[y]
    /\ requests[x] \in Seq(Proposals) /\ requests[x] # <<>>
    /\ r = Head(requests[x]) /\ requests'[x] = Tail(requests[x])

LEMMA Appended ==
    ASSUME NEW x, NEW r, IsSent(x, r)
    PROVE  /\ DOMAIN requests[x] = 1 .. Len(requests[x]) /\ Len(requests[x]) \in Nat
           /\ DOMAIN requests'[x] = 1 .. Len(requests[x]) + 1
           /\ requests'[x] # <<>>
           /\ requests'[x][Len(requests[x]) + 1] = r
           /\ \A i \in DOMAIN requests[x] : requests'[x][i] = requests[x][i]
           /\ \A i \in DOMAIN requests'[x] :
                 \/ i \in DOMAIN requests[x] /\ requests'[x][i] = requests[x][i]
                 \/ i = Len(requests[x]) + 1 /\ requests'[x][i] = r
  BY DEF IsSent

LEMMA Taken ==
    ASSUME NEW x, NEW r, Takes(x, r)
    PROVE  /\ DOMAIN requests[x] = 1 .. Len(requests[x]) /\ Len(requests[x]) \in Nat
           /\ 1 \in DOMAIN requests[x] /\ requests[x][1] = r
           /\ DOMAIN requests'[x] = 1 .. Len(requests[x]) - 1
           /\ \A i \in DOMAIN requests'[x] :
                 i + 1 \in DOMAIN requests[x] /\ requests'[x][i] = requests[x][i + 1]
           /\ \A i \in DOMAIN requests[x] : i # 1 =>
                 i - 1 \in DOMAIN requests'[x] /\ requests'[x][i - 1] = requests[x][i]
  BY DEF Takes

LEMMA ProposeChangeEffect ==
    ASSUME Types, proposeChange
    PROVE  \E list \in SUBSET Acceptors : \E c \in Proposals :
              /\ c = AcceptorChange(currentversion + 1, list)
              /\ c.type = "ACCEPTORCHANGE" /\ c.version = currentversion + 1 /\ c.list = list
              /\ Cardinality(list) = ExpectedAcceptors
              /\ Proposes(Requestor, c)
              /\ unused' = unused \ list
  <1>1. PICK list \in SUBSET Acceptors :
             /\ newProposal(Requestor, AcceptorChange(currentversion + 1, list))
             /\ Cardinality(list) = ExpectedAcceptors
             /\ unused' = unused \ list
    BY DEF proposeChange
  <1> DEFINE c == AcceptorChange(currentversion + 1, list)
  <1>2. c \in Proposals /\ c.type = "ACCEPTORCHANGE" /\ c.version = currentversion + 1 /\ c.list = list
    BY Constructors DEF Types
  <1>3. newProposal(Requestor, c)
    BY <1>1
  <1> HIDE DEF c
  <1>4. Requestor \in Voters
    BY Parties
  <1>5. Proposes(Requestor, c)
    BY ONLY Types, <1>2, <1>3, <1>4, Proposed DEF Proposes, Only
  <1> QED
    BY <1>1, <1>2, <1>5 DEF c

LEMMA StartRecoveryEffect ==
    ASSUME Types, NEW p \in Proposers, startRecovery(p)
    PROVE  \E d \in Proposals :
              /\ d = Recovery(psm[p].version, p, taken[p] + 1)
              /\ d.type = "RECOVERY" /\ d.version = psm[p].version
              /\ Proposes(p, d)
  <1> DEFINE d == Recovery(psm[p].version, p, taken[p] + 1)
  <1>1. d \in Proposals /\ d.type = "RECOVERY" /\ d.version = psm[p].version
    BY Parties, Constructors, Fields DEF Types
  <1>2. newProposal(p, d)
    BY DEF startRecovery
  <1> HIDE DEF d
  <1>3. p \in Voters
    BY Parties
  <1>4. Proposes(p, d)
    BY ONLY Types, <1>1, <1>2, <1>3, Proposed DEF Proposes, Only
  <1> QED
    BY <1>1, <1>4 DEF d

LEMMA FinishChangeEffect ==
    ASSUME Types, finishChange
    PROVE  /\ Only(Requestor) /\ Cut(Requestor)
           /\ Reset(Requestor, currentversion + 1, psm[Requestor].proposal.list)
           /\ commits' = commits \cup commitments(Requestor)
  <1> DEFINE M == Machine(currentversion + 1, psm[Requestor].proposal.list)
  <1>1. currentversion + 1 \in Nat /\ psm[Requestor].proposal.list \in SUBSET Acceptors
    BY Parties, Fields DEF Types
  <1>2. /\ M \in Machines /\ M.version = currentversion + 1
        /\ M.list = psm[Requestor].proposal.list /\ M.state = "INITIAL"
        /\ M.proposal = NoProposal /\ M.acks = {} /\ M.connected = psm[Requestor].proposal.list
    BY <1>1, NewMachine
  <1>3. psm' = [psm EXCEPT ![Requestor] = M] /\ disconnect(Requestor)
        /\ commits' = commits \cup commitments(Requestor)
    BY DEF finishChange
  <1> HIDE DEF M
  <1>4. Only(Requestor) /\ psm'[Requestor] = M
    BY <1>2, <1>3, Parties, Replaced DEF Only
  <1>5. Cut(Requestor)
    BY <1>3, Parties, Disconnected DEF Cut
  <1> QED
    BY <1>2, <1>3, <1>4, <1>5 DEF Reset

LEMMA CreateProposerEffect ==
    ASSUME Types, NEW p \in Proposers, createProposer(p)
    PROVE  \E r \in Proposals : /\ Takes(p, r)
                                /\ Only(p) /\ Cut(p) /\ Reset(p, r.version + 1, r.list)
  <1> DEFINE r == Head(requests[p])
             M == Machine(r.version + 1, r.list)
  <1>1. r \in Proposals /\ Takes(p, r)
    BY DEF createProposer, Types, Takes
  <1>2. psm' = [psm EXCEPT ![p] = M] /\ disconnect(p)
    BY DEF createProposer, nextVersion
  <1> HIDE DEF r
  <1>3. r.version + 1 \in Nat /\ r.list \in SUBSET Acceptors
    BY <1>1, Fields
  <1>4. /\ M \in Machines /\ M.version = r.version + 1 /\ M.list = r.list /\ M.state = "INITIAL"
        /\ M.proposal = NoProposal /\ M.acks = {} /\ M.connected = r.list
    BY <1>3, NewMachine
  <1> HIDE DEF M
  <1>5. Only(p) /\ psm'[p] = M
    BY <1>2, <1>4, Parties, Replaced DEF Only
  <1>6. Cut(p)
    BY <1>2, Parties, Disconnected DEF Cut
  <1> QED
    BY <1>1, <1>4, <1>5, <1>6 DEF Reset

LEMMA SendCommitmentEffect ==
    ASSUME Types, NEW p \in Proposers, sendCommitment(p)
    PROVE  psm[p].state = "WON" /\ Ends(p) /\ commits' = commits \cup commitments(p)
  <1>1. /\ psm[p].state = "WON" /\ commits' = commits \cup commitments(p) /\ disconnect(p)
        /\ psm' = [psm EXCEPT ![p].state = "PHASE3", ![p].connected = {}]
    BY DEF sendCommitment
  <1>2. Cut(p)
    BY <1>1, Parties, Disconnected DEF Cut
  <1> QED
    BY <1>1, <1>2, Parties, Ended3 DEF Ends, Only, SameProposal

LEMMA RequestorReadsEffect ==
    ASSUME Types, NEW m \in answers, requestorReads(m)
    PROVE  /\ m \in AnswerMessages /\ m.to = Requestor /\ psm[Requestor].state # "WON"
           /\ \/ ReadsAck(Requestor, m) /\ UNCHANGED currentversion
              \/ /\ m.outcome # Ack /\ Ends(Requestor) /\ decided' = decided
                 /\ currentversion' = m.outcome.version
  <1>1. /\ m \in AnswerMessages /\ m.from \in Acceptors /\ m.to = Requestor
        /\ psm[Requestor].state # "WON"
    BY Fields DEF Types, requestorReads, Select
  <1>2. CASE /\ m.outcome = Ack /\ countAck(Requestor, m.from) /\ answers' = answers \ {m}
             /\ UNCHANGED <<currentversion, votes>>
    BY <1>1, <1>2, Parties, Counted DEF ReadsAck, Only, SameProposal
  <1>3. CASE /\ m.outcome # Ack
             /\ psm' = [psm EXCEPT ![Requestor].state = "PHASE3", ![Requestor].connected = {}]
             /\ currentversion' = m.outcome.version
             /\ disconnect(Requestor)
             /\ UNCHANGED decided
    <2>1. Cut(Requestor)
      BY <1>3, Parties, Disconnected DEF Cut
    <2> QED
      BY <1>1, <1>3, <2>1, Parties, Ended3 DEF Ends, Only, SameProposal
  <1> QED
    BY <1>2, <1>3 DEF requestorReads

LEMMA ProposerReadsEffect ==
    ASSUME Types, NEW p \in Proposers, NEW m \in answers, proposerReads(p, m)
    PROVE  /\ m \in AnswerMessages /\ m.to = p /\ psm[p].state # "WON" /\ requests[p] = <<>>
           /\ \/ ReadsAck(p, m) /\ UNCHANGED superseded
              \/ m.outcome.type = "RECOVERY" /\ Ends(p) /\ UNCHANGED <<superseded, decided>>
              \/ /\ m.outcome.type = "ACCEPTORCHANGE"
                 /\ Only(p) /\ Cut(p) /\ Reset(p, m.outcome.version + 1, m.outcome.list)
                 /\ superseded' = superseded \cup {p} /\ UNCHANGED decided
  <1>0. p \in Voters
    BY Parties
  <1>1. /\ m \in AnswerMessages /\ m.from \in Acceptors /\ m.outcome \in Proposals /\ m.to = p
        /\ psm[p].state # "WON" /\ requests[p] = <<>>
    BY Fields DEF Types, proposerReads, mayRead
  <1>2. CASE /\ m.outcome = Ack /\ countAck(p, m.from) /\ answers' = answers \ {m}
             /\ UNCHANGED <<votes, superseded>>
    BY ONLY Types, <1>0, <1>1, <1>2, Counted DEF ReadsAck, Only, SameProposal
  <1>3. CASE /\ m.outcome.type = "RECOVERY"
             /\ psm' = [psm EXCEPT ![p].state = "PHASE3", ![p].connected = {}]
             /\ disconnect(p)
             /\ UNCHANGED <<superseded, decided>>
    <2>1. Cut(p)
      BY <1>3, Parties, Disconnected DEF Cut
    <2> QED
      BY ONLY Types, <1>0, <1>1, <1>3, <2>1, Ended3 DEF Ends, Only, SameProposal
  <1>4. CASE /\ m.outcome.type = "ACCEPTORCHANGE"
             /\ psm' = [psm EXCEPT ![p] = Machine(nextVersion(m.outcome), m.outcome.list)]
             /\ superseded' = superseded \cup {p}
             /\ disconnect(p)
             /\ UNCHANGED decided
    <2> DEFINE M == Machine(m.outcome.version + 1, m.outcome.list)
    <2>1. m.outcome.version + 1 \in Nat /\ m.outcome.list \in SUBSET Acceptors
      BY <1>1, Fields
    <2>2. /\ M \in Machines /\ M.version = m.outcome.version + 1 /\ M.list = m.outcome.list
          /\ M.state = "INITIAL" /\ M.proposal = NoProposal /\ M.acks = {}
          /\ M.connected = m.outcome.list
      BY <2>1, NewMachine
    <2>3. psm' = [psm EXCEPT ![p] = M]
      BY <1>4 DEF nextVersion
    <2> HIDE DEF M
    <2>4. Only(p) /\ psm'[p] = M
      BY <2>2, <2>3, Parties, Replaced DEF Only
    <2>5. Cut(p)
      BY <1>4, Parties, Disconnected DEF Cut
    <2> QED
      BY <1>1, <1>4, <2>2, <2>4, <2>5 DEF Reset
  <1> QED
    BY <1>2, <1>3, <1>4 DEF proposerReads

LEMMA CheckTimeoutEffect ==
    ASSUME Types, NEW p \in Proposers, checkTimeout(p)
    PROVE  /\ Only(p) /\ SameProposal(p) /\ psm'[p].connected = psm[p].connected
           /\ psm[p].state = "VOTING" /\ psm'[p].state = "INITIAL" /\ psm'[p].acks = {}
  BY TimedOut DEF Only, SameProposal

LEMMA CreateAcceptorEffect ==
    ASSUME Types, NEW a \in Acceptors, createAcceptor(a)
    PROVE  \E r \in Proposals :
              /\ Takes(a, r)
              /\ asm' \in [Acceptors -> AcceptorMachines]
              /\ \A b \in Acceptors : b # a => asm'[b] = asm[b]
              /\ asm'[a].version = r.version + 1 /\ asm'[a].state = "PHASE1" /\ asm'[a].lastcommit = r
  <1> DEFINE r == Head(requests[a])
             M == [version |-> r.version + 1, state |-> "PHASE1", lastcommit |-> r]
  <1>1. r \in Proposals /\ Takes(a, r)
    BY DEF createAcceptor, Types, Takes
  <1>2. asm' = [asm EXCEPT ![a] = M]
    BY DEF createAcceptor, nextVersion
  <1> HIDE DEF r
  <1>3. /\ M \in AcceptorMachines /\ M.version = r.version + 1 /\ M.state = "PHASE1"
        /\ M.lastcommit = r
    BY <1>1, Fields DEF AcceptorMachines
  <1> HIDE DEF M
  <1>4. /\ asm' \in [Acceptors -> AcceptorMachines] /\ asm'[a] = M
        /\ \A b \in Acceptors : b # a => asm'[b] = asm[b]
    BY <1>2, <1>3 DEF Types
  <1> QED
    BY <1>1, <1>3, <1>4

LEMMA TellEffect ==
    ASSUME Types, NEW x \in Acceptors \cup Proposers, tell(x)
    PROVE  \E r \in Proposals :
              /\ r = AcceptorChange(currentversion, heard)
              /\ r.type = "ACCEPTORCHANGE" /\ r.version = currentversion /\ r.list = heard
              /\ IsSent(x, r) /\ telling' = telling \ {x} /\ x \in telling /\ mayTell(x)
  <1> DEFINE r == AcceptorChange(currentversion, heard)
  <1>1. r \in Proposals /\ r.type = "ACCEPTORCHANGE" /\ r.version = currentversion /\ r.list = heard
    BY Constructors DEF Types
  <1>2. IsSent(x, r)
    BY Participated DEF tell, IsSent, Types
  <1> HIDE DEF r
  <1> QED
    BY <1>1, <1>2 DEF tell, r

LEMMA RequestProposerEffect ==
    ASSUME Types, requestProposer
    PROVE  \E p \in unused \cap Proposers : \E r \in Proposals :
              /\ r.type = "ACCEPTORCHANGE" /\ r.version = currentversion /\ r.list = heard
              /\ unused' = unused \ {p}
              /\ \/ proposers' = proposers \cup {p} /\ IsSent(p, r)
                 \/ UNCHANGED <<proposers, requests>>
  <1> DEFINE r == AcceptorChange(currentversion, heard)
  <1>1. r \in Proposals /\ r.type = "ACCEPTORCHANGE" /\ r.version = currentversion /\ r.list = heard
    BY Constructors DEF Types
  <1>2. PICK p \in unused \cap Proposers :
             /\ unused' = unused \ {p}
             /\ \/ proposers' = proposers \cup {p} /\ Participate(p, heard)
                \/ UNCHANGED <<proposers, requests>>
    BY DEF requestProposer
  <1>3. Participate(p, heard) => IsSent(p, r)
    BY <1>2, Participated DEF IsSent, Types
  <1> HIDE DEF r
  <1> QED
    BY <1>1, <1>2, <1>3
-----------------------------------------------------------------------------
(* What is decided and who knows of it.                                    *)

LEMMA KnownInit == Init => KnownInv
  <1> SUFFICES ASSUME Init PROVE KnownInv
    OBVIOUS
  <1>1. \A w \in Voters : psm[w].state = "INITIAL"
    BY DEF Init, Machine
  <1>2. \A a \in Acceptors : asm[a].version = 0 /\ asm[a].state = "PHASE1" /\ requests[a] = <<>>
    BY DEF Init
  <1>3. \A a \in Acceptors : DOMAIN requests[a] = {}
    BY <1>2
  <1> QED
    BY <1>1, <1>2, <1>3, Parties DEF Init, KnownInv

LEMMA KnownStep == Types /\ RequestorInv /\ KnownInv /\ [Next]_vars => KnownInv'
  <1> SUFFICES ASSUME Types, RequestorInv, KnownInv, [Next]_vars PROVE KnownInv'
    OBVIOUS
  <1> USE Parties DEF requestorVars, proposerVars, connectionVars, historyVars
  <1>1. CASE stop
    <2>1. UNCHANGED <<psm, decided, requests, commits, asm>> /\ disconnect(Requestor)
      BY <1>1 DEF stop
    <2>2. answers' \subseteq answers /\ \A m \in votes' : \E n \in votes : m.proposal = n.proposal
      BY <2>1, Disconnected
    <2>3. UNCHANGED watching
      BY <1>1 DEF stop
    <2> QED
      BY <2>1, <2>2, <2>3 DEF KnownInv
  <1>2. CASE proposeChange
    <2>1. PICK list \in SUBSET Acceptors, c \in Proposals :
              /\ c = AcceptorChange(currentversion + 1, list)
              /\ c.type = "ACCEPTORCHANGE" /\ c.version = currentversion + 1 /\ c.list = list
              /\ Cardinality(list) = ExpectedAcceptors
              /\ Proposes(Requestor, c)
      BY <1>2, ProposeChangeEffect
    <2>2. UNCHANGED <<requests, commits, asm, answers, watching>>
      BY <1>2 DEF proposeChange
    <2>3. /\ \A p \in Proposers : psm'[p] = psm[p]
          /\ decided \subseteq decided' /\ decided' \subseteq decided \cup {c}
          /\ psm'[Requestor].state = "WON" => c \in decided'
          /\ psm'[Requestor].proposal = c
          /\ \A m \in votes' : m \in votes \/ m.proposal = c
      BY <2>1 DEF Proposes, Only
    <2>4. c.version >= 1 /\ watching \subseteq Proposers
      BY <2>1 DEF Types
    <2> QED
      BY <2>1, <2>2, <2>3, <2>4 DEF KnownInv
  <1>3. CASE changeAcceptor
    BY <1>3 DEF KnownInv, changeAcceptor
  <1>4. ASSUME NEW x \in Acceptors \cup Proposers, tell(x) PROVE KnownInv'
    <2>1. PICK r \in Proposals :
              /\ r = AcceptorChange(currentversion, heard) /\ r.type = "ACCEPTORCHANGE"
              /\ IsSent(x, r) /\ x \in telling
      BY <1>4, TellEffect
    <2>2. r \in decided
      BY <2>1 DEF RequestorInv, KnownInv, machine
    <2>3. UNCHANGED <<psm, decided, commits, asm, answers, votes, watching>>
      BY <1>4 DEF tell
    <2>4. \A a \in Acceptors : \A i \in DOMAIN requests'[a] :
             requests'[a][i] \in decided /\ requests'[a][i].type = "ACCEPTORCHANGE"
      <3> SUFFICES ASSUME NEW a \in Acceptors, NEW i \in DOMAIN requests'[a]
                   PROVE  requests'[a][i] \in decided /\ requests'[a][i].type = "ACCEPTORCHANGE"
        OBVIOUS
      <3>1. CASE a = x
        <4>1. requests'[a][i] = r \/ (i \in DOMAIN requests[a] /\ requests'[a][i] = requests[a][i])
          BY <2>1, <3>1, Appended
        <4> QED
          BY <2>1, <2>2, <4>1 DEF KnownInv
      <3>2. CASE a # x
        BY <2>1, <3>2 DEF KnownInv, IsSent
      <3> QED
        BY <3>1, <3>2
    <2> QED
      BY <2>3, <2>4 DEF KnownInv
  <1>5. CASE finishChange
    <2>1. /\ Only(Requestor) /\ psm'[Requestor].state = "INITIAL" /\ answers' \subseteq answers
          /\ commits' = commits \cup commitments(Requestor)
      BY <1>5, FinishChangeEffect DEF Reset, Cut
    <2>2. UNCHANGED <<decided, requests, asm>> /\ psm[Requestor].proposal \in decided
      BY <1>5 DEF finishChange, KnownInv
    <2>3. \A m \in commits' : m.proposal \in decided
      BY <2>1, <2>2 DEF commitments, KnownInv
    <2>4. /\ watching' = watching /\ watching \subseteq Proposers
          /\ \A m \in votes' : \E n \in votes : m.proposal = n.proposal
      BY <1>5, FinishChangeEffect DEF finishChange, Types, Cut
    <2> QED
      BY <2>1, <2>2, <2>3, <2>4 DEF KnownInv, Only
  <1>6. CASE requestProposer
    <2>1. PICK p \in unused \cap Proposers, r \in Proposals : IsSent(p, r) \/ UNCHANGED requests
      BY <1>6, RequestProposerEffect
    <2>2. p \in Proposers
      BY <2>1
    <2>3. \A a \in Acceptors : requests'[a] = requests[a]
      BY <2>1, <2>2 DEF IsSent
    <2>4. UNCHANGED <<psm, decided, commits, asm, answers, votes, watching>>
      BY <1>6 DEF requestProposer
    <2> QED
      BY <2>3, <2>4 DEF KnownInv
  <1>7. ASSUME NEW a \in Acceptors, loseAcceptor(a) PROVE KnownInv'
    BY <1>7 DEF KnownInv, loseAcceptor
  <1>8. ASSUME NEW a \in Acceptors, createAcceptor(a) PROVE KnownInv'
    <2>1. PICK r \in Proposals :
              /\ Takes(a, r)
              /\ \A b \in Acceptors : b # a => asm'[b] = asm[b]
              /\ asm'[a].lastcommit = r
      BY <1>8, CreateAcceptorEffect
    <2>2. UNCHANGED <<psm, decided, commits, answers, votes, watching>>
      BY <1>8 DEF createAcceptor
    <2>3. r \in decided
      BY <2>1, Taken DEF KnownInv
    <2>4. \A b \in Acceptors : \A i \in DOMAIN requests'[b] :
             requests'[b][i] \in decided /\ requests'[b][i].type = "ACCEPTORCHANGE"
      <3> SUFFICES ASSUME NEW b \in Acceptors, NEW i \in DOMAIN requests'[b]
                   PROVE  requests'[b][i] \in decided /\ requests'[b][i].type = "ACCEPTORCHANGE"
        OBVIOUS
      <3>1. CASE b = a
        <4>1. i + 1 \in DOMAIN requests[b] /\ requests'[b][i] = requests[b][i + 1]
          BY <2>1, <3>1, Taken
        <4> QED
          BY <4>1 DEF KnownInv
      <3>2. CASE b # a
        BY <2>1, <3>2 DEF KnownInv, Takes
      <3> QED
        BY <3>1, <3>2
    <2>5. \A b \in Acceptors : \/ asm'[b].lastcommit \in decided
                               \/ asm'[b].version = 0 /\ asm'[b].state = "PHASE1"
      BY <2>1, <2>3 DEF KnownInv
    <2> QED
      BY <2>2, <2>4, <2>5 DEF KnownInv
  <1>9. ASSUME NEW p \in Proposers, loseProposer(p) PROVE KnownInv'
    BY <1>9 DEF KnownInv, loseProposer
  <1>10. ASSUME NEW p \in Proposers, createProposer(p) PROVE KnownInv'
    <2>1. PICK r \in Proposals : Takes(p, r) /\ Only(p) /\ Cut(p) /\ Reset(p, r.version + 1, r.list)
      BY <1>10, CreateProposerEffect
    <2>2. UNCHANGED <<decided, commits, asm>>
      BY <1>10 DEF createProposer
    <2>3. \A a \in Acceptors : requests'[a] = requests[a]
      BY <2>1 DEF Takes
    <2>4. \A q \in watching' : psm'[q].version >= 1
      <3>1. r.version \in Nat /\ watching' = watching \cup {p} /\ watching \subseteq Voters
        BY <1>10, Fields DEF createProposer, Types
      <3> QED
        BY <2>1, <3>1 DEF KnownInv, Only, Reset
    <2> QED
      BY <2>1, <2>2, <2>3, <2>4 DEF KnownInv, Only, Cut, Reset
  <1>11. ASSUME NEW p \in Proposers, startRecovery(p) PROVE KnownInv'
    <2>1. PICK d \in Proposals :
              /\ d.type = "RECOVERY" /\ d.version = psm[p].version /\ Proposes(p, d)
      BY <1>11, StartRecoveryEffect
    <2>2. UNCHANGED <<requests, commits, asm, answers>>
      BY <1>11 DEF startRecovery
    <2>3. /\ \A w \in Voters : w # p => psm'[w] = psm[w]
          /\ decided \subseteq decided' /\ decided' \subseteq decided \cup {d}
          /\ psm'[p].state = "WON" => d \in decided'
          /\ psm'[p].proposal = d /\ psm'[p].version = psm[p].version
          /\ \A m \in votes' : m \in votes \/ m.proposal = d
      BY <2>1 DEF Proposes, Only
    <2>4. p \in watching /\ watching' \subseteq watching /\ watching \subseteq Voters
      BY <1>11 DEF startRecovery, Types
    <2> QED
      BY <2>1, <2>2, <2>3, <2>4 DEF KnownInv
  <1>12. ASSUME NEW p \in Proposers, checkTimeout(p) PROVE KnownInv'
    <2>1. UNCHANGED <<decided, requests, commits, asm, answers, votes, watching>>
          /\ watching \subseteq Voters
      BY <1>12 DEF checkTimeout, Types
    <2> QED
      BY <1>12, <2>1, CheckTimeoutEffect DEF KnownInv, Only, SameProposal
  <1>13. ASSUME NEW p \in Proposers, sendCommitment(p) PROVE KnownInv'
    <2>1. psm[p].state = "WON" /\ Ends(p) /\ commits' = commits \cup commitments(p)
      BY <1>13, SendCommitmentEffect
    <2>2. UNCHANGED <<decided, requests, asm>> /\ psm[p].proposal \in decided
      BY <1>13, <2>1 DEF sendCommitment, KnownInv
    <2>3. \A m \in commits' : m.proposal \in decided
      BY <2>1, <2>2 DEF commitments, KnownInv
    <2>4. watching' = watching /\ watching \subseteq Voters
      BY <1>13 DEF sendCommitment, Types
    <2> QED
      BY <2>1, <2>2, <2>3, <2>4 DEF KnownInv, Ends, Only, Cut, SameProposal
  <1>14. ASSUME NEW m \in answers, requestorReads(m) PROVE KnownInv'
    <2>1. /\ psm[Requestor].state # "WON"
          /\ \/ ReadsAck(Requestor, m)
             \/ Ends(Requestor) /\ decided' = decided
      BY <1>14, RequestorReadsEffect
    <2>2. UNCHANGED <<requests, commits, asm, watching>> /\ watching \subseteq Proposers
      BY <1>14 DEF requestorReads, Types
    <2>3. CASE ReadsAck(Requestor, m)
      <3>1. /\ decided \subseteq decided' /\ decided' \subseteq decided \cup {psm[Requestor].proposal}
            /\ decided' # decided => psm[Requestor].state = "VOTING"
            /\ psm'[Requestor].state = "WON" => psm'[Requestor].proposal \in decided'
            /\ \A p \in Proposers : psm'[p] = psm[p]
            /\ answers' \subseteq answers /\ votes' = votes
        BY <2>1, <2>3 DEF ReadsAck, Only, SameProposal
      <3>2. psm[Requestor].state = "VOTING" =>
               /\ psm[Requestor].proposal = AcceptorChange(psm[Requestor].version, psm[Requestor].proposal.list)
               /\ Cardinality(psm[Requestor].proposal.list) = ExpectedAcceptors
        BY DEF RequestorInv, machine
      <3>3. psm[Requestor].version \in Nat /\ psm[Requestor].proposal.list \subseteq Acceptors
        BY Fields DEF Types
      <3>4. psm[Requestor].state = "VOTING" =>
               /\ psm[Requestor].proposal.type = "ACCEPTORCHANGE"
               /\ psm[Requestor].proposal.version = psm[Requestor].version
        BY <3>2, <3>3, Constructors
      <3> QED
        BY <2>2, <3>1, <3>2, <3>4 DEF KnownInv
    <2>4. CASE Ends(Requestor) /\ decided' = decided
      BY <2>2, <2>4 DEF KnownInv, Ends, Only, Cut, SameProposal
    <2> QED
      BY <2>1, <2>3, <2>4
  <1>15. ASSUME NEW p \in Proposers, NEW m \in answers, proposerReads(p, m) PROVE KnownInv'
    <2>1. UNCHANGED <<requests, commits, asm, watching>> /\ watching \subseteq Voters
      BY <1>15 DEF proposerReads, Types
    <2>2. CASE ReadsAck(p, m)
      <3>1. /\ decided \subseteq decided' /\ decided' \subseteq decided \cup {psm[p].proposal}
            /\ decided' # decided => psm[p].state = "VOTING"
            /\ psm'[p].state = "WON" => psm'[p].proposal \in decided' \/ psm[p].state = "WON"
            /\ \A w \in Voters : w # p => psm'[w] = psm[w]
            /\ psm'[p].state \in {"VOTING", "WON"} => psm[p].state \in {"VOTING", "WON"}
            /\ psm'[p].proposal = psm[p].proposal /\ psm'[p].version = psm[p].version
            /\ answers' \subseteq answers /\ votes' = votes
        BY <2>2 DEF ReadsAck, Only, SameProposal
      <3> QED
        BY <2>1, <3>1 DEF KnownInv
    <2>3. CASE Ends(p) /\ decided' = decided
      BY <2>1, <2>3 DEF KnownInv, Ends, Only, Cut, SameProposal
    <2>4. CASE /\ Only(p) /\ Cut(p) /\ Reset(p, m.outcome.version + 1, m.outcome.list)
               /\ decided' = decided
      <3>1. m.outcome.version \in Nat
        BY Fields DEF Types
      <3> QED
        BY <2>1, <2>4, <3>1 DEF KnownInv, Reset, Only, Cut
    <2> QED
      BY <1>15, <2>2, <2>3, <2>4, ProposerReadsEffect
  <1>16. ASSUME NEW m \in votes, handleVote(m) PROVE KnownInv'
    <2>1. /\ m \in VoteMessages /\ m.to \in Acceptors
          /\ \A w \in Voters : /\ psm'[w].version = psm[w].version
                               /\ psm'[w].state = psm[w].state
                               /\ psm'[w].proposal = psm[w].proposal
          /\ UNCHANGED <<requests, commits, decided, watching>> /\ watching \subseteq Voters
          /\ votes' \subseteq votes
      <3>1. m \in VoteMessages
        BY DEF Types
      <3>2. m.to \in Acceptors /\ watching \subseteq Voters
        BY <3>1, Fields DEF Types
      <3> QED
        BY <1>16, <3>1, <3>2, Voted
    <2>2. \A a \in Acceptors : \/ asm'[a].lastcommit \in decided
                               \/ asm'[a].version = 0 /\ asm'[a].state = "PHASE1"
      <3>1. CASE UNCHANGED asm
        BY <3>1 DEF KnownInv
      <3>2. CASE asm' = [asm EXCEPT ![m.to].state = "PHASE2"] /\ asm[m.to].version = m.proposal.version
                 /\ accepted' = accepted \cup {<<m.to, m.proposal>>}
        <4>1. \A a \in Acceptors : asm'[a].lastcommit = asm[a].lastcommit /\ asm'[a].version = asm[a].version
              /\ (a # m.to => asm'[a] = asm[a])
          BY <2>1, <3>2 DEF Types, AcceptorMachines
        <4>2. asm[m.to].version # 0
          BY <3>2 DEF KnownInv
        <4> QED
          BY <4>1, <4>2 DEF KnownInv
      <3> QED
        BY <1>16, Voted, <3>1, <3>2
    <2>3. \A n \in answers' : n.outcome = Ack \/ n.outcome \in decided
      <3>1. asm[m.to].version > m.proposal.version \/ asm[m.to].state = "PHASE3" =>
               asm[m.to].lastcommit \in decided
        BY <2>1, Fields DEF KnownInv, Types
      <3>2. \A n \in answers' : \/ n \in answers
                                \/ n.outcome = Ack
                                \/ /\ asm[m.to].version > m.proposal.version \/ asm[m.to].state = "PHASE3"
                                   /\ n.outcome = asm[m.to].lastcommit
        <4>1. CASE answers' = answers
          BY <4>1
        <4>2. CASE answers' = answers \cup {[to |-> m.from, from |-> m.to, outcome |-> Ack]}
          BY <4>2
        <4>3. CASE /\ asm[m.to].version > m.proposal.version \/ asm[m.to].state = "PHASE3"
                   /\ answers' = answers \cup {[to |-> m.from, from |-> m.to,
                                                outcome |-> asm[m.to].lastcommit]}
          BY <4>3
        <4> QED
          BY <1>16, <4>1, <4>2, <4>3, Voted
      <3> QED
        BY <3>1, <3>2 DEF KnownInv
    <2> QED
      BY <2>1, <2>2, <2>3 DEF KnownInv
  <1>17. ASSUME NEW m \in commits, handleCommitment(m) PROVE KnownInv'
    BY <1>17, CommitmentRead DEF KnownInv
  <1>18. CASE UNCHANGED vars
    BY <1>18 DEF KnownInv, vars
  <1> QED
    BY <1>1, <1>2, <1>3, <1>4, <1>5, <1>6, <1>7, <1>8, <1>9, <1>10, <1>11, <1>12, <1>13, <1>14,
       <1>15, <1>16, <1>17, <1>18, TwoKinds DEF RequestorStep, OtherStep
-----------------------------------------------------------------------------
(* Connections.                                                            *)

LEMMA ConnectionInit == Init => ConnectionInv
  <1> SUFFICES ASSUME Init PROVE ConnectionInv
    OBVIOUS
  <1>1. \A w \in Voters : psm[w].connected = psm[w].list /\ psm[w].acks = {}
    BY DEF Init, Machine
  <1> QED
    BY <1>1 DEF Init, ConnectionInv

LEMMA ConnectionStep ==
    Types /\ RequestorInv /\ KnownInv /\ ConnectionInv /\ [Next]_vars => ConnectionInv'
  <1> SUFFICES ASSUME Types, RequestorInv, KnownInv, ConnectionInv, [Next]_vars
               PROVE  ConnectionInv'
    OBVIOUS
  <1> USE Parties DEF requestorVars, proposerVars, connectionVars, historyVars
  <1>0. /\ votes \subseteq VoteMessages /\ answers \subseteq AnswerMessages /\ watching \subseteq Proposers
        /\ \A m \in votes : m.from # Nobody => m.from \in Voters
        /\ \A m \in answers : m.to \in Voters
    BY Fields DEF Types
  (* Closing w's connections, w's machine being of any kind.                *)
  <1>a. ASSUME NEW w \in Voters, Only(w), Cut(w), UNCHANGED accepted,
               psm'[w].connected \subseteq psm'[w].list, psm'[w].acks \subseteq psm'[w].list,
               \A a \in psm'[w].acks : <<a, psm'[w].proposal>> \in accepted,
               watching' \subseteq watching \cup {w},
               w \in watching' => psm'[w].state = "INITIAL"
        PROVE  ConnectionInv'
    <2>1. \A m \in votes' : m.from # Nobody =>
             /\ m.proposal = psm'[m.from].proposal
             /\ m.proposal.version = psm'[m.from].version
             /\ m.to \in psm'[m.from].list
      BY <1>0, <1>a DEF ConnectionInv, Only, Cut
    <2>2. \A m \in answers' : m.outcome = Ack =>
             <<m.from, psm'[m.to].proposal>> \in accepted' /\ m.from \in psm'[m.to].list
      BY <1>0, <1>a DEF ConnectionInv, Only, Cut
    <2>3. \A x \in Voters :
             /\ psm'[x].connected \subseteq psm'[x].list /\ psm'[x].acks \subseteq psm'[x].list
             /\ \A a \in psm'[x].acks : <<a, psm'[x].proposal>> \in accepted'
      BY <1>a DEF ConnectionInv, Only
    <2>4. \A p \in watching' :
             /\ psm'[p].state = "INITIAL"
             /\ (\A m \in votes' : m.from # p) /\ (\A m \in answers' : m.to # p)
      <3> SUFFICES ASSUME NEW p \in watching'
                   PROVE  /\ psm'[p].state = "INITIAL"
                          /\ (\A m \in votes' : m.from # p) /\ (\A m \in answers' : m.to # p)
        OBVIOUS
      <3>1. CASE p = w
        BY <3>1, <1>a DEF Cut
      <3>2. CASE p # w
        BY <3>2, <1>0, <1>a DEF Cut, Only, ConnectionInv
      <3> QED
        BY <3>1, <3>2
    <2> QED
      BY <2>1, <2>2, <2>3, <2>4 DEF ConnectionInv
  (* Proposing over connections on which nothing is left.                   *)
  <1>b. ASSUME NEW w \in Voters, NEW d, Proposes(w, d), UNCHANGED <<answers, accepted>>,
               d.version = psm[w].version, w \notin watching', watching' \subseteq watching,
               \A m \in votes : m.from # w, \A m \in answers : m.to # w
        PROVE  ConnectionInv'
    <2>1. \A m \in votes' : m.from # Nobody =>
             /\ m.proposal = psm'[m.from].proposal
             /\ m.proposal.version = psm'[m.from].version
             /\ m.to \in psm'[m.from].list
      BY <1>0, <1>b DEF ConnectionInv, Only, Proposes
    <2>2. \A m \in answers' : m.outcome = Ack =>
             <<m.from, psm'[m.to].proposal>> \in accepted' /\ m.from \in psm'[m.to].list
      BY <1>0, <1>b DEF ConnectionInv, Only, Proposes
    <2>3. \A x \in Voters :
             /\ psm'[x].connected \subseteq psm'[x].list /\ psm'[x].acks \subseteq psm'[x].list
             /\ \A a \in psm'[x].acks : <<a, psm'[x].proposal>> \in accepted'
      BY <1>b DEF ConnectionInv, Only, Proposes
    <2>4. \A p \in watching' :
             /\ psm'[p].state = "INITIAL"
             /\ (\A m \in votes' : m.from # p) /\ (\A m \in answers' : m.to # p)
      BY <1>0, <1>b DEF ConnectionInv, Only, Proposes
    <2> QED
      BY <2>1, <2>2, <2>3, <2>4 DEF ConnectionInv
  <1>c. ASSUME NEW w \in Voters, NEW m \in answers, m.to = w, ReadsAck(w, m), UNCHANGED <<accepted, watching>>
        PROVE  ConnectionInv'
    <2>1. w \notin watching
      BY <1>c DEF ConnectionInv
    <2>2. \A x \in Voters :
             /\ psm'[x].version = psm[x].version /\ psm'[x].list = psm[x].list
             /\ psm'[x].proposal = psm[x].proposal /\ psm'[x].connected = psm[x].connected
             /\ x # w => psm'[x] = psm[x]
      BY <1>c DEF ReadsAck, Only, SameProposal
    <2>3. \A x \in Voters :
             /\ psm'[x].connected \subseteq psm'[x].list /\ psm'[x].acks \subseteq psm'[x].list
             /\ \A a \in psm'[x].acks : <<a, psm'[x].proposal>> \in accepted'
      <3> SUFFICES ASSUME NEW x \in Voters
                   PROVE  /\ psm'[x].connected \subseteq psm'[x].list /\ psm'[x].acks \subseteq psm'[x].list
                          /\ \A a \in psm'[x].acks : <<a, psm'[x].proposal>> \in accepted'
        OBVIOUS
      <3>1. psm'[x].acks \subseteq psm[x].acks \/ (x = w /\ psm'[x].acks \subseteq psm[x].acks \cup {m.from})
        BY <1>c, <2>2 DEF ReadsAck
      <3>2. <<m.from, psm[w].proposal>> \in accepted /\ m.from \in psm[w].list
        BY <1>c DEF ReadsAck, ConnectionInv
      <3>3. /\ psm[x].connected \subseteq psm[x].list /\ psm[x].acks \subseteq psm[x].list
            /\ \A a \in psm[x].acks : <<a, psm[x].proposal>> \in accepted
        BY DEF ConnectionInv
      <3> QED
        BY <1>c, <2>2, <3>1, <3>2, <3>3
    <2>4. votes' = votes /\ answers' \subseteq answers
      BY <1>c DEF ReadsAck
    <2> QED
      BY <1>0, <1>c, <2>1, <2>2, <2>3, <2>4 DEF ConnectionInv
  <1>1. CASE stop
    <2>1. Cut(Requestor)
      BY <1>1, Disconnected DEF stop, Cut
    <2>2. UNCHANGED <<psm, accepted, watching>>
      BY <1>1 DEF stop
    <2>3. Only(Requestor)
      BY <2>2 DEF Types, Only
    <2>4. /\ psm[Requestor].connected \subseteq psm[Requestor].list
          /\ psm[Requestor].acks \subseteq psm[Requestor].list
          /\ \A a \in psm[Requestor].acks : <<a, psm[Requestor].proposal>> \in accepted
          /\ Requestor \notin watching
      BY <1>0 DEF ConnectionInv
    <2> QED
      BY <1>a, <2>1, <2>2, <2>3, <2>4
  <1>2. CASE proposeChange
    <2>1. PICK list \in SUBSET Acceptors, c \in Proposals :
              c.version = currentversion + 1 /\ Proposes(Requestor, c)
      BY <1>2, ProposeChangeEffect
    <2>2. UNCHANGED <<answers, accepted, watching>> /\ ~changing
      BY <1>2 DEF proposeChange, missesAcceptor
    <2>3. /\ currentversion = psm[Requestor].version - 1
          /\ \A m \in votes : m.from # Requestor
          /\ \A m \in answers : m.to # Requestor
      BY <2>2 DEF RequestorInv, machine
    <2>4. psm[Requestor].version \in Nat /\ currentversion \in Nat
      BY Fields DEF Types
    <2>5. c.version = psm[Requestor].version
      BY <2>1, <2>3, <2>4
    <2> QED
      BY <1>0, <1>b, <2>1, <2>2, <2>3, <2>5
  <1>3. CASE changeAcceptor
    BY <1>3 DEF ConnectionInv, changeAcceptor
  <1>4. ASSUME NEW x \in Acceptors \cup Proposers, tell(x) PROVE ConnectionInv'
    BY <1>4 DEF ConnectionInv, tell
  <1>5. CASE finishChange
    <2>1. UNCHANGED <<accepted, watching>>
      BY <1>5 DEF finishChange
    <2>2. Only(Requestor) /\ Cut(Requestor)
      BY <1>5, FinishChangeEffect
    <2>3. psm'[Requestor].connected = psm'[Requestor].list /\ psm'[Requestor].acks = {}
          /\ psm'[Requestor].state = "INITIAL"
      BY <1>5, FinishChangeEffect DEF Reset
    <2> QED
      BY <1>0, <1>a, <2>1, <2>2, <2>3
  <1>6. CASE requestProposer
    BY <1>6 DEF ConnectionInv, requestProposer
  <1>7. ASSUME NEW a \in Acceptors, loseAcceptor(a) PROVE ConnectionInv'
    BY <1>7 DEF ConnectionInv, loseAcceptor
  <1>8. ASSUME NEW a \in Acceptors, createAcceptor(a) PROVE ConnectionInv'
    BY <1>8 DEF ConnectionInv, createAcceptor
  <1>9. ASSUME NEW p \in Proposers, loseProposer(p) PROVE ConnectionInv'
    BY <1>9 DEF ConnectionInv, loseProposer
  <1>10. ASSUME NEW p \in Proposers, createProposer(p) PROVE ConnectionInv'
    <2>1. PICK r \in Proposals : Only(p) /\ Cut(p) /\ Reset(p, r.version + 1, r.list)
      BY <1>10, CreateProposerEffect
    <2>2. UNCHANGED accepted /\ watching' = watching \cup {p}
      BY <1>10 DEF createProposer
    <2>3. psm'[p].connected = psm'[p].list /\ psm'[p].acks = {} /\ psm'[p].state = "INITIAL"
      BY <2>1 DEF Reset
    <2> QED
      BY <1>a, <2>1, <2>2, <2>3
  <1>11. ASSUME NEW p \in Proposers, startRecovery(p) PROVE ConnectionInv'
    <2>1. PICK d \in Proposals : d.version = psm[p].version /\ Proposes(p, d)
      BY <1>11, StartRecoveryEffect
    <2>2. UNCHANGED <<answers, accepted>> /\ watching' = watching \ {p} /\ p \in watching
      BY <1>11 DEF startRecovery
    <2>3. (\A m \in votes : m.from # p) /\ (\A m \in answers : m.to # p)
      BY <2>2 DEF ConnectionInv
    <2> QED
      BY <1>b, <2>1, <2>2, <2>3
  <1>12. ASSUME NEW p \in Proposers, checkTimeout(p) PROVE ConnectionInv'
    <2>1. UNCHANGED <<accepted, watching, votes, answers>>
      BY <1>12 DEF checkTimeout
    <2>2. /\ Only(p) /\ SameProposal(p) /\ psm'[p].connected = psm[p].connected
          /\ psm'[p].state = "INITIAL" /\ psm'[p].acks = {}
      BY <1>12, CheckTimeoutEffect
    <2>3. \A x \in Voters :
             /\ psm'[x].version = psm[x].version /\ psm'[x].list = psm[x].list
             /\ psm'[x].proposal = psm[x].proposal /\ psm'[x].connected = psm[x].connected
             /\ psm'[x].acks \subseteq psm[x].acks /\ psm'[x].state \in {"INITIAL", psm[x].state}
      BY <2>2 DEF Only, SameProposal
    <2> QED
      BY <1>0, <2>1, <2>3 DEF ConnectionInv
  <1>13. ASSUME NEW p \in Proposers, sendCommitment(p) PROVE ConnectionInv'
    <2>1. psm[p].state = "WON" /\ Only(p) /\ Cut(p)
      BY <1>13, SendCommitmentEffect DEF Ends
    <2>2. UNCHANGED <<accepted, watching>>
      BY <1>13 DEF sendCommitment
    <2>3. p \notin watching
      BY <2>1 DEF ConnectionInv
    <2>4. /\ psm'[p].connected \subseteq psm'[p].list /\ psm'[p].acks \subseteq psm'[p].list
          /\ \A a \in psm'[p].acks : <<a, psm'[p].proposal>> \in accepted
      BY <1>13, SendCommitmentEffect DEF Ends, SameProposal, ConnectionInv
    <2> QED
      BY <1>a, <2>1, <2>2, <2>3, <2>4
  <1>14. ASSUME NEW m \in answers, requestorReads(m) PROVE ConnectionInv'
    <2>1. UNCHANGED <<accepted, watching>> /\ Requestor \notin watching
      BY <1>0, <1>14 DEF requestorReads
    <2>2. m.to = Requestor
      BY <1>14, RequestorReadsEffect
    <2>3. CASE ReadsAck(Requestor, m)
      BY <1>c, <2>1, <2>2, <2>3
    <2>4. CASE Ends(Requestor)
      <3>1. /\ psm'[Requestor].connected \subseteq psm'[Requestor].list
            /\ psm'[Requestor].acks \subseteq psm'[Requestor].list
            /\ \A a \in psm'[Requestor].acks : <<a, psm'[Requestor].proposal>> \in accepted
        BY <2>4 DEF Ends, SameProposal, ConnectionInv
      <3>2. Only(Requestor) /\ Cut(Requestor)
        BY <2>4 DEF Ends
      <3> QED
        BY <1>a, <2>1, <3>1, <3>2
    <2> QED
      BY <1>14, <2>3, <2>4, RequestorReadsEffect
  <1>15. ASSUME NEW p \in Proposers, NEW m \in answers, proposerReads(p, m) PROVE ConnectionInv'
    <2>1. UNCHANGED <<accepted, watching>>
      BY <1>15 DEF proposerReads
    <2>2. m.to = p /\ p \notin watching
      BY <1>15, ProposerReadsEffect DEF ConnectionInv
    <2>3. CASE ReadsAck(p, m)
      BY <1>c, <2>1, <2>2, <2>3
    <2>4. CASE Ends(p)
      <3>1. /\ psm'[p].connected \subseteq psm'[p].list
            /\ psm'[p].acks \subseteq psm'[p].list
            /\ \A a \in psm'[p].acks : <<a, psm'[p].proposal>> \in accepted
        BY <2>4 DEF Ends, SameProposal, ConnectionInv
      <3>2. Only(p) /\ Cut(p)
        BY <2>4 DEF Ends
      <3> QED
        BY <1>a, <2>1, <2>2, <3>1, <3>2
    <2>5. CASE Only(p) /\ Cut(p) /\ Reset(p, m.outcome.version + 1, m.outcome.list)
      <3>1. psm'[p].connected = psm'[p].list /\ psm'[p].acks = {}
        BY <2>5 DEF Reset
      <3> QED
        BY <1>a, <2>1, <2>2, <2>5, <3>1
    <2> QED
      BY <1>15, <2>3, <2>4, <2>5, ProposerReadsEffect
  <1>16. ASSUME NEW m \in votes, handleVote(m) PROVE ConnectionInv'
    <2>1. /\ \A w \in Voters :
                 /\ psm'[w].version = psm[w].version /\ psm'[w].list = psm[w].list
                 /\ psm'[w].state = psm[w].state /\ psm'[w].proposal = psm[w].proposal
                 /\ psm'[w].acks = psm[w].acks /\ psm'[w].connected \subseteq psm[w].connected
          /\ votes' = votes \ {m} /\ UNCHANGED watching
      BY <1>16, Voted
    <2>2. accepted \subseteq accepted'
      BY <1>16, Voted
    <2>3. m.to \in Acceptors
      BY <1>0, Fields
    <2>4. asm[m.to].lastcommit \in decided => asm[m.to].lastcommit # Ack
      BY Constructors DEF KnownInv
    <2>5. asm[m.to].version > m.proposal.version \/ asm[m.to].state = "PHASE3" =>
             asm[m.to].lastcommit # Ack
      <3>1. m.proposal.version \in Nat /\ asm[m.to].version \in Nat
        BY <2>3, <1>0, Fields DEF Types
      <3> QED
        BY <2>3, <2>4, <3>1 DEF KnownInv
    <2>6. /\ \A n \in answers' : n \notin answers => n.to = m.from /\ n.from = m.to /\ m.from # Nobody
          /\ \A n \in answers' : n \in answers \/ n.outcome # Ack \/ <<m.to, m.proposal>> \in accepted'
      <3>1. CASE answers' = answers
        BY <3>1
      <3>2. CASE /\ m.from # Nobody /\ <<m.to, m.proposal>> \in accepted'
                 /\ answers' = answers \cup {[to |-> m.from, from |-> m.to, outcome |-> Ack]}
        BY <3>2
      <3>3. CASE /\ asm[m.to].version > m.proposal.version \/ asm[m.to].state = "PHASE3"
                 /\ m.from # Nobody
                 /\ answers' = answers \cup {[to |-> m.from, from |-> m.to,
                                              outcome |-> asm[m.to].lastcommit]}
        BY <2>5, <3>3
      <3> QED
        BY <1>16, <3>1, <3>2, <3>3, Voted
    <2>7. \A n \in answers' : n.outcome = Ack =>
             <<n.from, psm'[n.to].proposal>> \in accepted' /\ n.from \in psm'[n.to].list
      <3> SUFFICES ASSUME NEW n \in answers', n.outcome = Ack
                   PROVE  <<n.from, psm'[n.to].proposal>> \in accepted' /\ n.from \in psm'[n.to].list
        OBVIOUS
      <3>1. CASE n \in answers
        BY <1>0, <2>1, <2>2, <3>1 DEF ConnectionInv
      <3>2. CASE n \notin answers
        BY <1>0, <2>1, <2>6, <3>2 DEF ConnectionInv
      <3> QED
        BY <3>1, <3>2
    <2>8. \A p \in watching' :
             /\ psm'[p].state = "INITIAL"
             /\ (\A n \in votes' : n.from # p) /\ (\A n \in answers' : n.to # p)
      BY <1>0, <2>1, <2>6 DEF ConnectionInv
    <2>9. \A x \in Voters :
             /\ psm'[x].connected \subseteq psm'[x].list /\ psm'[x].acks \subseteq psm'[x].list
             /\ \A a \in psm'[x].acks : <<a, psm'[x].proposal>> \in accepted'
      BY <2>1, <2>2 DEF ConnectionInv
    <2>10. \A n \in votes' : n.from # Nobody =>
             /\ n.proposal = psm'[n.from].proposal
             /\ n.proposal.version = psm'[n.from].version
             /\ n.to \in psm'[n.from].list
      BY <1>0, <2>1 DEF ConnectionInv
    <2> QED
      BY <2>7, <2>8, <2>9, <2>10 DEF ConnectionInv
  <1>17. ASSUME NEW m \in commits, handleCommitment(m) PROVE ConnectionInv'
    BY <1>17 DEF ConnectionInv, handleCommitment
  <1>18. CASE UNCHANGED vars
    BY <1>18 DEF ConnectionInv, vars
  <1> QED
    BY <1>1, <1>2, <1>3, <1>4, <1>5, <1>6, <1>7, <1>8, <1>9, <1>10, <1>11, <1>12, <1>13, <1>14,
       <1>15, <1>16, <1>17, <1>18, TwoKinds DEF RequestorStep, OtherStep
-----------------------------------------------------------------------------
(* Acceptor changes.                                                       *)

LEMMA ChangeInit == Init => ChangeInv
  <1> SUFFICES ASSUME Init PROVE ChangeInv
    OBVIOUS
  <1>1. psm[Requestor] = Machine(1, {})
    BY Parties DEF Init
  <1>2. machine.version = 1 /\ decided = {}
    BY <1>1, Constructors DEF machine, Init
  <1> QED
    BY <1>2 DEF ChangeInv

LEMMA ChangeStep ==
    Types /\ RequestorInv /\ KnownInv /\ ChangeInv /\ [Next]_vars => ChangeInv'
  <1> SUFFICES ASSUME Types, RequestorInv, KnownInv, ChangeInv, [Next]_vars
               PROVE  ChangeInv'
    OBVIOUS
  <1> USE Parties DEF requestorVars, proposerVars, connectionVars, historyVars
  <1>0. /\ machine \in Machines /\ machine.version \in Nat /\ currentversion \in Nat
        /\ decided \subseteq Proposals /\ \A d \in decided : d.version \in Nat
    BY Fields DEF Types, machine
  (* The machine stays, and recoveries are decided.                         *)
  <1>a. ASSUME machine'.version = machine.version, machine'.list = machine.list,
               machine.state = "WON" => machine'.state = "WON" /\ machine'.proposal = machine.proposal,
               decided \subseteq decided',
               \A d \in decided' : d \in decided \/ d.type = "RECOVERY"
        PROVE  ChangeInv'
    <2>1. \A d \in decided' : d.type = "ACCEPTORCHANGE" =>
             /\ d \in decided
             /\ d.version <= machine'.version
             /\ d.version = machine'.version => machine'.state = "WON" /\ machine'.proposal = d
      BY <1>a DEF ChangeInv
    <2>2. \A u \in 1 .. machine'.version - 1 : \E c \in decided' : IsChange(c, u)
      BY <1>a DEF ChangeInv
    <2>3. \A c, d \in decided' : IsChange(c, d.version) /\ IsChange(d, c.version) => c = d
      BY <2>1 DEF ChangeInv, IsChange
    <2>4. machine'.version > 1 =>
             \E c \in decided' : IsChange(c, machine'.version - 1) /\ c.list = machine'.list
      BY <1>a DEF ChangeInv
    <2> QED
      BY <2>1, <2>2, <2>3, <2>4 DEF ChangeInv
  (* The requestor may win.                                                 *)
  <1>b. ASSUME NEW c, IsChange(c, machine.version),
               machine.state # "WON",
               machine'.version = machine.version, machine'.list = machine.list,
               \/ decided' = decided
               \/ decided' = decided \cup {c} /\ machine'.state = "WON" /\ machine'.proposal = c
        PROVE  ChangeInv'
    <2>1. CASE decided' = decided
      BY <1>a, <1>b, <2>1
    <2>2. CASE decided' = decided \cup {c} /\ machine'.state = "WON" /\ machine'.proposal = c
      <3>1. \A d \in decided : d.type = "ACCEPTORCHANGE" => d.version < machine.version
        BY <1>0, <1>b DEF ChangeInv
      <3>2. \A d \in decided' : d.type = "ACCEPTORCHANGE" =>
               /\ d.version <= machine'.version
               /\ d.version = machine'.version => d = c
        BY <1>0, <1>b, <2>2, <3>1 DEF IsChange
      <3>3. \A d, e \in decided' : IsChange(d, e.version) /\ IsChange(e, d.version) => d = e
        BY <1>0, <1>b, <2>2, <3>1 DEF ChangeInv, IsChange
      <3>4. /\ \A u \in 1 .. machine'.version - 1 : \E d \in decided' : IsChange(d, u)
            /\ machine'.version > 1 =>
                 \E d \in decided' : IsChange(d, machine'.version - 1) /\ d.list = machine'.list
        BY <1>b, <2>2 DEF ChangeInv
      <3> QED
        BY <2>2, <3>2, <3>3, <3>4 DEF ChangeInv
    <2> QED
      BY <1>b, <2>1, <2>2
  <1>1. CASE OtherStep
    <2>1. /\ machine'.version = machine.version /\ machine'.list = machine.list
          /\ machine'.state = machine.state /\ machine'.proposal = machine.proposal
      BY <1>1, OthersKeep DEF machine
    <2>2. decided \subseteq decided' /\ \A d \in decided' : d \in decided \/ d.type = "RECOVERY"
      <3>1. ASSUME NEW a \in Acceptors, createAcceptor(a) PROVE UNCHANGED decided
        BY <3>1 DEF createAcceptor
      <3>2. ASSUME NEW p \in Proposers, createProposer(p) \/ checkTimeout(p) \/ sendCommitment(p)
            PROVE  UNCHANGED decided
        BY <3>2 DEF createProposer, checkTimeout, sendCommitment
      <3>3. ASSUME NEW p \in Proposers, startRecovery(p)
            PROVE  decided \subseteq decided' /\ \A d \in decided' : d \in decided \/ d.type = "RECOVERY"
        BY <3>3, StartRecoveryEffect DEF Proposes
      <3>4. ASSUME NEW p \in Proposers, NEW m \in answers, proposerReads(p, m)
            PROVE  decided \subseteq decided' /\ \A d \in decided' : d \in decided \/ d.type = "RECOVERY"
        <4>1. CASE UNCHANGED decided
          BY <4>1
        <4>2. CASE ReadsAck(p, m)
          BY <4>2 DEF ReadsAck, KnownInv
        <4> QED
          BY <3>4, <4>1, <4>2, ProposerReadsEffect
      <3>5. ASSUME NEW m \in votes, handleVote(m) PROVE UNCHANGED decided
        BY <3>5 DEF handleVote
      <3>6. ASSUME NEW m \in commits, handleCommitment(m) PROVE UNCHANGED decided
        BY <3>6 DEF handleCommitment
      <3> QED
        BY <1>1, <3>1, <3>2, <3>3, <3>4, <3>5, <3>6 DEF OtherStep
    <2> QED
      BY <1>a, <2>1, <2>2
  <1>2. CASE proposeChange
    <2>1. PICK list \in SUBSET Acceptors, c \in Proposals :
              /\ c.type = "ACCEPTORCHANGE" /\ c.version = currentversion + 1
              /\ Proposes(Requestor, c)
      BY <1>2, ProposeChangeEffect
    <2>2. machine.state = "INITIAL" /\ currentversion + 1 = machine.version
      BY <1>0, <1>2 DEF proposeChange, missesAcceptor, RequestorInv, machine
    <2>3. /\ machine'.version = machine.version /\ machine'.list = machine.list
          /\ \/ decided' = decided
             \/ decided' = decided \cup {c} /\ machine'.state = "WON" /\ machine'.proposal = c
      BY <2>1 DEF Proposes, machine
    <2>4. IsChange(c, machine.version)
      BY <2>1, <2>2 DEF IsChange
    <2> QED
      BY <1>b, <2>2, <2>3, <2>4
  <1>3. CASE finishChange
    <2>1. /\ machine'.version = currentversion + 1 /\ machine'.list = machine.proposal.list
          /\ machine'.state = "INITIAL"
      BY <1>3, FinishChangeEffect DEF Reset, machine
    <2>2. decided' = decided /\ machine.state = "WON" /\ currentversion = machine.version
      BY <1>3 DEF finishChange, machine
    <2> DEFINE c == machine.proposal
    <2>3. c \in decided /\ IsChange(c, machine.version)
      <3>1. c \in decided /\ c = AcceptorChange(machine.version, c.list)
        BY <2>2 DEF KnownInv, RequestorInv, machine
      <3>2. c.list \in SUBSET Acceptors
        BY <1>0, Fields
      <3> HIDE DEF c
      <3> QED
        BY <1>0, <3>1, <3>2, Constructors DEF IsChange
    <2> HIDE DEF c
    <2>4. \A d \in decided' : d.type = "ACCEPTORCHANGE" => d.version < machine'.version
      BY <1>0, <2>1, <2>2 DEF ChangeInv
    <2>5. \A u \in 1 .. machine'.version - 1 : \E d \in decided' : IsChange(d, u)
      <3> SUFFICES ASSUME NEW u \in 1 .. machine'.version - 1
                   PROVE  \E d \in decided' : IsChange(d, u)
        OBVIOUS
      <3>1. CASE u = machine.version
        BY <2>2, <2>3, <3>1
      <3>2. CASE u # machine.version
        BY <1>0, <2>1, <2>2, <3>2 DEF ChangeInv
      <3> QED
        BY <3>1, <3>2
    <2>6. machine'.version - 1 = machine.version
      BY <1>0, <2>1, <2>2
    <2>7. \E d \in decided' : IsChange(d, machine'.version - 1) /\ d.list = machine'.list
      BY <2>1, <2>2, <2>3, <2>6 DEF c
    <2>8. \A d, e \in decided' : IsChange(d, e.version) /\ IsChange(e, d.version) => d = e
      BY <2>2 DEF ChangeInv
    <2>9. \A d \in decided' : d.version \in Nat
      BY <1>0, <2>2
    <2>10. machine'.version \in Nat
      BY <1>0, <2>1
    <2> QED
      BY <2>4, <2>5, <2>7, <2>8, <2>9, <2>10 DEF ChangeInv
  <1>4. ASSUME NEW m \in answers, requestorReads(m) PROVE ChangeInv'
    <2>1. CASE ReadsAck(Requestor, m)
      <3>1. /\ machine'.version = machine.version /\ machine'.list = machine.list
            /\ machine'.proposal = machine.proposal
            /\ \/ decided' = decided
               \/ /\ decided' = decided \cup {machine.proposal} /\ machine'.state = "WON"
                  /\ machine.state = "VOTING"
        BY <2>1 DEF ReadsAck, SameProposal, machine
      <3>2. machine.state # "WON"
        BY <1>4, RequestorReadsEffect DEF machine
      <3>3. machine.state = "VOTING" => IsChange(machine.proposal, machine.version)
        <4>1. machine.state = "VOTING" =>
                 machine.proposal = AcceptorChange(machine.version, machine.proposal.list)
          BY DEF RequestorInv
        <4>2. machine.proposal.list \in SUBSET Acceptors
          BY <1>0, Fields
        <4> QED
          BY <1>0, <4>1, <4>2, Constructors DEF IsChange
      <3> QED
        BY <1>a, <1>b, <3>1, <3>2, <3>3
    <2>2. CASE Ends(Requestor) /\ decided' = decided
      <3>1. machine.state # "WON"
        BY <1>4, RequestorReadsEffect DEF machine
      <3> QED
        BY <1>a, <2>2, <3>1 DEF Ends, SameProposal, machine
    <2> QED
      BY <1>4, <2>1, <2>2, RequestorReadsEffect
  <1>5. CASE \/ stop \/ changeAcceptor \/ requestProposer
             \/ \E x \in Acceptors \cup Proposers : tell(x)
             \/ \E a \in Acceptors : loseAcceptor(a)
             \/ \E p \in Proposers : loseProposer(p)
             \/ UNCHANGED vars
    <2>1. UNCHANGED <<psm, decided>>
      BY <1>5 DEF stop, changeAcceptor, requestProposer, tell, loseAcceptor, loseProposer, vars
    <2> QED
      BY <1>a, <2>1 DEF machine
  <1> QED
    BY <1>1, <1>2, <1>3, <1>4, <1>5, TwoKinds DEF RequestorStep
-----------------------------------------------------------------------------
(* Which actions change a variable.                                        *)

LEMMA Frames ==
    ASSUME [Next]_vars
    PROVE  /\ \/ UNCHANGED asm
              \/ \E a \in Acceptors : createAcceptor(a)
              \/ \E m \in votes : handleVote(m)
              \/ \E m \in commits : handleCommitment(m)
           /\ \/ UNCHANGED requests
              \/ \E x \in Acceptors \cup Proposers : tell(x)
              \/ requestProposer
              \/ \E a \in Acceptors : createAcceptor(a)
              \/ \E p \in Proposers : createProposer(p)
           /\ \/ UNCHANGED commits
              \/ finishChange
              \/ \E p \in Proposers : sendCommitment(p)
              \/ \E m \in commits : handleCommitment(m)
           /\ \/ UNCHANGED decided
              \/ proposeChange
              \/ \E p \in Proposers : startRecovery(p)
              \/ \E m \in answers : requestorReads(m)
              \/ \E p \in Proposers, m \in answers : proposerReads(p, m)
           /\ \/ UNCHANGED psm
              \/ proposeChange \/ finishChange
              \/ \E p \in Proposers : \/ createProposer(p) \/ startRecovery(p) \/ checkTimeout(p)
                                      \/ sendCommitment(p)
              \/ \E m \in answers : requestorReads(m)
              \/ \E p \in Proposers, m \in answers : proposerReads(p, m)
              \/ \E m \in votes : handleVote(m)
           /\ UNCHANGED currentversion \/ changeAcceptor \/ \E m \in answers : requestorReads(m)
           /\ \/ UNCHANGED watching
              \/ \E p \in Proposers : createProposer(p) \/ startRecovery(p)
           /\ UNCHANGED accepted \/ \E m \in votes : handleVote(m)
           /\ UNCHANGED heard \/ changeAcceptor \/ \E a \in Acceptors : loseAcceptor(a)
           /\ \/ UNCHANGED telling \/ changeAcceptor
              \/ \E x \in Acceptors \cup Proposers : tell(x)
           /\ \/ UNCHANGED unused \/ proposeChange \/ requestProposer
           /\ \/ UNCHANGED proposers \/ requestProposer
              \/ \E p \in Proposers : loseProposer(p)
           /\ \/ UNCHANGED superseded
              \/ \E p \in Proposers : createProposer(p)
              \/ \E p \in Proposers, m \in answers : proposerReads(p, m)
  <1> USE DEF requestorVars, proposerVars, connectionVars, historyVars
  <1>1. CASE stop
    BY <1>1 DEF stop
  <1>2. CASE proposeChange
    BY <1>2 DEF proposeChange
  <1>3. CASE changeAcceptor
    BY <1>3 DEF changeAcceptor
  <1>4. CASE \E x \in Acceptors \cup Proposers : tell(x)
    BY <1>4 DEF tell
  <1>5. CASE finishChange
    BY <1>5 DEF finishChange
  <1>6. CASE requestProposer
    BY <1>6 DEF requestProposer
  <1>7. CASE \E a \in Acceptors : loseAcceptor(a)
    BY <1>7 DEF loseAcceptor
  <1>8. CASE \E a \in Acceptors : createAcceptor(a)
    BY <1>8 DEF createAcceptor
  <1>9. CASE \E p \in Proposers : loseProposer(p)
    BY <1>9 DEF loseProposer
  <1>10. CASE \E p \in Proposers : createProposer(p)
    BY <1>10 DEF createProposer
  <1>11. CASE \E p \in Proposers : startRecovery(p)
    BY <1>11 DEF startRecovery
  <1>12. CASE \E p \in Proposers : checkTimeout(p)
    BY <1>12 DEF checkTimeout
  <1>13. CASE \E p \in Proposers : sendCommitment(p)
    BY <1>13 DEF sendCommitment
  <1>14. CASE \E m \in answers : requestorReads(m)
    BY <1>14 DEF requestorReads
  <1>15. CASE \E p \in Proposers, m \in answers : proposerReads(p, m)
    BY <1>15 DEF proposerReads
  <1>16. CASE \E m \in votes : handleVote(m)
    BY <1>16 DEF handleVote
  <1>17. CASE \E m \in commits : handleCommitment(m)
    BY <1>17 DEF handleCommitment
  <1>18. CASE UNCHANGED vars
    BY <1>18 DEF vars
  <1> QED
    BY <1>1, <1>2, <1>3, <1>4, <1>5, <1>6, <1>7, <1>8, <1>9, <1>10, <1>11, <1>12, <1>13, <1>14,
       <1>15, <1>16, <1>17, <1>18, TwoKinds DEF RequestorStep, OtherStep

(* What becomes decided is the proposal of a voter that a majority of its   *)
(* list acknowledged.                                                       *)
Wins(w, d) ==
    /\ d = psm'[w].proposal /\ psm'[w].state = "WON" /\ psm[w].state # "WON"
    /\ psm'[w].version = psm[w].version /\ psm'[w].list = psm[w].list
    /\ Majority(psm'[w].acks, psm'[w].list)
    /\ w \in watching \/ psm[w].state = "VOTING" \/ w = Requestor

DecidedGrows ==
    /\ decided \subseteq decided'
    /\ \A d \in decided' : d \in decided \/ \E w \in Voters : Wins(w, d)

LEMMA DecidedStep == ASSUME Types, [Next]_vars PROVE DecidedGrows
  <1> USE Parties
  <1>1. ASSUME NEW w \in Voters, NEW p \in Proposals, Proposes(w, p), psm[w].state # "WON",
               w \in watching \/ w = Requestor
        PROVE  DecidedGrows
    BY <1>1 DEF Proposes, DecidedGrows, Wins
  <1>2. ASSUME NEW w \in Voters, NEW m \in answers, ReadsAck(w, m)
        PROVE  DecidedGrows
    BY <1>2 DEF ReadsAck, SameProposal, DecidedGrows, Wins
  <1>3. CASE UNCHANGED decided
    BY <1>3 DEF DecidedGrows
  <1>4. CASE proposeChange
    <2>1. psm[Requestor].state # "WON" /\ \E c \in Proposals : Proposes(Requestor, c)
      BY <1>4, ProposeChangeEffect DEF proposeChange, missesAcceptor
    <2> QED
      BY <1>1, <2>1
  <1>5. ASSUME NEW p \in Proposers, startRecovery(p) PROVE DecidedGrows
    <2>1. /\ psm[p].state # "WON" /\ \E d \in Proposals : Proposes(p, d)
          /\ p \in watching
      BY <1>5, StartRecoveryEffect DEF startRecovery
    <2> QED
      BY <1>1, <2>1
  <1>6. ASSUME NEW m \in answers, requestorReads(m) PROVE DecidedGrows
    BY <1>2, <1>3, <1>6, RequestorReadsEffect
  <1>7. ASSUME NEW p \in Proposers, NEW m \in answers, proposerReads(p, m) PROVE DecidedGrows
    BY <1>2, <1>3, <1>7, ProposerReadsEffect
  <1> QED
    BY <1>3, <1>4, <1>5, <1>6, <1>7, Frames

(* The requestor reads another's outcome only while it votes, and then it   *)
(* is a recovery that ended the version of its machine.                     *)
LEMMA OutcomeRead ==
    ASSUME Types, RequestorInv, KnownInv, VersionInv,
           NEW m \in answers, m.to = Requestor, m.outcome # Ack, psm[Requestor].state # "WON"
    PROVE  /\ machine.state = "VOTING"
           /\ m.outcome \in decided /\ m.outcome.type = "RECOVERY"
           /\ m.outcome.version = machine.version /\ machine.version = currentversion + 1
  <1>1. machine.state = "VOTING"
    <2>1. machine.state \in {"INITIAL", "VOTING", "WON", "PHASE3"}
      BY Parties, Fields DEF Types, machine
    <2> QED
      BY <2>1 DEF RequestorInv, machine
  <1>2. currentversion = machine.version - 1 /\ machine.version \in Nat /\ currentversion \in Nat
    BY <1>1, Parties, Fields DEF RequestorInv, Types, machine
  <1>3. m.outcome \in decided
    BY DEF KnownInv
  <1>4. m.outcome.version \in Nat /\ m.outcome.version <= currentversion + 1
    BY <1>3, Fields DEF VersionInv, Types
  <1>5. /\ m.outcome.version >= machine.version
        /\ m.outcome.type = "ACCEPTORCHANGE" => m.outcome.version <= currentversion
    BY DEF VersionInv, machine
  <1>6. m.outcome.type \in {"RECOVERY", "ACCEPTORCHANGE"}
    BY <1>3 DEF KnownInv
  <1> QED
    BY <1>1, <1>2, <1>3, <1>4, <1>5, <1>6

LEMMA VersionRises ==
    ASSUME Types, RequestorInv, KnownInv, VersionInv, [Next]_vars
    PROVE  /\ currentversion' \in {currentversion, currentversion + 1}
           /\ changeAcceptor => currentversion' = machine.version
           /\ currentversion' # currentversion => machine.version = currentversion + 1
  <1>0. machine.version \in Nat /\ currentversion \in Nat
    BY Parties, Fields DEF Types, machine
  <1>1. CASE UNCHANGED currentversion /\ ~changeAcceptor
    BY <1>1
  <1>2. CASE changeAcceptor
    <2>1. /\ currentversion' = machine.version /\ machine.state = "WON"
          /\ currentversion # machine.version
      BY <1>2 DEF changeAcceptor, machine
    <2> QED
      BY <1>0, <2>1 DEF RequestorInv
  <1>3. ASSUME NEW m \in answers, requestorReads(m), ~changeAcceptor
        PROVE  /\ currentversion' \in {currentversion, currentversion + 1}
               /\ currentversion' # currentversion => machine.version = currentversion + 1
    <2>1. /\ m.to = Requestor /\ psm[Requestor].state # "WON"
          /\ \/ UNCHANGED currentversion
             \/ m.outcome # Ack /\ currentversion' = m.outcome.version
      BY <1>3, RequestorReadsEffect
    <2> QED
      BY <1>0, <2>1, OutcomeRead
  <1> QED
    BY <1>1, <1>2, <1>3, Frames
(* A machine stays in its version, or is replaced.                         *)
Stays(w) ==
    /\ psm'[w].version = psm[w].version /\ psm'[w].list = psm[w].list
    /\ psm'[w].state \in {"VOTING", "WON"} =>
          psm[w].state \in {"VOTING", "WON"} \/ w \in watching \/ w = Requestor
    /\ psm'[w].state = "PHASE3" => \/ psm[w].state = "PHASE3"
                                   \/ psm[w].state = "WON" /\ w \in Proposers
                                   \/ \E m \in answers : m.to = w /\ m.outcome # Ack

LEMMA MachineStep ==
    ASSUME Types, [Next]_vars, NEW w \in Voters
    PROVE  \/ Stays(w)
           \/ /\ w = Requestor /\ finishChange
              /\ Reset(w, currentversion + 1, psm[w].proposal.list)
           \/ /\ w \in Proposers /\ createProposer(w)
              /\ \E r \in Proposals : Takes(w, r) /\ Reset(w, r.version + 1, r.list)
           \/ /\ w \in Proposers
              /\ \E m \in answers :
                    /\ proposerReads(w, m) /\ m.to = w /\ m.outcome.type = "ACCEPTORCHANGE"
                    /\ requests[w] = <<>>
                    /\ Reset(w, m.outcome.version + 1, m.outcome.list)
  <1> USE Parties DEF Stays
  <1>1. CASE UNCHANGED psm
    BY <1>1
  <1>2. CASE proposeChange
    BY <1>2, ProposeChangeEffect DEF Proposes, Only
  <1>3. CASE finishChange
    BY <1>3, FinishChangeEffect DEF Only
  <1>4. ASSUME NEW p \in Proposers, createProposer(p)
        PROVE  \/ Stays(w)
               \/ /\ w \in Proposers /\ createProposer(w)
                  /\ \E r \in Proposals : Takes(w, r) /\ Reset(w, r.version + 1, r.list)
    BY <1>4, CreateProposerEffect DEF Only
  <1>5. ASSUME NEW p \in Proposers, startRecovery(p) PROVE Stays(w)
    <2>1. p \in watching
      BY <1>5 DEF startRecovery
    <2> QED
      BY <1>5, <2>1, StartRecoveryEffect DEF Proposes, Only
  <1>6. ASSUME NEW p \in Proposers, checkTimeout(p) PROVE Stays(w)
    BY <1>6, CheckTimeoutEffect DEF Only, SameProposal
  <1>7. ASSUME NEW p \in Proposers, sendCommitment(p) PROVE Stays(w)
    BY <1>7, SendCommitmentEffect DEF Ends, Only, SameProposal
  <1>8. ASSUME NEW m \in answers, requestorReads(m) PROVE Stays(w)
    <2>1. CASE ReadsAck(Requestor, m)
      BY <2>1 DEF ReadsAck, Only, SameProposal
    <2>2. CASE Ends(Requestor) /\ m.to = Requestor /\ m.outcome # Ack
      BY <2>2 DEF Ends, Only, SameProposal
    <2> QED
      BY <1>8, <2>1, <2>2, RequestorReadsEffect
  <1>9. ASSUME NEW p \in Proposers, NEW m \in answers, proposerReads(p, m)
        PROVE  \/ Stays(w)
               \/ /\ w = p /\ m.to = w /\ m.outcome.type = "ACCEPTORCHANGE" /\ requests[w] = <<>>
                  /\ Reset(w, m.outcome.version + 1, m.outcome.list)
    <2>1. CASE ReadsAck(p, m)
      BY <2>1 DEF ReadsAck, Only, SameProposal
    <2>2. CASE Ends(p) /\ m.to = p /\ m.outcome.type = "RECOVERY"
      <3>1. m.outcome # Ack
        BY <2>2, Constructors
      <3> QED
        BY <2>2, <3>1 DEF Ends, Only, SameProposal
    <2>3. CASE /\ m.outcome.type = "ACCEPTORCHANGE"
               /\ Only(p) /\ Reset(p, m.outcome.version + 1, m.outcome.list)
      BY <1>9, <2>3, ProposerReadsEffect DEF Only
    <2> QED
      BY <1>9, <2>1, <2>2, <2>3, ProposerReadsEffect
  <1>10. ASSUME NEW m \in votes, handleVote(m) PROVE Stays(w)
    BY <1>10, Voted
  <1> QED
    BY <1>1, <1>2, <1>3, <1>4, <1>5, <1>6, <1>7, <1>8, <1>9, <1>10, Frames

(* What an acceptor's machine becomes.                                     *)
LEMMA AcceptorStep ==
    ASSUME Types, [Next]_vars, NEW a \in Acceptors
    PROVE  \/ asm'[a] = asm[a]
           \/ /\ createAcceptor(a)
              /\ \E r \in Proposals : /\ Takes(a, r) /\ asm'[a].version = r.version + 1
                                      /\ asm'[a].state = "PHASE1" /\ asm'[a].lastcommit = r
           \/ /\ asm'[a].version = asm[a].version /\ asm'[a].lastcommit = asm[a].lastcommit
              /\ asm[a].state = "PHASE1" /\ asm'[a].state = "PHASE2"
           \/ \E m \in commits :
                 /\ asm'[a].version = asm[a].version /\ asm[a].version = m.proposal.version
                 /\ asm'[a].state = "PHASE3" /\ asm'[a].lastcommit = m.proposal
  <1>1. CASE UNCHANGED asm
    BY <1>1
  <1>2. ASSUME NEW b \in Acceptors, createAcceptor(b)
        PROVE  \/ asm'[a] = asm[a]
               \/ /\ a = b
                  /\ \E r \in Proposals : /\ Takes(a, r) /\ asm'[a].version = r.version + 1
                                          /\ asm'[a].state = "PHASE1" /\ asm'[a].lastcommit = r
    BY <1>2, CreateAcceptorEffect
  <1>3. ASSUME NEW m \in votes, asm[m.to].state = "PHASE1", asm' = [asm EXCEPT ![m.to].state = "PHASE2"]
        PROVE  \/ asm'[a] = asm[a]
               \/ /\ asm'[a].version = asm[a].version /\ asm'[a].lastcommit = asm[a].lastcommit
                  /\ asm[a].state = "PHASE1" /\ asm'[a].state = "PHASE2"
    BY <1>3 DEF Types, AcceptorMachines
  <1>4. ASSUME NEW m \in votes, handleVote(m)
        PROVE  \/ asm'[a] = asm[a]
               \/ /\ asm'[a].version = asm[a].version /\ asm'[a].lastcommit = asm[a].lastcommit
                  /\ asm[a].state = "PHASE1" /\ asm'[a].state = "PHASE2"
    BY <1>1, <1>3, <1>4, Voted
  <1>5. ASSUME NEW m \in commits, handleCommitment(m)
        PROVE  \/ asm'[a] = asm[a]
               \/ /\ asm'[a].version = asm[a].version /\ asm[a].version = m.proposal.version
                  /\ asm'[a].state = "PHASE3" /\ asm'[a].lastcommit = m.proposal
    BY <1>5, CommitmentRead
  <1> QED
    BY <1>1, <1>2, <1>4, <1>5, Frames

(* What waits in a listen queue is what waited, or a new request.          *)
Request(x, r) ==
    \/ tell(x) /\ x \in telling /\ mayTell(x)
    \/ requestProposer /\ x \in unused \cap Proposers

LEMMA RequestStep ==
    ASSUME Types, [Next]_vars, NEW x \in Acceptors \cup Proposers
    PROVE  \/ requests'[x] = requests[x]
           \/ \E r \in Proposals :
                 /\ IsSent(x, r) /\ Request(x, r)
                 /\ r.type = "ACCEPTORCHANGE" /\ r.version = currentversion /\ r.list = heard
           \/ \E r \in Proposals : Takes(x, r)
  <1>1. CASE UNCHANGED requests
    BY <1>1
  <1>2. ASSUME NEW y \in Acceptors \cup Proposers, tell(y)
        PROVE  \/ requests'[x] = requests[x]
               \/ \E r \in Proposals :
                     /\ IsSent(x, r) /\ Request(x, r)
                     /\ r.type = "ACCEPTORCHANGE" /\ r.version = currentversion /\ r.list = heard
    BY <1>2, TellEffect DEF IsSent, Request
  <1>3. CASE requestProposer
    BY <1>3, RequestProposerEffect DEF IsSent, Request
  <1>4. ASSUME NEW a \in Acceptors, createAcceptor(a)
        PROVE  requests'[x] = requests[x] \/ \E r \in Proposals : Takes(x, r)
    BY <1>4, CreateAcceptorEffect DEF Takes
  <1>5. ASSUME NEW p \in Proposers, createProposer(p)
        PROVE  requests'[x] = requests[x] \/ \E r \in Proposals : Takes(x, r)
    BY <1>5, CreateProposerEffect DEF Takes
  <1> QED
    BY <1>1, <1>2, <1>3, <1>4, <1>5, Frames

(* A commitment is of a proposal that won.                                 *)
LEMMA CommitStep ==
    ASSUME Types, [Next]_vars, NEW m \in commits'
    PROVE  \/ m \in commits
           \/ finishChange /\ m.proposal = psm[Requestor].proposal
           \/ \E p \in Proposers : psm[p].state = "WON" /\ m.proposal = psm[p].proposal
  <1>1. CASE UNCHANGED commits
    BY <1>1
  <1>2. CASE finishChange
    BY <1>2, FinishChangeEffect DEF commitments
  <1>3. ASSUME NEW p \in Proposers, sendCommitment(p)
        PROVE  m \in commits \/ (psm[p].state = "WON" /\ m.proposal = psm[p].proposal)
    BY <1>3, SendCommitmentEffect DEF commitments
  <1>4. ASSUME NEW n \in commits, handleCommitment(n) PROVE m \in commits
    BY <1>4, CommitmentRead
  <1> QED
    BY <1>1, <1>2, <1>3, <1>4, Frames

LEMMA AnswersFrame ==
    ASSUME Types, [Next]_vars
    PROVE  answers' \subseteq answers \/ \E m \in votes : handleVote(m)
  <1> USE Parties DEF connectionVars
  <1>1. CASE stop
    BY <1>1, Disconnected DEF stop
  <1>2. CASE proposeChange
    BY <1>2 DEF proposeChange
  <1>3. CASE changeAcceptor
    BY <1>3 DEF changeAcceptor
  <1>4. CASE \E x \in Acceptors \cup Proposers : tell(x)
    BY <1>4 DEF tell
  <1>5. CASE finishChange
    BY <1>5, FinishChangeEffect DEF Cut
  <1>6. CASE requestProposer
    BY <1>6 DEF requestProposer
  <1>7. CASE \E a \in Acceptors : loseAcceptor(a)
    BY <1>7 DEF loseAcceptor
  <1>8. CASE \E a \in Acceptors : createAcceptor(a)
    BY <1>8 DEF createAcceptor
  <1>9. CASE \E p \in Proposers : loseProposer(p)
    BY <1>9 DEF loseProposer
  <1>10. ASSUME NEW p \in Proposers, createProposer(p) PROVE answers' \subseteq answers
    BY <1>10, CreateProposerEffect DEF Cut
  <1>11. CASE \E p \in Proposers : startRecovery(p)
    BY <1>11 DEF startRecovery
  <1>12. CASE \E p \in Proposers : checkTimeout(p)
    BY <1>12 DEF checkTimeout
  <1>13. ASSUME NEW p \in Proposers, sendCommitment(p) PROVE answers' \subseteq answers
    BY <1>13, SendCommitmentEffect DEF Ends, Cut
  <1>14. ASSUME NEW m \in answers, requestorReads(m) PROVE answers' \subseteq answers
    BY <1>14, RequestorReadsEffect DEF Ends, Cut, ReadsAck
  <1>15. ASSUME NEW p \in Proposers, NEW m \in answers, proposerReads(p, m)
         PROVE  answers' \subseteq answers
    BY <1>15, ProposerReadsEffect DEF Ends, Cut, ReadsAck
  <1>17. CASE \E m \in commits : handleCommitment(m)
    BY <1>17 DEF handleCommitment
  <1>18. CASE UNCHANGED vars
    BY <1>18 DEF vars
  <1> QED
    BY <1>1, <1>2, <1>3, <1>4, <1>5, <1>6, <1>7, <1>8, <1>9, <1>10, <1>11, <1>12, <1>13, <1>14,
       <1>15, <1>17, <1>18, TwoKinds DEF RequestorStep, OtherStep

(* An answer is old, an acknowledgement or the outcome its sender knows;    *)
(* and its reader's machine is the one that asked.                          *)
Tells(m, n) ==
    /\ n.from = m.to /\ n.from # Nobody /\ n.to = m.from
    /\ m.outcome = asm[n.to].lastcommit
    /\ \/ /\ asm[n.to].version > n.proposal.version
          /\ asm[n.to].lastcommit.version >= n.proposal.version
       \/ asm[n.to].version = n.proposal.version /\ asm[n.to].state = "PHASE3"

LEMMA AnswerStep ==
    ASSUME Types, [Next]_vars, NEW m \in answers'
    PROVE  /\ m.to \in Voters
           /\ Stays(m.to)
           /\ m \in answers \/ m.outcome = Ack \/ \E n \in votes : Tells(m, n)
  <1>1. m.to \in Voters
    <2>1. Types'
      BY TypesStep
    <2>2. m \in AnswerMessages
      BY <2>1 DEF Types
    <2> QED
      BY <2>2, Fields
  <1>2. Stays(m.to)
    <2>1. ~(m.to = Requestor /\ finishChange)
      BY FinishChangeEffect DEF Cut
    <2>2. ~(m.to \in Proposers /\ createProposer(m.to))
      BY CreateProposerEffect DEF Cut
    <2>3. ASSUME m.to \in Proposers, NEW n \in answers, proposerReads(m.to, n),
                 n.outcome.type = "ACCEPTORCHANGE"
          PROVE  FALSE
      <3>1. n.outcome # Ack
        BY <2>3, Constructors
      <3>2. ~ReadsAck(m.to, n)
        BY <3>1 DEF ReadsAck
      <3>3. Cut(m.to)
        BY <2>3, <3>2, ProposerReadsEffect
      <3> QED
        BY <3>3 DEF Cut
    <2> QED
      BY <1>1, <2>1, <2>2, <2>3, MachineStep
  <1>3. ASSUME NEW n \in votes, handleVote(n)
        PROVE  m \in answers \/ m.outcome = Ack \/ Tells(m, n)
    <2>1. CASE answers' = answers
      BY <2>1
    <2>2. CASE answers' = answers \cup {[to |-> n.from, from |-> n.to, outcome |-> Ack]}
      BY <2>2
    <2>3. CASE /\ \/ /\ asm[n.to].version > n.proposal.version
                     /\ asm[n.to].lastcommit.version >= n.proposal.version
                  \/ asm[n.to].version = n.proposal.version /\ asm[n.to].state = "PHASE3"
               /\ n.from # Nobody
               /\ answers' = answers \cup {[to |-> n.from, from |-> n.to,
                                            outcome |-> asm[n.to].lastcommit]}
      BY <2>3 DEF Tells
    <2> QED
      BY <1>3, <2>1, <2>2, <2>3, Voted
  <1> QED
    BY <1>1, <1>2, <1>3, AnswersFrame

-----------------------------------------------------------------------------
(* Versions.                                                               *)

LEMMA VersionInit == Init => VersionInv
  <1> SUFFICES ASSUME Init PROVE VersionInv
    OBVIOUS
  <1>1. \A w \in Voters : psm[w].version <= 1 /\ psm[w].state = "INITIAL"
    BY Parties, Constructors DEF Init
  <1>2. \A a \in Acceptors : /\ asm[a].version = 0 /\ asm[a].state = "PHASE1"
                            /\ asm[a].lastcommit.type # "ACCEPTORCHANGE"
    BY Constructors DEF Init
  <1>3. \A x \in Acceptors \cup Proposers : DOMAIN requests[x] = {}
    BY DEF Init
  <1>4. machine.state = "INITIAL" /\ currentversion = 0
    BY <1>1, Parties DEF Init, machine
  <1>5. /\ watching = {} /\ decided = {} /\ commits = {} /\ answers = {}
        /\ \A p \in Proposers : psm[p].state = "INITIAL"
    BY <1>1, Parties DEF Init
  <1>6. \A a \in Acceptors : AcceptorVersions(a)
    BY <1>2, <1>4 DEF AcceptorVersions
  <1> QED
    BY <1>1, <1>3, <1>4, <1>5, <1>6 DEF VersionInv

LEMMA VersionStep ==
    /\ Types /\ RequestorInv /\ KnownInv /\ ConnectionInv /\ ChangeInv /\ VersionInv
    /\ [Next]_vars
    => VersionInv'
  <1> SUFFICES ASSUME Types, RequestorInv, KnownInv, ConnectionInv, ChangeInv, VersionInv,
                      [Next]_vars
               PROVE  VersionInv'
    OBVIOUS
  <1>0. Types' /\ RequestorInv' /\ KnownInv' /\ ConnectionInv' /\ ChangeInv'
    BY TypesStep, RequestorStepKeeps, KnownStep, ConnectionStep, ChangeStep
  <1>1. /\ currentversion \in Nat /\ currentversion' \in Nat
        /\ currentversion' \in {currentversion, currentversion + 1}
        /\ machine \in Machines /\ machine.version \in Nat
    BY <1>0, VersionRises, Parties, Fields DEF Types, machine
  <1>2. ASSUME NEW w \in Voters PROVE psm'[w].version <= currentversion' + 1
    <2>0. psm[w].version \in Nat /\ psm[w].version <= currentversion + 1
      BY Fields DEF Types, VersionInv
    <2>1. CASE Stays(w)
      BY <1>1, <2>0, <2>1 DEF Stays
    <2>2. CASE finishChange /\ Reset(w, currentversion + 1, psm[w].proposal.list)
      BY <1>1, <2>2 DEF Reset, finishChange
    <2>3. ASSUME NEW r \in Proposals, w \in Proposers, Takes(w, r), Reset(w, r.version + 1, r.list)
          PROVE  psm'[w].version <= currentversion' + 1
      BY <1>1, <2>3, Taken, Fields DEF Reset, VersionInv
    <2>4. ASSUME NEW m \in answers, m.outcome.type = "ACCEPTORCHANGE",
                 Reset(w, m.outcome.version + 1, m.outcome.list)
          PROVE  psm'[w].version <= currentversion' + 1
      <3>1. m.outcome # Ack /\ m.outcome.version \in Nat
        BY <2>4, Constructors, Fields DEF Types
      <3> QED
        BY <1>1, <2>4, <3>1 DEF Reset, VersionInv
    <2> QED
      BY <2>1, <2>2, <2>3, <2>4, MachineStep
  <1>3. ASSUME NEW a \in Acceptors
        PROVE  AcceptorVersions(a)'
    <2>0. /\ asm[a].version \in Nat /\ asm[a].version <= currentversion + 1
          /\ asm[a].lastcommit.version \in Nat
          /\ asm[a].lastcommit.type = "ACCEPTORCHANGE" => asm[a].lastcommit.version <= currentversion
          /\ asm[a].state = "PHASE3" => asm[a].lastcommit.version = asm[a].version
      BY Fields DEF Types, VersionInv, AcceptorVersions
    <2>1. CASE asm'[a] = asm[a]
      BY <1>1, <2>0, <2>1 DEF AcceptorVersions
    <2>2. ASSUME NEW r \in Proposals, Takes(a, r), asm'[a].version = r.version + 1,
                 asm'[a].state = "PHASE1", asm'[a].lastcommit = r
          PROVE  AcceptorVersions(a)'
      <3>1. r.version \in Nat /\ r.version <= currentversion
        BY <2>2, Taken, Fields DEF VersionInv
      <3> QED
        BY <1>1, <2>2, <3>1 DEF AcceptorVersions
    <2>3. CASE /\ asm'[a].version = asm[a].version /\ asm'[a].lastcommit = asm[a].lastcommit
               /\ asm'[a].state = "PHASE2"
      BY <1>1, <2>0, <2>3 DEF AcceptorVersions
    <2>4. ASSUME NEW m \in commits, asm'[a].version = asm[a].version, asm[a].version = m.proposal.version,
                 asm'[a].state = "PHASE3", asm'[a].lastcommit = m.proposal
          PROVE  AcceptorVersions(a)'
      <3>1. m.proposal.version \in Nat
        BY Fields DEF Types
      <3> QED
        BY <1>1, <2>0, <2>4, <3>1 DEF VersionInv, AcceptorVersions
    <2> QED
      BY <2>1, <2>2, <2>3, <2>4, AcceptorStep
  <1>4. ASSUME NEW d \in decided'
        PROVE  /\ d.version >= 1 /\ d.version <= currentversion' + 1
               /\ d.type = "RECOVERY" => d.version >= 2
    <2>0. d.version \in Nat
      BY <1>0, Fields DEF Types
    <2>1. CASE d \in decided
      BY <1>1, <2>0, <2>1 DEF VersionInv
    <2>2. ASSUME NEW w \in Voters, Wins(w, d), w \in Proposers
          PROVE  d.version = psm'[w].version /\ psm'[w].version >= 2
      BY <1>0, <2>2, Parties DEF Wins, KnownInv, VersionInv
    <2>3. ASSUME Wins(Requestor, d)
          PROVE  /\ d.version = psm'[Requestor].version /\ d.version >= 1
                 /\ d.type = "ACCEPTORCHANGE"
      <3>1. /\ d = AcceptorChange(machine'.version, machine'.proposal.list)
            /\ machine'.version >= 1
        BY <1>0, <2>3 DEF Wins, RequestorInv, machine
      <3>2. machine'.version \in Nat /\ machine'.proposal.list \in SUBSET Acceptors
        BY <1>0, Parties, Fields DEF Types, machine
      <3> QED
        BY <3>1, <3>2, Constructors DEF machine
    <2>4. \A w \in Voters : psm'[w].version \in Nat
      BY <1>0, Fields DEF Types
    <2>5. d \in decided \/ \E w \in Voters : Wins(w, d)
      BY DecidedStep DEF DecidedGrows
    <2> QED
      BY <1>1, <1>2, <2>0, <2>1, <2>2, <2>3, <2>4, <2>5, Parties
  <1>5. ASSUME NEW p \in Proposers, p \in watching' \/ psm'[p].state \in {"VOTING", "WON"}
        PROVE  psm'[p].version >= 2
    <2>1. CASE createProposer(p)
      <3>1. PICK r \in Proposals : Takes(p, r) /\ Reset(p, r.version + 1, r.list)
        BY <2>1, CreateProposerEffect
      <3>2. r.version \in Nat /\ r.version >= 1
        BY <3>1, Taken, Fields DEF VersionInv
      <3> QED
        BY <3>1, <3>2 DEF Reset
    <2>2. CASE ~createProposer(p)
      <3>1. p \in watching' => p \in watching
        BY <2>2, Frames DEF createProposer, startRecovery
      <3>2. Stays(p)
        <4>1. ASSUME NEW m \in answers, proposerReads(p, m), m.to = p,
                     Reset(p, m.outcome.version + 1, m.outcome.list)
              PROVE  FALSE
          BY <1>5, <3>1, <4>1 DEF Reset, ConnectionInv
        <4> QED
          BY <2>2, <4>1, MachineStep, Parties
      <3> QED
        BY <1>5, <3>1, <3>2, Parties DEF Stays, VersionInv
    <2> QED
      BY <2>1, <2>2
  <1>6. ASSUME NEW x \in Acceptors \cup Proposers, NEW i \in DOMAIN requests'[x]
        PROVE  requests'[x][i].version >= 1 /\ requests'[x][i].version <= currentversion'
    <2>0. \A j \in DOMAIN requests[x] :
             /\ requests[x][j].version \in Nat
             /\ requests[x][j].version >= 1 /\ requests[x][j].version <= currentversion
      BY Fields DEF Types, VersionInv
    <2>1. CASE requests'[x] = requests[x]
      BY <1>1, <2>0, <2>1
    <2>2. ASSUME NEW r \in Proposals, IsSent(x, r), Request(x, r), r.version = currentversion
          PROVE  requests'[x][i].version >= 1 /\ requests'[x][i].version <= currentversion'
      <3>1. currentversion >= 1
        <4>1. CASE tell(x) /\ x \in telling
          BY <1>1, <4>1 DEF RequestorInv
        <4>2. CASE requestProposer
          <5>1. machine.state # "WON" /\ (needchange => changing)
            BY <4>2 DEF requestProposer, missesProposer, machine
          <5>2. machine.version # 1
            BY <5>1 DEF RequestorInv
          <5> QED
            BY <1>1, <5>1, <5>2, Fields DEF RequestorInv, VersionInv
        <4> QED
          BY <2>2, <4>1, <4>2 DEF Request
      <3> QED
        BY <1>1, <2>0, <2>2, <3>1, Appended
    <2>3. ASSUME NEW r \in Proposals, Takes(x, r)
          PROVE  requests'[x][i].version >= 1 /\ requests'[x][i].version <= currentversion'
      BY <1>1, <2>0, <2>3, Taken
    <2> QED
      BY <2>1, <2>2, <2>3, RequestStep
  <1>7. ASSUME NEW m \in commits', m.proposal.type = "ACCEPTORCHANGE"
        PROVE  m.proposal.version <= currentversion'
    <2>1. CASE m \in commits
      BY <1>1, <1>7, <2>1, Fields DEF VersionInv, Types
    <2>2. CASE finishChange /\ m.proposal = psm[Requestor].proposal
      <3>1. /\ m.proposal = AcceptorChange(machine.version, machine.proposal.list)
            /\ machine.version = currentversion
        BY <2>2 DEF finishChange, RequestorInv, machine
      <3>2. machine.proposal.list \in SUBSET Acceptors
        BY <1>1, Fields
      <3> QED
        BY <1>1, <3>1, <3>2, Constructors
    <2>3. ~\E p \in Proposers : psm[p].state = "WON" /\ m.proposal = psm[p].proposal
      BY <1>7 DEF KnownInv
    <2> QED
      BY <2>1, <2>2, <2>3, CommitStep
  <1>8. ASSUME NEW m \in answers', m.outcome # Ack
        PROVE  /\ m.outcome.type = "ACCEPTORCHANGE" => m.outcome.version <= currentversion'
               /\ m.outcome.version >= psm'[m.to].version
    <2>1. /\ m.to \in Voters /\ psm'[m.to].version = psm[m.to].version
          /\ m \in answers \/ \E n \in votes : Tells(m, n)
      BY <1>8, AnswerStep DEF Stays
    <2>2. m.outcome.version \in Nat /\ psm[m.to].version \in Nat
      BY <1>0, <2>1, Fields DEF Types
    <2>3. CASE m \in answers
      BY <1>1, <1>8, <2>1, <2>2, <2>3 DEF VersionInv
    <2>4. ASSUME NEW n \in votes, Tells(m, n)
          PROVE  /\ m.outcome.type = "ACCEPTORCHANGE" => m.outcome.version <= currentversion
                 /\ m.outcome.version >= psm[m.to].version
      <3>1. n.to \in Acceptors
        BY Fields DEF Types
      <3>2. n.proposal.version = psm[m.to].version
        BY <2>4 DEF Tells, ConnectionInv
      <3>3. AcceptorVersions(n.to)
        BY <3>1 DEF VersionInv
      <3> QED
        BY <2>2, <2>4, <3>2, <3>3 DEF Tells, AcceptorVersions
    <2> QED
      BY <1>1, <2>1, <2>2, <2>3, <2>4
  <1>9. ASSUME machine'.state = "PHASE3"
        PROVE  currentversion' = machine'.version /\ Ended(machine.version)'
    <2>1. Stays(Requestor)
      BY <1>9, MachineStep, Parties DEF Reset, machine
    <2>2. decided \subseteq decided'
      BY DecidedStep DEF DecidedGrows
    <2>3. CASE machine.state = "PHASE3"
      <3>1. UNCHANGED currentversion
        <4>1. ~changeAcceptor
          BY <2>3 DEF changeAcceptor, machine
        <4>2. ASSUME NEW m \in answers, requestorReads(m) PROVE FALSE
          BY <2>3, <4>2, RequestorReadsEffect DEF RequestorInv
        <4> QED
          BY <4>1, <4>2, Frames
      <3> QED
        BY <2>1, <2>2, <2>3, <3>1 DEF VersionInv, Ended, Stays, machine
    <2>4. CASE machine.state # "PHASE3"
      <3>1. ~OtherStep
        BY <1>9, <2>4, OthersKeep DEF machine
      <3>2. ~proposeChange
        BY <1>9, ProposeChangeEffect DEF Proposes, machine
      <3>3. ~finishChange
        BY <1>9, FinishChangeEffect DEF Reset, machine
      <3>4. psm' # psm
        BY <1>9, <2>4 DEF machine
      <3>5. PICK m \in answers : requestorReads(m)
        BY <3>1, <3>2, <3>3, <3>4, Frames DEF OtherStep
      <3>6. ~ReadsAck(Requestor, m)
        BY <1>9, <2>4 DEF ReadsAck, machine
      <3>7. /\ m.to = Requestor /\ m.outcome # Ack /\ psm[Requestor].state # "WON"
            /\ currentversion' = m.outcome.version
        BY <3>5, <3>6, RequestorReadsEffect
      <3>8. /\ m.outcome \in decided /\ m.outcome.type = "RECOVERY"
            /\ m.outcome.version = machine.version
        BY <3>7, OutcomeRead
      <3> QED
        BY <2>1, <2>2, <3>7, <3>8 DEF Stays, machine, Ended
    <2> QED
      BY <2>3, <2>4
  <1> QED
    BY <1>2, <1>3, <1>4, <1>5, <1>6, <1>7, <1>8, <1>9 DEF VersionInv

-----------------------------------------------------------------------------
(* Requests.                                                               *)

LEMMA RequestInit == Init => RequestInv
  <1> SUFFICES ASSUME Init PROVE RequestInv
    OBVIOUS
  <1>1. \A x \in Acceptors \cup Proposers : requests[x] = <<>> /\ DOMAIN requests[x] = {}
    BY DEF Init
  <1>2. telling = {} /\ proposers = {}
    BY DEF Init
  <1> QED
    BY <1>1, <1>2 DEF RequestInv, Rising

LEMMA RequestInvStep ==
    /\ Types /\ RequestorInv /\ KnownInv /\ ConnectionInv /\ ChangeInv /\ VersionInv /\ RequestInv
    /\ [Next]_vars
    => RequestInv'
  <1> SUFFICES ASSUME Types, RequestorInv, KnownInv, ConnectionInv, ChangeInv, VersionInv,
                      RequestInv, [Next]_vars
               PROVE  RequestInv'
    OBVIOUS
  <1>0. /\ currentversion \in Nat /\ currentversion' \in Nat
        /\ currentversion' \in {currentversion, currentversion + 1}
    BY VersionRises DEF Types
  <1>1. \A x \in Acceptors \cup Proposers :
           /\ requests[x] \in Seq(Proposals)
           /\ \A i \in DOMAIN requests[x] : /\ i \in Nat /\ requests[x][i].version \in Nat
                                          /\ requests[x][i].version <= currentversion
    BY Fields DEF Types, VersionInv
  <1>2. \A p \in unused \cap Proposers : requests[p] = <<>> /\ p \notin proposers /\ p \notin telling
    BY DEF RequestInv
  <1>3. ASSUME NEW x \in telling'
        PROVE  \/ x \in telling
               \/ changeAcceptor /\ x \in recipients(psm[Requestor].proposal.list)
    BY Frames DEF changeAcceptor, tell
  <1>4. changeAcceptor => currentversion' = currentversion + 1 /\ UNCHANGED <<requests, asm, psm, unused, proposers>>
    BY <1>0 DEF changeAcceptor
  <1>5. ASSUME NEW x \in Acceptors \cup Proposers PROVE Rising(requests[x])'
    <2>1. CASE requests'[x] = requests[x]
      BY <2>1 DEF RequestInv, Rising
    <2>2. ASSUME NEW r \in Proposals, IsSent(x, r), Request(x, r), r.version = currentversion
          PROVE  Rising(requests[x])'
      <3>1. \A i \in DOMAIN requests[x] : requests[x][i].version < currentversion
        BY <2>2, <1>2 DEF Request, RequestInv
      <3>2. Rising(requests[x])
        BY DEF RequestInv
      <3>3. ASSUME NEW i \in DOMAIN requests'[x], NEW j \in DOMAIN requests'[x], i < j
            PROVE  requests'[x][i].version < requests'[x][j].version
        <4>1. i \in DOMAIN requests[x] /\ requests'[x][i] = requests[x][i]
          BY <2>2, <3>3, Appended
        <4>2. CASE j \in DOMAIN requests[x] /\ requests'[x][j] = requests[x][j]
          BY <3>2, <3>3, <4>1, <4>2 DEF Rising
        <4>3. CASE requests'[x][j] = r
          BY <2>2, <3>1, <4>1, <4>3
        <4> QED
          BY <2>2, <4>2, <4>3, Appended
      <3> QED
        BY <3>3 DEF Rising
    <2>3. ASSUME NEW r \in Proposals, Takes(x, r) PROVE Rising(requests[x])'
      <3>1. \A i \in DOMAIN requests'[x] :
               i \in Nat /\ i + 1 \in DOMAIN requests[x] /\ requests'[x][i] = requests[x][i + 1]
        BY <2>3, Taken
      <3> QED
        BY <3>1 DEF RequestInv, Rising
    <2> QED
      BY <2>1, <2>2, <2>3, RequestStep
  <1>6. ASSUME NEW x \in telling', NEW i \in DOMAIN requests'[x]
        PROVE  requests'[x][i].version < currentversion'
    <2>0. x \in Acceptors \cup Proposers
      BY TypesStep DEF Types
    <2>1. CASE changeAcceptor
      BY <1>0, <1>1, <1>4, <2>0, <2>1
    <2>2. CASE ~changeAcceptor
      <3>0. x \in telling
        BY <1>3, <2>2
      <3>1. CASE requests'[x] = requests[x]
        BY <1>0, <1>1, <2>0, <3>0, <3>1 DEF RequestInv
      <3>2. ~Request(x, AcceptorChange(currentversion, heard))
        BY <1>2, <3>0 DEF Request, tell
      <3>3. ASSUME NEW r \in Proposals, Takes(x, r) PROVE requests'[x][i].version < currentversion'
        BY <1>0, <1>1, <2>0, <3>0, <3>3, Taken DEF RequestInv
      <3> QED
        BY <2>0, <3>1, <3>2, <3>3, RequestStep DEF Request
    <2> QED
      BY <2>1, <2>2
  <1>7. ASSUME NEW a \in Acceptors
        PROVE  \A i \in DOMAIN requests'[a] : requests'[a][i].version >= asm'[a].version
    <2>0. asm[a].version \in Nat /\ Rising(requests[a])
      BY Fields DEF Types, RequestInv
    <2>1. CASE asm'[a].version = asm[a].version
      <3>1. CASE requests'[a] = requests[a]
        BY <2>1, <3>1 DEF RequestInv
      <3>2. ASSUME NEW r \in Proposals, IsSent(a, r), Request(a, r), r.version = currentversion
            PROVE  <1>7!2
        <4>1. a \in telling
          BY <3>2, Parties DEF Request
        <4>2. asm[a].version <= currentversion
          BY <4>1 DEF RequestInv
        <4> QED
          BY <2>0, <2>1, <3>2, <4>2, Appended DEF RequestInv
      <3>3. ASSUME NEW r \in Proposals, Takes(a, r) PROVE <1>7!2
        BY <2>1, <3>3, Taken DEF RequestInv
      <3> QED
        BY <3>1, <3>2, <3>3, RequestStep
    <2>2. ASSUME NEW r \in Proposals, Takes(a, r), asm'[a].version = r.version + 1
          PROVE  <1>7!2
      <3>1. ASSUME NEW i \in DOMAIN requests'[a] PROVE requests'[a][i].version >= r.version + 1
        <4>1. /\ i \in Nat /\ i + 1 \in DOMAIN requests[a] /\ requests'[a][i] = requests[a][i + 1]
              /\ 1 \in DOMAIN requests[a] /\ requests[a][1] = r /\ 1 < i + 1
          BY <2>2, Taken
        <4> QED
          BY <1>1, <2>0, <4>1 DEF Rising
      <3> QED
        BY <2>2, <3>1
    <2> QED
      BY <2>1, <2>2, AcceptorStep
  <1>8. ASSUME NEW a \in telling' \cap Acceptors PROVE asm'[a].version <= currentversion'
    <2>0. asm[a].version \in Nat /\ asm[a].version <= currentversion + 1
      BY Fields DEF Types, VersionInv, AcceptorVersions
    <2>1. CASE changeAcceptor
      BY <1>0, <1>4, <2>0, <2>1
    <2>2. CASE ~changeAcceptor
      <3>0. a \in telling /\ asm[a].version <= currentversion
        BY <1>3, <2>2 DEF RequestInv
      <3>1. ASSUME NEW r \in Proposals, Takes(a, r), asm'[a].version = r.version + 1
            PROVE  asm'[a].version <= currentversion
        <4>1. r.version < currentversion /\ r.version \in Nat
          BY <3>0, <3>1, <1>1, Taken DEF RequestInv
        <4> QED
          BY <1>0, <3>1, <4>1
      <3>2. currentversion <= currentversion' /\ asm'[a].version \in Nat
        BY <1>0, TypesStep, Fields DEF Types
      <3>3. CASE asm'[a].version = asm[a].version
        BY <1>0, <2>0, <3>0, <3>2, <3>3
      <3>4. CASE \E r \in Proposals : Takes(a, r) /\ asm'[a].version = r.version + 1
        BY <1>0, <3>1, <3>2, <3>4
      <3> QED
        BY <3>3, <3>4, AcceptorStep
    <2> QED
      BY <2>1, <2>2
  <1>9. ASSUME NEW p \in Proposers
        PROVE  \A i \in DOMAIN requests'[p] : requests'[p][i].version + 1 >= psm'[p].version
    <2>0. psm[p].version \in Nat /\ psm[p].version <= currentversion + 1 /\ Rising(requests[p])
      BY Parties, Fields DEF Types, VersionInv, RequestInv
    <2>1. CASE Stays(p)
      <3>1. CASE requests'[p] = requests[p]
        BY <2>1, <3>1 DEF RequestInv, Stays
      <3>2. ASSUME NEW r \in Proposals, IsSent(p, r), r.version = currentversion
            PROVE  <1>9!2
        BY <2>0, <2>1, <3>2, Appended DEF RequestInv, Stays
      <3>3. ASSUME NEW r \in Proposals, Takes(p, r) PROVE <1>9!2
        BY <2>1, <3>3, Taken DEF RequestInv, Stays
      <3> QED
        BY <3>1, <3>2, <3>3, RequestStep
    <2>2. ASSUME NEW r \in Proposals, Takes(p, r), Reset(p, r.version + 1, r.list)
          PROVE  <1>9!2
      <3>1. ASSUME NEW i \in DOMAIN requests'[p] PROVE requests'[p][i].version + 1 >= r.version + 1
        <4>1. /\ i \in Nat /\ i + 1 \in DOMAIN requests[p] /\ requests'[p][i] = requests[p][i + 1]
              /\ 1 \in DOMAIN requests[p] /\ requests[p][1] = r /\ 1 < i + 1
          BY <2>2, Taken
        <4> QED
          BY <1>1, <2>0, <4>1 DEF Rising
      <3> QED
        BY <2>2, <3>1 DEF Reset
    <2>3. ASSUME NEW m \in answers, proposerReads(p, m), requests[p] = <<>> PROVE <1>9!2
      <3>1. requests'[p] = <<>>
        BY <2>3 DEF proposerReads
      <3> QED
        BY <3>1
    <2> QED
      BY <2>1, <2>2, <2>3, MachineStep, Parties
  <1>10. ASSUME NEW p \in unused' \cap Proposers
         PROVE  requests'[p] = <<>> /\ p \notin proposers' /\ p \notin telling'
    <2>1. p \in unused
      BY Frames, ProposeChangeEffect, RequestProposerEffect
    <2>2. requests[p] = <<>> /\ p \notin proposers /\ p \notin telling
      BY <1>2, <2>1
    <2>3. p \notin telling'
      <3>1. p \notin recipients(psm[Requestor].proposal.list)
        BY <2>2, Parties, Fields DEF Types, recipients
      <3> QED
        BY <1>3, <2>2, <3>1
    <2>4. ~(requestProposer /\ p \notin unused')
      OBVIOUS
    <2>5. requests'[p] = <<>>
      <3>1. ~\E r \in Proposals : Takes(p, r)
        BY <2>2 DEF Takes
      <3>2. ~tell(p)
        BY <2>2 DEF tell
      <3>3. CASE requestProposer
        BY <2>2, <3>3, RequestProposerEffect DEF IsSent
      <3>4. CASE ~requestProposer
        BY <2>2, <3>1, <3>2, <3>4, RequestStep DEF Request
      <3> QED
        BY <3>3, <3>4
    <2>6. p \notin proposers'
      BY <2>2, Frames, RequestProposerEffect DEF loseProposer
    <2> QED
      BY <2>3, <2>5, <2>6
  <1> QED
    BY <1>5, <1>6, <1>7, <1>8, <1>9, <1>10 DEF RequestInv

-----------------------------------------------------------------------------
(* The layers together. *)

Layers ==
    /\ Types /\ RequestorInv /\ KnownInv /\ ConnectionInv /\ ChangeInv /\ VersionInv
    /\ RequestInv

LEMMA LayersStep == Layers /\ [Next]_vars => Layers'
  BY TypesStep, RequestorStepKeeps, KnownStep, ConnectionStep, ChangeStep, VersionStep,
     RequestInvStep DEF Layers

LEMMA LayersInvariant == Spec => []Layers
  <1>1. Init => Layers
    BY InitTypes, RequestorInit, KnownInit, ConnectionInit, ChangeInit, VersionInit, RequestInit
       DEF Layers
  <1> QED
    BY <1>1, LayersStep, PTL DEF Spec

(* No machine, of a voter or of an acceptor, is in a version later than the *)
(* one after the requestor's currentversion, whatever the number of         *)
(* programs, losses and replacements.                                       *)
THEOREM RequestorLeads == Spec => []TypeOK
  <1>1. Layers => TypeOK
    BY DEF Layers, VersionInv, AcceptorVersions, TypeOK
  <1> QED
    BY <1>1, LayersInvariant, PTL

LEMMA AcceptorVersionsRise ==
    ASSUME Layers, [Next]_vars, NEW a \in Acceptors
    PROVE  asm'[a].version >= asm[a].version
  <1>0. asm[a].version \in Nat
    BY Fields DEF Layers, Types
  <1>1. ASSUME NEW r \in Proposals, Takes(a, r), asm'[a].version = r.version + 1
        PROVE  asm'[a].version >= asm[a].version
    <2>1. r.version >= asm[a].version
      BY <1>1, Taken DEF Layers, RequestInv
    <2>2. r.version \in Nat
      BY Fields
    <2> QED
      BY <1>0, <1>1, <2>1, <2>2
  <1>2. CASE asm'[a].version = asm[a].version
    BY <1>0, <1>2
  <1> QED
    BY <1>1, <1>2, AcceptorStep DEF Layers

LEMMA VoterVersionsRise ==
    ASSUME Layers, [Next]_vars, NEW w \in Voters
    PROVE  psm'[w].version >= psm[w].version
  <1>0. psm[w].version \in Nat /\ psm[w].version <= currentversion + 1 /\ currentversion \in Nat
    BY Fields DEF Layers, Types, VersionInv
  <1>1. CASE Stays(w)
    BY <1>0, <1>1 DEF Stays
  <1>2. CASE Reset(w, currentversion + 1, psm[w].proposal.list)
    BY <1>0, <1>2 DEF Reset
  <1>3. ASSUME NEW r \in Proposals, w \in Proposers, Takes(w, r), Reset(w, r.version + 1, r.list)
        PROVE  psm'[w].version >= psm[w].version
    <2>1. r.version + 1 >= psm[w].version
      BY <1>3, Taken DEF Layers, RequestInv
    <2> QED
      BY <1>3, <2>1 DEF Reset
  <1>4. ASSUME NEW m \in answers, m.to = w, m.outcome.type = "ACCEPTORCHANGE",
               Reset(w, m.outcome.version + 1, m.outcome.list)
        PROVE  psm'[w].version >= psm[w].version
    <2>1. m.outcome \in Proposals /\ m.outcome.version \in Nat
      BY Fields DEF Layers, Types
    <2>2. m.outcome # Ack
      BY <1>4, Constructors
    <2>3. m.outcome.version >= psm[w].version
      BY <1>4, <2>2 DEF Layers, VersionInv
    <2> QED
      BY <1>0, <1>4, <2>1, <2>3 DEF Reset
  <1> QED
    BY <1>1, <1>2, <1>3, <1>4, MachineStep DEF Layers

(* createAcceptor and createProposer never take a machine back to an        *)
(* earlier version, although neither looks at the version it replaces: the  *)
(* requests in a listen queue are for later and later versions and for none *)
(* before the machine's (RequestInv).                                       *)
THEOREM MachinesRise == Spec => VersionsOnlyRise
  <1>1. Layers /\ [Next]_vars =>
           [/\ \A a \in Acceptors : asm'[a].version >= asm[a].version
            /\ \A w \in Voters : psm'[w].version >= psm[w].version]_vars
    BY AcceptorVersionsRise, VoterVersionsRise
  <1> QED
    BY <1>1, LayersInvariant, PTL DEF Spec, VersionsOnlyRise
=============================================================================
