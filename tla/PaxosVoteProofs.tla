------------------------- MODULE PaxosVoteProofs -------------------------
(***************************************************************************)
(* Theorems about PaxosVote, for every set of voters and acceptors and     *)
(* every choice of what may time out, crash or lose connections.           *)
(***************************************************************************)
EXTENDS PaxosVoteInv, FiniteSetTheorems, TLAPS

(* Nothing is in a new queue. *)
LEMMA EmptyQueue == Contents(<<>>) = {}
  BY DEF Contents

(* Writing a message adds it to the queue and nothing else. *)
LEMMA QueueAppend ==
    ASSUME NEW S, NEW q \in Seq(S), NEW m \in S
    PROVE  /\ Append(q, m) \in Seq(S)
           /\ Contents(Append(q, m)) = Contents(q) \cup {m}
  <1>1. /\ Append(q, m) \in Seq(S)
        /\ Len(Append(q, m)) = Len(q) + 1
        /\ \A i \in 1 .. Len(q) : Append(q, m)[i] = q[i]
        /\ Append(q, m)[Len(q) + 1] = m
    OBVIOUS
  <1>2. Len(q) \in Nat
    OBVIOUS
  <1> QED
    BY <1>1, <1>2 DEF Contents

(* Reading takes the head, which was in the queue, and leaves the rest. *)
LEMMA QueueTail ==
    ASSUME NEW S, NEW q \in Seq(S), q # <<>>
    PROVE  /\ Tail(q) \in Seq(S)
           /\ Head(q) \in S
           /\ Head(q) \in Contents(q)
           /\ Contents(Tail(q)) \subseteq Contents(q)
  <1>1. /\ Len(q) \in Nat \ {0}
        /\ Head(q) = q[1]
        /\ Tail(q) \in Seq(S)
        /\ Len(Tail(q)) = Len(q) - 1
        /\ \A i \in 1 .. Len(q) - 1 : Tail(q)[i] = q[i + 1]
        /\ Head(q) \in S
    OBVIOUS
  <1> QED
    BY <1>1 DEF Contents
-----------------------------------------------------------------------------
(* Type correctness.  It needs to know that what a voting machine proposes  *)
(* and what a commit message carries are real proposals.                    *)

(* What a voter proposes is a proposal, and a recovery names an address. *)
LEMMA OwnProposalTypes ==
    ASSUME NEW v \in Voters, NEW p \in OwnProposals(v)
    PROVE  /\ p \in Proposals
           /\ v \in Proposers =>
                [ip |-> p.backupip, port |-> p.backupport] \in Addresses
  BY DEF Addresses, OwnProposals, Proposals, Voters, RecoveryTo, RecoveryProposal

(* So does every recovery a voter can learn of. *)
LEMMA RecoveryAddressType ==
    ASSUME NEW p \in Proposals, p.type = "RECOVERYPROPOSAL"
    PROVE  [ip |-> p.backupip, port |-> p.backupport] \in Addresses
  BY DEF Addresses, Proposals, RecoveryTo, RecoveryProposal, NewAcceptors, AcceptorChangeProposal

(* The initial values have their types; nobody votes, nothing is written. *)
LEMMA TypeInit == Init => TypeInv
  <1> SUFFICES ASSUME Init PROVE TypeInv
    OBVIOUS
  <1>1. TypeOK
    BY DEF Init, TypeOK, Addresses, VoterStates, AcceptorStates
  <1>2. VotingHasProposal /\ CommittedHasProposal
    BY DEF Init, VotingHasProposal, CommittedHasProposal
  <1>3. MessagesCarryProposals
    BY EmptyQueue DEF Init, MessagesCarryProposals
  <1> QED
    BY <1>1, <1>2, <1>3 DEF TypeInv
-----------------------------------------------------------------------------
(* What each way of using a connection does to the queues. *)

QueuesTyped ==
    /\ toAcceptor \in [Voters -> [Acceptors -> Seq(Messages)]]
    /\ toVoter \in [Voters -> [Acceptors -> Seq(Messages)]]

(* Writing to every socket adds m to queues of v only. *)
LEMMA SendAllEffect ==
    ASSUME QueuesTyped, NEW v \in Voters, NEW m \in Messages, SendAll(v, m)
    PROVE  /\ toAcceptor' \in [Voters -> [Acceptors -> Seq(Messages)]]
           /\ \A w \in Voters, a \in Acceptors : w # v => toAcceptor'[w][a] = toAcceptor[w][a]
           /\ \A a \in Acceptors : \/ toAcceptor'[v][a] = toAcceptor[v][a]
                                   \/ toAcceptor'[v][a] = Append(toAcceptor[v][a], m)
           /\ \A w \in Voters, a \in Acceptors :
                Contents(toAcceptor'[w][a]) \subseteq Contents(toAcceptor[w][a]) \cup {m}
  <1> DEFINE new == [a \in Acceptors |-> IF a \in connected[v] THEN Append(toAcceptor[v][a], m)
                                                               ELSE toAcceptor[v][a]]
  <1>1. \A a \in Acceptors : /\ Append(toAcceptor[v][a], m) \in Seq(Messages)
                             /\ Contents(Append(toAcceptor[v][a], m))
                                  = Contents(toAcceptor[v][a]) \cup {m}
    BY QueueAppend DEF QueuesTyped
  <1>2. new \in [Acceptors -> Seq(Messages)]
    BY <1>1 DEF QueuesTyped
  <1>3. toAcceptor' = [toAcceptor EXCEPT ![v] = new]
    BY DEF SendAll
  <1>4. \A a \in Acceptors : \/ toAcceptor'[v][a] = toAcceptor[v][a]
                             \/ toAcceptor'[v][a] = Append(toAcceptor[v][a], m)
    BY <1>3 DEF QueuesTyped
  <1>5. \A w \in Voters, a \in Acceptors : w # v => toAcceptor'[w][a] = toAcceptor[w][a]
    BY <1>3 DEF QueuesTyped
  <1>6. toAcceptor' \in [Voters -> [Acceptors -> Seq(Messages)]]
    BY <1>2, <1>3 DEF QueuesTyped
  <1> QED
    BY <1>1, <1>4, <1>5, <1>6

(* An acceptor reads the head of one queue. *)
LEMMA ReceiveFromVoterEffect ==
    ASSUME QueuesTyped, NEW v \in Voters, NEW a \in Acceptors, NEW t,
           ReceiveFromVoter(v, a, t)
    PROVE  /\ toAcceptor' \in [Voters -> [Acceptors -> Seq(Messages)]]
           /\ Head(toAcceptor[v][a]) \in Messages
           /\ Head(toAcceptor[v][a]) \in Contents(toAcceptor[v][a])
           /\ Head(toAcceptor[v][a]).type = t
           /\ toAcceptor'[v][a] = Tail(toAcceptor[v][a])
           /\ toAcceptor[v][a] # <<>>
           /\ \A w \in Voters, b \in Acceptors :
                w # v \/ b # a => toAcceptor'[w][b] = toAcceptor[w][b]
           /\ \A w \in Voters, b \in Acceptors :
                Contents(toAcceptor'[w][b]) \subseteq Contents(toAcceptor[w][b])
  <1>1. toAcceptor[v][a] \in Seq(Messages) /\ toAcceptor[v][a] # <<>>
    BY DEF QueuesTyped, ReceiveFromVoter
  <1>2. /\ Tail(toAcceptor[v][a]) \in Seq(Messages)
        /\ Head(toAcceptor[v][a]) \in Messages
        /\ Head(toAcceptor[v][a]) \in Contents(toAcceptor[v][a])
        /\ Contents(Tail(toAcceptor[v][a])) \subseteq Contents(toAcceptor[v][a])
    BY <1>1, QueueTail
  <1>3. toAcceptor' = [toAcceptor EXCEPT ![v][a] = Tail(toAcceptor[v][a])]
    BY DEF ReceiveFromVoter
  <1>4. /\ toAcceptor'[v][a] = Tail(toAcceptor[v][a])
        /\ \A w \in Voters, b \in Acceptors :
             w # v \/ b # a => toAcceptor'[w][b] = toAcceptor[w][b]
    BY <1>3 DEF QueuesTyped
  <1>5. toAcceptor' \in [Voters -> [Acceptors -> Seq(Messages)]]
    BY <1>2, <1>3 DEF QueuesTyped
  <1>6. \A w \in Voters, b \in Acceptors :
          Contents(toAcceptor'[w][b]) \subseteq Contents(toAcceptor[w][b])
    BY <1>2, <1>4
  <1>7. Head(toAcceptor[v][a]).type = t
    BY DEF ReceiveFromVoter
  <1> QED
    BY <1>1, <1>2, <1>4, <1>5, <1>6, <1>7

(* An acceptor's answer is added to one queue, or to none. *)
LEMMA ReplyEffect ==
    ASSUME QueuesTyped, NEW v \in Voters, NEW a \in Acceptors, NEW m \in Messages,
           Reply(v, a, m)
    PROVE  /\ toVoter' \in [Voters -> [Acceptors -> Seq(Messages)]]
           /\ \A w \in Voters, b \in Acceptors :
                w # v \/ b # a => toVoter'[w][b] = toVoter[w][b]
           /\ \/ toVoter'[v][a] = toVoter[v][a]
              \/ toVoter'[v][a] = Append(toVoter[v][a], m)
           /\ \A w \in Voters, b \in Acceptors :
                Contents(toVoter'[w][b]) \subseteq Contents(toVoter[w][b]) \cup {m}
  <1>1. /\ Append(toVoter[v][a], m) \in Seq(Messages)
        /\ Contents(Append(toVoter[v][a], m)) = Contents(toVoter[v][a]) \cup {m}
    BY QueueAppend DEF QueuesTyped
  <1>2. \/ toVoter' = toVoter
        \/ toVoter' = [toVoter EXCEPT ![v][a] = Append(toVoter[v][a], m)]
    BY DEF Reply
  <1>3. /\ \A w \in Voters, b \in Acceptors :
             w # v \/ b # a => toVoter'[w][b] = toVoter[w][b]
        /\ \/ toVoter'[v][a] = toVoter[v][a]
           \/ toVoter'[v][a] = Append(toVoter[v][a], m)
    BY <1>2 DEF QueuesTyped
  <1>4. toVoter' \in [Voters -> [Acceptors -> Seq(Messages)]]
    <2>1. CASE toVoter' = toVoter
      BY <2>1 DEF QueuesTyped
    <2>2. CASE toVoter' = [toVoter EXCEPT ![v][a] = Append(toVoter[v][a], m)]
      BY <1>1, <2>2 DEF QueuesTyped
    <2> QED
      BY <1>2, <2>1, <2>2
  <1>5. ASSUME NEW w \in Voters, NEW b \in Acceptors
        PROVE  Contents(toVoter'[w][b]) \subseteq Contents(toVoter[w][b]) \cup {m}
    <2>1. CASE w # v \/ b # a
      BY <1>3, <2>1
    <2>2. CASE w = v /\ b = a
      BY <1>1, <1>3, <2>2
    <2> QED
      BY <2>1, <2>2
  <1> QED
    BY <1>3, <1>4, <1>5

(* A voter reads the head of one queue. *)
LEMMA ReceiveFromAcceptorEffect ==
    ASSUME QueuesTyped, NEW v \in Voters, NEW a \in Acceptors, NEW types,
           ReceiveFromAcceptor(v, a, types)
    PROVE  /\ toVoter' \in [Voters -> [Acceptors -> Seq(Messages)]]
           /\ Head(toVoter[v][a]) \in Messages
           /\ Head(toVoter[v][a]) \in Contents(toVoter[v][a])
           /\ toVoter'[v][a] = Tail(toVoter[v][a])
           /\ toVoter[v][a] # <<>>
           /\ \A w \in Voters, b \in Acceptors :
                w # v \/ b # a => toVoter'[w][b] = toVoter[w][b]
           /\ \A w \in Voters, b \in Acceptors :
                Contents(toVoter'[w][b]) \subseteq Contents(toVoter[w][b])
  <1>1. toVoter[v][a] \in Seq(Messages) /\ toVoter[v][a] # <<>>
    BY DEF QueuesTyped, ReceiveFromAcceptor, NextFromAcceptor
  <1>2. /\ Tail(toVoter[v][a]) \in Seq(Messages)
        /\ Head(toVoter[v][a]) \in Messages
        /\ Head(toVoter[v][a]) \in Contents(toVoter[v][a])
        /\ Contents(Tail(toVoter[v][a])) \subseteq Contents(toVoter[v][a])
    BY <1>1, QueueTail
  <1>3. toVoter' = [toVoter EXCEPT ![v][a] = Tail(toVoter[v][a])]
    BY DEF ReceiveFromAcceptor
  <1>4. /\ toVoter'[v][a] = Tail(toVoter[v][a])
        /\ \A w \in Voters, b \in Acceptors :
             w # v \/ b # a => toVoter'[w][b] = toVoter[w][b]
    BY <1>3 DEF QueuesTyped
  <1>5. toVoter' \in [Voters -> [Acceptors -> Seq(Messages)]]
    BY <1>2, <1>3 DEF QueuesTyped
  <1>6. \A w \in Voters, b \in Acceptors :
          Contents(toVoter'[w][b]) \subseteq Contents(toVoter[w][b])
    BY <1>2, <1>4
  <1> QED
    BY <1>1, <1>2, <1>4, <1>5, <1>6

(* Closing the sockets of one voter empties what it had to read. *)
LEMMA DisconnectEffect ==
    ASSUME QueuesTyped, NEW v \in Voters, disconnectAcceptors(v)
    PROVE  /\ toVoter' \in [Voters -> [Acceptors -> Seq(Messages)]]
           /\ \A w \in Voters, a \in Acceptors :
                toVoter'[w][a] = toVoter[w][a] \/ toVoter'[w][a] = <<>>
           /\ \A w \in Voters, a \in Acceptors :
                Contents(toVoter'[w][a]) \subseteq Contents(toVoter[w][a])
  <1>1. toVoter' = [toVoter EXCEPT ![v] = [a \in Acceptors |-> <<>>]]
    BY DEF disconnectAcceptors
  <1>2. \A w \in Voters, a \in Acceptors :
          toVoter'[w][a] = toVoter[w][a] \/ toVoter'[w][a] = <<>>
    BY <1>1 DEF QueuesTyped
  <1>3. toVoter' \in [Voters -> [Acceptors -> Seq(Messages)]]
    BY <1>1 DEF QueuesTyped
  <1> QED
    BY <1>2, <1>3, EmptyQueue

(* Voters that stop have nothing left to read. *)
LEMMA StopVotersEffect ==
    ASSUME QueuesTyped, NEW S, stopVoters(S)
    PROVE  /\ toVoter' \in [Voters -> [Acceptors -> Seq(Messages)]]
           /\ \A w \in Voters, a \in Acceptors :
                toVoter'[w][a] = toVoter[w][a] \/ toVoter'[w][a] = <<>>
           /\ \A w \in Voters, a \in Acceptors :
                Contents(toVoter'[w][a]) \subseteq Contents(toVoter[w][a])
  <1>1. toVoter' = [v \in Voters |->
                      IF v \in S THEN [a \in Acceptors |-> <<>>] ELSE toVoter[v]]
    BY DEF stopVoters
  <1>2. \A w \in Voters, a \in Acceptors :
          toVoter'[w][a] = toVoter[w][a] \/ toVoter'[w][a] = <<>>
    BY <1>1 DEF QueuesTyped
  <1>3. toVoter' \in [Voters -> [Acceptors -> Seq(Messages)]]
    BY <1>1 DEF QueuesTyped
  <1> QED
    BY <1>2, <1>3, EmptyQueue

(* A lost connection loses both of its queues. *)
LEMMA ConnectionLostEffect ==
    ASSUME QueuesTyped, NEW v \in Voters, NEW a \in Acceptors, connectionLost(v, a)
    PROVE  /\ QueuesTyped'
           /\ \A w \in Voters, b \in Acceptors :
                /\ toVoter'[w][b] = toVoter[w][b] \/ toVoter'[w][b] = <<>>
                /\ toAcceptor'[w][b] = toAcceptor[w][b] \/ toAcceptor'[w][b] = <<>>
           /\ \A w \in Voters, b \in Acceptors :
                /\ Contents(toVoter'[w][b]) \subseteq Contents(toVoter[w][b])
                /\ Contents(toAcceptor'[w][b]) \subseteq Contents(toAcceptor[w][b])
  <1>1. /\ toVoter' = [toVoter EXCEPT ![v][a] = <<>>]
        /\ toAcceptor' = [toAcceptor EXCEPT ![v][a] = <<>>]
    BY DEF connectionLost
  <1>2. \A w \in Voters, b \in Acceptors :
          /\ toVoter'[w][b] = toVoter[w][b] \/ toVoter'[w][b] = <<>>
          /\ toAcceptor'[w][b] = toAcceptor[w][b] \/ toAcceptor'[w][b] = <<>>
    BY <1>1 DEF QueuesTyped
  <1>3. QueuesTyped'
    BY <1>1 DEF QueuesTyped
  <1> QED
    BY <1>2, <1>3, EmptyQueue
-----------------------------------------------------------------------------
(* Type correctness is preserved: one lemma per operation. *)

(* Both ways to build a message give a message. *)
LEMMA MessageTyping ==
    /\ \A t \in MessageTypes, p \in Proposals :
         /\ HeaderProposal(t, p) \in Messages
         /\ HeaderProposal(t, p).proposal = p
         /\ HeaderProposal(t, p).type = t
    /\ \A t \in MessageTypes : /\ Header(t) \in Messages
                               /\ Header(t).type = t
  BY DEF Messages, HeaderProposal, Header

(* Winning gives its three variables values of their types. *)
LEMMA CommitSelfType ==
    ASSUME TypeOK, NEW v \in alive \ busy, NEW p \in OwnProposals(v), CommitSelf(v, p),
           UNCHANGED alive
    PROVE  /\ busy' \subseteq alive'
           /\ decision' \in [Voters -> Proposals \cup {NoProposal}]
           /\ address' \in [Proposers -> Addresses]
  <1>1. /\ v \in Voters
        /\ p \in Proposals
        /\ v \in Proposers => [ip |-> p.backupip, port |-> p.backupport] \in Addresses
    BY OwnProposalTypes DEF TypeOK, Addresses
  <1> DEFINE addr == [ip |-> p.backupip, port |-> p.backupport]
  <1>2. busy' \subseteq alive' /\ decision' \in [Voters -> Proposals \cup {NoProposal}]
    BY <1>1 DEF CommitSelf, TypeOK
  <1>3. address' = IF v \in Proposers THEN [address EXCEPT ![v] = addr] ELSE address
    BY DEF CommitSelf
  <1>4. v \in Proposers => addr \in Addresses
    BY <1>1
  <1> HIDE DEF addr
  <1> QED
    BY <1>2, <1>3, <1>4 DEF TypeOK

(* A voter that proposes holds a proposal of its own, and writes it. *)
LEMMA NewProposalType ==
    ASSUME TypeInv, NEW v \in alive \ busy, NEW p \in OwnProposals(v), NewProposal(v, p),
           UNCHANGED <<heartbeat, alive, connected, acceptorVars, toVoter>>,
           watching' \subseteq Proposers
    PROVE  TypeInv'
  <1> v \in Voters /\ QueuesTyped /\ p \in Proposals
    BY OwnProposalTypes DEF TypeInv, TypeOK, QueuesTyped
  <1> DEFINE m == HeaderProposal("PHASE1PROPOSAL", p)
  <1>1. m \in Messages /\ m.proposal = p /\ m.type = "PHASE1PROPOSAL"
    BY MessageTyping DEF MessageTypes
  <1>2. SendAll(v, m)
    BY DEF NewProposal
  <1> HIDE DEF m
  <1>3. /\ toAcceptor' \in [Voters -> [Acceptors -> Seq(Messages)]]
        /\ \A w \in Voters, a \in Acceptors :
             Contents(toAcceptor'[w][a]) \subseteq Contents(toAcceptor[w][a]) \cup {m}
    BY <1>1, <1>2, SendAllEffect
  <1>4. /\ proposal' \in [Voters -> Proposals \cup {NoProposal}]
        /\ vstate' \in [Voters -> VoterStates]
    BY DEF NewProposal, TypeInv, TypeOK, VoterStates
  <1>5. /\ busy' \subseteq alive'
        /\ decision' \in [Voters -> Proposals \cup {NoProposal}]
        /\ address' \in [Proposers -> Addresses]
    <2>1. CASE nacceptor # 0
      BY <2>1 DEF NewProposal, TypeInv, TypeOK
    <2>2. CASE nacceptor = 0
      BY <2>2, CommitSelfType DEF NewProposal, TypeInv
    <2> QED
      BY <2>1, <2>2
  <1>6. TypeOK'
    BY <1>3, <1>4, <1>5 DEF NewProposal, TypeInv, TypeOK, acceptorVars
  <1>7. VotingHasProposal'
    BY DEF NewProposal, CommitSelf, TypeInv, TypeOK, VotingHasProposal, VoterStates,
           OwnProposals
  <1>8. MessagesCarryProposals'
    BY <1>1, <1>3 DEF TypeInv, MessagesCarryProposals
  <1>9. CommittedHasProposal'
    BY DEF TypeInv, CommittedHasProposal, acceptorVars
  <1> QED
    BY <1>6, <1>7, <1>8, <1>9 DEF TypeInv

(* A voter asks for phase 2 with the proposal it holds. *)
LEMMA VoterPhase1Type ==
    ASSUME TypeInv, NEW v \in Voters, NEW a \in Acceptors, voterPhase1(v, a)
    PROVE  TypeInv'
  <1> QueuesTyped
    BY DEF TypeInv, TypeOK, QueuesTyped
  <1> DEFINE m == HeaderProposal("PHASE2REQUEST", proposal[v])
  <1>1. ReceiveFromAcceptor(v, a, {"PHASE1ACK", "PHASE1NACK"})
    BY DEF voterPhase1
  <1>2. /\ toVoter' \in [Voters -> [Acceptors -> Seq(Messages)]]
        /\ \A w \in Voters, b \in Acceptors :
             Contents(toVoter'[w][b]) \subseteq Contents(toVoter[w][b])
    BY <1>1, ReceiveFromAcceptorEffect
  <1>3. /\ toAcceptor' \in [Voters -> [Acceptors -> Seq(Messages)]]
        /\ \A w \in Voters, b \in Acceptors :
             \A x \in Contents(toAcceptor'[w][b]) : x.proposal \in Proposals
    <2>1. CASE UNCHANGED toAcceptor
      BY <2>1 DEF TypeInv, MessagesCarryProposals, QueuesTyped
    <2>2. CASE vstate[v] = "PHASE1" /\ SendAll(v, m)
      <3>1. proposal[v] \in Proposals
        BY <2>2, OwnProposalTypes DEF TypeInv, VotingHasProposal
      <3>2. m \in Messages /\ m.proposal \in Proposals
        BY <3>1, MessageTyping DEF MessageTypes
      <3> HIDE DEF m
      <3>3. /\ toAcceptor' \in [Voters -> [Acceptors -> Seq(Messages)]]
            /\ \A w \in Voters, b \in Acceptors :
                 Contents(toAcceptor'[w][b]) \subseteq Contents(toAcceptor[w][b]) \cup {m}
        BY <2>2, <3>2, SendAllEffect
      <3> QED
        BY <3>2, <3>3 DEF TypeInv, MessagesCarryProposals
    <2> QED
      BY <2>1, <2>2 DEF voterPhase1
  <1>4. vstate' \in [Voters -> VoterStates]
    BY DEF voterPhase1, TypeInv, TypeOK, VoterStates
  <1>9. phase1ack' \in [Voters -> Nat]
    BY DEF voterPhase1, TypeInv, TypeOK
  <1>5. TypeOK'
    BY <1>2, <1>3, <1>4, <1>9 DEF voterPhase1, TypeInv, TypeOK, programVars, acceptorVars, historyVars
  <1>6. VotingHasProposal'
    BY DEF voterPhase1, TypeInv, TypeOK, VotingHasProposal, programVars, VoterStates, OwnProposals
  <1>7. MessagesCarryProposals'
    BY <1>2, <1>3 DEF TypeInv, MessagesCarryProposals
  <1>8. CommittedHasProposal'
    BY DEF voterPhase1, TypeInv, CommittedHasProposal, acceptorVars
  <1> QED
    BY <1>5, <1>6, <1>7, <1>8 DEF TypeInv

(* A voter becomes busy in PHASE2 only, with the proposal it holds. *)
LEMMA VoterPhase2Type ==
    ASSUME TypeInv, NEW v \in Voters, NEW a \in Acceptors, voterPhase2(v, a)
    PROVE  TypeInv'
  <1> QueuesTyped
    BY DEF TypeInv, TypeOK, QueuesTyped
  <1>1. ReceiveFromAcceptor(v, a, {"PHASE2ACK", "PHASE2NACK"}) /\ v \in alive \ busy
    BY DEF voterPhase2, ReceiveFromAcceptor, NextFromAcceptor
  <1>2. /\ toVoter' \in [Voters -> [Acceptors -> Seq(Messages)]]
        /\ \A w \in Voters, b \in Acceptors :
             Contents(toVoter'[w][b]) \subseteq Contents(toVoter[w][b])
    BY <1>1, ReceiveFromAcceptorEffect
  <1>3. /\ busy' \subseteq alive'
        /\ decision' \in [Voters -> Proposals \cup {NoProposal}]
        /\ address' \in [Proposers -> Addresses]
        /\ busy' # busy => busy' = busy \cup {v} /\ vstate[v] = "PHASE2"
    <2>1. CASE UNCHANGED <<busy, decision, address>>
      BY <2>1 DEF voterPhase2, TypeInv, TypeOK
    <2>2. CASE vstate[v] = "PHASE2" /\ CommitSelf(v, proposal[v])
      <3>1. proposal[v] \in OwnProposals(v)
        BY <2>2 DEF TypeInv, VotingHasProposal
      <3>2. UNCHANGED alive
        BY DEF voterPhase2
      <3>3. busy' = busy \cup {v}
        BY <2>2 DEF CommitSelf
      <3> QED
        BY <1>1, <2>2, <3>1, <3>2, <3>3, CommitSelfType DEF TypeInv
    <2> QED
      BY <2>1, <2>2 DEF voterPhase2
  <1>4. /\ phase2ack' \in [Voters -> Nat]
        /\ counted' \in [Voters -> SUBSET Acceptors]
    <2>1. \/ UNCHANGED <<phase2ack, counted>>
          \/ /\ phase2ack' = [phase2ack EXCEPT ![v] = @ + 1]
             /\ counted' = [counted EXCEPT ![v] = @ \cup {a}]
      BY DEF voterPhase2
    <2>2. phase2ack \in [Voters -> Nat] /\ counted \in [Voters -> SUBSET Acceptors]
      BY DEF TypeInv, TypeOK
    <2> QED
      BY <2>1, <2>2
  <1>5. TypeOK'
    BY <1>2, <1>3, <1>4 DEF voterPhase2, TypeInv, TypeOK, acceptorVars
  <1>6. VotingHasProposal'
    BY <1>3 DEF voterPhase2, TypeInv, VotingHasProposal, OwnProposals
  <1>7. MessagesCarryProposals'
    BY <1>2 DEF voterPhase2, TypeInv, MessagesCarryProposals
  <1>8. CommittedHasProposal'
    BY DEF voterPhase2, TypeInv, CommittedHasProposal, acceptorVars
  <1> QED
    BY <1>5, <1>6, <1>7, <1>8 DEF TypeInv

(* A voter commits what an acceptor sent: a proposal. *)
LEMMA VoterPhase3Type ==
    ASSUME TypeInv, NEW v \in Voters, NEW a \in Acceptors, voterPhase3(v, a)
    PROVE  TypeInv'
  <1> QueuesTyped
    BY DEF TypeInv, TypeOK, QueuesTyped
  <1> DEFINE m == Head(toVoter[v][a])
             addr == [ip |-> m.proposal.backupip, port |-> m.proposal.backupport]
  <1>1. /\ toVoter[v][a] # <<>> /\ toVoter[v][a] \in Seq(Messages)
        /\ m.type = "PHASE3COMMIT"
        /\ v \in alive \ busy
    BY DEF voterPhase3, NextFromAcceptor, QueuesTyped
  <1>2. m \in Messages /\ m \in Contents(toVoter[v][a])
    BY <1>1, QueueTail
  <1>3. m.proposal \in Proposals
    BY <1>1, <1>2 DEF TypeInv, MessagesCarryProposals
  <1>4. /\ toVoter' \in [Voters -> [Acceptors -> Seq(Messages)]]
        /\ \A w \in Voters, b \in Acceptors :
             Contents(toVoter'[w][b]) \subseteq Contents(toVoter[w][b])
    BY DisconnectEffect DEF voterPhase3
  <1>5. m.proposal.type = "RECOVERYPROPOSAL" => addr \in Addresses
    BY <1>3, RecoveryAddressType
  <1>6. address' = IF v \in Proposers /\ m.proposal.type = "RECOVERYPROPOSAL"
                   THEN [address EXCEPT ![v] = addr] ELSE address
    BY DEF voterPhase3
  <1>7. /\ vlastcommit' = [vlastcommit EXCEPT ![v] = m.proposal]
        /\ vstate' = [vstate EXCEPT ![v] = "PHASE3"]
        /\ connected' = [connected EXCEPT ![v] = {}]
    BY DEF voterPhase3, disconnectAcceptors
  <1> HIDE DEF m, addr
  <1>8. address' \in [Proposers -> Addresses]
    BY <1>5, <1>6 DEF TypeInv, TypeOK
  <1>9. /\ vlastcommit' \in [Voters -> Proposals \cup {CommittedAcceptors}]
        /\ vstate' \in [Voters -> VoterStates]
        /\ connected' \in [Voters -> SUBSET Acceptors]
    BY <1>3, <1>7 DEF TypeInv, TypeOK, VoterStates
  <1>10. TypeOK'
    BY <1>4, <1>8, <1>9 DEF voterPhase3, TypeInv, TypeOK, acceptorVars, historyVars
  <1>11. VotingHasProposal'
    BY <1>1, <1>7 DEF voterPhase3, TypeInv, TypeOK, VotingHasProposal, OwnProposals
  <1>12. MessagesCarryProposals'
    BY <1>4 DEF voterPhase3, TypeInv, MessagesCarryProposals
  <1>13. CommittedHasProposal'
    BY DEF voterPhase3, TypeInv, CommittedHasProposal, acceptorVars
  <1> QED
    BY <1>10, <1>11, <1>12, <1>13 DEF TypeInv

(* A voter commits and sends the proposal it still holds while it is busy. *)
LEMMA FinishCommitType ==
    ASSUME TypeInv, NEW v \in Voters, finishCommit(v)
    PROVE  TypeInv'
  <1> QueuesTyped
    BY DEF TypeInv, TypeOK, QueuesTyped
  <1> DEFINE m == HeaderProposal("PHASE3COMMIT", proposal[v])
  <1>1. proposal[v] \in Proposals
    BY OwnProposalTypes DEF finishCommit, TypeInv, TypeOK, VotingHasProposal
  <1>2. m \in Messages /\ m.proposal \in Proposals
    BY <1>1, MessageTyping DEF MessageTypes
  <1>3. SendAll(v, m) /\ disconnectAcceptors(v)
    BY DEF finishCommit, CommittingProposal
  <1> HIDE DEF m
  <1>4. /\ toAcceptor' \in [Voters -> [Acceptors -> Seq(Messages)]]
        /\ \A w \in Voters, b \in Acceptors :
             Contents(toAcceptor'[w][b]) \subseteq Contents(toAcceptor[w][b]) \cup {m}
    BY <1>2, <1>3, SendAllEffect
  <1>5. /\ toVoter' \in [Voters -> [Acceptors -> Seq(Messages)]]
        /\ \A w \in Voters, b \in Acceptors :
             Contents(toVoter'[w][b]) \subseteq Contents(toVoter[w][b])
    BY <1>3, DisconnectEffect
  <1>6. /\ vlastcommit' \in [Voters -> Proposals \cup {CommittedAcceptors}]
        /\ vstate' \in [Voters -> VoterStates]
        /\ proposal' \in [Voters -> Proposals \cup {NoProposal}]
        /\ connected' \in [Voters -> SUBSET Acceptors]
    BY <1>1 DEF finishCommit, CommittingProposal, disconnectAcceptors, TypeInv, TypeOK,
                VoterStates
  <1>7. TypeOK'
    BY <1>4, <1>5, <1>6 DEF finishCommit, TypeInv, TypeOK, acceptorVars
  <1>8. VotingHasProposal'
    BY DEF finishCommit, TypeInv, TypeOK, VotingHasProposal, OwnProposals
  <1>9. MessagesCarryProposals'
    <2> SUFFICES ASSUME NEW w \in Voters, NEW b \in Acceptors
                 PROVE  /\ \A k \in Contents(toAcceptor'[w][b]) : k.proposal \in Proposals
                        /\ \A k \in Contents(toVoter'[w][b]) :
                             k.type = "PHASE3COMMIT" => k.proposal \in Proposals
      BY DEF MessagesCarryProposals
    <2> QED
      BY <1>2, <1>4, <1>5 DEF TypeInv, MessagesCarryProposals
  <1>10. CommittedHasProposal'
    BY DEF finishCommit, TypeInv, CommittedHasProposal, acceptorVars
  <1> QED
    BY <1>7, <1>8, <1>9, <1>10 DEF TypeInv

(* An acceptor answers with a header, or with an outcome that is a proposal. *)
AnswerIsProper(v, a) ==
    \/ UNCHANGED toVoter
    \/ \E t \in MessageTypes \ {"PHASE3COMMIT"} : Reply(v, a, Header(t))
    \/ \E p \in Proposals : Reply(v, a, HeaderProposal("PHASE3COMMIT", p))

(* Such an answer keeps the queue to the voter typed. *)
LEMMA AnswerType ==
    ASSUME TypeInv, NEW v \in Voters, NEW a \in Acceptors, AnswerIsProper(v, a)
    PROVE  /\ toVoter' \in [Voters -> [Acceptors -> Seq(Messages)]]
           /\ \A w \in Voters, b \in Acceptors : \A m \in Contents(toVoter'[w][b]) :
                m.type = "PHASE3COMMIT" => m.proposal \in Proposals
  <1> QueuesTyped
    BY DEF TypeInv, TypeOK, QueuesTyped
  <1>1. CASE UNCHANGED toVoter
    BY <1>1 DEF TypeInv, MessagesCarryProposals, QueuesTyped
  <1>2. CASE \E t \in MessageTypes \ {"PHASE3COMMIT"} : Reply(v, a, Header(t))
    <2>1. PICK t \in MessageTypes \ {"PHASE3COMMIT"} : Reply(v, a, Header(t))
      BY <1>2
    <2> DEFINE m == Header(t)
    <2>2. m \in Messages /\ m.type # "PHASE3COMMIT"
      BY MessageTyping
    <2> HIDE DEF m
    <2>3. /\ toVoter' \in [Voters -> [Acceptors -> Seq(Messages)]]
          /\ \A w \in Voters, b \in Acceptors :
               Contents(toVoter'[w][b]) \subseteq Contents(toVoter[w][b]) \cup {m}
      BY <2>1, <2>2, ReplyEffect DEF m
    <2> QED
      BY <2>2, <2>3 DEF TypeInv, MessagesCarryProposals
  <1>3. CASE \E p \in Proposals : Reply(v, a, HeaderProposal("PHASE3COMMIT", p))
    <2>1. PICK p \in Proposals : Reply(v, a, HeaderProposal("PHASE3COMMIT", p))
      BY <1>3
    <2> DEFINE m == HeaderProposal("PHASE3COMMIT", p)
    <2>2. m \in Messages /\ m.proposal \in Proposals
      BY MessageTyping DEF MessageTypes
    <2> HIDE DEF m
    <2>3. /\ toVoter' \in [Voters -> [Acceptors -> Seq(Messages)]]
          /\ \A w \in Voters, b \in Acceptors :
               Contents(toVoter'[w][b]) \subseteq Contents(toVoter[w][b]) \cup {m}
      BY <2>1, <2>2, ReplyEffect DEF m
    <2> QED
      BY <2>2, <2>3 DEF TypeInv, MessagesCarryProposals
  <1> QED
    BY <1>1, <1>2, <1>3 DEF AnswerIsProper

(* What an acceptor reads carries a proposal. *)
LEMMA AcceptorReads ==
    ASSUME TypeInv, NEW v \in Voters, NEW a \in Acceptors, NEW t, ReceiveFromVoter(v, a, t)
    PROVE  /\ Head(toAcceptor[v][a]).proposal \in Proposals
           /\ toAcceptor' \in [Voters -> [Acceptors -> Seq(Messages)]]
           /\ \A w \in Voters, b \in Acceptors : \A m \in Contents(toAcceptor'[w][b]) :
                m.proposal \in Proposals
  <1> QueuesTyped
    BY DEF TypeInv, TypeOK, QueuesTyped
  <1>1. /\ toAcceptor' \in [Voters -> [Acceptors -> Seq(Messages)]]
        /\ Head(toAcceptor[v][a]) \in Contents(toAcceptor[v][a])
        /\ \A w \in Voters, b \in Acceptors :
             Contents(toAcceptor'[w][b]) \subseteq Contents(toAcceptor[w][b])
    BY ReceiveFromVoterEffect
  <1> QED
    BY <1>1 DEF TypeInv, MessagesCarryProposals

(* An acceptor promises, answers or repeats a proposal. *)
LEMMA AcceptorPhase1Type ==
    ASSUME TypeInv, NEW v \in Voters, NEW a \in Acceptors, acceptorPhase1(v, a)
    PROVE  TypeInv'
  <1>1. ReceiveFromVoter(v, a, "PHASE1PROPOSAL")
    BY DEF acceptorPhase1
  <1>2. AnswerIsProper(v, a)
    BY DEF acceptorPhase1, AnswersWithOutcome, AnswerIsProper, MessageTypes, TypeInv,
           CommittedHasProposal
  <1>3. promise' \in [Acceptors -> Proposals \cup {NoProposal}]
    BY <1>1, AcceptorReads DEF acceptorPhase1, TypeInv, TypeOK
  <1>4. TypeOK'
    BY <1>1, <1>2, <1>3, AcceptorReads, AnswerType
    DEF acceptorPhase1, TypeInv, TypeOK, machineVars, programVars, historyVars
  <1>5. VotingHasProposal' /\ CommittedHasProposal'
    BY DEF acceptorPhase1, TypeInv, VotingHasProposal, CommittedHasProposal, machineVars,
           programVars, OwnProposals
  <1>6. MessagesCarryProposals'
    BY <1>1, <1>2, AcceptorReads, AnswerType DEF MessagesCarryProposals
  <1> QED
    BY <1>4, <1>5, <1>6 DEF TypeInv

(* Accepting leaves PHASE1 and enters PHASE2. *)
LEMMA AcceptorPhase2Type ==
    ASSUME TypeInv, NEW v \in Voters, NEW a \in Acceptors, acceptorPhase2(v, a)
    PROVE  TypeInv'
  <1>1. ReceiveFromVoter(v, a, "PHASE2REQUEST")
    BY DEF acceptorPhase2
  <1>2. AnswerIsProper(v, a)
    BY DEF acceptorPhase2, AnswersWithOutcome, AnswerIsProper, MessageTypes, TypeInv,
           CommittedHasProposal
  <1>3. /\ astate' \in [Acceptors -> AcceptorStates]
        /\ granted' \in [Voters -> SUBSET Acceptors]
        /\ \A b \in Acceptors : astate'[b] = "PHASE3" => astate[b] = "PHASE3"
    <2>1. \/ UNCHANGED <<astate, granted>>
          \/ /\ astate' = [astate EXCEPT ![a] = "PHASE2"]
             /\ granted' = [granted EXCEPT ![v] = @ \cup {a}]
      BY DEF acceptorPhase2
    <2>2. astate \in [Acceptors -> AcceptorStates] /\ granted \in [Voters -> SUBSET Acceptors]
      BY DEF TypeInv, TypeOK
    <2>3. astate' \in [Acceptors -> AcceptorStates]
      BY <2>1, <2>2 DEF AcceptorStates
    <2>4. granted' \in [Voters -> SUBSET Acceptors]
      BY <2>1, <2>2
    <2> QED
      BY <2>1, <2>2, <2>3, <2>4
  <1>4. TypeOK'
    BY <1>1, <1>2, <1>3, AcceptorReads, AnswerType
    DEF acceptorPhase2, TypeInv, TypeOK, machineVars, programVars
  <1>5. VotingHasProposal' /\ CommittedHasProposal'
    BY <1>3 DEF acceptorPhase2, TypeInv, VotingHasProposal, CommittedHasProposal, machineVars,
           programVars, OwnProposals
  <1>6. MessagesCarryProposals'
    BY <1>1, <1>2, AcceptorReads, AnswerType DEF MessagesCarryProposals
  <1> QED
    BY <1>4, <1>5, <1>6 DEF TypeInv

(* An acceptor that commits holds the proposal it was sent. *)
LEMMA AcceptorPhase3Type ==
    ASSUME TypeInv, NEW v \in Voters, NEW a \in Acceptors, acceptorPhase3(v, a)
    PROVE  TypeInv'
  <1>1. ReceiveFromVoter(v, a, "PHASE3COMMIT")
    BY DEF acceptorPhase3
  <1>2. AnswerIsProper(v, a)
    BY DEF acceptorPhase3, AnswerIsProper
  <1>3. /\ astate' \in [Acceptors -> AcceptorStates]
        /\ alastcommit' \in [Acceptors -> Proposals \cup {CommittedAcceptors}]
        /\ \A b \in Acceptors : astate'[b] = "PHASE3" => alastcommit'[b] \in Proposals
    BY <1>1, AcceptorReads
    DEF acceptorPhase3, TakesOutcome, TypeInv, TypeOK, CommittedHasProposal, AcceptorStates
  <1>4. TypeOK'
    BY <1>1, <1>2, <1>3, AcceptorReads, AnswerType
    DEF acceptorPhase3, TypeInv, TypeOK, machineVars, programVars, historyVars
  <1>5. VotingHasProposal' /\ CommittedHasProposal'
    BY <1>3 DEF acceptorPhase3, TypeInv, VotingHasProposal, CommittedHasProposal, machineVars,
           programVars, OwnProposals
  <1>6. MessagesCarryProposals'
    BY <1>1, <1>2, AcceptorReads, AnswerType DEF MessagesCarryProposals
  <1> QED
    BY <1>4, <1>5, <1>6 DEF TypeInv

(* The timers only lead back to INITIAL and PHASE1. *)
LEMMA TimerType ==
    ASSUME TypeInv,
           \/ \E p \in Proposers : voterTimeout(p)
           \/ \E a \in Acceptors : acceptorTimeout(a)
    PROVE  TypeInv'
  <1>1. ASSUME NEW p \in Proposers, voterTimeout(p) PROVE TypeInv'
    <2>1. p \in Voters /\ p \notin busy
      BY <1>1 DEF voterTimeout, Voters
    <2>2. /\ vstate' \in [Voters -> VoterStates]
          /\ phase1ack' \in [Voters -> Nat]
          /\ phase2ack' \in [Voters -> Nat]
          /\ counted' \in [Voters -> SUBSET Acceptors]
      BY <1>1, <2>1 DEF voterTimeout, TypeInv, TypeOK, VoterStates
    <2>3. TypeOK'
      BY <1>1, <2>2 DEF voterTimeout, TypeInv, TypeOK, programVars, acceptorVars
    <2>4. VotingHasProposal'
      BY <1>1, <2>1 DEF voterTimeout, TypeInv, TypeOK, VotingHasProposal, OwnProposals, programVars
    <2>5. MessagesCarryProposals' /\ CommittedHasProposal'
      BY <1>1 DEF voterTimeout, TypeInv, MessagesCarryProposals, CommittedHasProposal, acceptorVars
    <2> QED
      BY <2>3, <2>4, <2>5 DEF TypeInv
  <1>2. ASSUME NEW a \in Acceptors, acceptorTimeout(a) PROVE TypeInv'
    <2>1. /\ astate' \in [Acceptors -> AcceptorStates]
          /\ promise' \in [Acceptors -> Proposals \cup {NoProposal}]
          /\ \A b \in Acceptors : astate'[b] = "PHASE3" => astate[b] = "PHASE3"
      BY <1>2 DEF acceptorTimeout, ResetByTimer, TypeInv, TypeOK, AcceptorStates
    <2>2. TypeOK'
      BY <1>2, <2>1 DEF acceptorTimeout, TypeInv, TypeOK, machineVars, programVars, historyVars
    <2>3. VotingHasProposal' /\ CommittedHasProposal' /\ MessagesCarryProposals'
      BY <1>2, <2>1 DEF acceptorTimeout, TypeInv, VotingHasProposal, CommittedHasProposal,
                       MessagesCarryProposals, machineVars, programVars, OwnProposals
    <2> QED
      BY <2>2, <2>3 DEF TypeInv
  <1> QED
    BY <1>1, <1>2

(* Voters that stop are neither alive nor busy afterwards. *)
LEMMA StopVotersType ==
    ASSUME TypeInv, NEW S, stopVoters(S),
           heartbeat' \in BOOLEAN,
           UNCHANGED <<machineVars, watching, address, acceptorVars, toAcceptor, historyVars>>
    PROVE  TypeInv'
  <1> QueuesTyped
    BY DEF TypeInv, TypeOK, QueuesTyped
  <1>1. /\ toVoter' \in [Voters -> [Acceptors -> Seq(Messages)]]
        /\ \A w \in Voters, a \in Acceptors :
             Contents(toVoter'[w][a]) \subseteq Contents(toVoter[w][a])
    BY StopVotersEffect
  <1>2. /\ alive' \subseteq Voters
        /\ busy' \subseteq alive'
        /\ busy' \subseteq busy
        /\ connected' \in [Voters -> SUBSET Acceptors]
    BY DEF stopVoters, TypeInv, TypeOK
  <1>3. TypeOK'
    BY <1>1, <1>2 DEF TypeInv, TypeOK, machineVars, acceptorVars, historyVars
  <1>4. VotingHasProposal' /\ CommittedHasProposal' /\ MessagesCarryProposals'
    BY <1>1, <1>2 DEF TypeInv, VotingHasProposal, CommittedHasProposal,
                   MessagesCarryProposals, machineVars, acceptorVars, OwnProposals
  <1> QED
    BY <1>3, <1>4 DEF TypeInv

(* The environment keeps every type. *)
LEMMA EnvironmentType ==
    ASSUME TypeInv,
           \/ loseHeartbeat
           \/ \E v \in Voters : crash(v)
           \/ \E v \in Voters, a \in Acceptors : connectionLost(v, a)
    PROVE  TypeInv'
  <1>1. CASE loseHeartbeat
    <2>1. CASE UNCHANGED <<alive, busy, connected, toVoter>>
      BY <1>1, <2>1 DEF loseHeartbeat, TypeInv, TypeOK, VotingHasProposal, CommittedHasProposal,
                   MessagesCarryProposals, machineVars, acceptorVars, historyVars, OwnProposals
    <2>2. CASE stopVoters(Requestors)
      BY <1>1, <2>2, StopVotersType DEF loseHeartbeat
    <2> QED
      BY <1>1, <2>1, <2>2 DEF loseHeartbeat
  <1>2. ASSUME NEW v \in Voters, crash(v) PROVE TypeInv'
    BY <1>2, StopVotersType DEF crash, TypeInv, TypeOK
  <1>3. ASSUME NEW v \in Voters, NEW a \in Acceptors, connectionLost(v, a) PROVE TypeInv'
    <2> QueuesTyped
      BY DEF TypeInv, TypeOK, QueuesTyped
    <2>1. /\ QueuesTyped'
          /\ \A w \in Voters, b \in Acceptors :
               /\ Contents(toVoter'[w][b]) \subseteq Contents(toVoter[w][b])
               /\ Contents(toAcceptor'[w][b]) \subseteq Contents(toAcceptor[w][b])
      BY <1>3, ConnectionLostEffect
    <2>2. TypeOK'
      BY <1>3, <2>1 DEF connectionLost, TypeInv, TypeOK, QueuesTyped, machineVars, programVars,
                        acceptorVars, historyVars
    <2>3. VotingHasProposal' /\ CommittedHasProposal' /\ MessagesCarryProposals'
      BY <1>3, <2>1 DEF connectionLost, TypeInv, VotingHasProposal, CommittedHasProposal,
                   MessagesCarryProposals, machineVars, programVars, acceptorVars, OwnProposals
    <2> QED
      BY <2>2, <2>3 DEF TypeInv
  <1> QED
    BY <1>1, <1>2, <1>3

(* Every step preserves TypeInv. *)
LEMMA TypeNext == TypeInv /\ [Next]_vars => TypeInv'
  <1> SUFFICES ASSUME TypeInv, [Next]_vars PROVE TypeInv'
    OBVIOUS
  <1>1. ASSUME NEW p \in Proposers, startRecovery(p) PROVE TypeInv'
    <2>1. PICK b \in Backups[p] : NewProposal(p, RecoveryTo(b))
      BY <1>1 DEF startRecovery
    <2>2. RecoveryTo(b) \in OwnProposals(p)
      BY DEF OwnProposals, BackupBrokers
    <2>3. watching' \subseteq Proposers
      BY <1>1 DEF startRecovery, TypeInv, TypeOK
    <2> QED
      BY <1>1, <2>1, <2>2, <2>3, NewProposalType DEF startRecovery
  <1>2. ASSUME NEW r \in Requestors, proposeAcceptorChange(r) PROVE TypeInv'
    <2>1. NewAcceptors \in OwnProposals(r)
      BY VotersAssumption DEF OwnProposals
    <2>2. watching' \subseteq Proposers
      BY <1>2 DEF proposeAcceptorChange, TypeInv, TypeOK
    <2> QED
      BY <1>2, <2>1, <2>2, NewProposalType DEF proposeAcceptorChange
  <1>3. ASSUME NEW v \in Voters, NEW a \in Acceptors, voterStep(v, a) \/ acceptorStep(v, a)
        PROVE  TypeInv'
    BY <1>3, VoterPhase1Type, VoterPhase2Type, VoterPhase3Type,
       AcceptorPhase1Type, AcceptorPhase2Type, AcceptorPhase3Type
    DEF voterStep, acceptorStep
  <1>4. ASSUME UNCHANGED vars PROVE TypeInv'
    BY <1>4 DEF vars, machineVars, programVars, acceptorVars, historyVars, TypeInv, TypeOK,
         VotingHasProposal, MessagesCarryProposals, CommittedHasProposal, OwnProposals
  <1> QED
    BY <1>1, <1>2, <1>3, <1>4, FinishCommitType, TimerType, EnvironmentType DEF Next

(* Every variable keeps its type: in particular no machine ever commits the *)
(* empty proposal it holds while it is not voting (sendCommitment puts it   *)
(* in place before it sends), and no acceptor is ever sent one, which it    *)
(* would take for a broken connection (Proposal::receiveProposal).          *)
THEOREM TypeCorrect == Spec => []TypeOK
  <1>1. Spec => []TypeInv
    BY TypeInit, TypeNext, PTL DEF Spec
  <1>2. TypeInv => TypeOK
    BY DEF TypeInv
  <1> QED
    BY <1>1, <1>2, PTL
=============================================================================
