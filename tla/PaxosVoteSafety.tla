------------------------- MODULE PaxosVoteSafety -------------------------
(***************************************************************************)
(* Safety theorems about PaxosVote: a winner has a majority, an outcome is *)
(* a finished decision and final and, when forgetful acceptors cannot make *)
(* up the whole intersection of two majorities, there is one winner.       *)
(* Promises rise, for compare is a total order.                            *)
(***************************************************************************)
EXTENDS PaxosVoteProofs, SequenceTheorems, WellFoundedInduction

(* From queue q to queue r: no message of type t was added. *)
NoMore(q, r, t) ==
    /\ Holds(r, t) => Holds(q, t)
    /\ AtMostOne(q, t) => AtMostOne(r, t)

(* An empty queue holds nothing. *)
LEMMA HoldsNothing ==
    ASSUME NEW t
    PROVE  /\ ~Holds(<<>>, t) /\ AtMostOne(<<>>, t)
           /\ \A q : NoMore(q, <<>>, t) /\ NoMore(q, q, t)
  BY EmptyQueue DEF Holds, AtMostOne, NoMore

(* Writing a message of another type adds none of type t; writing one of    *)
(* type t to a queue without any leaves exactly one.                        *)
LEMMA HoldsAppend ==
    ASSUME NEW q \in Seq(Messages), NEW m \in Messages, NEW t
    PROVE  /\ m.type # t => NoMore(q, Append(q, m), t)
           /\ ~Holds(q, t) => AtMostOne(Append(q, m), t)
  <1>1. /\ Len(q) \in Nat
        /\ Len(Append(q, m)) = Len(q) + 1
        /\ \A i \in 1 .. Len(q) : Append(q, m)[i] = q[i]
        /\ Append(q, m)[Len(q) + 1] = m
    OBVIOUS
  <1>2. Contents(Append(q, m)) = Contents(q) \cup {m}
    BY QueueAppend
  <1>3. \A i \in 1 .. Len(q) : q[i] \in Contents(q)
    BY DEF Contents
  <1>4. m.type # t => (Holds(Append(q, m), t) => Holds(q, t))
    BY <1>2 DEF Holds
  <1>5. m.type # t /\ AtMostOne(q, t) => AtMostOne(Append(q, m), t)
    BY <1>1 DEF AtMostOne
  <1>6. ~Holds(q, t) => AtMostOne(Append(q, m), t)
    BY <1>1, <1>3 DEF AtMostOne, Holds
  <1> QED
    BY <1>4, <1>5, <1>6 DEF NoMore

(* Reading adds nothing, and reading the only message of its type leaves    *)
(* none.                                                                    *)
LEMMA HoldsTail ==
    ASSUME NEW q \in Seq(Messages), q # <<>>, NEW t
    PROVE  /\ NoMore(q, Tail(q), t)
           /\ Head(q).type = t => Holds(q, t)
           /\ Head(q).type = t /\ AtMostOne(q, t) => ~Holds(Tail(q), t)
  <1>1. /\ Len(q) \in Nat \ {0}
        /\ Head(q) = q[1]
        /\ Len(Tail(q)) = Len(q) - 1
        /\ \A i \in 1 .. Len(q) - 1 : Tail(q)[i] = q[i + 1]
    OBVIOUS
  <1>2. Head(q) \in Contents(q) /\ Contents(Tail(q)) \subseteq Contents(q)
    BY QueueTail
  <1>3. AtMostOne(q, t) => AtMostOne(Tail(q), t)
    BY <1>1 DEF AtMostOne
  <1>4. ASSUME Head(q).type = t, AtMostOne(q, t), Holds(Tail(q), t) PROVE FALSE
    <2>1. PICK i \in 1 .. Len(q) - 1 : Tail(q)[i].type = t
      BY <1>1, <1>4 DEF Holds, Contents
    <2>2. q[i + 1].type = t /\ q[1].type = t /\ i + 1 \in 1 .. Len(q) /\ 1 \in 1 .. Len(q)
      BY <1>1, <1>4, <2>1
    <2> QED
      BY <1>4, <2>2 DEF AtMostOne
  <1> QED
    BY <1>2, <1>3, <1>4 DEF NoMore, Holds
(* Reading from a connection adds no message to any queue. *)
LEMMA VoterReadsNoMore ==
    ASSUME QueuesTyped, NEW v \in Voters, NEW a \in Acceptors, NEW types,
           ReceiveFromAcceptor(v, a, types)
    PROVE  \A w \in Voters, b \in Acceptors :
             NoMore(toVoter[w][b], toVoter'[w][b], "PHASE2ACK")
  <1>1. /\ toVoter'[v][a] = Tail(toVoter[v][a])
        /\ toVoter[v][a] # <<>>
        /\ \A w \in Voters, b \in Acceptors : w # v \/ b # a => toVoter'[w][b] = toVoter[w][b]
    BY ReceiveFromAcceptorEffect
  <1>2. toVoter[v][a] \in Seq(Messages)
    BY DEF QueuesTyped
  <1>3. NoMore(toVoter[v][a], toVoter'[v][a], "PHASE2ACK")
    BY <1>1, <1>2, HoldsTail
  <1> QED
    BY <1>1, <1>3, HoldsNothing

(* So does reading at the other end. *)
LEMMA AcceptorReadsNoMore ==
    ASSUME QueuesTyped, NEW v \in Voters, NEW a \in Acceptors, NEW t,
           ReceiveFromVoter(v, a, t)
    PROVE  \A w \in Voters, b \in Acceptors :
             NoMore(toAcceptor[w][b], toAcceptor'[w][b], "PHASE2REQUEST")
  <1>1. /\ toAcceptor'[v][a] = Tail(toAcceptor[v][a])
        /\ toAcceptor[v][a] # <<>>
        /\ \A w \in Voters, b \in Acceptors :
             w # v \/ b # a => toAcceptor'[w][b] = toAcceptor[w][b]
    BY ReceiveFromVoterEffect
  <1>2. toAcceptor[v][a] \in Seq(Messages)
    BY DEF QueuesTyped
  <1>3. NoMore(toAcceptor[v][a], toAcceptor'[v][a], "PHASE2REQUEST")
    BY <1>1, <1>2, HoldsTail
  <1> QED
    BY <1>1, <1>3, HoldsNothing

(* Writing another message to every socket adds no request for phase 2.     *)
LEMMA SendAllNoMore ==
    ASSUME QueuesTyped, NEW v \in Voters, NEW m \in Messages, SendAll(v, m),
           m.type # "PHASE2REQUEST"
    PROVE  \A w \in Voters, b \in Acceptors :
             NoMore(toAcceptor[w][b], toAcceptor'[w][b], "PHASE2REQUEST")
  <1>1. /\ \A w \in Voters, a \in Acceptors : w # v => toAcceptor'[w][a] = toAcceptor[w][a]
        /\ \A a \in Acceptors : \/ toAcceptor'[v][a] = toAcceptor[v][a]
                                \/ toAcceptor'[v][a] = Append(toAcceptor[v][a], m)
    BY SendAllEffect
  <1>2. \A w \in Voters, b \in Acceptors : toAcceptor[w][b] \in Seq(Messages)
    BY DEF QueuesTyped
  <1>3. \A w \in Voters, b \in Acceptors :
          NoMore(toAcceptor[w][b], Append(toAcceptor[w][b], m), "PHASE2REQUEST")
    BY <1>2, HoldsAppend
  <1>4. \A w \in Voters, b \in Acceptors :
          NoMore(toAcceptor[w][b], toAcceptor[w][b], "PHASE2REQUEST")
    BY HoldsNothing
  <1> QED
    BY <1>1, <1>3, <1>4

(* A reply that is no acknowledgement of phase 2 adds none. *)
LEMMA ReplyNoMore ==
    ASSUME QueuesTyped, NEW v \in Voters, NEW a \in Acceptors, NEW m \in Messages,
           Reply(v, a, m), m.type # "PHASE2ACK"
    PROVE  \A w \in Voters, b \in Acceptors :
             NoMore(toVoter[w][b], toVoter'[w][b], "PHASE2ACK")
  <1>1. /\ \A w \in Voters, b \in Acceptors : w # v \/ b # a => toVoter'[w][b] = toVoter[w][b]
        /\ \/ toVoter'[v][a] = toVoter[v][a]
           \/ toVoter'[v][a] = Append(toVoter[v][a], m)
    BY ReplyEffect
  <1>2. toVoter[v][a] \in Seq(Messages)
    BY DEF QueuesTyped
  <1>3. NoMore(toVoter[v][a], Append(toVoter[v][a], m), "PHASE2ACK")
    BY <1>2, HoldsAppend
  <1> QED
    BY <1>1, <1>3, HoldsNothing
-----------------------------------------------------------------------------
(* Counting. *)

(* What a step that neither grants nor counts anything preserves. *)
UncountedStep ==
    /\ \A v \in Voters, a \in Acceptors :
         /\ NoMore(toAcceptor[v][a], toAcceptor'[v][a], "PHASE2REQUEST")
         /\ NoMore(toVoter[v][a], toVoter'[v][a], "PHASE2ACK")
    /\ UNCHANGED <<phase2ack, granted, counted>>
    /\ \A v \in Voters : BeforePhase2(v)' => BeforePhase2(v)
    /\ nacceptor = 0 \/ UNCHANGED decision

(* Such a step leaves the counting part of the invariant as it was. *)
LEMMA UncountedStepCounts ==
    ASSUME CountInv, UncountedStep
    PROVE  /\ NothingGrantedBefore' /\ OneRequest' /\ OneAck' /\ CountIsExact'
           /\ WinnerHasMajority'
  <1>1. NothingGrantedBefore'
    BY DEF CountInv, UncountedStep, NothingGrantedBefore, NoMore
  <1>2. OneRequest' /\ OneAck'
    BY DEF CountInv, UncountedStep, OneRequest, OneAck, NoMore
  <1>3. CountIsExact'
    BY DEF CountInv, UncountedStep, CountIsExact
  <1>4. WinnerHasMajority'
    BY DEF CountInv, UncountedStep, WinnerHasMajority, Winners, nacceptor
  <1> QED
    BY <1>1, <1>2, <1>3, <1>4

(* At the start nobody has proposed and nothing is counted. *)
LEMMA CountInit == Init => CountInv
  <1> SUFFICES ASSUME Init PROVE CountInv
    OBVIOUS
  <1>1. UnproposedIsFresh /\ NothingGrantedBefore /\ OneRequest /\ OneAck
    BY HoldsNothing DEF Init, UnproposedIsFresh, NothingGrantedBefore, OneRequest, OneAck
  <1>2. CountIsExact
    BY FS_EmptySet DEF Init, CountIsExact
  <1>3. WinnerHasMajority
    BY DEF Init, WinnerHasMajority, Winners
  <1> QED
    BY <1>1, <1>2, <1>3 DEF CountInv

(* A step of voter v's connections and machine. *)
OthersUntouched(v) ==
    /\ watching' \subseteq watching
    /\ \A w \in Voters \ {v} :
         /\ vstate'[w] = vstate[w]
         /\ \A a \in Acceptors : /\ toAcceptor'[w][a] = toAcceptor[w][a]
                                 /\ toVoter'[w][a] = toVoter[w][a]

(* The voters it does not touch are as fresh as before. *)
LEMMA FreshOthers ==
    ASSUME UnproposedIsFresh, NEW v \in Voters, OthersUntouched(v), ~Unproposed(v)'
    PROVE  /\ UnproposedIsFresh'
           /\ \A w \in Voters \ {v} : BeforePhase2(w)' => BeforePhase2(w)
  <1>1. \A w \in Voters \ {v} : /\ Unproposed(w)' => Unproposed(w)
                                /\ BeforePhase2(w)' => BeforePhase2(w)
    BY DEF OthersUntouched, Unproposed, BeforePhase2
  <1> QED
    BY <1>1 DEF OthersUntouched, UnproposedIsFresh

(* A voter with something to read, or whose messages an acceptor has still  *)
(* to read, has proposed.                                                   *)
LEMMA HasProposed ==
    ASSUME UnproposedIsFresh, NEW v \in Voters, NEW a \in Acceptors,
           toAcceptor[v][a] # <<>> \/ toVoter[v][a] # <<>>
    PROVE  ~Unproposed(v)
  BY DEF UnproposedIsFresh

(* A first proposal is no request for phase 2. *)
LEMMA NewProposalCounts ==
    ASSUME TypeInv, CountInv, NEW v \in Voters, NEW p \in OwnProposals(v), Unproposed(v),
           NewProposal(v, p), UNCHANGED toVoter, watching' \subseteq watching, v \notin watching'
    PROVE  CountInv'
  <1> QueuesTyped /\ p \in Proposals
    BY OwnProposalTypes DEF TypeInv, TypeOK, QueuesTyped
  <1> DEFINE m == HeaderProposal("PHASE1PROPOSAL", p)
  <1>1. m \in Messages /\ m.type = "PHASE1PROPOSAL" /\ SendAll(v, m)
    BY MessageTyping DEF NewProposal, MessageTypes
  <1> HIDE DEF m
  <1>2. /\ \A w \in Voters, a \in Acceptors : w # v => toAcceptor'[w][a] = toAcceptor[w][a]
        /\ \A a \in Acceptors : \/ toAcceptor'[v][a] = toAcceptor[v][a]
                                \/ toAcceptor'[v][a] = Append(toAcceptor[v][a], m)
    BY <1>1, SendAllEffect
  <1>3. \A w \in Voters, a \in Acceptors :
          NoMore(toAcceptor[w][a], toAcceptor'[w][a], "PHASE2REQUEST")
    BY <1>1, SendAllNoMore
  <1>4. vstate'[v] \in {"PHASE1", "PHASE2"} /\ \A w \in Voters \ {v} : vstate'[w] = vstate[w]
    BY DEF NewProposal, TypeInv, TypeOK
  <1>5. OthersUntouched(v) /\ ~Unproposed(v)'
    BY <1>2, <1>4 DEF OthersUntouched, Unproposed
  <1>6. UnproposedIsFresh' /\ \A w \in Voters : BeforePhase2(w)' => BeforePhase2(w)
    BY <1>5, FreshOthers DEF CountInv, BeforePhase2
  <1>7. UncountedStep
    BY <1>3, <1>6, HoldsNothing DEF UncountedStep, NewProposal
  <1> QED
    BY <1>6, <1>7, UncountedStepCounts DEF CountInv

(* Sending the request for phase 2: the first, to acceptors that granted    *)
(* nothing yet.                                                             *)
LEMMA VoterPhase1Counts ==
    ASSUME TypeInv, CountInv, NEW v \in Voters, NEW a \in Acceptors, voterPhase1(v, a)
    PROVE  CountInv'
  <1> QueuesTyped
    BY DEF TypeInv, TypeOK, QueuesTyped
  <1>1. ReceiveFromAcceptor(v, a, {"PHASE1ACK", "PHASE1NACK"})
    BY DEF voterPhase1
  <1>2. /\ toVoter'[v][a] = Tail(toVoter[v][a])
        /\ toVoter[v][a] # <<>>
        /\ \A w \in Voters, b \in Acceptors : w # v \/ b # a => toVoter'[w][b] = toVoter[w][b]
    BY <1>1, ReceiveFromAcceptorEffect
  <1>3. \A w \in Voters, b \in Acceptors :
          NoMore(toVoter[w][b], toVoter'[w][b], "PHASE2ACK")
    BY <1>1, VoterReadsNoMore
  <1>4. ~Unproposed(v)
    BY <1>2, HasProposed DEF CountInv
  <1>5. CASE UNCHANGED <<toAcceptor, vstate>>
    <2>1. OthersUntouched(v) /\ ~Unproposed(v)' /\ (BeforePhase2(v)' => BeforePhase2(v))
      BY <1>2, <1>4, <1>5 DEF OthersUntouched, voterPhase1, programVars, Unproposed, BeforePhase2
    <2>2. UnproposedIsFresh' /\ \A w \in Voters : BeforePhase2(w)' => BeforePhase2(w)
      BY <2>1, FreshOthers DEF CountInv
    <2>3. UncountedStep
      BY <1>3, <1>5, <2>2, HoldsNothing DEF UncountedStep, voterPhase1, historyVars
    <2> QED
      BY <2>2, <2>3, UncountedStepCounts DEF CountInv
  <1>6. CASE /\ vstate[v] = "PHASE1"
             /\ SendAll(v, HeaderProposal("PHASE2REQUEST", proposal[v]))
             /\ vstate' = [vstate EXCEPT ![v] = "PHASE2"]
    <2> DEFINE m == HeaderProposal("PHASE2REQUEST", proposal[v])
    <2> proposal[v] \in Proposals
      BY <1>6, OwnProposalTypes DEF TypeInv, VotingHasProposal
    <2>1. m \in Messages /\ m.type = "PHASE2REQUEST"
      BY MessageTyping DEF MessageTypes
    <2>2. SendAll(v, m)
      BY <1>6
    <2> HIDE DEF m
    <2>3. /\ \A w \in Voters, b \in Acceptors : w # v => toAcceptor'[w][b] = toAcceptor[w][b]
          /\ \A b \in Acceptors : \/ toAcceptor'[v][b] = toAcceptor[v][b]
                                  \/ toAcceptor'[v][b] = Append(toAcceptor[v][b], m)
      BY <2>1, <2>2, SendAllEffect
    <2>4. /\ granted[v] = {}
          /\ \A b \in Acceptors : ~Holds(toAcceptor[v][b], "PHASE2REQUEST")
      BY <1>6 DEF CountInv, NothingGrantedBefore, BeforePhase2
    <2>5. vstate'[v] = "PHASE2" /\ \A w \in Voters \ {v} : vstate'[w] = vstate[w]
      BY <1>6 DEF TypeInv, TypeOK
    <2>6. /\ OthersUntouched(v) /\ ~Unproposed(v)' /\ ~BeforePhase2(v)'
      BY <1>2, <1>4, <2>3, <2>5
      DEF OthersUntouched, voterPhase1, programVars, Unproposed, BeforePhase2
    <2>7. UnproposedIsFresh' /\ \A w \in Voters \ {v} : BeforePhase2(w)' => BeforePhase2(w)
      BY <2>6, FreshOthers DEF CountInv
    <2>8. UNCHANGED <<granted, counted, decision, phase2ack>>
      BY DEF voterPhase1, historyVars
    <2>9. NothingGrantedBefore'
      BY <2>3, <2>6, <2>7, <2>8 DEF CountInv, NothingGrantedBefore
    <2>10. OneRequest'
      <3>1. ASSUME NEW b \in Acceptors
            PROVE  AtMostOne(toAcceptor'[v][b], "PHASE2REQUEST")
        <4>1. toAcceptor[v][b] \in Seq(Messages)
          BY DEF QueuesTyped
        <4>2. AtMostOne(Append(toAcceptor[v][b], m), "PHASE2REQUEST")
          BY <2>1, <2>4, <4>1, HoldsAppend
        <4>3. AtMostOne(toAcceptor[v][b], "PHASE2REQUEST")
          BY DEF CountInv, OneRequest
        <4> QED
          BY <2>3, <4>2, <4>3
      <3> QED
        BY <2>3, <2>4, <2>8, <3>1 DEF CountInv, OneRequest
    <2>11. OneAck' /\ CountIsExact' /\ WinnerHasMajority'
      BY <1>3, <2>8 DEF CountInv, OneAck, CountIsExact, WinnerHasMajority, Winners, nacceptor, NoMore
    <2> QED
      BY <2>7, <2>9, <2>10, <2>11 DEF CountInv
  <1> QED
    BY <1>5, <1>6 DEF voterPhase1

(* Counting an acknowledgement: it is the only one of an acceptor that was  *)
(* not counted before.                                                      *)
LEMMA VoterPhase2Counts ==
    ASSUME TypeInv, CountInv, NEW v \in Voters, NEW a \in Acceptors, voterPhase2(v, a)
    PROVE  CountInv'
  <1> QueuesTyped
    BY DEF TypeInv, TypeOK, QueuesTyped
  <1>1. ReceiveFromAcceptor(v, a, {"PHASE2ACK", "PHASE2NACK"})
    BY DEF voterPhase2
  <1>2. /\ toVoter'[v][a] = Tail(toVoter[v][a])
        /\ toVoter[v][a] \in Seq(Messages)
        /\ toVoter[v][a] # <<>>
        /\ \A w \in Voters, b \in Acceptors : w # v \/ b # a => toVoter'[w][b] = toVoter[w][b]
    BY <1>1, ReceiveFromAcceptorEffect DEF QueuesTyped
  <1>3. \A w \in Voters, b \in Acceptors :
          NoMore(toVoter[w][b], toVoter'[w][b], "PHASE2ACK")
    BY <1>1, VoterReadsNoMore
  <1>4. UNCHANGED <<vstate, watching, toAcceptor, granted>>
    BY DEF voterPhase2
  <1>5. OthersUntouched(v) /\ ~Unproposed(v)'
    BY <1>2, <1>4, HasProposed DEF CountInv, OthersUntouched, Unproposed
  <1>6. UnproposedIsFresh' /\ \A w \in Voters : BeforePhase2(w)' => BeforePhase2(w)
    BY <1>4, <1>5, FreshOthers DEF CountInv, BeforePhase2, Unproposed
  <1>7. CASE UNCHANGED <<phase2ack, counted, busy, decision, address>>
    <2>1. UncountedStep
      BY <1>3, <1>4, <1>6, <1>7, HoldsNothing DEF UncountedStep
    <2> QED
      BY <1>6, <2>1, UncountedStepCounts DEF CountInv
  <1>8. CASE /\ Head(toVoter[v][a]).type = "PHASE2ACK"
             /\ phase2ack' = [phase2ack EXCEPT ![v] = @ + 1]
             /\ counted' = [counted EXCEPT ![v] = @ \cup {a}]
             /\ \/ Majority(phase2ack[v] + 1) /\ CommitSelf(v, proposal[v])
                \/ UNCHANGED <<busy, decision, address>>
    <2>1. AtMostOne(toVoter[v][a], "PHASE2ACK")
      BY DEF CountInv, OneAck
    <2> DEFINE q == toVoter[v][a]
    <2>2. Holds(q, "PHASE2ACK") /\ ~Holds(toVoter'[v][a], "PHASE2ACK")
      <3>1. q \in Seq(Messages) /\ q # <<>> /\ Head(q).type = "PHASE2ACK"
        BY <1>2, <1>8
      <3>2. AtMostOne(q, "PHASE2ACK") /\ toVoter'[v][a] = Tail(q)
        BY <1>2, <2>1
      <3> HIDE DEF q
      <3>3. Holds(q, "PHASE2ACK") /\ ~Holds(Tail(q), "PHASE2ACK")
        BY <3>1, <3>2, HoldsTail
      <3> QED
        BY <3>2, <3>3
    <2>3. a \in granted[v] /\ a \notin counted[v]
      BY <2>2 DEF CountInv, OneAck
    <2>4. /\ counted'[v] = counted[v] \cup {a}
          /\ phase2ack'[v] = phase2ack[v] + 1
          /\ \A w \in Voters \ {v} : counted'[w] = counted[w] /\ phase2ack'[w] = phase2ack[w]
      BY <1>8 DEF TypeInv, TypeOK
    <2>5. IsFiniteSet(granted[v]) /\ IsFiniteSet(counted[v]) /\ counted[v] \subseteq granted[v]
      BY AcceptorsAssumption, FS_Subset DEF TypeInv, TypeOK, CountInv, CountIsExact
    <2>6. phase2ack'[v] = Cardinality(counted'[v])
      <3>1. phase2ack[v] = Cardinality(counted[v])
        BY DEF CountInv, CountIsExact
      <3>2. Cardinality(counted[v] \cup {a}) = Cardinality(counted[v]) + 1
        BY <2>3, <2>5, FS_AddElement
      <3> QED
        BY <2>4, <3>1, <3>2
    <2>7. CountIsExact'
      BY <1>4, <2>3, <2>4, <2>6 DEF CountInv, CountIsExact
    <2>8. NothingGrantedBefore' /\ OneRequest'
      BY <1>4, <1>6 DEF CountInv, NothingGrantedBefore, OneRequest
    <2>9. OneAck'
      <3>1. ASSUME NEW w \in Voters, NEW b \in Acceptors, Holds(toVoter'[w][b], "PHASE2ACK")
            PROVE  b \in granted[w] \ counted'[w]
        <4>1. w # v \/ b # a
          BY <2>2, <3>1
        <4>2. b \in granted[w] \ counted[w]
          BY <1>3, <3>1 DEF CountInv, OneAck, NoMore
        <4> QED
          BY <2>4, <4>1, <4>2
      <3> QED
        BY <1>3, <1>4, <3>1 DEF CountInv, OneAck, NoMore
    <2>10. WinnerHasMajority'
      <3>1. CASE UNCHANGED <<busy, decision, address>>
        BY <1>4, <3>1 DEF CountInv, WinnerHasMajority, Winners, nacceptor
      <3>2. CASE Majority(phase2ack[v] + 1) /\ CommitSelf(v, proposal[v])
        <4>1. nacceptor # 0 => phase2ack'[v] * 2 > nacceptor
          BY <2>4, <3>2 DEF Majority
        <4>2. /\ Cardinality(counted'[v]) \in Nat /\ Cardinality(granted[v]) \in Nat
              /\ Cardinality(counted'[v]) <= Cardinality(granted[v])
          BY <2>3, <2>4, <2>5, FS_Subset, FS_CardinalityType
        <4>3. nacceptor \in Nat
          BY AcceptorsAssumption, FS_CardinalityType DEF nacceptor
        <4>4. nacceptor # 0 => Cardinality(granted[v]) * 2 > nacceptor
          BY <2>6, <4>1, <4>2, <4>3
        <4>5. \A w \in Voters \ {v} : decision'[w] = decision[w]
          BY <3>2 DEF CommitSelf, TypeInv, TypeOK
        <4> QED
          BY <1>4, <4>4, <4>5 DEF CountInv, WinnerHasMajority, Winners, nacceptor
      <3> QED
        BY <1>8, <3>1, <3>2
    <2> QED
      BY <1>6, <2>7, <2>8, <2>9, <2>10 DEF CountInv
  <1> QED
    BY <1>7, <1>8 DEF voterPhase2

(* Learning an outcome, or finishing a commitment, ends the voter's vote.   *)
LEMMA VoterPhase3Counts ==
    ASSUME TypeInv, CountInv, NEW v \in Voters, NEW a \in Acceptors, voterPhase3(v, a)
    PROVE  CountInv'
  <1> QueuesTyped
    BY DEF TypeInv, TypeOK, QueuesTyped
  <1>1. toVoter[v][a] # <<>> /\ disconnectAcceptors(v)
    BY DEF voterPhase3, NextFromAcceptor
  <1>2. \A w \in Voters, b \in Acceptors :
          toVoter'[w][b] = toVoter[w][b] \/ toVoter'[w][b] = <<>>
    BY <1>1, DisconnectEffect
  <1>3. \A w \in Voters \ {v}, b \in Acceptors : toVoter'[w][b] = toVoter[w][b]
    BY <1>1 DEF disconnectAcceptors, QueuesTyped
  <1>4. vstate'[v] = "PHASE3" /\ \A w \in Voters \ {v} : vstate'[w] = vstate[w]
    BY DEF voterPhase3, TypeInv, TypeOK
  <1>5. UNCHANGED <<watching, toAcceptor, phase2ack, granted, counted, decision>>
    BY DEF voterPhase3, historyVars
  <1>6. OthersUntouched(v) /\ ~Unproposed(v)' /\ ~BeforePhase2(v)'
    BY <1>1, <1>3, <1>4, <1>5, HasProposed
    DEF CountInv, OthersUntouched, Unproposed, BeforePhase2
  <1>7. UnproposedIsFresh' /\ \A w \in Voters : BeforePhase2(w)' => BeforePhase2(w)
    BY <1>6, FreshOthers DEF CountInv
  <1>8. UncountedStep
    BY <1>2, <1>5, <1>7, HoldsNothing DEF UncountedStep
  <1> QED
    BY <1>7, <1>8, UncountedStepCounts DEF CountInv

(* A commit message is no request for phase 2. *)
LEMMA FinishCommitCounts ==
    ASSUME TypeInv, CountInv, NEW v \in Voters, finishCommit(v)
    PROVE  CountInv'
  <1> QueuesTyped
    BY DEF TypeInv, TypeOK, QueuesTyped
  <1>1. disconnectAcceptors(v) /\ vstate[v] = "PHASE2" /\ proposal[v] \in Proposals
    BY OwnProposalTypes DEF finishCommit, TypeInv, VotingHasProposal
  <1> DEFINE m == HeaderProposal("PHASE3COMMIT", proposal[v])
  <1>2. m \in Messages /\ m.type = "PHASE3COMMIT" /\ SendAll(v, m)
    BY <1>1, MessageTyping DEF finishCommit, CommittingProposal, MessageTypes
  <1> HIDE DEF m
  <1>3. /\ \A w \in Voters, a \in Acceptors : w # v => toAcceptor'[w][a] = toAcceptor[w][a]
        /\ \A w \in Voters, b \in Acceptors :
             NoMore(toAcceptor[w][b], toAcceptor'[w][b], "PHASE2REQUEST")
    BY <1>2, SendAllEffect, SendAllNoMore
  <1>4. /\ \A w \in Voters, b \in Acceptors :
             toVoter'[w][b] = toVoter[w][b] \/ toVoter'[w][b] = <<>>
        /\ \A w \in Voters \ {v}, b \in Acceptors : toVoter'[w][b] = toVoter[w][b]
    BY <1>1, DisconnectEffect DEF disconnectAcceptors, QueuesTyped
  <1>5. vstate'[v] = "PHASE3" /\ \A w \in Voters \ {v} : vstate'[w] = vstate[w]
    BY DEF finishCommit, TypeInv, TypeOK
  <1>6. UNCHANGED <<watching, phase2ack, granted, counted, decision>>
    BY DEF finishCommit
  <1>7. OthersUntouched(v) /\ ~Unproposed(v)' /\ ~BeforePhase2(v)'
    BY <1>1, <1>3, <1>4, <1>5, <1>6
    DEF CountInv, UnproposedIsFresh, OthersUntouched, Unproposed, BeforePhase2
  <1>8. UnproposedIsFresh' /\ \A w \in Voters : BeforePhase2(w)' => BeforePhase2(w)
    BY <1>7, FreshOthers DEF CountInv
  <1>9. UncountedStep
    BY <1>3, <1>4, <1>6, <1>8, HoldsNothing DEF UncountedStep
  <1> QED
    BY <1>8, <1>9, UncountedStepCounts DEF CountInv

(* A proposer that gives up counts from zero again, and never proposes      *)
(* again: its heartbeat client is gone.                                     *)
LEMMA VoterTimeoutCounts ==
    ASSUME TypeInv, CountInv, NEW p \in Proposers, voterTimeout(p)
    PROVE  CountInv'
  <1> p \in Voters /\ p \notin Requestors
    BY VotersAssumption DEF Voters
  <1>1. /\ vstate[p] \in {"PHASE1", "PHASE2"}
        /\ vstate'[p] = "INITIAL" /\ \A w \in Voters \ {p} : vstate'[w] = vstate[w]
        /\ phase2ack'[p] = 0 /\ \A w \in Voters \ {p} : phase2ack'[w] = phase2ack[w]
        /\ counted'[p] = {} /\ \A w \in Voters \ {p} : counted'[w] = counted[w]
    BY DEF voterTimeout, TypeInv, TypeOK
  <1>2. UNCHANGED <<watching, toAcceptor, toVoter, granted, decision>>
    BY DEF voterTimeout, programVars
  <1>3. OthersUntouched(p) /\ ~Unproposed(p)' /\ ~BeforePhase2(p)'
    BY <1>1, <1>2 DEF CountInv, UnproposedIsFresh, OthersUntouched, Unproposed, BeforePhase2
  <1>4. UnproposedIsFresh' /\ \A w \in Voters : BeforePhase2(w)' => BeforePhase2(w)
    BY <1>3, FreshOthers DEF CountInv
  <1>5. NothingGrantedBefore' /\ OneRequest'
    BY <1>2, <1>4 DEF CountInv, NothingGrantedBefore, OneRequest
  <1>6. OneAck' /\ CountIsExact'
    BY <1>1, <1>2, FS_EmptySet DEF CountInv, OneAck, CountIsExact
  <1>7. WinnerHasMajority'
    BY <1>2 DEF CountInv, WinnerHasMajority, Winners, nacceptor
  <1> QED
    BY <1>4, <1>5, <1>6, <1>7 DEF CountInv

(* An answer of an acceptor that is not an acknowledgement of phase 2. *)
AnswersWithoutAck(v, a) ==
    \/ UNCHANGED toVoter
    \/ \E t \in MessageTypes \ {"PHASE3COMMIT", "PHASE2ACK"} : Reply(v, a, Header(t))
    \/ \E p \in Proposals : Reply(v, a, HeaderProposal("PHASE3COMMIT", p))

(* It adds no acknowledgement, and goes to no other voter. *)
LEMMA AnswerNoMore ==
    ASSUME QueuesTyped, NEW v \in Voters, NEW a \in Acceptors, AnswersWithoutAck(v, a)
    PROVE  /\ \A w \in Voters, b \in Acceptors :
                NoMore(toVoter[w][b], toVoter'[w][b], "PHASE2ACK")
           /\ \A w \in Voters \ {v}, b \in Acceptors : toVoter'[w][b] = toVoter[w][b]
  <1>1. ASSUME NEW m \in Messages, m.type # "PHASE2ACK", Reply(v, a, m)
        PROVE  /\ \A w \in Voters, b \in Acceptors :
                    NoMore(toVoter[w][b], toVoter'[w][b], "PHASE2ACK")
               /\ \A w \in Voters \ {v}, b \in Acceptors : toVoter'[w][b] = toVoter[w][b]
    BY <1>1, ReplyEffect, ReplyNoMore
  <1>2. CASE UNCHANGED toVoter
    BY <1>2, HoldsNothing
  <1>3. ASSUME NEW t \in MessageTypes \ {"PHASE3COMMIT", "PHASE2ACK"}
        PROVE  Header(t) \in Messages /\ Header(t).type # "PHASE2ACK"
    BY MessageTyping
  <1>4. ASSUME NEW p \in Proposals
        PROVE  /\ HeaderProposal("PHASE3COMMIT", p) \in Messages
               /\ HeaderProposal("PHASE3COMMIT", p).type # "PHASE2ACK"
    BY MessageTyping DEF MessageTypes
  <1> QED
    BY <1>1, <1>2, <1>3, <1>4 DEF AnswersWithoutAck

(* A step of an acceptor that grants nothing. *)
LEMMA AcceptorOtherwiseCounts ==
    ASSUME TypeInv, CountInv, NEW v \in Voters, NEW a \in Acceptors, NEW t,
           ReceiveFromVoter(v, a, t), AnswersWithoutAck(v, a),
           UNCHANGED <<vstate, watching, phase2ack, granted, counted, decision>>
    PROVE  CountInv'
  <1> QueuesTyped
    BY DEF TypeInv, TypeOK, QueuesTyped
  <1>1. /\ toAcceptor[v][a] # <<>>
        /\ \A w \in Voters, b \in Acceptors :
             w # v \/ b # a => toAcceptor'[w][b] = toAcceptor[w][b]
    BY ReceiveFromVoterEffect
  <1>2. OthersUntouched(v) /\ ~Unproposed(v)'
    BY <1>1, HasProposed, AnswerNoMore DEF CountInv, OthersUntouched, Unproposed
  <1>3. UnproposedIsFresh' /\ \A w \in Voters : BeforePhase2(w)' => BeforePhase2(w)
    BY <1>2, FreshOthers DEF CountInv, BeforePhase2, Unproposed
  <1>4. UncountedStep
    BY <1>3, AcceptorReadsNoMore, AnswerNoMore DEF UncountedStep
  <1> QED
    BY <1>3, <1>4, UncountedStepCounts DEF CountInv

(* A promise or a rejection in phase 1 grants nothing. *)
LEMMA AcceptorPhase1Counts ==
    ASSUME TypeInv, CountInv, NEW v \in Voters, NEW a \in Acceptors, acceptorPhase1(v, a)
    PROVE  CountInv'
  <1>1. AnswersWithoutAck(v, a)
    BY DEF acceptorPhase1, AnswersWithOutcome, AnswersWithoutAck, MessageTypes, TypeInv,
           CommittedHasProposal
  <1> QED
    BY <1>1, AcceptorOtherwiseCounts
    DEF acceptorPhase1, machineVars, programVars, historyVars

(* Taking an outcome grants nothing. *)
LEMMA AcceptorPhase3Counts ==
    ASSUME TypeInv, CountInv, NEW v \in Voters, NEW a \in Acceptors, acceptorPhase3(v, a)
    PROVE  CountInv'
  BY AcceptorOtherwiseCounts
  DEF acceptorPhase3, AnswersWithoutAck, machineVars, programVars, historyVars

(* Accepting: it answers the one request of the voter with the one          *)
(* acknowledgement.                                                         *)
LEMMA AcceptorPhase2Counts ==
    ASSUME TypeInv, CountInv, NEW v \in Voters, NEW a \in Acceptors, acceptorPhase2(v, a)
    PROVE  CountInv'
  <1> QueuesTyped
    BY DEF TypeInv, TypeOK, QueuesTyped
  <1>1. ReceiveFromVoter(v, a, "PHASE2REQUEST")
    BY DEF acceptorPhase2
  <1>2. UNCHANGED <<vstate, watching, phase2ack, counted, decision>>
    BY DEF acceptorPhase2, machineVars, programVars
  <1>3. CASE UNCHANGED granted /\ AnswersWithoutAck(v, a)
    BY <1>1, <1>2, <1>3, AcceptorOtherwiseCounts
  <1>4. CASE /\ granted' = [granted EXCEPT ![v] = @ \cup {a}]
             /\ Reply(v, a, Header("PHASE2ACK"))
    <2> DEFINE q == toAcceptor[v][a]
               m == Header("PHASE2ACK")
    <2>1. /\ q \in Seq(Messages) /\ q # <<>> /\ Head(q).type = "PHASE2REQUEST"
          /\ toAcceptor'[v][a] = Tail(q)
          /\ \A w \in Voters, b \in Acceptors :
               w # v \/ b # a => toAcceptor'[w][b] = toAcceptor[w][b]
      BY <1>1, ReceiveFromVoterEffect DEF QueuesTyped
    <2>2. AtMostOne(q, "PHASE2REQUEST")
      BY DEF CountInv, OneRequest
    <2>3. m \in Messages /\ m.type = "PHASE2ACK"
      BY MessageTyping DEF MessageTypes
    <2>4. Reply(v, a, m)
      BY <1>4
    <2>5. Holds(q, "PHASE2REQUEST") => a \notin granted[v]
      BY DEF CountInv, OneRequest
    <2> HIDE DEF q, m
    <2>6. Holds(q, "PHASE2REQUEST") /\ ~Holds(Tail(q), "PHASE2REQUEST")
      BY <2>1, <2>2, HoldsTail
    <2>7. a \notin granted[v] /\ ~Holds(toAcceptor'[v][a], "PHASE2REQUEST")
      BY <2>1, <2>5, <2>6
    <2>8. a \notin counted[v] /\ ~Holds(toVoter[v][a], "PHASE2ACK")
      BY <2>7 DEF CountInv, CountIsExact, OneAck
    <2>9. /\ \A w \in Voters, b \in Acceptors : w # v \/ b # a => toVoter'[w][b] = toVoter[w][b]
          /\ \/ toVoter'[v][a] = toVoter[v][a]
             \/ toVoter'[v][a] = Append(toVoter[v][a], m)
      BY <2>3, <2>4, ReplyEffect
    <2>10. AtMostOne(toVoter'[v][a], "PHASE2ACK")
      <3>1. AtMostOne(Append(toVoter[v][a], m), "PHASE2ACK")
        BY <2>3, <2>8, HoldsAppend DEF QueuesTyped
      <3> QED
        BY <2>9, <3>1 DEF CountInv, OneAck
    <2>11. /\ granted'[v] = granted[v] \cup {a}
           /\ \A w \in Voters \ {v} : granted'[w] = granted[w]
      BY <1>4 DEF TypeInv, TypeOK
    <2>12. \A w \in Voters, b \in Acceptors :
             NoMore(toAcceptor[w][b], toAcceptor'[w][b], "PHASE2REQUEST")
      BY <1>1, AcceptorReadsNoMore
    <2>13. OthersUntouched(v) /\ ~Unproposed(v)'
      BY <1>2, <2>1, <2>9, HasProposed DEF CountInv, OthersUntouched, Unproposed, q
    <2>14. UnproposedIsFresh' /\ \A w \in Voters : BeforePhase2(w)' => BeforePhase2(w)
      BY <1>2, <2>13, FreshOthers DEF CountInv, BeforePhase2, Unproposed
    <2>15. ~BeforePhase2(v)'
      <3>1. ~BeforePhase2(v)
        BY <2>6 DEF CountInv, NothingGrantedBefore, q
      <3> QED
        BY <2>14, <3>1
    <2>16. NothingGrantedBefore'
      BY <2>11, <2>12, <2>14, <2>15 DEF CountInv, NothingGrantedBefore, NoMore
    <2>17. OneRequest'
      <3>1. ASSUME NEW w \in Voters, NEW b \in Acceptors,
                   Holds(toAcceptor'[w][b], "PHASE2REQUEST")
            PROVE  b \notin granted'[w]
        <4>1. w # v \/ b # a
          BY <2>7, <3>1
        <4>2. b \notin granted[w]
          BY <2>12, <3>1 DEF CountInv, OneRequest, NoMore
        <4> QED
          BY <2>11, <4>1, <4>2
      <3> QED
        BY <2>12, <3>1 DEF CountInv, OneRequest, NoMore
    <2>18. OneAck'
      BY <1>2, <2>8, <2>9, <2>10, <2>11 DEF CountInv, OneAck
    <2>19. CountIsExact'
      BY <1>2, <2>11 DEF CountInv, CountIsExact
    <2>20. WinnerHasMajority'
      <3>1. \A w \in Voters : granted[w] \subseteq granted'[w] /\ IsFiniteSet(granted'[w])
        <4>1. \A w \in Voters : granted[w] \subseteq granted'[w] /\ granted'[w] \subseteq Acceptors
          BY <2>11 DEF TypeInv, TypeOK
        <4> QED
          BY <4>1, AcceptorsAssumption, FS_Subset
      <3>2. \A w \in Voters : /\ Cardinality(granted[w]) \in Nat
                              /\ Cardinality(granted'[w]) \in Nat
                              /\ Cardinality(granted[w]) <= Cardinality(granted'[w])
        BY <3>1, FS_Subset, FS_CardinalityType
      <3>3. nacceptor \in Nat
        BY AcceptorsAssumption, FS_CardinalityType DEF nacceptor
      <3>4. \A n, k, j \in Nat : k * 2 > n /\ k <= j => j * 2 > n
        OBVIOUS
      <3>5. ASSUME NEW w \in Winners, nacceptor # 0
            PROVE  Cardinality(granted'[w]) * 2 > nacceptor
        BY <3>2, <3>3, <3>4, <3>5 DEF CountInv, WinnerHasMajority, Winners
      <3> QED
        BY <1>2, <3>5 DEF WinnerHasMajority, Winners, nacceptor
    <2> QED
      BY <2>14, <2>16, <2>17, <2>18, <2>19, <2>20 DEF CountInv
  <1>5. (UNCHANGED granted /\ AnswersWithoutAck(v, a))
          \/ (/\ granted' = [granted EXCEPT ![v] = @ \cup {a}]
              /\ Reply(v, a, Header("PHASE2ACK")))
    BY DEF acceptorPhase2, AnswersWithOutcome, AnswersWithoutAck, MessageTypes, TypeInv,
           CommittedHasProposal
  <1> QED
    BY <1>3, <1>4, <1>5

(* What the environment and an acceptor's timer do counts nothing.          *)
LEMMA EnvironmentCounts ==
    ASSUME TypeInv, CountInv,
           \/ loseHeartbeat
           \/ \E v \in Voters : crash(v)
           \/ \E v \in Voters, a \in Acceptors : connectionLost(v, a)
           \/ \E a \in Acceptors : acceptorTimeout(a)
           \/ UNCHANGED vars
    PROVE  CountInv'
  <1> QueuesTyped
    BY DEF TypeInv, TypeOK, QueuesTyped
  <1>1. UNCHANGED <<vstate, watching, phase2ack, granted, counted, decision>>
    BY DEF loseHeartbeat, crash, connectionLost, acceptorTimeout, vars, machineVars, programVars,
           historyVars
  <1>2. \A v \in Voters, a \in Acceptors :
          /\ toAcceptor'[v][a] = toAcceptor[v][a] \/ toAcceptor'[v][a] = <<>>
          /\ toVoter'[v][a] = toVoter[v][a] \/ toVoter'[v][a] = <<>>
    <2>1. CASE UNCHANGED <<toAcceptor, toVoter>>
      BY <2>1
    <2>2. ASSUME NEW S, stopVoters(S), UNCHANGED toAcceptor
          PROVE  \A v \in Voters, a \in Acceptors :
                   /\ toAcceptor'[v][a] = toAcceptor[v][a] \/ toAcceptor'[v][a] = <<>>
                   /\ toVoter'[v][a] = toVoter[v][a] \/ toVoter'[v][a] = <<>>
      BY <2>2, StopVotersEffect
    <2>3. CASE \E v \in Voters, a \in Acceptors : connectionLost(v, a)
      BY <2>3, ConnectionLostEffect
    <2>4. CASE loseHeartbeat \/ \E v \in Voters : crash(v)
      BY <2>1, <2>2, <2>4 DEF loseHeartbeat, crash
    <2>5. CASE (\E a \in Acceptors : acceptorTimeout(a)) \/ UNCHANGED vars
      BY <2>1, <2>5 DEF acceptorTimeout, vars
    <2> QED
      BY <2>3, <2>4, <2>5
  <1>3. UnproposedIsFresh' /\ \A w \in Voters : BeforePhase2(w)' => BeforePhase2(w)
    BY <1>1, <1>2 DEF CountInv, UnproposedIsFresh, Unproposed, BeforePhase2
  <1>4. UncountedStep
    BY <1>1, <1>2, <1>3, HoldsNothing DEF UncountedStep
  <1> QED
    BY <1>3, <1>4, UncountedStepCounts DEF CountInv

(* Every step preserves the counting invariant.                             *)
LEMMA CountNext == TypeInv /\ CountInv /\ [Next]_vars => CountInv'
  <1> SUFFICES ASSUME TypeInv, CountInv, [Next]_vars PROVE CountInv'
    OBVIOUS
  <1>1. ASSUME NEW p \in Proposers, startRecovery(p) PROVE CountInv'
    <2>1. PICK b \in Backups[p] : NewProposal(p, RecoveryTo(b))
      BY <1>1 DEF startRecovery
    <2>2. p \in Voters /\ Unproposed(p) /\ RecoveryTo(b) \in OwnProposals(p)
      BY <1>1 DEF startRecovery, Voters, Unproposed, OwnProposals, BackupBrokers
    <2>3. UNCHANGED toVoter /\ watching' \subseteq watching /\ p \notin watching'
      BY <1>1 DEF startRecovery
    <2> QED
      BY <2>1, <2>2, <2>3, NewProposalCounts
  <1>2. ASSUME NEW r \in Requestors, proposeAcceptorChange(r) PROVE CountInv'
    <2>1. r \notin Proposers
      BY VotersAssumption
    <2>2. r \in Voters /\ Unproposed(r) /\ NewAcceptors \in OwnProposals(r) /\ r \notin watching
      BY <1>2, <2>1 DEF proposeAcceptorChange, Voters, Unproposed, OwnProposals, TypeInv, TypeOK
    <2>3. NewProposal(r, NewAcceptors) /\ UNCHANGED <<toVoter, watching>>
      BY <1>2 DEF proposeAcceptorChange
    <2> QED
      BY <2>2, <2>3, NewProposalCounts
  <1>3. ASSUME NEW v \in Voters, NEW a \in Acceptors, voterStep(v, a) \/ acceptorStep(v, a)
        PROVE  CountInv'
    BY <1>3, VoterPhase1Counts, VoterPhase2Counts, VoterPhase3Counts,
       AcceptorPhase1Counts, AcceptorPhase2Counts, AcceptorPhase3Counts
    DEF voterStep, acceptorStep
  <1> QED
    BY <1>1, <1>2, <1>3, FinishCommitCounts, VoterTimeoutCounts, EnvironmentCounts DEF Next

(* A winner was accepted by more than half of the acceptors, with any       *)
(* timers, crashes and lost connections: an acknowledgement that arrives    *)
(* late is never counted for another request, because a voter has only one. *)
(* (handlePhase2Message of ProposerStateMachine counts acknowledgements     *)
(* that carry no proposal number.)                                          *)
THEOREM WinnersHaveMajority == Spec => []WinnerHasMajority
  <1>1. Init => TypeInv /\ CountInv
    BY TypeInit, CountInit
  <1>2. TypeInv /\ CountInv /\ [Next]_vars => (TypeInv /\ CountInv)'
    BY TypeNext, CountNext
  <1>3. TypeInv /\ CountInv => WinnerHasMajority
    BY DEF CountInv
  <1> QED
    BY <1>1, <1>2, <1>3, PTL DEF Spec
-----------------------------------------------------------------------------
(* Outcomes. *)

(* A step after which every machine in PHASE3 and every commit message      *)
(* holds an outcome of before.                                              *)
SpreadsKnownOutcomes ==
    /\ UNCHANGED finished
    /\ \A v \in finished : decision'[v] = decision[v] /\ vstate'[v] = "PHASE3"
    /\ \A v \in busy' : decision'[v] = proposal'[v]
    /\ \A v \in Voters, a \in Acceptors :
         /\ \A m \in Contents(toAcceptor'[v][a]) :
              m.type = "PHASE3COMMIT" => m.proposal \in Outcomes
         /\ \A m \in Contents(toVoter'[v][a]) :
              m.type = "PHASE3COMMIT" => m.proposal \in Outcomes
    /\ \A v \in Voters : vstate'[v] = "PHASE3" => vlastcommit'[v] \in Outcomes
    /\ \A a \in Acceptors : astate'[a] = "PHASE3" => alastcommit'[a] \in Outcomes

(* It keeps what is known about outcomes. *)
LEMMA KnownOutcomesKept ==
    ASSUME OutcomeInv, SpreadsKnownOutcomes PROVE OutcomeInv'
  <1>1. Outcomes' = Outcomes
    BY DEF SpreadsKnownOutcomes, Outcomes
  <1>2. OutcomesSpread'
    BY <1>1 DEF SpreadsKnownOutcomes, OutcomeInv, OutcomesSpread
  <1>3. OutcomeIsFinishedDecision'
    BY <1>1 DEF SpreadsKnownOutcomes, OutcomeIsFinishedDecision, Outcomes
  <1> QED
    BY <1>2, <1>3 DEF OutcomeInv

(* What OutcomeInv says, with the name Outcomes. *)
LEMMA OutcomeFacts ==
    ASSUME OutcomeInv
    PROVE  /\ \A v \in busy : decision[v] = proposal[v]
           /\ \A v \in finished : vstate[v] = "PHASE3" /\ decision[v] # NoProposal
           /\ \A v \in Voters, a \in Acceptors :
                /\ \A m \in Contents(toAcceptor[v][a]) :
                     m.type = "PHASE3COMMIT" => m.proposal \in Outcomes
                /\ \A m \in Contents(toVoter[v][a]) :
                     m.type = "PHASE3COMMIT" => m.proposal \in Outcomes
           /\ \A v \in Voters : vstate[v] = "PHASE3" => vlastcommit[v] \in Outcomes
           /\ \A a \in Acceptors : astate[a] = "PHASE3" => alastcommit[a] \in Outcomes
  BY DEF OutcomeInv, OutcomesSpread, OutcomeIsFinishedDecision, Outcomes

(* At the start there is no outcome. *)
LEMMA OutcomeInit == Init => OutcomeInv
  <1> SUFFICES ASSUME Init PROVE OutcomeInv
    OBVIOUS
  <1>1. OutcomesSpread
    BY EmptyQueue DEF Init, OutcomesSpread
  <1>2. OutcomeIsFinishedDecision
    BY DEF Init, OutcomeIsFinishedDecision
  <1> QED
    BY <1>1, <1>2 DEF OutcomeInv

(* A proposal is no outcome yet, even in centralized mode, where its voter  *)
(* is busy at once.                                                         *)
LEMMA NewProposalOutcomes ==
    ASSUME TypeInv, OutcomeInv, NEW v \in Voters \ busy, NEW p \in OwnProposals(v),
           vstate[v] = "INITIAL", NewProposal(v, p), UNCHANGED <<toVoter, acceptorVars>>
    PROVE  OutcomeInv'
  <1> QueuesTyped /\ p \in Proposals
    BY OwnProposalTypes DEF TypeInv, TypeOK, QueuesTyped
  <1> DEFINE m == HeaderProposal("PHASE1PROPOSAL", p)
  <1>1. m \in Messages /\ m.type = "PHASE1PROPOSAL" /\ SendAll(v, m)
    BY MessageTyping DEF NewProposal, MessageTypes
  <1> HIDE DEF m
  <1>2. \A w \in Voters, a \in Acceptors :
          Contents(toAcceptor'[w][a]) \subseteq Contents(toAcceptor[w][a]) \cup {m}
    BY <1>1, SendAllEffect
  <1>3. /\ vstate'[v] # "PHASE3" /\ \A w \in Voters \ {v} : vstate'[w] = vstate[w]
        /\ proposal'[v] = p /\ \A w \in Voters \ {v} : proposal'[w] = proposal[w]
        /\ \A w \in Voters \ {v} : decision'[w] = decision[w]
        /\ \/ busy' = busy
           \/ busy' = busy \cup {v} /\ decision'[v] = p
        /\ UNCHANGED <<vlastcommit, finished>>
    BY DEF NewProposal, CommitSelf, TypeInv, TypeOK
  <1>4. v \notin finished /\ finished \subseteq Voters /\ busy \subseteq Voters
    BY OutcomeFacts DEF TypeInv, TypeOK
  <1>5. \A w \in busy' : decision'[w] = proposal'[w]
    BY <1>3, <1>4, OutcomeFacts
  <1>6. \A w \in Voters : vstate'[w] = "PHASE3" => vlastcommit'[w] \in Outcomes
    BY <1>3, OutcomeFacts
  <1>7. \A w \in Voters, a \in Acceptors :
          \A k \in Contents(toAcceptor'[w][a]) :
            k.type = "PHASE3COMMIT" => k.proposal \in Outcomes
    BY <1>1, <1>2, OutcomeFacts
  <1>8. \A w \in finished : decision'[w] = decision[w] /\ vstate'[w] = "PHASE3"
    BY <1>3, <1>4, OutcomeFacts
  <1>9. SpreadsKnownOutcomes
    BY <1>3, <1>5, <1>6, <1>7, <1>8, OutcomeFacts DEF SpreadsKnownOutcomes, acceptorVars
  <1> QED
    BY <1>9, KnownOutcomesKept

(* A request for phase 2 carries no outcome. *)
LEMMA VoterPhase1Outcomes ==
    ASSUME TypeInv, OutcomeInv, NEW v \in Voters, NEW a \in Acceptors, voterPhase1(v, a)
    PROVE  OutcomeInv'
  <1> QueuesTyped
    BY DEF TypeInv, TypeOK, QueuesTyped
  <1>1. \A w \in Voters, b \in Acceptors :
          Contents(toVoter'[w][b]) \subseteq Contents(toVoter[w][b])
    BY ReceiveFromAcceptorEffect DEF voterPhase1
  <1>2. \A w \in Voters, b \in Acceptors : \A m \in Contents(toAcceptor'[w][b]) :
          m.type = "PHASE3COMMIT" => m.proposal \in Outcomes
    <2>1. CASE UNCHANGED toAcceptor
      BY <2>1, OutcomeFacts
    <2>2. CASE vstate[v] = "PHASE1" /\ SendAll(v, HeaderProposal("PHASE2REQUEST", proposal[v]))
      <3> DEFINE m == HeaderProposal("PHASE2REQUEST", proposal[v])
      <3>1. proposal[v] \in Proposals
        BY <2>2, OwnProposalTypes DEF TypeInv, VotingHasProposal
      <3>2. m \in Messages /\ m.type = "PHASE2REQUEST"
        BY <3>1, MessageTyping DEF MessageTypes
      <3>3. SendAll(v, m)
        BY <2>2
      <3> HIDE DEF m
      <3>4. \A w \in Voters, b \in Acceptors :
              Contents(toAcceptor'[w][b]) \subseteq Contents(toAcceptor[w][b]) \cup {m}
        BY <3>2, <3>3, SendAllEffect
      <3> QED
        BY <3>2, <3>4, OutcomeFacts
    <2> QED
      BY <2>1, <2>2 DEF voterPhase1
  <1>3. \A w \in Voters : \/ vstate'[w] = vstate[w]
                          \/ vstate[w] # "PHASE3" /\ vstate'[w] # "PHASE3"
    BY DEF voterPhase1, TypeInv, TypeOK
  <1>4. UNCHANGED <<finished, decision, busy, proposal, vlastcommit, astate, alastcommit>>
    BY DEF voterPhase1, programVars, acceptorVars, historyVars
  <1>5. finished \subseteq Voters
    BY DEF TypeInv, TypeOK
  <1>6. SpreadsKnownOutcomes
    BY <1>1, <1>2, <1>3, <1>4, <1>5, OutcomeFacts DEF SpreadsKnownOutcomes
  <1> QED
    BY <1>6, KnownOutcomesKept

(* Winning decides the voter's own proposal; it is not finished with it.    *)
LEMMA VoterPhase2Outcomes ==
    ASSUME TypeInv, OutcomeInv, NEW v \in Voters, NEW a \in Acceptors, voterPhase2(v, a)
    PROVE  OutcomeInv'
  <1> QueuesTyped
    BY DEF TypeInv, TypeOK, QueuesTyped
  <1>1. \A w \in Voters, b \in Acceptors :
          Contents(toVoter'[w][b]) \subseteq Contents(toVoter[w][b])
    BY ReceiveFromAcceptorEffect DEF voterPhase2
  <1>2. UNCHANGED <<finished, vstate, proposal, vlastcommit, toAcceptor, astate, alastcommit>>
    BY DEF voterPhase2, acceptorVars
  <1>3. \/ UNCHANGED <<busy, decision>>
        \/ vstate[v] = "PHASE2" /\ CommitSelf(v, proposal[v])
    BY DEF voterPhase2
  <1>4. finished \subseteq Voters /\ busy \subseteq Voters
    BY DEF TypeInv, TypeOK
  <1>5. /\ \A w \in finished : decision'[w] = decision[w]
        /\ \A w \in busy' : decision'[w] = proposal'[w]
    <2>1. CASE UNCHANGED <<busy, decision>>
      BY <1>2, <2>1, OutcomeFacts
    <2>2. CASE vstate[v] = "PHASE2" /\ CommitSelf(v, proposal[v])
      <3>1. /\ busy' = busy \cup {v} /\ decision'[v] = proposal[v]
            /\ \A w \in Voters \ {v} : decision'[w] = decision[w]
        BY <2>2 DEF CommitSelf, TypeInv, TypeOK
      <3> QED
        BY <1>2, <1>4, <2>2, <3>1, OutcomeFacts
    <2> QED
      BY <1>3, <2>1, <2>2
  <1>6. SpreadsKnownOutcomes
    BY <1>1, <1>2, <1>5, OutcomeFacts DEF SpreadsKnownOutcomes
  <1> QED
    BY <1>6, KnownOutcomesKept

(* A voter learns what an acceptor told it. *)
LEMMA VoterPhase3Outcomes ==
    ASSUME TypeInv, OutcomeInv, NEW v \in Voters, NEW a \in Acceptors, voterPhase3(v, a)
    PROVE  OutcomeInv'
  <1> QueuesTyped
    BY DEF TypeInv, TypeOK, QueuesTyped
  <1> DEFINE m == Head(toVoter[v][a])
  <1>1. m.type = "PHASE3COMMIT" /\ m \in Contents(toVoter[v][a])
    BY QueueTail DEF voterPhase3, NextFromAcceptor, QueuesTyped
  <1>2. m.proposal \in Outcomes
    BY <1>1, OutcomeFacts
  <1>3. vstate' = [vstate EXCEPT ![v] = "PHASE3"]
        /\ vlastcommit' = [vlastcommit EXCEPT ![v] = m.proposal]
    BY DEF voterPhase3
  <1> HIDE DEF m
  <1>4. /\ vstate'[v] = "PHASE3" /\ vlastcommit'[v] = m.proposal
        /\ \A w \in Voters \ {v} : vstate'[w] = vstate[w] /\ vlastcommit'[w] = vlastcommit[w]
    BY <1>3 DEF TypeInv, TypeOK
  <1>5. \A w \in Voters, b \in Acceptors :
          Contents(toVoter'[w][b]) \subseteq Contents(toVoter[w][b])
    BY DisconnectEffect DEF voterPhase3
  <1>6. UNCHANGED <<finished, decision, busy, proposal, toAcceptor, astate, alastcommit>>
    BY DEF voterPhase3, acceptorVars, historyVars
  <1>7. finished \subseteq Voters
    BY DEF TypeInv, TypeOK
  <1>8. SpreadsKnownOutcomes
    BY <1>2, <1>4, <1>5, <1>6, <1>7, OutcomeFacts DEF SpreadsKnownOutcomes
  <1> QED
    BY <1>8, KnownOutcomesKept

(* Finishing makes the winner's decision an outcome. *)
LEMMA FinishCommitOutcomes ==
    ASSUME TypeInv, OutcomeInv, NEW v \in Voters, finishCommit(v)
    PROVE  OutcomeInv'
  <1> QueuesTyped
    BY DEF TypeInv, TypeOK, QueuesTyped
  <1>1. /\ disconnectAcceptors(v) /\ v \in busy
        /\ proposal[v] \in Proposals /\ decision[v] = proposal[v]
    BY OwnProposalTypes, OutcomeFacts DEF finishCommit, TypeInv, VotingHasProposal
  <1> DEFINE m == HeaderProposal("PHASE3COMMIT", proposal[v])
  <1>2. m \in Messages /\ m.proposal = proposal[v] /\ SendAll(v, m)
    BY <1>1, MessageTyping DEF finishCommit, CommittingProposal, MessageTypes
  <1> HIDE DEF m
  <1>3. /\ \A w \in Voters, b \in Acceptors :
             Contents(toAcceptor'[w][b]) \subseteq Contents(toAcceptor[w][b]) \cup {m}
        /\ \A w \in Voters, b \in Acceptors :
             Contents(toVoter'[w][b]) \subseteq Contents(toVoter[w][b])
    BY <1>1, <1>2, SendAllEffect, DisconnectEffect
  <1>4. /\ vstate'[v] = "PHASE3" /\ vlastcommit'[v] = proposal[v]
        /\ \A w \in Voters \ {v} : /\ vstate'[w] = vstate[w]
                                   /\ vlastcommit'[w] = vlastcommit[w]
                                   /\ proposal'[w] = proposal[w]
    BY DEF finishCommit, CommittingProposal, TypeInv, TypeOK
  <1>5. /\ finished' = finished \cup {v} /\ busy' = busy \ {v}
        /\ UNCHANGED <<decision, astate, alastcommit>>
    BY DEF finishCommit, acceptorVars
  <1>6. Outcomes' = Outcomes \cup {proposal[v]}
    BY <1>1, <1>5 DEF Outcomes
  <1>7. proposal[v] # NoProposal
    BY <1>1 DEF Proposals, RecoveryTo, RecoveryProposal, NewAcceptors, AcceptorChangeProposal,
                NoProposal
  <1>8. finished \subseteq Voters /\ busy \subseteq Voters
    BY DEF TypeInv, TypeOK
  <1>9. /\ \A w \in busy' : decision'[w] = proposal'[w]
        /\ \A w \in finished' : vstate'[w] = "PHASE3" /\ decision'[w] # NoProposal
    BY <1>1, <1>4, <1>5, <1>7, <1>8, OutcomeFacts
  <1>10. OutcomesSpread'
    <2>1. ASSUME NEW w \in Voters, NEW b \in Acceptors
          PROVE  \A n \in Contents(toAcceptor'[w][b]) :
                   n.type = "PHASE3COMMIT" => n.proposal \in Outcomes'
      <3>1. \A n \in Contents(toAcceptor[w][b]) :
              n.type = "PHASE3COMMIT" => n.proposal \in Outcomes
        BY OutcomeFacts
      <3> QED
        BY <1>2, <1>3, <1>6, <3>1
    <2>2. ASSUME NEW w \in Voters, NEW b \in Acceptors
          PROVE  \A n \in Contents(toVoter'[w][b]) :
                   n.type = "PHASE3COMMIT" => n.proposal \in Outcomes'
      <3>1. \A n \in Contents(toVoter[w][b]) :
              n.type = "PHASE3COMMIT" => n.proposal \in Outcomes
        BY OutcomeFacts
      <3> QED
        BY <1>3, <1>6, <3>1
    <2> QED
      BY <1>9, <2>1, <2>2 DEF OutcomesSpread
  <1>11. OutcomeIsFinishedDecision'
    <2>1. \A w \in Voters : vstate'[w] = "PHASE3" => vlastcommit'[w] \in Outcomes'
      BY <1>4, <1>6, OutcomeFacts
    <2>2. \A b \in Acceptors : astate'[b] = "PHASE3" => alastcommit'[b] \in Outcomes'
      BY <1>5, <1>6, OutcomeFacts
    <2> QED
      BY <2>1, <2>2 DEF OutcomeIsFinishedDecision, Outcomes
  <1> QED
    BY <1>10, <1>11 DEF OutcomeInv

(* A proposer that gives up was not in PHASE3. *)
LEMMA VoterTimeoutOutcomes ==
    ASSUME TypeInv, OutcomeInv, NEW p \in Proposers, voterTimeout(p)
    PROVE  OutcomeInv'
  <1> p \in Voters
    BY DEF Voters
  <1>1. /\ vstate[p] # "PHASE3" /\ vstate'[p] # "PHASE3"
        /\ \A w \in Voters \ {p} : vstate'[w] = vstate[w]
    BY DEF voterTimeout, TypeInv, TypeOK
  <1>2. UNCHANGED <<finished, decision, busy, proposal, vlastcommit, toAcceptor, toVoter,
                    astate, alastcommit>>
    BY DEF voterTimeout, programVars, acceptorVars
  <1>3. finished \subseteq Voters
    BY DEF TypeInv, TypeOK
  <1>4. SpreadsKnownOutcomes
    BY <1>1, <1>2, <1>3, OutcomeFacts DEF SpreadsKnownOutcomes
  <1> QED
    BY <1>4, KnownOutcomesKept

(* An acceptor repeats only an outcome, and takes only one it was sent.     *)
LEMMA AcceptorOutcomes ==
    ASSUME TypeInv, OutcomeInv, NEW v \in Voters, NEW a \in Acceptors, acceptorStep(v, a)
    PROVE  OutcomeInv'
  <1> QueuesTyped
    BY DEF TypeInv, TypeOK, QueuesTyped
  <1>1. \A w \in Voters, b \in Acceptors :
          Contents(toAcceptor'[w][b]) \subseteq Contents(toAcceptor[w][b])
    BY ReceiveFromVoterEffect DEF acceptorStep, acceptorPhase1, acceptorPhase2, acceptorPhase3
  <1>2. ASSUME NEW m \in Messages, Reply(v, a, m),
               m.type = "PHASE3COMMIT" => m.proposal \in Outcomes
        PROVE  \A w \in Voters, b \in Acceptors : \A n \in Contents(toVoter'[w][b]) :
                 n.type = "PHASE3COMMIT" => n.proposal \in Outcomes
    <2>1. \A w \in Voters, b \in Acceptors :
            Contents(toVoter'[w][b]) \subseteq Contents(toVoter[w][b]) \cup {m}
      BY <1>2, ReplyEffect
    <2> QED
      BY <1>2, <2>1, OutcomeFacts
  <1>3. \A w \in Voters, b \in Acceptors : \A n \in Contents(toVoter'[w][b]) :
          n.type = "PHASE3COMMIT" => n.proposal \in Outcomes
    <2>1. CASE UNCHANGED toVoter
      BY <2>1, OutcomeFacts
    <2>2. ASSUME NEW t \in MessageTypes \ {"PHASE3COMMIT"}, Reply(v, a, Header(t))
          PROVE  \A w \in Voters, b \in Acceptors : \A n \in Contents(toVoter'[w][b]) :
                   n.type = "PHASE3COMMIT" => n.proposal \in Outcomes
      <3>1. Header(t) \in Messages /\ Header(t).type # "PHASE3COMMIT"
        BY MessageTyping
      <3> QED
        BY <1>2, <2>2, <3>1
    <2>3. ASSUME astate[a] = "PHASE3", Reply(v, a, HeaderProposal("PHASE3COMMIT", alastcommit[a]))
          PROVE  \A w \in Voters, b \in Acceptors : \A n \in Contents(toVoter'[w][b]) :
                   n.type = "PHASE3COMMIT" => n.proposal \in Outcomes
      <3> DEFINE m == HeaderProposal("PHASE3COMMIT", alastcommit[a])
      <3>1. alastcommit[a] \in Outcomes /\ alastcommit[a] \in Proposals
        BY <2>3, OutcomeFacts DEF TypeInv, CommittedHasProposal
      <3>2. m \in Messages /\ m.proposal = alastcommit[a]
        BY <3>1, MessageTyping DEF MessageTypes
      <3>3. Reply(v, a, m)
        BY <2>3
      <3> HIDE DEF m
      <3> QED
        BY <1>2, <3>1, <3>2, <3>3
    <2> QED
      BY <2>1, <2>2, <2>3
      DEF acceptorStep, acceptorPhase1, acceptorPhase2, acceptorPhase3, AnswersWithOutcome,
          MessageTypes
  <1>4. \A b \in Acceptors : astate'[b] = "PHASE3" => alastcommit'[b] \in Outcomes
    <2>1. CASE UNCHANGED <<astate, alastcommit>>
      BY <2>1, OutcomeFacts
    <2>2. CASE astate' = [astate EXCEPT ![a] = "PHASE2"] /\ UNCHANGED alastcommit
      <3>1. \A b \in Acceptors : astate'[b] = "PHASE3" => astate[b] = "PHASE3"
        BY <2>2 DEF TypeInv, TypeOK
      <3> QED
        BY <2>2, <3>1, OutcomeFacts
    <2>3. CASE acceptorPhase3(v, a) /\ TakesOutcome(a)
      <3> DEFINE m == Head(toAcceptor[v][a])
      <3>1. m \in Contents(toAcceptor[v][a]) /\ m.type = "PHASE3COMMIT"
        BY <2>3, ReceiveFromVoterEffect DEF acceptorPhase3
      <3>2. m.proposal \in Outcomes
        BY <3>1, OutcomeFacts
      <3>3. /\ astate' = [astate EXCEPT ![a] = "PHASE3"]
            /\ alastcommit' = [alastcommit EXCEPT ![a] = m.proposal]
        BY <2>3 DEF acceptorPhase3
      <3> HIDE DEF m
      <3>4. /\ alastcommit'[a] = m.proposal
            /\ \A b \in Acceptors \ {a} : astate'[b] = astate[b] /\ alastcommit'[b] = alastcommit[b]
        BY <3>3 DEF TypeInv, TypeOK
      <3> QED
        BY <3>2, <3>4, OutcomeFacts
    <2> QED
      BY <2>1, <2>2, <2>3 DEF acceptorStep, acceptorPhase1, acceptorPhase2, acceptorPhase3
  <1>5. UNCHANGED <<finished, decision, vstate, busy, proposal, vlastcommit>>
    BY DEF acceptorStep, acceptorPhase1, acceptorPhase2, acceptorPhase3, machineVars, programVars,
           historyVars
  <1>6. SpreadsKnownOutcomes
    BY <1>1, <1>3, <1>4, <1>5, OutcomeFacts DEF SpreadsKnownOutcomes
  <1> QED
    BY <1>6, KnownOutcomesKept

(* Crashes, lost connections and forgotten acceptances make no outcome. *)
LEMMA EnvironmentOutcomes ==
    ASSUME TypeInv, OutcomeInv,
           \/ loseHeartbeat
           \/ \E v \in Voters : crash(v)
           \/ \E v \in Voters, a \in Acceptors : connectionLost(v, a)
           \/ \E a \in Acceptors : acceptorTimeout(a)
           \/ UNCHANGED vars
    PROVE  OutcomeInv'
  <1> QueuesTyped
    BY DEF TypeInv, TypeOK, QueuesTyped
  <1>1. UNCHANGED <<finished, decision, vstate, proposal, vlastcommit, alastcommit>>
    BY DEF loseHeartbeat, crash, connectionLost, acceptorTimeout, vars, machineVars, programVars,
           acceptorVars, historyVars
  <1>2. busy' \subseteq busy
    BY DEF loseHeartbeat, crash, stopVoters, connectionLost, acceptorTimeout, vars, programVars
  <1>3. \A b \in Acceptors : astate'[b] = "PHASE3" => astate[b] = "PHASE3"
    <2>1. CASE UNCHANGED astate
      BY <2>1
    <2>2. ASSUME NEW a \in Acceptors, ResetByTimer(a)
          PROVE  \A b \in Acceptors : astate'[b] = "PHASE3" => astate[b] = "PHASE3"
      BY <2>2 DEF ResetByTimer, TypeInv, TypeOK
    <2> QED
      BY <2>1, <2>2 DEF loseHeartbeat, crash, connectionLost, acceptorTimeout, vars, acceptorVars
  <1>4. \A v \in Voters, a \in Acceptors :
          /\ Contents(toAcceptor'[v][a]) \subseteq Contents(toAcceptor[v][a])
          /\ Contents(toVoter'[v][a]) \subseteq Contents(toVoter[v][a])
    <2>1. CASE UNCHANGED <<toAcceptor, toVoter>>
      BY <2>1
    <2>2. ASSUME NEW S, stopVoters(S), UNCHANGED toAcceptor
          PROVE  \A v \in Voters, a \in Acceptors :
                   /\ Contents(toAcceptor'[v][a]) \subseteq Contents(toAcceptor[v][a])
                   /\ Contents(toVoter'[v][a]) \subseteq Contents(toVoter[v][a])
      BY <2>2, StopVotersEffect
    <2>3. CASE \E v \in Voters, a \in Acceptors : connectionLost(v, a)
      BY <2>3, ConnectionLostEffect
    <2>4. CASE loseHeartbeat \/ \E v \in Voters : crash(v)
      BY <2>1, <2>2, <2>4 DEF loseHeartbeat, crash
    <2>5. CASE (\E a \in Acceptors : acceptorTimeout(a)) \/ UNCHANGED vars
      BY <2>1, <2>5 DEF acceptorTimeout, vars
    <2> QED
      BY <2>3, <2>4, <2>5
  <1>5. SpreadsKnownOutcomes
    BY <1>1, <1>2, <1>3, <1>4, OutcomeFacts DEF SpreadsKnownOutcomes
  <1> QED
    BY <1>5, KnownOutcomesKept

(* Every step preserves what is known about outcomes. *)
LEMMA OutcomeNext == TypeInv /\ CountInv /\ OutcomeInv /\ [Next]_vars => OutcomeInv'
  <1> SUFFICES ASSUME TypeInv, CountInv, OutcomeInv, [Next]_vars PROVE OutcomeInv'
    OBVIOUS
  <1>1. ASSUME NEW p \in Proposers, startRecovery(p) PROVE OutcomeInv'
    <2>1. PICK b \in Backups[p] : NewProposal(p, RecoveryTo(b))
      BY <1>1 DEF startRecovery
    <2>2. p \in Voters \ busy /\ Unproposed(p) /\ RecoveryTo(b) \in OwnProposals(p)
      BY <1>1 DEF startRecovery, Voters, Unproposed, OwnProposals, BackupBrokers
    <2>3. vstate[p] = "INITIAL" /\ UNCHANGED <<toVoter, acceptorVars>>
      BY <1>1, <2>2 DEF startRecovery, CountInv, UnproposedIsFresh
    <2> QED
      BY <2>1, <2>2, <2>3, NewProposalOutcomes
  <1>2. ASSUME NEW r \in Requestors, proposeAcceptorChange(r) PROVE OutcomeInv'
    <2>1. r \in Voters \ busy /\ NewAcceptors \in OwnProposals(r)
      BY <1>2, VotersAssumption DEF proposeAcceptorChange, Voters, OwnProposals
    <2>2. /\ NewProposal(r, NewAcceptors) /\ vstate[r] = "INITIAL"
          /\ UNCHANGED <<toVoter, acceptorVars>>
      BY <1>2 DEF proposeAcceptorChange
    <2> QED
      BY <2>1, <2>2, NewProposalOutcomes
  <1>3. ASSUME NEW v \in Voters, NEW a \in Acceptors, voterStep(v, a) PROVE OutcomeInv'
    BY <1>3, VoterPhase1Outcomes, VoterPhase2Outcomes, VoterPhase3Outcomes DEF voterStep
  <1> QED
    BY <1>1, <1>2, <1>3, FinishCommitOutcomes, VoterTimeoutOutcomes, AcceptorOutcomes,
       EnvironmentOutcomes DEF Next

(* Every outcome a machine holds is what some voter won with and finished,  *)
(* with any timers, crashes and lost connections: nobody redirects clients  *)
(* to a backup that is still being filled (copyObjects returns before       *)
(* sendCommitment writes).                                                  *)
THEOREM OutcomesAreFinishedDecisions == Spec => []OutcomeIsFinishedDecision
  <1>1. Init => TypeInv /\ CountInv /\ OutcomeInv
    BY TypeInit, CountInit, OutcomeInit
  <1>2. TypeInv /\ CountInv /\ OutcomeInv /\ [Next]_vars => (TypeInv /\ CountInv /\ OutcomeInv)'
    BY TypeNext, CountNext, OutcomeNext
  <1>3. OutcomeInv => OutcomeIsFinishedDecision
    BY DEF OutcomeInv
  <1> QED
    BY <1>1, <1>2, <1>3, PTL DEF Spec
-----------------------------------------------------------------------------
(* One winner. *)

(* Every step keeps the acceptances of an acceptor that does not forget:    *)
(* one voter's, and the acceptor is past PHASE1 from then on.               *)
LEMMA AcceptOnceNext == TypeInv /\ AcceptOnce /\ [Next]_vars => AcceptOnce'
  <1> SUFFICES ASSUME TypeInv, AcceptOnce, [Next]_vars PROVE AcceptOnce'
    OBVIOUS
  <1> granted \in [Voters -> SUBSET Acceptors] /\ astate \in [Acceptors -> AcceptorStates]
    BY DEF TypeInv, TypeOK
  <1>1. ASSUME UNCHANGED granted,
               \A b \in Acceptors \ ForgetfulAcceptors : astate[b] # "PHASE1" => astate'[b] # "PHASE1"
        PROVE  AcceptOnce'
    BY <1>1 DEF AcceptOnce
  <1>2. ASSUME UNCHANGED <<granted, astate>> PROVE AcceptOnce'
    BY <1>1, <1>2
  <1>3. ASSUME NEW v \in Voters, NEW a \in Acceptors, acceptorPhase2(v, a) PROVE AcceptOnce'
    <2>1. CASE UNCHANGED <<astate, granted>>
      BY <1>2, <2>1
    <2>2. CASE /\ astate[a] = "PHASE1"
               /\ astate' = [astate EXCEPT ![a] = "PHASE2"]
               /\ granted' = [granted EXCEPT ![v] = @ \cup {a}]
      <3>1. /\ granted'[v] = granted[v] \cup {a}
            /\ \A w \in Voters \ {v} : granted'[w] = granted[w]
            /\ astate'[a] = "PHASE2"
            /\ \A b \in Acceptors \ {a} : astate'[b] = astate[b]
        BY <2>2
      <3>2. a \notin ForgetfulAcceptors => \A w \in Voters : a \notin granted[w]
        BY <2>2 DEF AcceptOnce
      <3> QED
        BY <3>1, <3>2 DEF AcceptOnce
    <2> QED
      BY <1>3, <2>1, <2>2 DEF acceptorPhase2, Accepts
  <1>4. ASSUME NEW v \in Voters, NEW a \in Acceptors, acceptorPhase3(v, a) PROVE AcceptOnce'
    <2>1. UNCHANGED granted
      BY <1>4 DEF acceptorPhase3, historyVars
    <2>2. astate' = astate \/ astate' = [astate EXCEPT ![a] = "PHASE3"]
      BY <1>4 DEF acceptorPhase3
    <2>3. \A b \in Acceptors : astate[b] # "PHASE1" => astate'[b] # "PHASE1"
      BY <2>2
    <2> QED
      BY <1>1, <2>1, <2>3
  <1>5. ASSUME NEW a \in Acceptors, acceptorTimeout(a) PROVE AcceptOnce'
    <2>1. UNCHANGED granted
      BY <1>5 DEF acceptorTimeout, historyVars
    <2>2. \A b \in Acceptors \ ForgetfulAcceptors : astate'[b] = astate[b]
      BY <1>5 DEF acceptorTimeout, ResetByTimer
    <2> QED
      BY <1>1, <2>1, <2>2
  <1>6. ASSUME NEW v \in Voters, NEW a \in Acceptors, voterStep(v, a) \/ acceptorPhase1(v, a)
        PROVE  AcceptOnce'
    BY <1>2, <1>6
    DEF voterStep, voterPhase1, voterPhase2, voterPhase3, acceptorPhase1, acceptorVars, historyVars
  <1>7. ASSUME NEW v \in Voters, finishCommit(v) \/ crash(v) PROVE AcceptOnce'
    BY <1>2, <1>7 DEF finishCommit, crash, acceptorVars, historyVars
  <1>8. ASSUME NEW p \in Proposers, startRecovery(p) \/ voterTimeout(p) PROVE AcceptOnce'
    BY <1>2, <1>8 DEF startRecovery, NewProposal, voterTimeout, acceptorVars
  <1>9. ASSUME NEW r \in Requestors, proposeAcceptorChange(r) PROVE AcceptOnce'
    BY <1>2, <1>9 DEF proposeAcceptorChange, NewProposal, acceptorVars
  <1>10. ASSUME \/ loseHeartbeat
                \/ \E v \in Voters, a \in Acceptors : connectionLost(v, a)
                \/ UNCHANGED vars
         PROVE  AcceptOnce'
    BY <1>2, <1>10 DEF loseHeartbeat, connectionLost, vars, acceptorVars, historyVars
  <1> QED
    BY <1>3, <1>4, <1>5, <1>6, <1>7, <1>8, <1>9, <1>10 DEF Next, acceptorStep

(* All invariants together. *)
LEMMA InvariantHolds ==
    Spec => [](TypeInv /\ CountInv /\ OutcomeInv /\ AcceptOnce)
  <1>1. Init => TypeInv /\ CountInv /\ OutcomeInv /\ AcceptOnce
    <2>1. Init => AcceptOnce
      BY DEF Init, AcceptOnce
    <2> QED
      BY <2>1, TypeInit, CountInit, OutcomeInit
  <1>2. TypeInv /\ CountInv /\ OutcomeInv /\ AcceptOnce /\ [Next]_vars
          => (TypeInv /\ CountInv /\ OutcomeInv /\ AcceptOnce)'
    BY TypeNext, CountNext, OutcomeNext, AcceptOnceNext
  <1> QED
    BY <1>1, <1>2, PTL DEF Spec

(* Two winners would share an acceptor that does not forget. *)
LEMMA MajoritiesShareAcceptor ==
    ASSUME ReliableMajorities, TypeOK, WinnerHasMajority, AcceptOnce
    PROVE  SingleWinner
  <1> SUFFICES ASSUME NEW v \in Winners, NEW w \in Winners PROVE v = w
    BY DEF SingleWinner
  <1>1. /\ v \in Voters /\ w \in Voters
        /\ granted[v] \in SUBSET Acceptors /\ granted[w] \in SUBSET Acceptors
    BY DEF Winners, TypeOK
  <1>2. /\ Cardinality(granted[v]) * 2 > nacceptor
        /\ Cardinality(granted[w]) * 2 > nacceptor
    BY DEF WinnerHasMajority, ReliableMajorities
  <1>3. PICK a \in (granted[v] \cap granted[w]) \ ForgetfulAcceptors : TRUE
    BY <1>1, <1>2 DEF ReliableMajorities
  <1> QED
    BY <1>1, <1>3 DEF AcceptOnce

(* At most one voter wins, if any two majorities of the acceptors share one *)
(* whose 4 second timer does not fire during the vote: then objects are     *)
(* copied to one backup only.  Nothing is assumed of the proposers' timers, *)
(* crashes and connections, nor of how proposals compare.                   *)
THEOREM OneWinner ==
    ASSUME ReliableMajorities
    PROVE  Spec => []SingleWinner
  <1>1. TypeInv /\ CountInv /\ OutcomeInv /\ AcceptOnce => SingleWinner
    BY MajoritiesShareAcceptor DEF TypeInv, CountInv
  <1> QED
    BY <1>1, InvariantHolds, PTL

(* Under the same assumption all machines that know an outcome know the     *)
(* same: every proposer redirects clients of the failed broker to the same  *)
(* backup.                                                                  *)
THEOREM OneOutcome ==
    ASSUME ReliableMajorities
    PROVE  Spec => []Agreement
  <1>1. TypeInv /\ CountInv /\ OutcomeInv /\ AcceptOnce => Agreement
    <2> SUFFICES ASSUME TypeInv, CountInv, OutcomeInv, AcceptOnce PROVE Agreement
      OBVIOUS
    <2>1. SingleWinner
      BY MajoritiesShareAcceptor DEF TypeInv, CountInv
    <2>2. finished \subseteq Winners
      BY OutcomeFacts DEF Winners, TypeInv, TypeOK
    <2>3. \A o, q \in Outcomes : o = q
      BY <2>1, <2>2 DEF SingleWinner, Outcomes
    <2> QED
      BY <2>3, OutcomeFacts DEF Agreement
  <1> QED
    BY <1>1, InvariantHolds, PTL

(* If no acceptor's timer fires, majorities are reliable. *)
THEOREM NoTimerNoDoubt ==
    ASSUME ForgetfulAcceptors = {}, Acceptors # {}
    PROVE  ReliableMajorities
  <1>1. nacceptor # 0
    BY AcceptorsAssumption, FS_EmptySet DEF nacceptor
  <1>2. ASSUME NEW Q \in SUBSET Acceptors, NEW R \in SUBSET Acceptors,
               Cardinality(Q) * 2 > nacceptor, Cardinality(R) * 2 > nacceptor
        PROVE  Q \cap R # {}
    <2>1. /\ Cardinality(Q) \in Nat /\ Cardinality(R) \in Nat /\ nacceptor \in Nat
          /\ nacceptor = Cardinality(Acceptors)
      BY AcceptorsAssumption, FS_Subset, FS_CardinalityType DEF nacceptor
    <2>2. Cardinality(Q) + Cardinality(R) > nacceptor
      BY <1>2, <2>1
    <2> QED
      BY <2>1, <2>2, AcceptorsAssumption, FS_MajoritiesIntersect
  <1> QED
    BY <1>1, <1>2 DEF ReliableMajorities
-----------------------------------------------------------------------------
(* Outcomes are final. *)

(* A machine in PHASE3 has closed its sockets.  A proposer whose address    *)
(* moved carries its recovery out, has an outcome or crashed, and watches   *)
(* the broker no more.                                                      *)
MovedFor(p) == p \notin watching /\ (vstate[p] = "PHASE3" \/ p \in busy \/ p \notin alive)

FinalInv ==
    /\ \A v \in Voters : vstate[v] = "PHASE3" => connected[v] = {}
    /\ \A p \in Proposers : address[p] # FailedBroker => MovedFor(p)

OutcomesKept ==
    /\ \A v \in Voters : vstate[v] = "PHASE3" =>
          vstate'[v] = "PHASE3" /\ vlastcommit'[v] = vlastcommit[v]
    /\ \A a \in Acceptors : astate[a] = "PHASE3" =>
          astate'[a] = "PHASE3" /\ alastcommit'[a] = alastcommit[a]
    /\ \A p \in Proposers : address[p] # FailedBroker => address'[p] = address[p]

(* A step of one voter that has no outcome yet. *)
LEMMA VoterKeepsOutcomes ==
    ASSUME FinalInv, NEW v \in Voters, vstate[v] # "PHASE3",
           UNCHANGED <<alive, astate, alastcommit>>, watching' \subseteq watching,
           \A w \in Voters \ {v} :
              /\ vstate'[w] = vstate[w] /\ vlastcommit'[w] = vlastcommit[w]
              /\ connected'[w] = connected[w] /\ (w \in busy => w \in busy')
              /\ w \in Proposers => address'[w] = address[w],
           vstate'[v] = "PHASE3" => connected'[v] = {},
           v \in Proposers => \/ address[v] = FailedBroker
                              \/ address'[v] = address[v],
           v \in Proposers /\ address'[v] # FailedBroker => MovedFor(v)'
    PROVE  FinalInv' /\ OutcomesKept
  <1>1. Proposers \subseteq Voters
    BY DEF Voters
  <1>2. \A p \in Proposers \ {v} : address'[p] # FailedBroker => MovedFor(p)'
    BY <1>1 DEF FinalInv, MovedFor
  <1>3. FinalInv'
    BY <1>1, <1>2 DEF FinalInv
  <1>4. OutcomesKept
    BY <1>1 DEF OutcomesKept
  <1> QED
    BY <1>3, <1>4

(* Proposing, which wins at once where there is no acceptor to ask. *)
LEMMA NewProposalKeepsOutcomes ==
    ASSUME TypeInv, FinalInv, NEW v \in alive \ busy, vstate[v] = "INITIAL", NEW p,
           NewProposal(v, p), UNCHANGED <<alive, connected, acceptorVars>>,
           watching' \subseteq watching, v \notin watching'
    PROVE  FinalInv' /\ OutcomesKept
  <1>1. v \in Voters /\ (v \in Proposers => address[v] = FailedBroker)
    BY DEF FinalInv, MovedFor, TypeInv, TypeOK
  <1>2. /\ vstate'[v] # "PHASE3" /\ UNCHANGED vlastcommit
        /\ \A w \in Voters \ {v} : vstate'[w] = vstate[w]
    BY <1>1 DEF NewProposal, TypeInv, TypeOK
  <1>3. \/ UNCHANGED <<busy, address>>
        \/ CommitSelf(v, p)
    BY DEF NewProposal
  <1>4. /\ busy \subseteq busy'
        /\ \A w \in Proposers \ {v} : address'[w] = address[w]
        /\ v \in Proposers => address'[v] = address[v] \/ v \in busy'
    BY <1>3 DEF CommitSelf, TypeInv, TypeOK
  <1>5. v \in Proposers /\ address'[v] # FailedBroker => MovedFor(v)'
    BY <1>1, <1>4 DEF MovedFor
  <1> QED
    BY <1>1, <1>2, <1>4, <1>5, VoterKeepsOutcomes DEF acceptorVars

(* Reading from an acceptor takes an open socket. *)
LEMMA ReaderHasNoOutcome ==
    ASSUME TypeInv, CountInv, FinalInv, NEW v \in Voters, NEW a \in Acceptors, NEW types,
           NextFromAcceptor(v, a, types)
    PROVE  /\ v \in alive \ busy /\ vstate[v] # "PHASE3" /\ v \notin watching
           /\ v \in Proposers => address[v] = FailedBroker
  <1>1. v \in alive \ busy /\ vstate[v] # "PHASE3" /\ toVoter[v][a] # <<>>
    BY DEF NextFromAcceptor, FinalInv
  <1>2. v \notin watching
    BY <1>1, HasProposed DEF CountInv, Unproposed
  <1> QED
    BY <1>1, <1>2 DEF FinalInv, MovedFor

(* Counting, winning and learning. *)
LEMMA VoterStepKeepsOutcomes ==
    ASSUME TypeInv, CountInv, FinalInv, NEW v \in Voters, NEW a \in Acceptors, voterStep(v, a)
    PROVE  FinalInv' /\ OutcomesKept
  <1>1. PICK types : NextFromAcceptor(v, a, types)
    BY DEF voterStep, voterPhase1, voterPhase2, voterPhase3, ReceiveFromAcceptor
  <1>2. /\ v \in alive \ busy /\ vstate[v] # "PHASE3" /\ v \notin watching
        /\ v \in Proposers => address[v] = FailedBroker
    BY <1>1, ReaderHasNoOutcome
  <1>3. CASE voterPhase1(v, a)
    <2>1. /\ vstate'[v] # "PHASE3" /\ \A w \in Voters \ {v} : vstate'[w] = vstate[w]
          /\ UNCHANGED <<alive, vlastcommit, connected, watching, busy, address, astate,
                         alastcommit>>
      BY <1>2, <1>3 DEF voterPhase1, programVars, acceptorVars, TypeInv, TypeOK
    <2> QED
      BY <1>2, <2>1, VoterKeepsOutcomes
  <1>4. CASE voterPhase2(v, a)
    <2>1. UNCHANGED <<alive, vstate, vlastcommit, connected, watching, astate, alastcommit>>
      BY <1>4 DEF voterPhase2, acceptorVars
    <2>2. UNCHANGED <<busy, address>> \/ CommitSelf(v, proposal[v])
      BY <1>4 DEF voterPhase2
    <2>3. /\ busy \subseteq busy'
          /\ \A w \in Proposers \ {v} : address'[w] = address[w]
          /\ v \in Proposers => address'[v] = address[v] \/ v \in busy'
      BY <2>2 DEF CommitSelf, TypeInv, TypeOK
    <2>4. v \in Proposers /\ address'[v] # FailedBroker => MovedFor(v)'
      BY <1>2, <2>1, <2>3 DEF MovedFor
    <2> QED
      BY <1>2, <2>1, <2>3, <2>4, VoterKeepsOutcomes
  <1>5. CASE voterPhase3(v, a)
    <2>1. /\ UNCHANGED <<alive, watching, busy, astate, alastcommit>>
          /\ disconnectAcceptors(v)
      BY <1>5 DEF voterPhase3, acceptorVars
    <2>2. /\ vstate'[v] = "PHASE3" /\ connected'[v] = {}
          /\ \A w \in Voters \ {v} : /\ vstate'[w] = vstate[w] /\ vlastcommit'[w] = vlastcommit[w]
                                     /\ connected'[w] = connected[w]
      BY <1>5, <2>1 DEF voterPhase3, disconnectAcceptors, TypeInv, TypeOK
    <2>3. \A w \in Proposers \ {v} : address'[w] = address[w]
      BY <1>5 DEF voterPhase3, TypeInv, TypeOK
    <2>4. MovedFor(v)'
      BY <1>2, <2>1, <2>2 DEF MovedFor
    <2> QED
      BY <1>2, <2>1, <2>2, <2>3, <2>4, VoterKeepsOutcomes
  <1> QED
    BY <1>3, <1>4, <1>5 DEF voterStep

(* Nobody leaves PHASE3, changes what it holds, or moves an address again.  *)
LEMMA FinalNext ==
    TypeInv /\ CountInv /\ FinalInv /\ [Next]_vars => FinalInv' /\ OutcomesKept
  <1> SUFFICES ASSUME TypeInv, CountInv, FinalInv, [Next]_vars
               PROVE  FinalInv' /\ OutcomesKept
    OBVIOUS
  <1>p. Proposers \subseteq Voters /\ Requestors \subseteq Voters
    BY DEF Voters
  <1>1. ASSUME UNCHANGED <<vstate, vlastcommit, address>>, watching' \subseteq watching,
               \A v \in Voters : connected'[v] \subseteq connected[v],
               \A v \in busy : v \in busy' \/ v \notin alive', alive' \subseteq alive,
               \A a \in Acceptors : astate[a] = "PHASE3" =>
                  astate'[a] = "PHASE3" /\ alastcommit'[a] = alastcommit[a]
        PROVE  FinalInv' /\ OutcomesKept
    <2>1. FinalInv'
      BY <1>1 DEF FinalInv, MovedFor
    <2> QED
      BY <1>1, <2>1 DEF OutcomesKept
  <1>2. ASSUME NEW p \in Proposers, startRecovery(p) PROVE FinalInv' /\ OutcomesKept
    <2>1. /\ p \in alive \ busy /\ vstate[p] = "INITIAL"
          /\ watching' \subseteq watching /\ p \notin watching'
          /\ UNCHANGED <<alive, connected, acceptorVars>>
      BY <1>p, <1>2 DEF startRecovery, CountInv, UnproposedIsFresh, Unproposed
    <2>2. PICK b \in Backups[p] : NewProposal(p, RecoveryTo(b))
      BY <1>2 DEF startRecovery
    <2> QED
      BY <2>1, <2>2, NewProposalKeepsOutcomes
  <1>3. ASSUME NEW p \in Proposers, voterTimeout(p) PROVE FinalInv' /\ OutcomesKept
    <2>1. /\ p \in alive \ busy /\ vstate[p] # "PHASE3" /\ vstate'[p] # "PHASE3"
          /\ \A w \in Voters \ {p} : vstate'[w] = vstate[w]
          /\ UNCHANGED <<alive, vlastcommit, connected, watching, busy, address, astate,
                         alastcommit>>
      BY <1>p, <1>3 DEF voterTimeout, programVars, acceptorVars, TypeInv, TypeOK
    <2>2. address[p] = FailedBroker
      BY <2>1 DEF FinalInv, MovedFor
    <2> QED
      BY <1>p, <2>1, <2>2, VoterKeepsOutcomes
  <1>4. ASSUME NEW r \in Requestors, proposeAcceptorChange(r) PROVE FinalInv' /\ OutcomesKept
    <2>1. r \in alive \ busy /\ vstate[r] = "INITIAL" /\ NewProposal(r, NewAcceptors)
          /\ UNCHANGED <<alive, connected, watching, acceptorVars>>
      BY <1>4 DEF proposeAcceptorChange
    <2>2. r \notin watching
      BY VotersAssumption DEF TypeInv, TypeOK
    <2> QED
      BY <2>1, <2>2, NewProposalKeepsOutcomes
  <1>5. ASSUME NEW v \in Voters, finishCommit(v) PROVE FinalInv' /\ OutcomesKept
    <2>1. /\ v \in busy /\ vstate[v] = "PHASE2" /\ busy' = busy \ {v}
          /\ UNCHANGED <<alive, watching, address, astate, alastcommit>>
          /\ disconnectAcceptors(v)
      BY <1>5 DEF finishCommit, acceptorVars, TypeInv, VotingHasProposal
    <2>2. /\ vstate'[v] = "PHASE3" /\ connected'[v] = {}
          /\ \A w \in Voters \ {v} : /\ vstate'[w] = vstate[w] /\ vlastcommit'[w] = vlastcommit[w]
                                     /\ connected'[w] = connected[w]
      BY <1>5, <2>1 DEF finishCommit, disconnectAcceptors, TypeInv, TypeOK
    <2>3. v \in Proposers /\ address'[v] # FailedBroker => MovedFor(v)'
      BY <2>1, <2>2 DEF FinalInv, MovedFor
    <2> QED
      BY <2>1, <2>2, <2>3, VoterKeepsOutcomes
  <1>6. ASSUME NEW S, stopVoters(S), UNCHANGED <<machineVars, watching, address, acceptorVars>>
        PROVE  FinalInv' /\ OutcomesKept
    <2>1. \A v \in Voters : connected'[v] \subseteq connected[v]
      BY <1>6 DEF stopVoters
    <2>2. alive' \subseteq alive /\ \A v \in busy : v \in busy' \/ v \notin alive'
      BY <1>6 DEF stopVoters
    <2> QED
      BY <1>1, <1>6, <2>1, <2>2 DEF machineVars, acceptorVars
  <1>7. ASSUME loseHeartbeat \/ (\E v \in Voters : crash(v)) PROVE FinalInv' /\ OutcomesKept
    <2>1. CASE loseHeartbeat /\ UNCHANGED <<alive, busy, connected, toVoter>>
      BY <1>1, <2>1 DEF loseHeartbeat, machineVars, acceptorVars
    <2>2. CASE loseHeartbeat /\ stopVoters(Requestors)
      BY <1>6, <2>2 DEF loseHeartbeat
    <2>3. CASE \E v \in Voters : crash(v)
      BY <1>6, <2>3 DEF crash
    <2> QED
      BY <1>7, <2>1, <2>2, <2>3 DEF loseHeartbeat
  <1>8. ASSUME NEW a \in Acceptors, acceptorTimeout(a) PROVE FinalInv' /\ OutcomesKept
    <2>1. \A b \in Acceptors : astate[b] = "PHASE3" => astate'[b] = "PHASE3"
      BY <1>8 DEF acceptorTimeout, ResetByTimer, TypeInv, TypeOK
    <2> QED
      BY <1>1, <1>8, <2>1 DEF acceptorTimeout, machineVars, programVars
  <1>9. ASSUME NEW v \in Voters, NEW a \in Acceptors, acceptorStep(v, a)
        PROVE  FinalInv' /\ OutcomesKept
    <2>1. UNCHANGED <<alive, machineVars, connected, programVars>>
      BY <1>9 DEF acceptorStep, acceptorPhase1, acceptorPhase2, acceptorPhase3
    <2>2. \A b \in Acceptors : astate[b] = "PHASE3" =>
             astate'[b] = "PHASE3" /\ alastcommit'[b] = alastcommit[b]
      <3>1. CASE acceptorPhase1(v, a)
        BY <3>1 DEF acceptorPhase1
      <3>2. CASE acceptorPhase2(v, a)
        <4>1. UNCHANGED alastcommit
          BY <3>2 DEF acceptorPhase2
        <4>2. UNCHANGED astate \/ (astate[a] = "PHASE1" /\ astate' = [astate EXCEPT ![a] = "PHASE2"])
          BY <3>2 DEF acceptorPhase2, Accepts
        <4> QED
          BY <4>1, <4>2 DEF TypeInv, TypeOK
      <3>3. CASE acceptorPhase3(v, a)
        BY <3>3 DEF acceptorPhase3, TakesOutcome, TypeInv, TypeOK
      <3> QED
        BY <1>9, <3>1, <3>2, <3>3 DEF acceptorStep
    <2> QED
      BY <1>1, <2>1, <2>2 DEF machineVars, programVars
  <1>10. ASSUME (\E v \in Voters, a \in Acceptors : connectionLost(v, a)) \/ UNCHANGED vars
         PROVE  FinalInv' /\ OutcomesKept
    <2>1. ASSUME NEW v \in Voters, NEW a \in Acceptors, connectionLost(v, a)
          PROVE  \A w \in Voters : connected'[w] \subseteq connected[w]
      <3>1. /\ connected \in [Voters -> SUBSET Acceptors]
            /\ connected' = [connected EXCEPT ![v] = @ \ {a}]
        BY <2>1 DEF connectionLost, TypeInv, TypeOK
      <3> QED
        BY <3>1
    <2>2. UNCHANGED vars => \A w \in Voters : connected'[w] = connected[w]
      BY DEF vars
    <2> QED
      BY <1>1, <1>10, <2>1, <2>2
      DEF connectionLost, vars, machineVars, programVars, acceptorVars
  <1> QED
    BY <1>2, <1>3, <1>4, <1>5, <1>7, <1>8, <1>9, <1>10, VoterStepKeepsOutcomes DEF Next

(* An outcome is final, and so is an address that moved: no timer, repeated *)
(* or late message makes a machine leave PHASE3 or take another outcome,    *)
(* for any set of programs that forget, crash or lose connections.          *)
THEOREM OutcomesAreFinal == Spec => OutcomeIsFinal
  <1>1. Init => FinalInv
    BY DEF Init, FinalInv
  <1>2. TypeInv /\ CountInv /\ FinalInv /\ [Next]_vars => (TypeInv /\ CountInv /\ FinalInv)'
    BY TypeNext, CountNext, FinalNext
  <1>3. TypeInv /\ CountInv /\ FinalInv /\ [Next]_vars => [OutcomesKept]_vars
    BY FinalNext
  <1> QED
    BY <1>1, <1>2, <1>3, TypeInit, CountInit, PTL DEF Spec, OutcomeIsFinal, OutcomesKept
-----------------------------------------------------------------------------
(* Promises rise, because compare is a total order. *)

(* A set of numbers has a least one. *)
LEMMA LeastElement ==
    ASSUME NEW T \in SUBSET Nat, T # {}
    PROVE  \E m \in T : \A k \in T : m <= k
  <1>1. PICK m \in T : \A k \in T : <<k, m>> \notin OpToRel(<, Nat)
    BY NatLessThanWellFounded, WFMin
  <1>2. \A k \in T : ~(k < m)
    BY <1>1 DEF OpToRel
  <1> QED
    BY <1>2

(* Sequences that differ in a position both have: those of equal lengths,   *)
(* and those that begin with their lengths.                                 *)
Aligned(s, t) == Len(s) = Len(t) \/ (Len(s) > 0 /\ Len(t) > 0 /\ s[1] # t[1])

(* Of two that differ one exceeds the other: at the first difference. *)
LEMMA FirstDifferenceDecides ==
    ASSUME NEW s \in Seq(Int), NEW t \in Seq(Int), Aligned(s, t), s # t
    PROVE  FirstDifferenceExceeds(s, t) \/ FirstDifferenceExceeds(t, s)
  <1> DEFINE T == {i \in Nat : i \in DOMAIN s /\ i \in DOMAIN t /\ s[i] # t[i]}
  <1>1. /\ DOMAIN s = 1 .. Len(s) /\ DOMAIN t = 1 .. Len(t)
        /\ Len(s) \in Nat /\ Len(t) \in Nat
        /\ s \in [1 .. Len(s) -> Int] /\ t \in [1 .. Len(t) -> Int]
    BY LenProperties
  <1>2. T # {}
    <2>1. CASE Len(s) = Len(t)
      <3>1. PICK i \in 1 .. Len(s) : s[i] # t[i]
        BY <2>1, SeqEqual
      <3>2. i \in T
        BY <1>1, <2>1, <3>1
      <3> QED
        BY <3>2
    <2>2. CASE Len(s) > 0 /\ Len(t) > 0 /\ s[1] # t[1]
      <3>1. 1 \in T
        BY <1>1, <2>2
      <3> QED
        BY <3>1
    <2> QED
      BY <2>1, <2>2 DEF Aligned
  <1>3. PICK i \in T : \A k \in T : i <= k
    BY <1>2, LeastElement
  <1>4. \A j \in 1 .. i - 1 : s[j] = t[j]
    BY <1>1, <1>3
  <1>5. i \in DOMAIN s \cap DOMAIN t /\ (s[i] > t[i] \/ t[i] > s[i])
    BY <1>1, <1>3
  <1> QED
    BY <1>4, <1>5 DEF FirstDifferenceExceeds

(* Not both exceed each other. *)
LEMMA FirstDifferenceOneWay ==
    ASSUME NEW s \in Seq(Int), NEW t \in Seq(Int), FirstDifferenceExceeds(s, t)
    PROVE  s # t /\ ~FirstDifferenceExceeds(t, s)
  <1>1. /\ DOMAIN s = 1 .. Len(s) /\ DOMAIN t = 1 .. Len(t)
        /\ Len(s) \in Nat /\ Len(t) \in Nat
        /\ s \in [1 .. Len(s) -> Int] /\ t \in [1 .. Len(t) -> Int]
    BY LenProperties
  <1>2. PICK i \in DOMAIN s \cap DOMAIN t : s[i] > t[i] /\ \A j \in 1 .. i - 1 : s[j] = t[j]
    BY DEF FirstDifferenceExceeds
  <1>3. i \in Nat \ {0} /\ s[i] \in Int /\ t[i] \in Int
    BY <1>1
  <1>4. ASSUME NEW k \in DOMAIN t \cap DOMAIN s, t[k] > s[k], \A j \in 1 .. k - 1 : t[j] = s[j]
        PROVE  FALSE
    <2>1. k \in Nat \ {0} /\ s[k] \in Int /\ t[k] \in Int
      BY <1>1
    <2>2. CASE k < i
      BY <1>2, <1>3, <1>4, <2>1, <2>2
    <2>3. CASE i < k
      BY <1>2, <1>3, <1>4, <2>1, <2>3
    <2>4. CASE i = k
      BY <1>2, <1>3, <1>4, <2>1, <2>4
    <2> QED
      BY <1>3, <2>1, <2>2, <2>3, <2>4
  <1> QED
    BY <1>2, <1>3, <1>4 DEF FirstDifferenceExceeds

(* What exceeds one that exceeds a third exceeds the third. *)
LEMMA FirstDifferenceTransitive ==
    ASSUME NEW s \in Seq(Int), NEW t \in Seq(Int), NEW u \in Seq(Int),
           FirstDifferenceExceeds(s, t), FirstDifferenceExceeds(t, u)
    PROVE  FirstDifferenceExceeds(s, u)
  <1>1. /\ DOMAIN s = 1 .. Len(s) /\ DOMAIN t = 1 .. Len(t) /\ DOMAIN u = 1 .. Len(u)
        /\ Len(s) \in Nat /\ Len(t) \in Nat /\ Len(u) \in Nat
        /\ s \in [1 .. Len(s) -> Int] /\ t \in [1 .. Len(t) -> Int] /\ u \in [1 .. Len(u) -> Int]
    BY LenProperties
  <1>2. PICK i \in DOMAIN s \cap DOMAIN t : s[i] > t[i] /\ \A j \in 1 .. i - 1 : s[j] = t[j]
    BY DEF FirstDifferenceExceeds
  <1>3. PICK k \in DOMAIN t \cap DOMAIN u : t[k] > u[k] /\ \A j \in 1 .. k - 1 : t[j] = u[j]
    BY DEF FirstDifferenceExceeds
  <1>4. /\ i \in 1 .. Len(s) /\ i \in 1 .. Len(t) /\ s[i] \in Int /\ t[i] \in Int
        /\ k \in 1 .. Len(t) /\ k \in 1 .. Len(u) /\ t[k] \in Int /\ u[k] \in Int
    BY <1>1
  <1>5. CASE i < k
    <2>1. i \in DOMAIN u /\ t[i] = u[i]
      <3>1. i \in 1 .. k - 1 /\ i \in 1 .. Len(u)
        BY <1>1, <1>4, <1>5
      <3> QED
        BY <1>1, <1>3, <3>1
    <2>2. i \in DOMAIN s \cap DOMAIN u /\ s[i] > u[i]
      BY <1>2, <2>1
    <2>3. \A j \in 1 .. i - 1 : s[j] = u[j]
      BY <1>2, <1>3, <1>4, <1>5
    <2> QED
      BY <2>2, <2>3 DEF FirstDifferenceExceeds
  <1>6. CASE k < i
    <2>1. k \in DOMAIN s /\ s[k] = t[k]
      <3>1. k \in 1 .. i - 1 /\ k \in 1 .. Len(s)
        BY <1>1, <1>4, <1>6
      <3> QED
        BY <1>1, <1>2, <3>1
    <2>2. k \in DOMAIN s \cap DOMAIN u /\ s[k] > u[k]
      BY <1>3, <2>1
    <2>3. \A j \in 1 .. k - 1 : s[j] = u[j]
      BY <1>2, <1>3, <1>4, <1>6
    <2> QED
      BY <2>2, <2>3 DEF FirstDifferenceExceeds
  <1>7. CASE i = k
    <2>1. i \in DOMAIN s \cap DOMAIN u /\ s[i] > u[i]
      <3>1. u[i] \in Int
        BY <1>4, <1>7
      <3> QED
        BY <1>1, <1>2, <1>3, <1>4, <1>7, <3>1
    <2>2. \A j \in 1 .. i - 1 : s[j] = u[j]
      BY <1>2, <1>3, <1>7
    <2> QED
      BY <2>1, <2>2 DEF FirstDifferenceExceeds
  <1> QED
    BY <1>4, <1>5, <1>6, <1>7

(* All proposals of a version whose scores are no negative ints. *)
Hosts == [ip : Nat, port : Nat]
ScoredHosts == [ip : Nat, port : Nat, score : 0 .. HalfRange - 1]
Comparable(v) ==
    {NoProposal}
    \cup {RecoveryProposal(v, f, b) : f \in Hosts, b \in ScoredHosts}
    \cup {AcceptorChangeProposal(v, l) : l \in Seq(Nat)}

(* No proposal is below an acceptor change, and that below a recovery. *)
Rank(p) == CASE p.type = "NOPROPOSAL"             -> 0
             [] p.type = "ACCEPTORCHANGEPROPOSAL" -> 1
             [] p.type = "RECOVERYPROPOSAL"       -> 2

(* A proposal of a type was made by its constructor. *)
LEMMA ProposalKinds ==
    ASSUME NEW v, NEW p \in Comparable(v)
    PROVE  \/ p = NoProposal /\ p.type = "NOPROPOSAL"
           \/ /\ p.type = "ACCEPTORCHANGEPROPOSAL"
              /\ \E l \in Seq(Nat) : p = AcceptorChangeProposal(v, l)
           \/ /\ p.type = "RECOVERYPROPOSAL"
              /\ \E f \in Hosts, b \in ScoredHosts : p = RecoveryProposal(v, f, b)
  BY DEF Comparable, NoProposal, AcceptorChangeProposal, RecoveryProposal

(* getValue keeps the ranks apart and in order. *)
LEMMA RanksAndValues ==
    ASSUME NEW v, NEW p \in Comparable(v), NEW q \in Comparable(v)
    PROVE  /\ Rank(p) \in 0 .. 2 /\ Rank(q) \in 0 .. 2
           /\ Rank(p) = Rank(q) <=> p.type = q.type
           /\ p.type # q.type => (getValue(p) > getValue(q) <=> Rank(p) > Rank(q))
  <1>1. ASSUME NEW r \in Comparable(v)
        PROVE  \/ r.type = "NOPROPOSAL" /\ Rank(r) = 0 /\ getValue(r) = -2
               \/ r.type = "ACCEPTORCHANGEPROPOSAL" /\ Rank(r) = 1 /\ getValue(r) = -1
               \/ r.type = "RECOVERYPROPOSAL" /\ Rank(r) = 2 /\ getValue(r) \in Nat
    <2>1. CASE r.type = "NOPROPOSAL"
      BY <2>1 DEF Rank, getValue
    <2>2. CASE r.type = "ACCEPTORCHANGEPROPOSAL"
      BY <2>2 DEF Rank, getValue
    <2>3. CASE r.type = "RECOVERYPROPOSAL"
      <3>1. PICK f \in Hosts, b \in ScoredHosts : r = RecoveryProposal(v, f, b)
        BY <1>1, <2>3, ProposalKinds
      <3>2. r.score \in 0 .. HalfRange - 1
        BY <3>1 DEF RecoveryProposal, ScoredHosts
      <3>3. AsInt(r.score) \in Nat
        BY <3>2, HalfRangeAssumption DEF AsInt
      <3> QED
        BY <2>3, <3>3 DEF Rank, getValue
    <2> QED
      BY <1>1, <2>1, <2>2, <2>3, ProposalKinds
  <1>2. \/ p.type = "NOPROPOSAL" /\ Rank(p) = 0 /\ getValue(p) = -2
        \/ p.type = "ACCEPTORCHANGEPROPOSAL" /\ Rank(p) = 1 /\ getValue(p) = -1
        \/ p.type = "RECOVERYPROPOSAL" /\ Rank(p) = 2 /\ getValue(p) \in Nat
    BY <1>1
  <1>3. \/ q.type = "NOPROPOSAL" /\ Rank(q) = 0 /\ getValue(q) = -2
        \/ q.type = "ACCEPTORCHANGEPROPOSAL" /\ Rank(q) = 1 /\ getValue(q) = -1
        \/ q.type = "RECOVERYPROPOSAL" /\ Rank(q) = 2 /\ getValue(q) \in Nat
    BY <1>1
  <1> QED
    BY <1>2, <1>3

(* Proposals of one type and version differ in what is compared. *)
LEMMA FieldsTell ==
    ASSUME NEW v, NEW p \in Comparable(v), NEW q \in Comparable(v), p.type = q.type
    PROVE  /\ ComparedFields(p) \in Seq(Int) /\ ComparedFields(q) \in Seq(Int)
           /\ Aligned(ComparedFields(p), ComparedFields(q))
           /\ ComparedFields(p) = ComparedFields(q) => p = q
  <1>1. CASE p.type = "NOPROPOSAL"
    <2>1. p = NoProposal /\ q = NoProposal
      BY <1>1, ProposalKinds
    <2>2. ComparedFields(NoProposal) = <<>>
      BY DEF ComparedFields, NoProposal
    <2> QED
      BY <2>1, <2>2 DEF Aligned
  <1>2. CASE p.type = "ACCEPTORCHANGEPROPOSAL"
    <2>1. PICK k \in Seq(Nat) : p = AcceptorChangeProposal(v, k)
      BY <1>2, ProposalKinds
    <2>2. PICK l \in Seq(Nat) : q = AcceptorChangeProposal(v, l)
      BY <1>2, ProposalKinds
    <2> DEFINE fields(m) == <<Len(m)>> \o m
    <2>3. ComparedFields(p) = fields(k) /\ ComparedFields(q) = fields(l)
      BY <2>1, <2>2 DEF ComparedFields, AcceptorChangeProposal
    <2>4. ASSUME NEW m \in Seq(Nat)
          PROVE  /\ fields(m) \in Seq(Int) /\ Len(fields(m)) = Len(m) + 1 /\ Len(m) \in Nat
                 /\ fields(m)[1] = Len(m)
                 /\ \A i \in 1 .. Len(m) : fields(m)[i + 1] = m[i]
      <3>1. m \in Seq(Int) /\ Len(m) \in Nat
        BY LenProperties
      <3>2. <<Len(m)>> \in Seq(Int) /\ Len(<<Len(m)>>) = 1 /\ <<Len(m)>>[1] = Len(m)
        BY <3>1
      <3>3. /\ fields(m) \in Seq(Int) /\ Len(fields(m)) = 1 + Len(m)
            /\ \A i \in 1 .. 1 + Len(m) :
                 fields(m)[i] = IF i <= 1 THEN <<Len(m)>>[i] ELSE m[i - 1]
        BY <3>1, <3>2, ConcatProperties
      <3> QED
        BY <3>1, <3>2, <3>3
    <2> HIDE DEF fields
    <2>5. Aligned(fields(k), fields(l))
      BY <2>4 DEF Aligned
    <2>6. ASSUME fields(k) = fields(l) PROVE k = l
      <3>1. Len(k) = Len(l)
        BY <2>4, <2>6
      <3>2. \A i \in 1 .. Len(k) : k[i] = l[i]
        <4>1. ASSUME NEW i \in 1 .. Len(k) PROVE k[i] = l[i]
          <5>1. fields(k)[i + 1] = k[i]
            BY <2>4
          <5>2. fields(l)[i + 1] = l[i]
            BY <2>4, <3>1
          <5> QED
            BY <2>6, <5>1, <5>2
        <4> QED
          BY <4>1
      <3> QED
        BY <3>1, <3>2, SeqEqual
    <2> QED
      BY <2>1, <2>2, <2>3, <2>4, <2>5, <2>6
  <1>3. CASE p.type = "RECOVERYPROPOSAL"
    <2> DEFINE fields(r) == <<r.score, r.backupip, r.failip, r.backupport, r.failport>>
    <2>1. PICK f \in Hosts, b \in ScoredHosts : p = RecoveryProposal(v, f, b)
      BY <1>3, ProposalKinds
    <2>2. PICK g \in Hosts, c \in ScoredHosts : q = RecoveryProposal(v, g, c)
      BY <1>3, ProposalKinds
    <2>3. ComparedFields(p) = fields(p) /\ ComparedFields(q) = fields(q)
      BY <1>3 DEF ComparedFields
    <2>4. /\ fields(p) \in Seq(Int) /\ Len(fields(p)) = 5
          /\ fields(q) \in Seq(Int) /\ Len(fields(q)) = 5
      BY <2>1, <2>2, HalfRangeAssumption DEF RecoveryProposal, Hosts, ScoredHosts
    <2>5. fields(p) = fields(q) => p = q
      BY <2>1, <2>2 DEF RecoveryProposal, Hosts, ScoredHosts
    <2> HIDE DEF fields
    <2> QED
      BY <2>3, <2>4, <2>5 DEF Aligned
  <1> QED
    BY <1>1, <1>2, <1>3, ProposalKinds

(* What compare says, in terms of ranks and first differences. *)
LEMMA CompareMeans ==
    ASSUME NEW v, NEW p \in Comparable(v), NEW q \in Comparable(v)
    PROVE  /\ compare(p, q) \in {-1, 0, 1}
           /\ compare(p, q) = 0 <=> p = q
           /\ compare(p, q) > 0 <=>
                \/ Rank(p) > Rank(q)
                \/ /\ p.type = q.type
                   /\ FirstDifferenceExceeds(ComparedFields(p), ComparedFields(q))
  <1>1. CASE p.type # q.type
    BY <1>1, RanksAndValues DEF compare
  <1>2. CASE p.type = q.type
    <2>1. ~(Rank(p) > Rank(q))
      BY <1>2, RanksAndValues
    <2>2. /\ ComparedFields(p) \in Seq(Int) /\ ComparedFields(q) \in Seq(Int)
          /\ ComparedFields(p) = ComparedFields(q) <=> p = q
      BY <1>2, FieldsTell
    <2>3. FirstDifferenceExceeds(ComparedFields(p), ComparedFields(q)) =>
            ComparedFields(p) # ComparedFields(q)
      BY <2>2, FirstDifferenceOneWay
    <2> QED
      BY <1>2, <2>1, <2>2, <2>3 DEF compare
  <1> QED
    BY <1>1, <1>2

(* compare is a total order on the proposals of a version, whatever their   *)
(* addresses and ports and however long their lists of acceptors, as long   *)
(* as scores stay below the sign bit: proposers cannot chase each other     *)
(* round a cycle of promises.                                               *)
THEOREM CompareOrdersAll ==
    ASSUME NEW v, NEW p \in Comparable(v), NEW q \in Comparable(v), NEW r \in Comparable(v)
    PROVE  /\ compare(p, q) = 0 <=> p = q
           /\ compare(p, q) > 0 <=> compare(q, p) < 0
           /\ compare(p, q) > 0 /\ compare(q, r) > 0 => compare(p, r) > 0
  <1>1. compare(p, q) = 0 <=> p = q
    BY CompareMeans
  <1>2. compare(p, q) > 0 <=> compare(q, p) < 0
    <2>1. CASE p.type # q.type
      <3>1. Rank(p) \in 0 .. 2 /\ Rank(q) \in 0 .. 2 /\ Rank(p) # Rank(q) /\ p # q
        BY <2>1, RanksAndValues
      <3>2. compare(p, q) > 0 <=> Rank(p) > Rank(q)
        BY <2>1, CompareMeans
      <3>3. /\ compare(q, p) > 0 <=> Rank(q) > Rank(p)
            /\ compare(q, p) \in {-1, 0, 1} /\ compare(q, p) # 0
        BY <2>1, <3>1, CompareMeans
      <3> QED
        BY <3>1, <3>2, <3>3
    <2>2. CASE p.type = q.type
      <3> DEFINE s == ComparedFields(p)
                 t == ComparedFields(q)
      <3>1. s \in Seq(Int) /\ t \in Seq(Int) /\ Aligned(s, t) /\ (s = t => p = q)
        BY <2>2, FieldsTell
      <3>2. ~(Rank(p) > Rank(q)) /\ ~(Rank(q) > Rank(p))
        BY <2>2, RanksAndValues
      <3>3. compare(p, q) > 0 <=> FirstDifferenceExceeds(s, t)
        BY <2>2, <3>2, CompareMeans
      <3>4. /\ compare(q, p) > 0 <=> FirstDifferenceExceeds(t, s)
            /\ compare(q, p) \in {-1, 0, 1} /\ (compare(q, p) = 0 <=> p = q)
        BY <2>2, <3>2, CompareMeans
      <3> HIDE DEF s, t
      <3>5. p # q => FirstDifferenceExceeds(s, t) \/ FirstDifferenceExceeds(t, s)
        <4>1. s = t => p = q
          BY <3>1
        <4> QED
          BY <3>1, <4>1, FirstDifferenceDecides
      <3>6. FirstDifferenceExceeds(s, t) => ~FirstDifferenceExceeds(t, s)
        BY <3>1, FirstDifferenceOneWay
      <3>7. FirstDifferenceExceeds(s, t) => p # q
        BY <1>1, <3>3
      <3> QED
        BY <3>3, <3>4, <3>5, <3>6, <3>7
    <2> QED
      BY <2>1, <2>2
  <1>3. ASSUME compare(p, q) > 0, compare(q, r) > 0 PROVE compare(p, r) > 0
    <2>1. /\ Rank(p) \in 0 .. 2 /\ Rank(q) \in 0 .. 2 /\ Rank(r) \in 0 .. 2
          /\ Rank(p) = Rank(q) <=> p.type = q.type
          /\ Rank(q) = Rank(r) <=> q.type = r.type
      BY RanksAndValues
    <2>2. /\ Rank(p) > Rank(q) \/ p.type = q.type
          /\ Rank(q) > Rank(r) \/ q.type = r.type
      BY <1>3, CompareMeans
    <2>3. CASE Rank(p) > Rank(r)
      BY <2>3, CompareMeans
    <2>4. CASE ~(Rank(p) > Rank(r))
      <3>1. p.type = q.type /\ q.type = r.type
        BY <2>1, <2>2, <2>4
      <3>2. /\ FirstDifferenceExceeds(ComparedFields(p), ComparedFields(q))
            /\ FirstDifferenceExceeds(ComparedFields(q), ComparedFields(r))
        BY <1>3, <2>1, <3>1, CompareMeans
      <3>3. /\ ComparedFields(p) \in Seq(Int) /\ ComparedFields(q) \in Seq(Int)
            /\ ComparedFields(r) \in Seq(Int)
        BY <3>1, FieldsTell
      <3>4. FirstDifferenceExceeds(ComparedFields(p), ComparedFields(r))
        BY <3>2, <3>3, FirstDifferenceTransitive
      <3> QED
        BY <3>1, <3>4, CompareMeans
    <2> QED
      BY <2>3, <2>4
  <1> QED
    BY <1>1, <1>2, <1>3

(* The proposals of a vote are among them. *)
LEMMA VotedAreComparable ==
    ASSUME NewAcceptorList \in Seq(Nat), FailedBroker.ip \in Nat, FailedBroker.port \in Nat
    PROVE  Proposals \cup {NoProposal} \subseteq Comparable(Version)
  <1>1. ASSUME NEW b \in BackupBrokers PROVE RecoveryTo(b) \in Comparable(Version)
    <2> DEFINE f == [ip |-> FailedBroker.ip, port |-> FailedBroker.port]
               c == [ip |-> b.ip, port |-> b.port, score |-> b.score]
    <2>1. f \in Hosts /\ c \in ScoredHosts
      BY BackupsAssumption DEF Hosts, ScoredHosts
    <2>2. RecoveryTo(b) = RecoveryProposal(Version, f, c)
      BY DEF RecoveryTo, RecoveryProposal
    <2> HIDE DEF f, c
    <2> QED
      BY <2>1, <2>2 DEF Comparable
  <1>2. NewAcceptors \in Comparable(Version)
    BY DEF NewAcceptors, Comparable
  <1> QED
    BY <1>1, <1>2 DEF Proposals, Comparable

(* An acceptor that does not forget replaces its promise by higher ones     *)
(* only, and no more once it accepted, for any proposals.                   *)
THEOREM PromisesRise ==
    ASSUME NewAcceptorList \in Seq(Nat), FailedBroker.ip \in Nat, FailedBroker.port \in Nat
    PROVE  Spec => PromiseOnlyRises
  <1> DEFINE Rises ==
        \A a \in Acceptors \ ForgetfulAcceptors :
          promise'[a] # promise[a] => compare(promise'[a], promise[a]) > 0 /\ astate[a] = "PHASE1"
  <1>1. ASSUME TypeInv, [Next]_vars PROVE Rises
    <2> promise \in [Acceptors -> Proposals \cup {NoProposal}]
      BY <1>1 DEF TypeInv, TypeOK
    <2>1. ASSUME NEW v \in Voters, NEW a \in Acceptors, acceptorPhase1(v, a) PROVE Rises
      <3> DEFINE p == Head(toAcceptor[v][a]).proposal
      <3>1. p \in Proposals
        BY <1>1, <2>1, AcceptorReads DEF acceptorPhase1
      <3>2. \/ UNCHANGED promise
            \/ /\ astate[a] = "PHASE1" /\ ~Outranks(promise[a], p)
               /\ promise' = [promise EXCEPT ![a] = p]
        BY <2>1 DEF acceptorPhase1
      <3> HIDE DEF p
      <3>3. p # promise[a] /\ ~Outranks(promise[a], p) => compare(p, promise[a]) > 0
        <4>1. p \in Comparable(Version) /\ promise[a] \in Comparable(Version)
          BY <3>1, VotedAreComparable
        <4>2. /\ compare(promise[a], p) \in {-1, 0, 1}
              /\ compare(promise[a], p) = 0 <=> p = promise[a]
          BY <4>1, CompareMeans
        <4>3. compare(p, promise[a]) > 0 <=> compare(promise[a], p) < 0
          BY <4>1, CompareOrdersAll
        <4> QED
          BY <4>2, <4>3 DEF Outranks
      <3> QED
        BY <3>2, <3>3
    <2>2. ASSUME NEW a \in Acceptors, acceptorTimeout(a) PROVE Rises
      BY <2>2 DEF acceptorTimeout
    <2>3. ASSUME UNCHANGED promise PROVE Rises
      BY <2>3
    <2>4. ASSUME NEW v \in Voters, NEW a \in Acceptors,
                 voterStep(v, a) \/ acceptorPhase2(v, a) \/ acceptorPhase3(v, a)
          PROVE  UNCHANGED promise
      BY <2>4 DEF voterStep, voterPhase1, voterPhase2, voterPhase3, acceptorPhase2,
                  acceptorPhase3, acceptorVars
    <2>5. ASSUME NEW v \in Voters, finishCommit(v) \/ crash(v) PROVE UNCHANGED promise
      BY <2>5 DEF finishCommit, crash, acceptorVars
    <2>6. ASSUME NEW q \in Proposers, startRecovery(q) \/ voterTimeout(q) PROVE UNCHANGED promise
      BY <2>6 DEF startRecovery, voterTimeout, acceptorVars
    <2>7. ASSUME NEW r \in Requestors, proposeAcceptorChange(r) PROVE UNCHANGED promise
      BY <2>7 DEF proposeAcceptorChange, acceptorVars
    <2>8. ASSUME \/ loseHeartbeat
                 \/ \E v \in Voters, a \in Acceptors : connectionLost(v, a)
                 \/ UNCHANGED vars
          PROVE  UNCHANGED promise
      BY <2>8 DEF loseHeartbeat, connectionLost, vars, acceptorVars
    <2> HIDE DEF Rises
    <2> QED
      BY <1>1, <2>1, <2>2, <2>3, <2>4, <2>5, <2>6, <2>7, <2>8 DEF Next, acceptorStep
  <1>2. TypeInv /\ [Next]_vars => [Rises]_vars
    BY <1>1
  <1> QED
    BY <1>2, TypeInit, TypeNext, PTL DEF Spec, PromiseOnlyRises
-----------------------------------------------------------------------------
(* What programs make can be compared. *)
LEMMA MadeIsComparable == ASSUME NEW p, IsMade(p) PROVE p \in Comparable(Version)
  <1>1. CASE p = NoProposal
    BY <1>1 DEF Comparable
  <1>2. CASE p.type = "ACCEPTORCHANGEPROPOSAL"
    <2>1. p = AcceptorChangeProposal(Version, p.acceptor) /\ p.acceptor \in Seq(Nat)
      BY <1>2 DEF IsMade, NoProposal
    <2> QED
      BY <2>1 DEF Comparable
  <1>3. CASE p.type = "RECOVERYPROPOSAL"
    <2> DEFINE f == [ip |-> p.failip, port |-> p.failport]
               b == [ip |-> p.backupip, port |-> p.backupport, score |-> p.score]
    <2>1. p = RecoveryProposal(Version, f, b) /\ f \in Hosts /\ b \in ScoredHosts
      BY <1>3 DEF IsMade, NoProposal, Hosts, ScoredHosts
    <2> HIDE DEF f, b
    <2> QED
      BY <2>1 DEF Comparable
  <1> QED
    BY <1>1, <1>2, <1>3 DEF IsMade

(* The property of the run, for any set of proposals that programs make:    *)
(* however many fields tie and whatever types meet, acceptors never have    *)
(* three proposals each of which outranks the next (compare).               *)
THEOREM OrderIsTotal == Spec => []CompareIsTotalOrder
  <1>1. CompareIsTotalOrder
    <2> SUFFICES ASSUME NEW x \in Compared, NEW y \in Compared, NEW z \in Compared
                 PROVE  /\ (compare(x, y) = 0) <=> (x = y)
                        /\ compare(x, y) > 0 <=> compare(y, x) < 0
                        /\ compare(x, y) > 0 /\ compare(y, z) > 0 => compare(x, z) > 0
      BY DEF CompareIsTotalOrder
    <2>1. /\ x \in Comparable(Version) /\ y \in Comparable(Version)
          /\ z \in Comparable(Version)
      BY ComparedAssumption, MadeIsComparable
    <2> QED
      BY <2>1, CompareOrdersAll
  <1> QED
    BY <1>1, PTL
-----------------------------------------------------------------------------
(* Only a timer makes a proposer give up. *)

(* The comment where the proposer's timer loop skips a broker without       *)
(* heartbeat client, ``proposing or recovered'', is true if no proposer's   *)
(* voting timer fires: crashes, lost connections, forgetful acceptors and   *)
(* outcomes of others never leave it idle.                                  *)
THEOREM OnlyTimersGiveUp ==
    ASSUME ImpatientProposers = {}
    PROVE  Spec => []ProposingOrRecovered
  <1>1. Init => ProposingOrRecovered
    BY DEF Init, ProposingOrRecovered
  <1>2. TypeInv /\ ProposingOrRecovered /\ [Next]_vars => ProposingOrRecovered'
    <2> SUFFICES ASSUME TypeInv, ProposingOrRecovered, [Next]_vars PROVE ProposingOrRecovered'
      OBVIOUS
    <2>0. vstate \in [Voters -> VoterStates]
      BY DEF TypeInv, TypeOK
    <2>1. ASSUME alive' \subseteq alive, UNCHANGED <<watching, vstate>>
          PROVE  ProposingOrRecovered'
      BY <2>1 DEF ProposingOrRecovered
    <2>2. ASSUME NEW v \in Voters, NEW s \in {"PHASE1", "PHASE2", "PHASE3"},
                 vstate' = [vstate EXCEPT ![v] = s], UNCHANGED <<alive, watching>>
          PROVE  ProposingOrRecovered'
      BY <2>0, <2>2 DEF ProposingOrRecovered, Voters
    <2>3. ASSUME NEW p \in Proposers, startRecovery(p) PROVE ProposingOrRecovered'
      <3>1. \E s \in {"PHASE1", "PHASE2"} : vstate' = [vstate EXCEPT ![p] = s]
        BY <2>3 DEF startRecovery, NewProposal
      <3>2. alive' = alive /\ watching' = watching \ {p}
        BY <2>3 DEF startRecovery
      <3> QED
        BY <2>0, <3>1, <3>2 DEF ProposingOrRecovered, Voters
    <2>4. ASSUME NEW r \in Requestors, proposeAcceptorChange(r) PROVE ProposingOrRecovered'
      <3>1. \E s \in {"PHASE1", "PHASE2"} : vstate' = [vstate EXCEPT ![r] = s]
        BY <2>4 DEF proposeAcceptorChange, NewProposal
      <3> QED
        BY <2>2, <2>4, <3>1 DEF proposeAcceptorChange, Voters
    <2>5. ASSUME NEW v \in Voters, NEW a \in Acceptors, voterStep(v, a)
          PROVE  ProposingOrRecovered'
      BY <2>1, <2>2, <2>5 DEF voterStep, voterPhase1, voterPhase2, voterPhase3, programVars
    <2>6. ASSUME NEW v \in Voters, finishCommit(v) \/ crash(v) PROVE ProposingOrRecovered'
      BY <2>1, <2>2, <2>6 DEF finishCommit, crash, stopVoters, machineVars
    <2>7. ASSUME NEW v \in Voters, NEW a \in Acceptors, acceptorStep(v, a) \/ connectionLost(v, a)
          PROVE  ProposingOrRecovered'
      BY <2>1, <2>7 DEF acceptorStep, acceptorPhase1, acceptorPhase2, acceptorPhase3,
                        connectionLost, machineVars, programVars
    <2>8. ASSUME loseHeartbeat \/ (\E a \in Acceptors : acceptorTimeout(a)) \/ UNCHANGED vars
          PROVE  ProposingOrRecovered'
      BY <2>1, <2>8 DEF loseHeartbeat, acceptorTimeout, stopVoters, vars, machineVars, programVars
    <2>9. \A p \in Proposers : ~voterTimeout(p)
      BY DEF voterTimeout
    <2> QED
      BY <2>3, <2>4, <2>5, <2>6, <2>7, <2>8, <2>9 DEF Next
  <1> QED
    BY <1>1, <1>2, TypeInit, TypeNext, PTL DEF Spec
=============================================================================
