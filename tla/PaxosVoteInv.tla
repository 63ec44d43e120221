-------------------------- MODULE PaxosVoteInv --------------------------
(***************************************************************************)
(* The inductive invariant of PaxosVote.  TLC checks it on small instances *)
(* (it adds nothing to the states reached), PaxosVoteProofs proves it.     *)
(***************************************************************************)
EXTENDS PaxosVote

CONSTANT Compared   \* proposals of this version whose order is checked

(* The proposals that programs make: addresses and ports are numbers, and a *)
(* score read as an int is not negative.                                    *)
IsMade(p) ==
    \/ p = NoProposal
    \/ /\ p.type = "ACCEPTORCHANGEPROPOSAL"
       /\ p = AcceptorChangeProposal(Version, p.acceptor) /\ p.acceptor \in Seq(Nat)
    \/ /\ p.type = "RECOVERYPROPOSAL"
       /\ p = RecoveryProposal(Version, [ip |-> p.failip, port |-> p.failport],
                 [ip |-> p.backupip, port |-> p.backupport, score |-> p.score])
       /\ {p.failip, p.failport, p.backupip, p.backupport} \subseteq Nat
       /\ p.score \in 0 .. HalfRange - 1

ASSUME ComparedAssumption == \A p \in Compared : IsMade(p)

(* The acceptors' order is a total one: exactly one of two different        *)
(* proposals outranks the other and outranking is transitive, across types, *)
(* so that competing proposers cannot chase each other round a cycle of     *)
(* promises (compare() of the three proposal classes).  It is asked once,   *)
(* before anybody proposes, for all that might be proposed.                 *)
CompareIsTotalOrder ==
    (\A v \in Voters : proposal[v] = NoProposal) => \A x, y, z \in Compared :
        /\ (compare(x, y) = 0) <=> (x = y)
        /\ compare(x, y) > 0 <=> compare(y, x) < 0
        /\ compare(x, y) > 0 /\ compare(y, z) > 0 => compare(x, z) > 0
-----------------------------------------------------------------------------
(* The messages in a queue, in any order. *)
Contents(q) == {q[i] : i \in 1 .. Len(q)}

Holds(q, t) == \E m \in Contents(q) : m.type = t

AtMostOne(q, t) ==
    \A i, j \in 1 .. Len(q) : q[i].type = t /\ q[j].type = t => i = j
-----------------------------------------------------------------------------
(* Types: what a voting machine proposes and what a commit message carries  *)
(* are real proposals.                                                      *)

OwnProposals(v) ==
    IF v \in Proposers THEN {RecoveryTo(b) : b \in BackupBrokers} ELSE {NewAcceptors}

VotingHasProposal ==
    /\ \A v \in Voters : vstate[v] \in {"PHASE1", "PHASE2"} => proposal[v] \in OwnProposals(v)
    /\ \A v \in busy : vstate[v] = "PHASE2"

MessagesCarryProposals ==
    \A v \in Voters, a \in Acceptors :
        /\ \A m \in Contents(toAcceptor[v][a]) : m.proposal \in Proposals
        /\ \A m \in Contents(toVoter[v][a]) :
             m.type = "PHASE3COMMIT" => m.proposal \in Proposals

CommittedHasProposal ==
    \A a \in Acceptors : astate[a] = "PHASE3" => alastcommit[a] \in Proposals

TypeInv == TypeOK /\ VotingHasProposal /\ MessagesCarryProposals /\ CommittedHasProposal
-----------------------------------------------------------------------------
(* Counting.  A voter proposes at most once, because it gives up what lets  *)
(* it propose; so it asks each acceptor at most once for phase 2, is        *)
(* acknowledged at most once by each, and its counter, which knows nothing  *)
(* of acceptors, is the number of different acceptors that accepted.        *)

Unproposed(v) == v \in watching \/ (v \in Requestors /\ vstate[v] = "INITIAL")

UnproposedIsFresh ==
    \A v \in Voters : Unproposed(v) =>
        /\ vstate[v] = "INITIAL"
        /\ \A a \in Acceptors : toAcceptor[v][a] = <<>> /\ toVoter[v][a] = <<>>

(* v has not asked for phase 2 yet. *)
BeforePhase2(v) == Unproposed(v) \/ vstate[v] = "PHASE1"

NothingGrantedBefore ==
    \A v \in Voters : BeforePhase2(v) =>
        /\ granted[v] = {}
        /\ \A a \in Acceptors : ~Holds(toAcceptor[v][a], "PHASE2REQUEST")

OneRequest ==
    \A v \in Voters, a \in Acceptors :
        /\ AtMostOne(toAcceptor[v][a], "PHASE2REQUEST")
        /\ Holds(toAcceptor[v][a], "PHASE2REQUEST") => a \notin granted[v]

OneAck ==
    \A v \in Voters, a \in Acceptors :
        /\ AtMostOne(toVoter[v][a], "PHASE2ACK")
        /\ Holds(toVoter[v][a], "PHASE2ACK") => a \in granted[v] \ counted[v]

CountIsExact ==
    \A v \in Voters :
        /\ counted[v] \subseteq granted[v]
        /\ phase2ack[v] = Cardinality(counted[v])

CountInv ==
    /\ UnproposedIsFresh /\ NothingGrantedBefore
    /\ OneRequest /\ OneAck /\ CountIsExact
    /\ WinnerHasMajority
-----------------------------------------------------------------------------
(* Outcomes.  What spreads is what a finished winner decided. *)

Outcomes == {decision[v] : v \in finished}

OutcomesSpread ==
    /\ \A v \in busy : decision[v] = proposal[v]
    /\ \A v \in finished : vstate[v] = "PHASE3" /\ decision[v] # NoProposal
    /\ \A v \in Voters, a \in Acceptors :
         /\ \A m \in Contents(toAcceptor[v][a]) :
              m.type = "PHASE3COMMIT" => m.proposal \in Outcomes
         /\ \A m \in Contents(toVoter[v][a]) :
              m.type = "PHASE3COMMIT" => m.proposal \in Outcomes

OutcomeInv == OutcomesSpread /\ OutcomeIsFinishedDecision
-----------------------------------------------------------------------------
(* Acceptance.  An acceptor that does not forget accepts one voter only.    *)
(* With proposals that compare equal the promise alone would not ensure     *)
(* this: two proposers with the same backup outrank each other no more.     *)

AcceptOnce ==
    \A a \in Acceptors \ ForgetfulAcceptors :
        /\ \A v \in Voters : a \in granted[v] => astate[a] # "PHASE1"
        /\ \A v, w \in Voters : a \in granted[v] /\ a \in granted[w] => v = w

(* Any two majorities share an acceptor that does not forget. *)
ReliableMajorities ==
    /\ nacceptor # 0
    /\ \A Q, R \in SUBSET Acceptors :
         Cardinality(Q) * 2 > nacceptor /\ Cardinality(R) * 2 > nacceptor
            => (Q \cap R) \ ForgetfulAcceptors # {}

(* A winner is carrying its proposal out, or did, or crashed: it never      *)
(* votes again.                                                             *)
WinnerActs == \A v \in Winners : v \in busy \/ v \in finished \/ v \notin alive

(* The conjunction TLC checks. *)
InductiveInvariant == TypeInv /\ CountInv /\ OutcomeInv /\ AcceptOnce /\ WinnerActs
=============================================================================
