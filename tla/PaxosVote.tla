---------------------------- MODULE PaxosVote ----------------------------
(***************************************************************************)
(* One vote of QpidR: the proposers that watch one broker, the requestor   *)
(* that runs beside it, and the acceptors of the last committed acceptor   *)
(* list, all in one voting version.                                        *)
(*                                                                         *)
(* ProposerStateMachine and AcceptorStateMachine are in paxos.cpp; the     *)
(* programs that drive them are proposer.cpp (and the landmark, the same   *)
(* source built for an empty acceptor list), requestor.cpp and             *)
(* acceptor.cpp.  Each program is one thread around one select loop, so a  *)
(* handler is one atomic step, with one exception: a voter that won the    *)
(* vote blocks (a proposer in RecoveryManager::copyObjects, a requestor in *)
(* changeAcceptor) before it sends its commitment.  Winning and finishing  *)
(* are two steps here, and the rest of the system runs between them.       *)
(*                                                                         *)
(* A voter has one TCP connection per acceptor: two FIFO queues.  Messages *)
(* carry no proposal number; acknowledgements carry no proposal at all.    *)
(* The voting version is fixed: what the version tests of handleMessage do *)
(* when machines disagree about it is not part of this module.             *)
(***************************************************************************)
EXTENDS Proposal, FiniteSets

CONSTANTS
    Proposers,           \* voters that propose a recovery
    Requestors,          \* voters that propose a new acceptor list (at most one in the code)
    Acceptors,           \* the committed acceptor list; empty in centralized mode
    ForgetfulAcceptors,  \* acceptors whose 4 second timer may fire
    ImpatientProposers,  \* proposers whose 4 second timer may fire
    LossyAcceptors,      \* acceptors whose connections may fail or never open
    CrashingVoters,      \* voters that may crash
    Version,             \* the voting version
    FailedBroker,        \* [ip, port] of the watched broker
    Backups,             \* Backups[p]: the [ip, port, score] proposer p's list may start with
    NewAcceptorList      \* the list the requestor proposes

Voters == Proposers \cup Requestors

(* The parties are different programs. *)
ASSUME VotersAssumption ==
    Proposers \cap Requestors = {} /\ Voters \cap Acceptors = {}
ASSUME AcceptorsAssumption == IsFiniteSet(Acceptors)

BackupBrokers == UNION {Backups[p] : p \in Proposers}

(* Scores are small (namelist.cpp gives each broker 100): read as an int     *)
(* none is negative.                                                        *)
ASSUME BackupsAssumption ==
    \A b \in BackupBrokers : b.ip \in Nat /\ b.port \in Nat /\ b.score \in 0 .. HalfRange - 1

RecoveryTo(b) == RecoveryProposal(Version, FailedBroker, b)
NewAcceptors == AcceptorChangeProposal(Version, NewAcceptorList)
CommittedAcceptors == AcceptorChangeProposal(Version - 1, <<>>)  \* its list is not used here
Proposals == {RecoveryTo(b) : b \in BackupBrokers} \cup {NewAcceptors}

Addresses == {FailedBroker} \cup {[ip |-> b.ip, port |-> b.port] : b \in BackupBrokers}

MessageTypes == {"PHASE1PROPOSAL", "PHASE1ACK", "PHASE1NACK", "PHASE2REQUEST",
                 "PHASE2ACK", "PHASE2NACK", "PHASE3COMMIT"}
Messages == [type : MessageTypes, proposal : Proposals \cup {NoProposal}]
HeaderProposal(t, p) == [type |-> t, proposal |-> p]
Header(t) == [type |-> t, proposal |-> NoProposal]

VARIABLES
    heartbeat,   \* do the broker's heartbeats still arrive?
    alive,       \* the voters that have not crashed
    \* ProposerStateMachine, one per voter
    vstate, proposal, phase1ack, phase2ack, vlastcommit,
    connected,   \* connected[v]: the acceptors v holds a working socket to (accsfd)
    \* the program around the machine
    watching,    \* proposers with a heartbeat client (hbc # NULL)
    busy,        \* voters blocked between winning and sendCommitment
    address,     \* address[p]: where proposer p says the service is (mon.ip, mon.port)
    \* AcceptorStateMachine, one per acceptor
    astate, promise, alastcommit,
    \* the connections
    toAcceptor, toVoter,
    \* history: no step of the code reads it
    granted,     \* granted[v]: the acceptors that accepted v's phase 2 request
    counted,     \* counted[v]: the acceptors whose phase 2 acknowledgement v counted
    decision,    \* decision[v]: the proposal v won with
    finished     \* the voters that sent their commitment

machineVars  == <<vstate, proposal, phase1ack, phase2ack, vlastcommit>>
programVars  == <<watching, busy, address>>
acceptorVars == <<astate, promise, alastcommit>>
historyVars  == <<granted, counted, decision, finished>>
vars == <<heartbeat, alive, machineVars, connected, programVars, acceptorVars,
          toAcceptor, toVoter, historyVars>>

VoterStates == {"INITIAL", "PHASE1", "PHASE2", "PHASE3"}
AcceptorStates == {"PHASE1", "PHASE2", "PHASE3"}

TypeOK ==
    /\ heartbeat \in BOOLEAN
    /\ alive \subseteq Voters
    /\ vstate \in [Voters -> VoterStates]
    /\ proposal \in [Voters -> Proposals \cup {NoProposal}]
    /\ phase1ack \in [Voters -> Nat]
    /\ phase2ack \in [Voters -> Nat]
    /\ vlastcommit \in [Voters -> Proposals \cup {CommittedAcceptors}]
    /\ connected \in [Voters -> SUBSET Acceptors]
    /\ watching \subseteq Proposers
    /\ busy \subseteq alive
    /\ address \in [Proposers -> Addresses]
    /\ astate \in [Acceptors -> AcceptorStates]
    /\ promise \in [Acceptors -> Proposals \cup {NoProposal}]
    /\ alastcommit \in [Acceptors -> Proposals \cup {CommittedAcceptors}]
    /\ toAcceptor \in [Voters -> [Acceptors -> Seq(Messages)]]
    /\ toVoter \in [Voters -> [Acceptors -> Seq(Messages)]]
    /\ granted \in [Voters -> SUBSET Acceptors]
    /\ counted \in [Voters -> SUBSET Acceptors]
    /\ decision \in [Voters -> Proposals \cup {NoProposal}]
    /\ finished \subseteq Voters

(* The constructors of the machines and Monitored: every proposer watches   *)
(* the broker, nobody has proposed, and a connection to a lossy acceptor    *)
(* may have failed to open.                                                 *)
Init ==
    /\ heartbeat = TRUE
    /\ alive = Voters
    /\ vstate = [v \in Voters |-> "INITIAL"]
    /\ proposal = [v \in Voters |-> NoProposal]
    /\ phase1ack = [v \in Voters |-> 0]
    /\ phase2ack = [v \in Voters |-> 0]
    /\ vlastcommit = [v \in Voters |-> CommittedAcceptors]
    /\ connected \in [Voters -> {S \in SUBSET Acceptors : Acceptors \ LossyAcceptors \subseteq S}]
    /\ watching = Proposers
    /\ busy = {}
    /\ address = [p \in Proposers |-> FailedBroker]
    /\ astate = [a \in Acceptors |-> "PHASE1"]
    /\ promise = [a \in Acceptors |-> NoProposal]
    /\ alastcommit = [a \in Acceptors |-> CommittedAcceptors]
    /\ toAcceptor = [v \in Voters |-> [a \in Acceptors |-> <<>>]]
    /\ toVoter = [v \in Voters |-> [a \in Acceptors |-> <<>>]]
    /\ granted = [v \in Voters |-> {}]
    /\ counted = [v \in Voters |-> {}]
    /\ decision = [v \in Voters |-> NoProposal]
    /\ finished = {}
-----------------------------------------------------------------------------
nacceptor == Cardinality(Acceptors)

(* Faults a change to the code could introduce, each a variant of one       *)
(* definition below.  The specification uses none of them: the README says  *)
(* which property notices which.                                            *)
MajorityRoundedDown(n) == n >= nacceptor \div 2
MajorityMeansAll(n) == n = nacceptor
ProposalAlreadyReset(v) == NoProposal
OutranksNothing(p, q) == FALSE
AcceptsTwice(a, p) == astate[a] # "PHASE3" /\ compare(promise[a], p) = 0
AnswersWhenAccepted(a) == astate[a] # "PHASE1"
TakesOutcomeIfAccepted(a) == astate[a] = "PHASE2"
TimesOutInEveryState(a) == astate' = [astate EXCEPT ![a] = "PHASE1"]
-----------------------------------------------------------------------------
(* The connections. *)

(* v writes m to every socket that works. *)
SendAll(v, m) ==
    toAcceptor' = [toAcceptor EXCEPT ![v] =
        [a \in Acceptors |-> IF a \in connected[v] THEN Append(toAcceptor[v][a], m)
                                                  ELSE toAcceptor[v][a]]]

ReceiveFromVoter(v, a, t) ==
    /\ toAcceptor[v][a] # <<>>
    /\ Head(toAcceptor[v][a]).type = t
    /\ toAcceptor' = [toAcceptor EXCEPT ![v][a] = Tail(@)]

(* An acceptor's answer is lost when the voter has closed its end. *)
Reply(v, a, m) ==
    toVoter' = IF a \in connected[v] THEN [toVoter EXCEPT ![v][a] = Append(@, m)]
                                     ELSE toVoter

(* v's program reads a message of one of the types from a; it reads nothing *)
(* while it is busy.                                                        *)
NextFromAcceptor(v, a, types) ==
    /\ v \in alive \ busy
    /\ a \in connected[v]
    /\ toVoter[v][a] # <<>>
    /\ Head(toVoter[v][a]).type \in types

ReceiveFromAcceptor(v, a, types) ==
    /\ NextFromAcceptor(v, a, types)
    /\ toVoter' = [toVoter EXCEPT ![v][a] = Tail(@)]

(* v closes every socket: what it has not read yet is gone, what it has     *)
(* written is still delivered.                                              *)
disconnectAcceptors(v) ==
    /\ connected' = [connected EXCEPT ![v] = {}]
    /\ toVoter' = [toVoter EXCEPT ![v] = [a \in Acceptors |-> <<>>]]
-----------------------------------------------------------------------------
(* ProposerStateMachine and the programs around it. *)

(* Enough acknowledgements: more than half, or no acceptor to ask. *)
Majority(n) == n * 2 > nacceptor \/ nacceptor = 0

(* The winner's program takes the proposal as committed: a proposer sets    *)
(* the service's address and starts copying objects, a requestor starts     *)
(* telling machines about the new acceptors.                                *)
CommitSelf(v, p) ==
    /\ busy' = busy \cup {v}
    /\ decision' = [decision EXCEPT ![v] = p]
    /\ address' = IF v \in Proposers
                  THEN [address EXCEPT ![v] = [ip |-> p.backupip, port |-> p.backupport]]
                  ELSE address

(* newProposal, and handleCommit when there is no acceptor to ask. *)
NewProposal(v, p) ==
    /\ proposal' = [proposal EXCEPT ![v] = p]
    /\ SendAll(v, HeaderProposal("PHASE1PROPOSAL", p))
    /\ IF nacceptor # 0
       THEN /\ vstate' = [vstate EXCEPT ![v] = "PHASE1"]
            /\ UNCHANGED <<busy, decision, address>>
       ELSE /\ vstate' = [vstate EXCEPT ![v] = "PHASE2"]
            /\ CommitSelf(v, p)
    /\ UNCHANGED <<phase1ack, phase2ack, vlastcommit, granted, counted, finished>>

(* A proposer misses the heartbeats: it gives up its heartbeat client and   *)
(* proposes to replace the broker by a backup of its own list.              *)
startRecovery(p) ==
    /\ ~heartbeat
    /\ p \in alive \ busy
    /\ p \in watching
    /\ watching' = watching \ {p}
    /\ \E b \in Backups[p] : NewProposal(p, RecoveryTo(b))
    /\ UNCHANGED <<heartbeat, alive, connected, acceptorVars, toVoter>>

(* The requestor proposes a new acceptor list, unless it is changing one:   *)
(* ischangingacceptor is false as long as its machine is in INITIAL.        *)
proposeAcceptorChange(r) ==
    /\ r \in Requestors \cap (alive \ busy)
    /\ vstate[r] = "INITIAL"
    /\ NewProposal(r, NewAcceptors)
    /\ UNCHANGED <<heartbeat, alive, connected, watching, acceptorVars, toVoter>>

(* handlePhase1Message: count an acknowledgement in PHASE1, ask for phase 2 *)
(* once they are a majority.  Rejections are counted for the log only.      *)
voterPhase1(v, a) ==
    /\ ReceiveFromAcceptor(v, a, {"PHASE1ACK", "PHASE1NACK"})
    /\ IF vstate[v] = "PHASE1" /\ Head(toVoter[v][a]).type = "PHASE1ACK"
       THEN /\ phase1ack' = [phase1ack EXCEPT ![v] = @ + 1]
            /\ IF Majority(phase1ack[v] + 1)
               THEN /\ SendAll(v, HeaderProposal("PHASE2REQUEST", proposal[v]))
                    /\ vstate' = [vstate EXCEPT ![v] = "PHASE2"]
               ELSE UNCHANGED <<toAcceptor, vstate>>
       ELSE UNCHANGED <<phase1ack, toAcceptor, vstate>>
    /\ UNCHANGED <<heartbeat, alive, proposal, phase2ack, vlastcommit, connected,
                   programVars, acceptorVars, historyVars>>

(* handlePhase2Message: count an acknowledgement in PHASE2, win once they   *)
(* are a majority.                                                          *)
voterPhase2(v, a) ==
    /\ ReceiveFromAcceptor(v, a, {"PHASE2ACK", "PHASE2NACK"})
    /\ IF vstate[v] = "PHASE2" /\ Head(toVoter[v][a]).type = "PHASE2ACK"
       THEN /\ phase2ack' = [phase2ack EXCEPT ![v] = @ + 1]
            /\ counted' = [counted EXCEPT ![v] = @ \cup {a}]
            /\ IF Majority(phase2ack[v] + 1)
               THEN CommitSelf(v, proposal[v])
               ELSE UNCHANGED <<busy, decision, address>>
       ELSE UNCHANGED <<phase2ack, counted, busy, decision, address>>
    /\ UNCHANGED <<heartbeat, alive, vstate, proposal, phase1ack, vlastcommit, connected,
                   watching, acceptorVars, toAcceptor, granted, finished>>

(* handlePhase3Message, and handleCommit for COMMITTING_OTHER: v learns an  *)
(* outcome from an acceptor.  A proposer moves the service's address if the *)
(* outcome is a recovery.  If it is an acceptor change its machine is       *)
(* replaced by one of the next version: here it rests in PHASE3.  The       *)
(* requestor only takes over the outcome's version, which is not tracked    *)
(* here, and reports an error.  A machine in PHASE3 has closed its sockets, *)
(* so what the handlers do in PHASE3 has no counterpart.                    *)
voterPhase3(v, a) ==
    /\ NextFromAcceptor(v, a, {"PHASE3COMMIT"})
    /\ LET p == Head(toVoter[v][a]).proposal IN
         /\ vstate' = [vstate EXCEPT ![v] = "PHASE3"]
         /\ vlastcommit' = [vlastcommit EXCEPT ![v] = p]
         /\ address' = IF v \in Proposers /\ p.type = "RECOVERYPROPOSAL"
                       THEN [address EXCEPT ![v] = [ip |-> p.backupip, port |-> p.backupport]]
                       ELSE address
    /\ disconnectAcceptors(v)
    /\ UNCHANGED <<heartbeat, alive, proposal, phase1ack, phase2ack, watching, busy,
                   acceptorVars, toAcceptor, historyVars>>

(* sendCommitment takes the proposal before it puts a NoProposal in place.  *)
CommittingProposal(v) == proposal[v]

(* The copy (or the acceptor change) is done: sendCommitment tells every    *)
(* acceptor, and commit closes the sockets.                                 *)
finishCommit(v) ==
    /\ v \in busy
    /\ busy' = busy \ {v}
    /\ SendAll(v, HeaderProposal("PHASE3COMMIT", CommittingProposal(v)))
    /\ vstate' = [vstate EXCEPT ![v] = "PHASE3"]
    /\ vlastcommit' = [vlastcommit EXCEPT ![v] = CommittingProposal(v)]
    /\ proposal' = [proposal EXCEPT ![v] = NoProposal]
    /\ disconnectAcceptors(v)
    /\ finished' = finished \cup {v}
    /\ UNCHANGED <<heartbeat, alive, phase1ack, phase2ack, watching, address,
                   acceptorVars, granted, counted, decision>>

(* checkTimeout of the proposer's machine: it forgets its vote.  Only       *)
(* proposer.cpp calls it; the requestor never does.                         *)
voterTimeout(p) ==
    /\ p \in ImpatientProposers \cap (alive \ busy)
    /\ vstate[p] \in {"PHASE1", "PHASE2"}
    /\ vstate' = [vstate EXCEPT ![p] = "INITIAL"]
    /\ phase1ack' = [phase1ack EXCEPT ![p] = 0]
    /\ phase2ack' = [phase2ack EXCEPT ![p] = 0]
    /\ counted' = [counted EXCEPT ![p] = {}]
    /\ UNCHANGED <<heartbeat, alive, proposal, vlastcommit, connected, programVars,
                   acceptorVars, toAcceptor, toVoter, granted, decision, finished>>
-----------------------------------------------------------------------------
(* AcceptorStateMachine. *)

(* handlePhase1Message rejects a proposal below the promise. *)
Outranks(p, q) == compare(p, q) > 0

(* handlePhase2Message accepts the proposal promised last, once. *)
Accepts(a, p) == astate[a] = "PHASE1" /\ compare(promise[a], p) = 0

(* A committed acceptor answers phases 1 and 2 with the outcome. *)
AnswersWithOutcome(a) == astate[a] = "PHASE3"

acceptorPhase1(v, a) ==
    LET p == Head(toAcceptor[v][a]).proposal IN
    /\ ReceiveFromVoter(v, a, "PHASE1PROPOSAL")
    /\ \/ /\ AnswersWithOutcome(a)
          /\ Reply(v, a, HeaderProposal("PHASE3COMMIT", alastcommit[a]))
          /\ UNCHANGED promise
       \/ /\ ~AnswersWithOutcome(a)
          /\ astate[a] = "PHASE2"                 \* dropped without an answer
          /\ UNCHANGED <<toVoter, promise>>
       \/ /\ astate[a] = "PHASE1"
          /\ Outranks(promise[a], p)
          /\ Reply(v, a, Header("PHASE1NACK"))
          /\ UNCHANGED promise
       \/ /\ astate[a] = "PHASE1"
          /\ ~Outranks(promise[a], p)
          /\ promise' = [promise EXCEPT ![a] = p]
          /\ Reply(v, a, Header("PHASE1ACK"))
    /\ UNCHANGED <<heartbeat, alive, machineVars, connected, programVars, astate,
                   alastcommit, historyVars>>

acceptorPhase2(v, a) ==
    LET p == Head(toAcceptor[v][a]).proposal IN
    /\ ReceiveFromVoter(v, a, "PHASE2REQUEST")
    /\ \/ /\ AnswersWithOutcome(a)
          /\ Reply(v, a, HeaderProposal("PHASE3COMMIT", alastcommit[a]))
          /\ UNCHANGED <<astate, granted>>
       \/ /\ ~AnswersWithOutcome(a)
          /\ astate[a] = "PHASE2"
          /\ ~Accepts(a, p)                       \* dropped without an answer
          /\ UNCHANGED <<toVoter, astate, granted>>
       \/ /\ astate[a] = "PHASE1"
          /\ ~Accepts(a, p)
          /\ Reply(v, a, Header("PHASE2NACK"))
          /\ UNCHANGED <<astate, granted>>
       \/ /\ Accepts(a, p)
          /\ astate' = [astate EXCEPT ![a] = "PHASE2"]
          /\ granted' = [granted EXCEPT ![v] = @ \cup {a}]
          /\ Reply(v, a, Header("PHASE2ACK"))
    /\ UNCHANGED <<heartbeat, alive, machineVars, connected, programVars, promise,
                   alastcommit, counted, decision, finished>>

(* Whatever it promised or accepted, an acceptor takes the first outcome.   *)
TakesOutcome(a) == astate[a] # "PHASE3"

acceptorPhase3(v, a) ==
    LET p == Head(toAcceptor[v][a]).proposal IN
    /\ ReceiveFromVoter(v, a, "PHASE3COMMIT")
    /\ IF TakesOutcome(a)
       THEN /\ astate' = [astate EXCEPT ![a] = "PHASE3"]
            /\ alastcommit' = [alastcommit EXCEPT ![a] = p]
       ELSE UNCHANGED <<astate, alastcommit>>
    /\ UNCHANGED <<heartbeat, alive, machineVars, connected, programVars, promise,
                   toVoter, historyVars>>

(* The states in which the acceptor's timer has an effect. *)
ResetByTimer(a) ==
    /\ astate[a] \in {"PHASE1", "PHASE2"}
    /\ astate' = [astate EXCEPT ![a] = "PHASE1"]

(* checkTimeout of the acceptor's machine: the promise, and an acceptance,  *)
(* are forgotten 4 seconds after they were given.                           *)
acceptorTimeout(a) ==
    /\ a \in ForgetfulAcceptors
    /\ ResetByTimer(a)
    /\ promise' = [promise EXCEPT ![a] = NoProposal]
    /\ UNCHANGED <<heartbeat, alive, machineVars, connected, programVars, alastcommit,
                   toAcceptor, toVoter, historyVars>>
-----------------------------------------------------------------------------
(* What the environment does. *)

(* The heartbeats stop, and with the whole host of the broker the requestor. *)
stopVoters(S) ==
    /\ alive' = alive \ S
    /\ busy' = busy \ S
    /\ connected' = [v \in Voters |-> IF v \in S THEN {} ELSE connected[v]]
    /\ toVoter' = [v \in Voters |->
                     IF v \in S THEN [a \in Acceptors |-> <<>>] ELSE toVoter[v]]

loseHeartbeat ==
    /\ heartbeat
    /\ heartbeat' = FALSE
    /\ \/ UNCHANGED <<alive, busy, connected, toVoter>>
       \/ Requestors # {} /\ stopVoters(Requestors)
    /\ UNCHANGED <<machineVars, watching, address, acceptorVars, toAcceptor, historyVars>>

(* A voter crashes; what it wrote may still be read.  Nothing is persisted  *)
(* and nothing restarts it in this voting version.                          *)
crash(v) ==
    /\ v \in CrashingVoters \cap alive
    /\ stopVoters({v})
    /\ UNCHANGED <<heartbeat, machineVars, watching, address, acceptorVars, toAcceptor,
                   historyVars>>

(* A connection fails, with what both queues hold.  An acceptor crashes by  *)
(* losing all its connections: none is opened again in this version.        *)
connectionLost(v, a) ==
    /\ a \in LossyAcceptors \cap connected[v]
    /\ connected' = [connected EXCEPT ![v] = @ \ {a}]
    /\ toAcceptor' = [toAcceptor EXCEPT ![v][a] = <<>>]
    /\ toVoter' = [toVoter EXCEPT ![v][a] = <<>>]
    /\ UNCHANGED <<heartbeat, alive, machineVars, programVars, acceptorVars, historyVars>>
-----------------------------------------------------------------------------
acceptorStep(v, a) == acceptorPhase1(v, a) \/ acceptorPhase2(v, a) \/ acceptorPhase3(v, a)
voterStep(v, a) == voterPhase1(v, a) \/ voterPhase2(v, a) \/ voterPhase3(v, a)

Next ==
    \/ loseHeartbeat
    \/ \E p \in Proposers : startRecovery(p) \/ voterTimeout(p)
    \/ \E r \in Requestors : proposeAcceptorChange(r)
    \/ \E v \in Voters : finishCommit(v) \/ crash(v)
    \/ \E a \in Acceptors : acceptorTimeout(a)
    \/ \E v \in Voters, a \in Acceptors :
         acceptorStep(v, a) \/ voterStep(v, a) \/ connectionLost(v, a)

Spec == Init /\ [][Next]_vars

(* Each program is one select loop that keeps handling what is there, TCP   *)
(* delivers what a live voter wrote to an acceptor that is up, and          *)
(* copyObjects returns.  Nobody is obliged to crash, to time out, to lose a *)
(* heartbeat or to change the acceptors.                                    *)
voterProgram(v) ==
    \/ v \in Proposers /\ startRecovery(v)
    \/ finishCommit(v)
    \/ \E a \in Acceptors : voterStep(v, a)
acceptorProgram(a) == \E v \in alive : acceptorStep(v, a)

Fairness ==
    /\ \A v \in Voters : WF_vars(voterProgram(v))
    /\ \A a \in Acceptors \ LossyAcceptors : WF_vars(acceptorProgram(a))

FairSpec == Spec /\ Fairness
-----------------------------------------------------------------------------
(* Safety. *)

Winners == {v \in Voters : decision[v] # NoProposal}

(* At most one voter wins: objects are copied to one backup by one          *)
(* proposer, and a recovery and an acceptor change are never both decided   *)
(* (handleCommit acts on COMMITTING_SELF).                                  *)
SingleWinner == \A v, w \in Winners : v = w

(* A winner was accepted by more than half of the acceptors, however often  *)
(* timers made machines forget: acknowledgements carry no proposal number,  *)
(* so nothing in a message says which request it answers.                   *)
WinnerHasMajority ==
    \A v \in Winners : nacceptor # 0 => Cardinality(granted[v]) * 2 > nacceptor

(* A machine in PHASE3 holds a proposal some voter won with, and that voter *)
(* had finished its copy: no proposer redirects clients to a backup that is *)
(* still being filled (copyObjects comes before sendCommitment).            *)
OutcomeIsFinishedDecision ==
    LET outcomes == {decision[v] : v \in finished} IN
    /\ \A v \in Voters : vstate[v] = "PHASE3" => vlastcommit[v] \in outcomes
    /\ \A a \in Acceptors : astate[a] = "PHASE3" => alastcommit[a] \in outcomes

(* All machines in PHASE3 hold the same outcome. *)
Agreement ==
    /\ \A v, w \in Voters :
         vstate[v] = "PHASE3" /\ vstate[w] = "PHASE3" => vlastcommit[v] = vlastcommit[w]
    /\ \A v \in Voters, a \in Acceptors :
         vstate[v] = "PHASE3" /\ astate[a] = "PHASE3" => vlastcommit[v] = alastcommit[a]
    /\ \A a, b \in Acceptors :
         astate[a] = "PHASE3" /\ astate[b] = "PHASE3" => alastcommit[a] = alastcommit[b]

(* A proposer without a heartbeat client is proposing or has recovered      *)
(* (proposer.cpp says so where its timer skips such a broker).              *)
ProposingOrRecovered ==
    \A p \in alive \cap Proposers : p \notin watching => vstate[p] # "INITIAL"

(* Nothing is left to happen except by the environment or a timer. *)
Quiet ==
    /\ ~heartbeat
    /\ watching \cap alive = {}
    /\ busy = {}
    /\ \A v \in Voters, a \in Acceptors : toAcceptor[v][a] = <<>> /\ toVoter[v][a] = <<>>

(* When the vote falls silent after the broker was lost, it has an outcome: *)
(* the failed broker is recovered, or a changed acceptor list is decided.   *)
NoSilentAbandonment == Quiet => finished # {}

(* An outcome is final: no timer or late message moves a machine out of     *)
(* PHASE3 or changes what it holds, and an address that moved stays.        *)
OutcomeIsFinal ==
    [][/\ \A v \in Voters : vstate[v] = "PHASE3" =>
              vstate'[v] = "PHASE3" /\ vlastcommit'[v] = vlastcommit[v]
       /\ \A a \in Acceptors : astate[a] = "PHASE3" =>
              astate'[a] = "PHASE3" /\ alastcommit'[a] = alastcommit[a]
       /\ \A p \in Proposers : address[p] # FailedBroker => address'[p] = address[p]]_vars

(* An acceptor that does not forget never gives up a promise for a lower    *)
(* proposal, and the promise under which it accepted stays.                 *)
PromiseOnlyRises ==
    [][\A a \in Acceptors \ ForgetfulAcceptors :
         promise'[a] # promise[a] =>
             compare(promise'[a], promise[a]) > 0 /\ astate[a] = "PHASE1"]_vars

(* The vote as RecoveryDecision sees it: who won with what, and the outcome *)
(* each voter and acceptor holds.                                           *)
Won == {<<v, decision[v]>> : v \in Winners}
Learned ==
    [x \in Voters \cup Acceptors |->
        CASE x \in Voters /\ vstate[x] = "PHASE3"    -> vlastcommit[x]
          [] x \in Acceptors /\ astate[x] = "PHASE3" -> alastcommit[x]
          [] OTHER                                   -> NoProposal]

Decision == INSTANCE RecoveryDecision WITH
    Parties   <- Voters \cup Acceptors,
    Outcomes  <- Proposals,
    NoOutcome <- NoProposal,
    won       <- Won,
    done      <- finished # {},
    learned   <- Learned

(* The vote implements its promise: one winner, one outcome, learned by the *)
(* others only after the winner carried it out.                             *)
ImplementsDecision == Decision!Spec
-----------------------------------------------------------------------------
(* Liveness, under FairSpec. *)

(* A lost broker is recovered. *)
LostBrokerIsRecovered == ~heartbeat ~> (finished \cap Proposers # {})

(* Every acceptor whose connections work learns the outcome of a winner     *)
(* that stays up, whatever its timer did.                                   *)
AcceptorsLearnOutcome ==
    \A v \in Voters, a \in Acceptors \ LossyAcceptors :
        v \in finished ~> (v \notin alive \/ astate[a] = "PHASE3")
=============================================================================
