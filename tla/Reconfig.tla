----------------------------- MODULE Reconfig -----------------------------
(***************************************************************************)
(* A service through its voting versions: the requestor replaces acceptors *)
(* and proposers it no longer hears (requestor.cpp), and machines of       *)
(* different versions meet (handleMessage of both machines in paxos.cpp).  *)
(*                                                                         *)
(* A vote in one version is PaxosVote; here its two phases at one acceptor *)
(* are one step, and no acceptor forgets what it accepted.  Requests to    *)
(* participate wait in the receiver's listen queue, votes, answers and     *)
(* commitments on connections; any of them may be read late or, when the   *)
(* connection is gone, never.                                              *)
(*                                                                         *)
(* A program serves the descriptor for requests before those for votes: it *)
(* stands first in the table (see FileSelector).  The requestor cannot do  *)
(* anything else while it is in changeAcceptor, nor a proposer between     *)
(* winning and sendCommitment (copyObjects).                               *)
(***************************************************************************)
EXTENDS Integers, Sequences, FiniteSets

CONSTANTS
    Acceptors, Proposers,  \* who is in the requestor's two name lists
    Requestor,
    Nobody,                \* reads the answers of a machine that is gone
    ExpectedAcceptors, ExpectedProposers,
    MaxLost                \* bound: acceptors of the machine's list that may be lost at a time

Voters == Proposers \cup {Requestor}

ASSUME PartiesAssumption ==
    /\ IsFiniteSet(Acceptors) /\ Acceptors \cap Voters = {}
    /\ Requestor \notin Proposers /\ Nobody \notin Voters
ASSUME ExpectedAssumption ==
    /\ ExpectedAcceptors \in Nat /\ ExpectedProposers \in Nat /\ MaxLost \in Nat

(* A proposal is made in a version and, once committed, ends it.  A         *)
(* proposer takes another backup each time.                                 *)
AcceptorChange(v, list) == [type |-> "ACCEPTORCHANGE", version |-> v, list |-> list,
                            by |-> Requestor, backup |-> 0]
Recovery(v, p, n) == [type |-> "RECOVERY", version |-> v, list |-> {}, by |-> p, backup |-> n]
NoProposal == [type |-> "NOPROPOSAL", version |-> 0, list |-> {}, by |-> Nobody, backup |-> 0]
Ack == [type |-> "ACK", version |-> 0, list |-> {}, by |-> Nobody, backup |-> 0]

VARIABLES
    \* the requestor's program
    running,
    currentversion,
    needchange, changing,    \* needchangeacceptor, ischangingacceptor
    heard,                   \* the acceptors with a heartbeat client
    proposers,               \* the proposers with one
    unused,                  \* the names it has not taken from its lists yet
    telling,                 \* in changeAcceptor: whom it still has to send the request
    \* every program's listen queue for ParticipateRequest
    requests,
    \* ProposerStateMachine, one per voter
    psm,
    \* the proposer's program
    watching,                \* proposers with a heartbeat client
    taken,                   \* taken[p]: how many backups p took from its list
    superseded,              \* proposers whose recovery an acceptor change has ended
    \* AcceptorStateMachine, one per acceptor; version 0: the service is unknown
    asm,
    \* the connections
    votes, answers, commits,
    \* history: no step of the code reads it
    accepted,                \* <<a, p>>: acceptor a accepted proposal p
    decided                  \* the proposals that won

requestorVars == <<running, currentversion, needchange, changing, heard, proposers, unused,
                   telling>>
proposerVars == <<watching, taken, superseded>>
connectionVars == <<votes, answers, commits>>
historyVars == <<accepted, decided>>
vars == <<requestorVars, requests, psm, proposerVars, asm, connectionVars, historyVars>>

Machine(v, list) ==
    [version |-> v, list |-> list, state |-> "INITIAL", proposal |-> NoProposal,
     acks |-> {}, connected |-> list]

Init ==
    /\ running = TRUE
    /\ currentversion = 0
    /\ needchange = TRUE /\ changing = FALSE
    /\ heard = {} /\ proposers = {}
    /\ unused = Acceptors \cup Proposers
    /\ telling = {}
    /\ requests = [x \in Acceptors \cup Proposers |-> <<>>]
    /\ psm = [w \in Voters |-> Machine(IF w = Requestor THEN 1 ELSE 0, {})]
    /\ watching = {}
    /\ taken = [p \in Proposers |-> 0]
    /\ superseded = {}
    /\ asm = [a \in Acceptors |-> [version |-> 0, state |-> "PHASE1", lastcommit |-> NoProposal]]
    /\ votes = {} /\ answers = {} /\ commits = {}
    /\ accepted = {} /\ decided = {}
-----------------------------------------------------------------------------
(* Faults a change to the code could introduce, each a variant of one       *)
(* definition of this module.                                               *)
MajorityRoundedDown(acks, list) == Cardinality(acks) * 2 >= Cardinality(list) \/ list = {}
SkipsVersion(r) == r.version + 2
NewAcceptorsOnly(list) == list
TellsWhoItKnows(x, list) ==
    requests' = [requests EXCEPT ![x] = Append(@, AcceptorChange(currentversion, Acceptors))]
ProposersFirst(x) == x \in Proposers \/ telling \cap Proposers = {}
NewestFirst(x, list) ==
    requests' = [requests EXCEPT ![x] = <<AcceptorChange(currentversion, list)>> \o @]
-----------------------------------------------------------------------------
(* Voters. *)

Majority(acks, list) == Cardinality(acks) * 2 > Cardinality(list) \/ list = {}

(* The destructor of w's machine, and commit(): its connections close.      *)
(* What it wrote is still read, but nobody reads the answers.               *)
disconnect(w) ==
    /\ votes' = {IF m.from = w THEN [m EXCEPT !.from = Nobody] ELSE m : m \in votes}
    /\ answers' = {m \in answers : m.to # w}

(* newProposal. *)
newProposal(w, p) ==
    /\ votes' = votes \cup {[to |-> a, from |-> w, proposal |-> p] : a \in psm[w].connected}
    /\ psm' = [psm EXCEPT ![w].proposal = p, ![w].acks = {},
                          ![w].state = IF Majority({}, psm[w].list) THEN "WON" ELSE "VOTING"]
    /\ decided' = IF Majority({}, psm[w].list) THEN decided \cup {p} ELSE decided

(* An acknowledgement: with those of a majority the voter wins.             *)
countAck(w, a) ==
    LET acks == psm[w].acks \cup {a} IN
    IF psm[w].state = "VOTING"
    THEN /\ psm' = [psm EXCEPT ![w].acks = acks,
                               ![w].state = IF Majority(acks, psm[w].list) THEN "WON" ELSE @]
         /\ decided' = IF Majority(acks, psm[w].list) THEN decided \cup {psm[w].proposal}
                       ELSE decided
    ELSE UNCHANGED <<psm, decided>>

(* sendCommitment, without commit(). *)
commitments(w) == {[to |-> a, proposal |-> psm[w].proposal] : a \in psm[w].connected}
-----------------------------------------------------------------------------
(* The requestor. *)

Select == running /\ psm[Requestor].state # "WON"
                  /\ (needchange => changing) /\ Cardinality(proposers) >= ExpectedProposers

(* The program ends, and its connections close. *)
stop ==
    /\ running
    /\ running' = FALSE
    /\ disconnect(Requestor)
    /\ UNCHANGED <<currentversion, needchange, changing, heard, proposers, unused, telling,
                   requests, psm, proposerVars, asm, commits, historyVars>>

(* Process or host dies. *)
crash == stop

missesAcceptor == running /\ psm[Requestor].state # "WON" /\ needchange /\ ~changing
missesProposer ==
    /\ running /\ psm[Requestor].state # "WON" /\ (needchange => changing)
    /\ Cardinality(proposers) < ExpectedProposers

(* The next name is asked for when the list is used up. *)
insufficientAcceptors ==
    /\ missesAcceptor
    /\ Cardinality(heard) + Cardinality(unused \cap Acceptors) < ExpectedAcceptors
    /\ stop
insufficientProposers ==
    /\ missesProposer
    /\ unused \cap Proposers = {}
    /\ stop

(* The acceptors that are heard and enough others of the list. *)
proposeChange ==
    /\ missesAcceptor
    /\ \E list \in SUBSET Acceptors :
          /\ heard \subseteq list /\ list \ heard \subseteq unused
          /\ Cardinality(list) = ExpectedAcceptors
          /\ unused' = unused \ list
          /\ newProposal(Requestor, AcceptorChange(currentversion + 1, list))
    /\ needchange' = FALSE /\ changing' = TRUE
    /\ UNCHANGED <<running, currentversion, heard, proposers, telling, requests, proposerVars,
                   asm, answers, commits, accepted>>

recipients(list) == list \cup proposers

(* handleCommit of the requestor's own proposal begins: changeAcceptor      *)
(* watches the new acceptors and will tell them and its proposers.          *)
changeAcceptor ==
    LET list == psm[Requestor].proposal.list IN
    /\ running /\ psm[Requestor].state = "WON"
    /\ currentversion # psm[Requestor].version
    /\ currentversion' = psm[Requestor].version
    /\ heard' = list
    /\ telling' = recipients(list)
    /\ UNCHANGED <<running, needchange, changing, proposers, unused, requests, psm,
                   proposerVars, asm, connectionVars, historyVars>>

(* sendRequest.  The voting version is one more.                            *)
Participate(x, list) ==
    requests' = [requests EXCEPT ![x] = Append(@, AcceptorChange(currentversion, list))]

(* All acceptors are told before the proposers are. *)
mayTell(x) == x \in Acceptors \/ telling \cap Acceptors = {}

tell(x) ==
    /\ running
    /\ x \in telling
    /\ mayTell(x)
    /\ telling' = telling \ {x}
    /\ Participate(x, heard)
    /\ UNCHANGED <<running, currentversion, needchange, changing, heard, proposers, unused,
                   psm, proposerVars, asm, connectionVars, historyVars>>

(* Then the old acceptors hear of the commitment, and the machine is        *)
(* replaced by one for the next version.                                    *)
finishChange ==
    /\ running /\ psm[Requestor].state = "WON"
    /\ currentversion = psm[Requestor].version /\ telling = {}
    /\ commits' = commits \cup commitments(Requestor)
    /\ disconnect(Requestor)
    /\ psm' = [psm EXCEPT ![Requestor] =
                 Machine(currentversion + 1, psm[Requestor].proposal.list)]
    /\ changing' = FALSE
    /\ UNCHANGED <<running, currentversion, needchange, heard, proposers, unused, telling,
                   requests, proposerVars, asm, historyVars>>

(* A fault: a proposer that was lost is asked again.                       *)
AsksAgain ==
    /\ missesProposer
    /\ \E p \in Proposers \ proposers : proposers' = proposers \cup {p} /\ Participate(p, heard)
    /\ UNCHANGED <<running, currentversion, needchange, changing, heard, unused, telling, psm,
                   proposerVars, asm, connectionVars, historyVars>>

(* The next proposer of the list is told of the acceptors that are heard.  *)
(* One that cannot be reached is passed over.                               *)
requestProposer ==
    /\ missesProposer
    /\ \E p \in unused \cap Proposers :
          /\ unused' = unused \ {p}
          /\ \/ proposers' = proposers \cup {p} /\ Participate(p, heard)
             \/ UNCHANGED <<proposers, requests>>
    /\ UNCHANGED <<running, currentversion, needchange, changing, heard, telling, psm,
                   proposerVars, asm, connectionVars, historyVars>>

(* The connection to an acceptor breaks, which makes it look for another;   *)
(* or its heartbeat expires, which does not.                                *)
loseAcceptor(a) ==
    /\ Select
    /\ a \in heard
    /\ Cardinality(psm[Requestor].list \ heard) < MaxLost
    /\ heard' = heard \ {a}
    /\ needchange' \in {TRUE, needchange}
    /\ UNCHANGED <<running, currentversion, changing, proposers, unused, telling, requests,
                   psm, proposerVars, asm, connectionVars, historyVars>>

loseProposer(p) ==
    /\ Select
    /\ p \in proposers
    /\ proposers' = proposers \ {p}
    /\ UNCHANGED <<running, currentversion, needchange, changing, heard, unused, telling,
                   requests, psm, proposerVars, asm, connectionVars, historyVars>>

(* An answer from an acceptor: an acknowledgement, or an outcome.  Whatever *)
(* was committed, its version becomes the current one; but a recovery ends  *)
(* with an error and leaves ischangingacceptor as it is.                    *)
requestorReads(m) ==
    /\ Select
    /\ m.to = Requestor
    /\ \/ /\ m.outcome = Ack
          /\ countAck(Requestor, m.from)
          /\ answers' = answers \ {m}
          /\ UNCHANGED <<currentversion, votes>>
       \/ /\ m.outcome # Ack
          /\ psm' = [psm EXCEPT ![Requestor].state = "PHASE3", ![Requestor].connected = {}]
          /\ currentversion' = m.outcome.version
          /\ disconnect(Requestor)
          /\ UNCHANGED decided
    /\ UNCHANGED <<running, needchange, changing, heard, proposers, unused, telling, requests,
                   proposerVars, asm, commits, accepted>>
-----------------------------------------------------------------------------
(* Proposers. *)

mayRead(x) == requests[x] = <<>>

(* The version after the committed one, which is voted on next. *)
nextVersion(r) == r.version + 1

(* createProposer: machine and heartbeat client start anew. *)
createProposer(p) ==
    /\ requests[p] # <<>>
    /\ psm[p].state # "WON"
    /\ requests' = [requests EXCEPT ![p] = Tail(@)]
    /\ psm' = [psm EXCEPT ![p] = Machine(nextVersion(Head(requests[p])), Head(requests[p]).list)]
    /\ watching' = watching \cup {p}
    /\ superseded' = superseded \ {p}
    /\ disconnect(p)
    /\ UNCHANGED <<requestorVars, taken, asm, commits, historyVars>>

startRecovery(p) ==
    /\ mayRead(p)
    /\ p \in watching
    /\ psm[p].state # "WON"
    /\ watching' = watching \ {p}
    /\ taken' = [taken EXCEPT ![p] = @ + 1]
    /\ newProposal(p, Recovery(psm[p].version, p, taken[p] + 1))
    /\ UNCHANGED <<requestorVars, requests, superseded, asm, answers, commits, accepted>>

(* The machine's timer. *)
checkTimeout(p) ==
    /\ mayRead(p)
    /\ psm[p].state = "VOTING"
    /\ psm' = [psm EXCEPT ![p].state = "INITIAL", ![p].acks = {}]
    /\ UNCHANGED <<requestorVars, requests, proposerVars, asm, connectionVars, historyVars>>

(* An answer: an acknowledgement; another's recovery; or an acceptor        *)
(* change, which gives the service a new machine, without the proposal.     *)
proposerReads(p, m) ==
    /\ mayRead(p)
    /\ m.to = p
    /\ psm[p].state # "WON"
    /\ \/ /\ m.outcome = Ack
          /\ countAck(p, m.from)
          /\ answers' = answers \ {m}
          /\ UNCHANGED <<votes, superseded>>
       \/ /\ m.outcome.type = "RECOVERY"
          /\ psm' = [psm EXCEPT ![p].state = "PHASE3", ![p].connected = {}]
          /\ disconnect(p)
          /\ UNCHANGED <<superseded, decided>>
       \/ /\ m.outcome.type = "ACCEPTORCHANGE"
          /\ psm' = [psm EXCEPT ![p] = Machine(nextVersion(m.outcome), m.outcome.list)]
          /\ superseded' = superseded \cup {p}
          /\ disconnect(p)
          /\ UNCHANGED decided
    /\ UNCHANGED <<requestorVars, requests, watching, taken, asm, commits, accepted>>

(* The copy is done. *)
sendCommitment(p) ==
    /\ p \in Proposers
    /\ psm[p].state = "WON"
    /\ commits' = commits \cup commitments(p)
    /\ psm' = [psm EXCEPT ![p].state = "PHASE3", ![p].connected = {}]
    /\ disconnect(p)
    /\ UNCHANGED <<requestorVars, requests, proposerVars, asm, historyVars>>
-----------------------------------------------------------------------------
(* Acceptors. *)

(* createAcceptor: the machine starts anew in the version of the request. *)
createAcceptor(a) ==
    /\ requests[a] # <<>>
    /\ requests' = [requests EXCEPT ![a] = Tail(@)]
    /\ asm' = [asm EXCEPT ![a] = [version |-> nextVersion(Head(requests[a])), state |-> "PHASE1",
                                  lastcommit |-> Head(requests[a])]]
    /\ UNCHANGED <<requestorVars, psm, proposerVars, connectionVars, historyVars>>

(* The answer to a vote goes to its machine, if that is still there. *)
answer(m, outcome) ==
    /\ votes' = votes \ {m}
    /\ answers' = IF m.from = Nobody THEN answers
                  ELSE answers \cup {[to |-> m.from, from |-> m.to, outcome |-> outcome]}

(* A fault: without the version test an older version's voter is            *)
(* acknowledged by this one's machine.                                      *)
acceptsOutdated(a, m) ==
    /\ asm[a].version > m.proposal.version
    /\ asm[a].state = "PHASE1"
    /\ asm' = [asm EXCEPT ![a].state = "PHASE2"]
    /\ accepted' = accepted \cup {<<a, m.proposal>>}
    /\ answer(m, Ack)
    /\ UNCHANGED psm

(* A voter of an older version is answered if the last commitment this      *)
(* acceptor knows of is not older still.                                    *)
outdated(a, m) ==
    /\ asm[a].version > m.proposal.version
    /\ IF asm[a].lastcommit.version >= m.proposal.version
       THEN answer(m, asm[a].lastcommit)
       ELSE votes' = votes \ {m} /\ UNCHANGED answers
    /\ UNCHANGED <<psm, asm, accepted>>

(* One of a newer version is dropped; if the service is unknown the         *)
(* connection is closed.                                                    *)
notTold(a, m) ==
    /\ asm[a].version < m.proposal.version
    /\ votes' = votes \ {m}
    /\ psm' = IF asm[a].version = 0 /\ m.from # Nobody
              THEN [psm EXCEPT ![m.from].connected = @ \ {a}] ELSE psm
    /\ UNCHANGED <<answers, asm, accepted>>

(* In the same version: the outcome if there is one; silence if another     *)
(* was accepted; else it is accepted, or refused because of another's       *)
(* promise.                                                                 *)
sameVersion(a, m) ==
    /\ asm[a].version = m.proposal.version
    /\ \/ /\ asm[a].state = "PHASE3"
          /\ answer(m, asm[a].lastcommit)
          /\ UNCHANGED <<asm, accepted>>
       \/ /\ asm[a].state = "PHASE1"
          /\ asm' = [asm EXCEPT ![a].state = "PHASE2"]
          /\ accepted' = accepted \cup {<<a, m.proposal>>}
          /\ answer(m, Ack)
       \/ /\ \/ asm[a].state = "PHASE2"
             \/ \E n \in votes \ {m} : n.to = a /\ n.proposal.version = m.proposal.version
          /\ votes' = votes \ {m}
          /\ UNCHANGED <<answers, asm, accepted>>
    /\ UNCHANGED psm

handleVote(m) ==
    /\ mayRead(m.to)
    /\ outdated(m.to, m) \/ notTold(m.to, m) \/ sameVersion(m.to, m)
    /\ UNCHANGED <<requestorVars, requests, proposerVars, commits, decided>>

handleCommitment(m) ==
    /\ mayRead(m.to)
    /\ commits' = commits \ {m}
    /\ IF asm[m.to].version = m.proposal.version /\ asm[m.to].state # "PHASE3"
       THEN asm' = [asm EXCEPT ![m.to].state = "PHASE3", ![m.to].lastcommit = m.proposal]
       ELSE UNCHANGED asm
    /\ UNCHANGED <<requestorVars, requests, psm, proposerVars, votes, answers, historyVars>>

Next ==
    \/ proposeChange
    \/ insufficientAcceptors
    \/ insufficientProposers
    \/ changeAcceptor
    \/ \E x \in Acceptors \cup Proposers : tell(x)
    \/ finishChange
    \/ requestProposer
    \/ \E a \in Acceptors : loseAcceptor(a) \/ createAcceptor(a)
    \/ \E p \in Proposers :
          loseProposer(p) \/ createProposer(p) \/ startRecovery(p) \/ checkTimeout(p)
          \/ sendCommitment(p)
    \/ crash
    \/ \E m \in answers : requestorReads(m)
    \/ \E p \in Proposers, m \in answers : proposerReads(p, m)
    \/ \E m \in votes : handleVote(m)
    \/ \E m \in commits : handleCommitment(m)

Spec == Init /\ [][Next]_vars
-----------------------------------------------------------------------------
Proposals == [type : {"NOPROPOSAL", "ACK", "ACCEPTORCHANGE", "RECOVERY"}, version : Nat,
              list : SUBSET Acceptors, by : Voters \cup {Nobody}, backup : Nat]
Machines == [version : Nat, list : SUBSET Acceptors, proposal : Proposals,
             state : {"INITIAL", "VOTING", "WON", "PHASE3"},
             acks : SUBSET Acceptors, connected : SUBSET Acceptors]
AcceptorMachines == [version : Nat, state : {"PHASE1", "PHASE2", "PHASE3"}, lastcommit : Proposals]
VoteMessages == [to : Acceptors, from : Voters \cup {Nobody}, proposal : Proposals]
AnswerMessages == [to : Voters, from : Acceptors, outcome : Proposals]
CommitMessages == [to : Acceptors, proposal : Proposals]

Types ==
    /\ running \in BOOLEAN /\ needchange \in BOOLEAN /\ changing \in BOOLEAN
    /\ currentversion \in Nat
    /\ heard \subseteq Acceptors /\ proposers \subseteq Proposers
    /\ unused \subseteq Acceptors \cup Proposers
    /\ telling \subseteq Acceptors \cup Proposers
    /\ requests \in [Acceptors \cup Proposers -> Seq(Proposals)]
    /\ psm \in [Voters -> Machines]
    /\ watching \subseteq Proposers /\ superseded \subseteq Proposers
    /\ taken \in [Proposers -> Nat]
    /\ asm \in [Acceptors -> AcceptorMachines]
    /\ votes \subseteq VoteMessages
    /\ answers \subseteq AnswerMessages
    /\ commits \subseteq CommitMessages
    /\ accepted \subseteq Acceptors \X Proposals
    /\ decided \subseteq Proposals

(* The requestor leads: no machine votes on a version later than the one     *)
(* after its currentversion (handleCommit and sendRequest of requestor.cpp,  *)
(* createProposer and createAcceptor).                                       *)
TypeOK ==
    /\ Types
    /\ \A w \in Voters : psm[w].version <= currentversion + 1
    /\ \A a \in Acceptors : asm[a].version <= currentversion + 1

(* A version ends once: the recovery a proposer carries out and the         *)
(* acceptor change the requestor carries out are never both decided in the  *)
(* same version, although the machines that vote on it were told of its     *)
(* acceptors at different times and by different ways (sendRequest copies   *)
(* the heartbeats that are heard, requestor.cpp:51, a commitment carries    *)
(* the list itself).                                                        *)
OneDecisionPerVersion == \A d, e \in decided : d.version = e.version => d = e

(* A recovered service is not recovered again, nor given new acceptors that *)
(* do not know of the recovery: no later version is ever decided.  The      *)
(* acceptors of that version answer RECOVERY to every voter (getVotingVersion *)
(* against ph.version in both handleMessage of paxos.cpp).                  *)
RecoveredOnce ==
    \A d, e \in decided : d.type = "RECOVERY" => e.version <= d.version

(* An acceptor learns of a version before anybody votes on it there         *)
(* (paxos.cpp:224 drops such a vote, acceptor.cpp:104 even the connection): *)
(* changeAcceptor tells all acceptors first and then the proposers.  The    *)
(* exception is a requestor that took its version from a recovery           *)
(* (requestor.cpp:141).                                                     *)
NobodyIsEarly ==
    \A m \in votes : asm[m.to].version < m.proposal.version =>
        \/ /\ requests[m.to] # <<>>
           /\ nextVersion(requests[m.to][Len(requests[m.to])]) >= m.proposal.version
        \/ \E d \in decided : d.type = "RECOVERY" /\ d.version < m.proposal.version

(* An acceptor change that ends a recovery leaves the service with a new    *)
(* machine, no proposal and no heartbeat client (proposer.cpp:174-183): it  *)
(* is recovered only if the requestor's request for the new version is on   *)
(* its way, which makes createProposer watch it again.                      *)
RecoveryIsRestarted ==
    \A p \in superseded \cap proposers : running => p \in telling \/ requests[p] # <<>>

(* A proposer that recovered its broker, or learned of the recovery, is not *)
(* asked to participate again: createProposer (proposer.cpp:109-138) would  *)
(* put mon.ip back to the broker that failed, forget who had asked for the  *)
(* address and take another backup from the list.  The exception is one     *)
(* that learned of a recovery in a later version than its own, from an      *)
(* acceptor that was told of that version before it was                     *)
(* (requestor.cpp:113-127, paxos.cpp:230).                                  *)
RecoveryIsKept ==
    \A p \in Proposers : psm[p].state \in {"WON", "PHASE3"} =>
        \/ p \notin telling /\ requests[p] = <<>>
        \/ \E d \in decided : d.type = "RECOVERY" /\ d.version > psm[p].version

(* No machine goes back to an earlier version: createAcceptor and           *)
(* createProposer replace a machine without looking at its version.         *)
VersionsOnlyRise ==
    [][/\ \A a \in Acceptors : asm'[a].version >= asm[a].version
       /\ \A w \in Voters : psm'[w].version >= psm[w].version]_vars
-----------------------------------------------------------------------------
(* The versions as VersionChain sees them.                                  *)
VersionOf == [x \in Acceptors \cup Voters |->
                 IF x \in Voters THEN psm[x].version ELSE asm[x].version]
ListOf == [w \in Voters |-> psm[w].list]

Chain == INSTANCE VersionChain WITH version <- VersionOf, list <- ListOf

(* Whatever the machines do with versions is a chain of decisions: no       *)
(* program is in a version before the decision that began it, none decides  *)
(* but in the first version that has not ended, with the acceptors of the   *)
(* decision before, and an acceptor that accepted does not start over       *)
(* (createProposer, createAcceptor and the two handleCommit, which take     *)
(* versions and lists from four different messages).                        *)
ImplementsChain == Chain!Spec
=============================================================================
