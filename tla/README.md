# QpidR, verified

QpidR keeps a federation of Qpid brokers alive: programs beside the brokers
watch their heartbeats, vote on a backup when one fails, copy the failed
broker's objects to it and redirect the links that led to the failed broker.
This directory holds TLA+ models of that, TLC configurations that check them
on small instances, and proofs for instances of any size.  `PROJECT.json` maps
every definition that models code to the lines it models.

To check it: `tlc -config CompetingVote.cfg MCPaxosVote` (each `.cfg` is one run;
the runs below name their modules), `tlapm PaxosVoteSafety.tla` (and the other
modules with theorems).

## The system

| Component (under `src/`) | State | Operations | Talks to |
| --- | --- | --- | --- |
| Proposals `src/paxos/paxosproposal.cpp` | type, version, addresses, score or acceptor list | `getValue`, `compare` | used by both machines |
| Voting machines `src/paxos/paxos.cpp` | state, own proposal or promise, two counters, last commitment, sockets to the acceptors | `newProposal`, `handlePhase1/2/3Message`, `sendCommitment`, `checkTimeout` on each side | each other, over one TCP connection per voter and acceptor |
| Proposer, and landmark (the same source, centralized) `src/proposer.cpp` | `Monitored`: machine, heartbeat client, name, address, inform list | `createProposer`, `startRecovery`, `handleCommit`, queries, timers | requestor, acceptors, brokers, other proposers' listeners |
| Acceptor `src/acceptor.cpp` | a machine per service | `createAcceptor`, messages, timers | voters, requestor |
| Requestor `src/requestor.cpp`, beside each broker | proposers and acceptors it hears, machine, version, subscribers | `changeAcceptor`, `sendRequest`, replaces lost proposers and acceptors | proposers, acceptors, listeners |
| Link listener `src/proposer_link.cpp` | `listening`: old address and a socket per proposer, for each link that went down | `listenAddressChange`, `readAddressChange`, `closeAll` | requestor of the link's destination, its proposers |
| Object mirror and copy `src/recovery/*` | brokers, objects, links as seen through QMF | `addBroker`, `copyObjects`, `reroute`, `handleEvent` | brokers; the main loop through a pipe |
| Event loop `src/common/fileselector.cpp` | table of 400 descriptors, timeout | `registerFD`, `getReadReadyFD` | every program |
| Heartbeats `src/heartbeat*` | descriptor, time of the last one | `readMessage`, `isExpired` | proposer, requestor |
| Name lists `src/setting/namelist.cpp` | four lists with an index each | `getBackupBrokerURL`, ..., `checkFailure` | proposer, requestor |
| Message copy `src/messagecopy*.cpp` | none | browse a queue, send on | not called (the call is commented out) |

How they interact in a recovery: a proposer misses its broker's heartbeats,
gives up the heartbeat client, takes the next backup of its own list and
proposes it to the acceptors of the last committed list.  Whoever is accepted
by a majority wins, copies the objects, **then** sends its commitment to the
acceptors and the new address to everyone in its inform list.  Other proposers
learn the outcome when an acceptor that holds it answers one of their
messages.  A proposer at the source of a link had asked them for the address
when the link went down, and reroutes the link to the first address that
differs from the old one.  The requestor uses the same vote to replace
acceptors.

What is hard here, and what makes each part correct:

* **The vote.**  Messages carry no proposal number, acknowledgements carry no
  proposal at all, proposals of two proposers may be equal, timers make either
  side forget, and the winner blocks for the whole copy before it tells
  anybody.  Correct: one winner, one outcome, learned only after it was carried
  out, final once learned; a lost broker is recovered.
* **Rerouting.**  A query races the change of address, proposers crash or
  never learn the outcome, participate requests are repeated.  Correct: no
  change is missed, one good proposer is enough, a link is rerouted once, and not
  away from a broker that works.
* **Reconfiguration.**  Machines of different voting versions meet; the
  requestor may die halfway through telling them.  Correct: decisions of
  different versions agree on who accepts for the next.
* **The copy.**  A mirror fed by callbacks of another thread, a pipe of finite
  size, objects that depend on each other.  Correct: what the mirror knows of the
  failed broker is at the backup when the vote is committed, and nobody waits
  for ever.
* **The loop.**  One descriptor is served per turn, timers run in the timeout
  branch only.  Correct: a running broker is not declared dead, a silent one is
  noticed, the list of backups and the table of descriptors are exact.  (That a
  descriptor that is always readable keeps the others and the timers from their turn
  is so, and no property denies it.)

`PROJECT.json` lists the hazards at their lines.  Each of these has its model
below; what has none is at the end.

## The models

### `Proposal`: the order between proposals

`compare` and `getValue` as operators on records, the cast of the unsigned
score to `int` included (`HalfRange` stands for 2^31).  Run `VoteInvariant` checks
`CompareIsTotalOrder` for every triple of 22 proposals (`EveryKind`): three types, two
values for every field of a recovery.  Two values per field are enough because
`compare` looks at one field at a time and stops at the first that differs.  The set is
the constant `Compared`; all that `ComparedAssumption` says of it is that programs could
make its members.

### `PaxosVote`: one vote in one version

One action per handler of `ProposerStateMachine` and `AcceptorStateMachine`
and per step of the programs that drive them.  The variables carry the names
of the fields (`phase1ack`, `promise`, `lastcommit` of both sides as
`vlastcommit` and `alastcommit`; `vstate` and `astate`; `watching` is
`hbc != NULL`; `address` is `mon.ip` and `mon.port`; `connected` is `accsfd`).
A program is one thread around one select loop, so a handler is one step.  The
exception is a winner: `CommitSelf` (the majority is reached, copying starts)
and `finishCommit` (copying ended, `sendCommitment`) are two steps, `busy` lies
between them and everyone else runs on.

Connections are two FIFO queues.  A voter that closes its sockets loses what
it has not read; what it wrote still arrives.  `connectionLost` drops both
queues.  A crash is a voter that does nothing more; nothing is persisted and
nothing restarts a program within a version.

What can go wrong is a constant, so that a run can say what it excludes:
`ForgetfulAcceptors` and `ImpatientProposers` have timers that may fire at any
moment, `CrashingVoters` may crash, `LossyAcceptors` may lose connections or
never be reached.  Time is abstracted to that: a 4 second timer may fire
whenever it has an effect.  `granted`, `counted`, `decision` and `finished` are
history; no action's guard reads them.

Abstractions: the version is fixed (all machines agree on it, so the version
tests of `handleMessage` pass; `Reconfig` has them); the branches of the handlers for a machine
whose sockets are closed have no counterpart, for nothing reaches it; phase 1
and 2 rejections are counted in the code but never read, so only their receipt
is modelled; a proposer watches one service.

### `RecoveryDecision`: what a vote promises

Without acceptors or messages: somebody wins with an outcome, carries it out,
and then others learn it.  `PaxosVote!Decision` is the refinement mapping: `won`
from the history of decisions, `done` from `finished`, `learned` from the
machines in `PHASE3`.

### `Reroute`: how a link finds the backup

The requestor's list of proposers and its subscribers, the proposers'
`Monitored` (address and inform list), the listener's waits and the
connections between them; one service, whose vote each proposer may hear of
at some time (`commitRecovery`) or never.  `sfd[w][p]` is the socket of wait
`w` to proposer `p`; `query[p]` the connections `p` has not accepted;
`answers[w][p]` what is on its way.  `changeAcceptor` makes the requestor repeat
its request to every proposer, and `createProposer` then starts the service
anew.  `looksDead` and `sourceUp` are what `checkFailure` answers for the two
hosts.  Only listeners ask it (before `listenAddressChange` and before a reroute):
a vote needs no more than late heartbeats, so `commitRecovery` may come while the
destination works.  A crash either closes the proposer's connections (its process died) or
leaves them open and silent (its host died).

Abstractions: a write to a connection that its reader closed fails, although
the first such write of a TCP connection may not; nothing can be read from
it, so only the moment at which it leaves the inform list differs.  One link,
so one subscription to the requestor.  Which backup a proposer learns of is left
open here.

### `RecoveryFlow` and `ServiceRecovery`: a recovery from the vote to the links

`RecoveryFlow` puts the vote, the copy and the rerouting together.  Its proposers,
listener and requestor are those of `Reroute`, taken over action by action.  What they
learn comes from a vote of which only the promise is used: `winVote`, `finishCopy` and
`learnOutcome` are the steps `Win`, `Finish` and `Learn` of `RecoveryDecision` (which
`PaxosVote` implements) joined with what `handleCommit` does.  Between `winVote` and
`finishCopy` the winner is in `copyObjects` (`copying`): it answers no query, informs
nobody, reads no request, and may crash.  `handleCommit` changes the address before it
copies, but nothing can read it until the handler informs the list, so that here it
changes in `finishCopy`.  That the copy ends, and with what, is `RecoveryManager`.
`target[w]` is where the link of wait `w` leads, and is read by no guard.

`ServiceRecovery` is what a whole recovery promises: one backup is chosen, the
objects move, and then each link follows, once, to that backup and only if the
broker's host looks dead.  A broker whose heartbeats are late can be replaced while it
works, but its links stay with it: the choice has no condition, to follow has one.
`RecoveryFlow!Whole` is the refinement mapping.

### `RecoveryManager`: the mirror, the copy and the reroute

`brokers` are the brokers with what they have (`content`) and which of their
links are connected (`operational`).  `qmf` are the sessions, whose callbacks
(`objectProps`, `event`, `brokerDisconnected`) write to `pipe`; a writer to a full
pipe blocks.  `main` is what the main loop does: it waits in its select, for
`addBrokerThread` (`adder`) or `copyObjectsThread` (`copier`), or it is in the middle
of `reroute`.  `bavec` and `mirror` are the fields of the class.  A callback writes to
one pipe, `handleEvent` reads from it, and both threads are joined by the loop
that reads it: that is where this component can wait for itself.

Each step that another thread or a failing broker can come between is an
action: connecting and entering a broker, asking for the objects of one type,
writing one event, copying one object, probing a link's destination and copying
the link, making the bridges.  A broker makes an object only if it runs and has
what the object refers to (`created`), which is why the order of the copy
matters.  A lost heartbeat (`startRecovery`), the end of a vote (`handleCommit`) and
the arrival of a new address (`readAddressChange`) happen at any time; what goes
before is in `PaxosVote` and `Reroute`.

Abstractions: an object is its broker, its type and what identifies it there
(`object`); attributes and the broker's object for itself are left out.  Clients
make objects and do not delete them (the mirror ignores deletions).  A broker that
failed stays down.  `waitForStable` waits for ever on a broker that does not run,
and a reroute whose source has just died uses the first element of an empty
list (`recoverymanager.cpp:431`), modelled as a crash; the liveness properties
say so with `Stopped`.

### `FileSelector` and `Monitor`: the loop that watches the brokers

`FileSelector` is the table of descriptors as a sequence: `registerFD`,
`unregisterFD` (the last descriptor takes the place of the one that leaves) and
`FirstReady`, which of the ready ones is served.  `Monitor` puts the loop of a
proposer, or of the landmark (`centralized`), on it, with several services:
`monitor` is the vector of `Monitored`, `watching` those with a heartbeat client,
`regfd` the table, `index` the position in the list of backups, `pass` the position
of the timer pass in `monitor`.  The heartbeat servers of the brokers run beside
it (`lag`), and so does the network between them (`unread`, `closed`).

Time passes in seconds (`tick`).  The loop spends it in select or in a handler
that blocks (`blocked`: `addBroker`, a query, a copy); every other step takes none.
What is kept of the clock is how long ago things happened: `age` is the time since
the client's timestamp, `remaining` what select has left of the timeout, `waited`
(history) the time spent in select since that timestamp.  `HEARTBEAT_PERIOD` is 2.5
in the code, and the server hands it to `unsigned` parameters: it sends every
2 seconds (`ServerPeriod`), while the client doubles it first and expires after 5
(`Expiry`).  `DelayAssumption` says that a heartbeat is on its way no longer than
that allows; beyond it a running broker is declared dead and nothing in the
code could tell.

An empty list of backups ends the program (`crashed`): `getAnElement` returns a
null pointer and a string is made from it.

Abstractions: one descriptor stands for the sockets of a service to its
acceptors; a heartbeat arrives whole; the clock does not jump; every handler
ends; the voting machine of a service is in one of three states (`vote`), and what
moves it between them is in `PaxosVote`.

### `Reconfig`: a service through its voting versions

The requestor, the proposers and the acceptors of one service, each machine with
its version and its list of acceptors (`psm`, `asm`).  A vote in a version is
`PaxosVote`; here its two phases at an acceptor are one step (`sameVersion`) and no
acceptor forgets.  What `PaxosVote` leaves out is here: the version tests of both
`handleMessage` (`outdated`, `notTold`), `createAcceptor` and `createProposer` (which
replace a machine without looking at its version), and the requestor's program,
action by action: it proposes new acceptors when it misses one
(`proposeChange`), wins, tells all acceptors and then all proposers (`changeAcceptor`,
`tell`), commits (`finishChange`), hears acceptors and proposers go
(`loseAcceptor`, `loseProposer`), asks new proposers (`requestProposer`) and may stop
at any moment (`crash`, or its lists are used up).  It does nothing else while it is
in `changeAcceptor`; the others run on, so that some of them are in the new version
and some in the old one.

Requests to participate wait in the receiver's listen queue, in order; votes,
answers and commitments are sets from which anything may be read at any time or
never, which includes lost connections and dead programs.  A program reads its
requests first (`mayRead`), as their descriptor stands first in the table.
`accepted`, `decided` and `superseded` are not read by the guards of any action.

`RecoveryIsKept` has an exception, which a model with two proposers in one version can
reach.  One of them, told of the new version, recovers the broker before
`changeAcceptor` has told the other; the other votes in the old version and learns of
the recovery from an acceptor's answer; then it is told, and `createProposer` puts
back the address of the broker that failed.  It has to propose in the new version, and
be answered, to learn of the recovery again.  No line of the code or its docs says
otherwise, so this is a property with an exception and not a finding.

Abstractions: whether an acceptor refuses because of another's promise is left
open when another voter of the version has asked; a proposer's backup is the
number of its attempt; a requestor is not started a second time for the same
service (it would begin at version 0 and put the acceptors back, which no line
forbids).  The code never calls `checkTimeout` on the requestor's machine, so a
requestor that loses its vote stays `changing` for ever; so does the model's.

`MaxLost` bounds how many acceptors of the current list the requestor may miss at a
time.  It is a condition of the result and not of the model's size: a new proposer
is told the acceptors whose heartbeats are heard (`sendRequest`,
`requestor.cpp:51`), and not the list that was committed.  With one of three missing
every majority of the shorter list meets every majority of the longer one.  With
two of three missing, or with a single acceptor in the list, that is not so, and
TLC finds two winners of one version.  Both docs and code are silent on how many
failures are meant to be survived, so this is stated as an assumption and not
as a finding.

### `VersionChain`: what the versions promise

Without requests, votes or messages: decisions form a chain, each of which ends the
first version that has not ended, and a recovery is its end (`Decide`).  A voter starts
anew after a decision, with the acceptors of that decision, of which it may miss
`MaxLost` (`Start`); an acceptor starts over only to go on to a later version, one
whose decision chose it (`Join`).  `Reconfig!Chain` is the refinement mapping: the
decisions are the history `decided`, versions and lists those of the machines
(`VersionOf`, `ListOf`).  In the code these arrive by four messages: a request to
participate at an acceptor, one at a proposer (whose list is not the committed one),
and a commitment that a requestor or a proposer finds at an acceptor.

## The runs

| Run | Module | Instance, distinct states | What it shows |
| --- | --- | --- | --- |
| `CompetingVote` | `MCPaxosVote` | 2 proposers with different backups, 3 acceptors, no timer and no crash; 71,955 | `SingleWinner`, `Agreement`, `PromiseOnlyRises`, and `LostBrokerIsRecovered` |
| `VoteWithFaults` | `MCPaxosVote` | a proposer and a requestor, 2 acceptors; the proposer and one acceptor have timers that fire at any time, both voters may crash, the other acceptor's connections may fail; 47,784 | what faults cannot break: `WinnerHasMajority`, `OutcomeIsFinishedDecision`, `OutcomeIsFinal`, and `AcceptorsLearnOutcome` |
| `VoteInvariant` | `MCPaxosVote` | 2 proposers with timers, a requestor, 2 acceptors of which one forgets; 222,870 | the inductive invariant of the proofs (`OneWinner` draws `SingleWinner` from it) and the refinement (`ImplementsDecision`) under the weaker assumption of the theorems, with an even number of acceptors; and `CompareIsTotalOrder` |
| `Recovering` | `MCRecoveryFlow` | 2 proposers of which one may crash, 2 backups, one link, one acceptor change; 456,344 | `RerouteInvariant` and `FlowInvariant` (inductive), `RerouteOnce`, `AddressIsKnown`; `LinkIsRerouted`, `WinnerInforms`, and the refinement (`ImplementsRecovery`) |
| `Copying` | `MCRecoveryManager` | 4 brokers: f, its backup b, the link's destination d and its backup n; f and d may fail; one object of each kind; 176,625 | `RecoveryInvariant` (inductive), `OneEntryPerBroker`, `SourceIsAdded`, `CopyIsComplete`; `JoinReturns`, `DownLinkIsRerouted`, `ChangeIsMirrored`, `DownLinkIsReported` |
| `Monitoring` | `MCMonitor` | 2 brokers, 1 backup, 2 requests, either mode; times scaled down; 1,140,399 | `OnlyDelayMisjudges`, `NoticedInTime`, `OneBackupPerRequest`, `TableIsExact`, `TypeOK` |
| `Reconfiguring` | `MCReconfig` | a requestor, 2 proposers of which one is expected, 3 acceptors of which 2 are expected; 726,909 | `OneDecisionPerVersion`, `RecoveredOnce`, `NobodyIsEarly`, `RecoveryIsRestarted`, `RecoveryIsKept`, `VersionsOnlyRise`, the refinement (`ImplementsChain`), and `TypeOK`, which says that the requestor leads |
| `ForgottenAcceptance` | `MCPaxosVote` | one acceptor forgets | a violation of `SingleWinner`, see Findings |
| `GivenUpProposal` | `MCPaxosVote` | one proposer times out | a violation of `ProposingOrRecovered` |
| `SplitVote` | `MCPaxosVote` | 3 equal proposals, 3 acceptors | a violation of `NoSilentAbandonment` |
| `ForgottenSubscriber` | `MCRecoveryFlow` | one proposer, one acceptor change | a violation of `WhoAskedIsInformed` |
| `CopiedLink` | `MCRecoveryManager` | the instance of `Copying` | a violation of `CopiedLinkIsRerouted` |

Why the instances are enough.  Two voters are the least that compete, and the
arguments of the proofs are about pairs of voters.  Three acceptors make a
majority that survives the loss of one; two acceptors make an even number,
where a majority is all of them.  The code allows three proposers and five
acceptors (`MAX_PROPOSERS`, `MAX_ACCEPTORS`); what holds for all sizes is proved.  A voter proposes once in a version (it gives up its
heartbeat client, or its machine stays out of `INITIAL`), so no counter needs a
bound in `PaxosVote`.  `VoteWithFaults` has two acceptors because timers can fire
without end there.  In `Recovering` the two proposers may each win with either backup;
only the other one, or none, may crash.  There `MaxChanges` bounds the acceptor changes (one is
enough to repeat a request, and to repeat it while a query is under way), and
`MaxAnswers` says how many unread answers a connection may hold when the
periodic answer, once a minute in the code, is sent; the answers to a query
and to a change of address are not bounded.  Centralized mode, the empty
acceptor list, is left to the theorems: their constants include it, except
where `ReliableMajorities` asks for an acceptor.

`Copying` has one object of each kind that refers to others: an exchange, a queue
and a binding between them, a link and a bridge over it.  The bridge comes at any time,
so that it is in the mirror or not when f fails.  b and n do not fail: with f and
d failing in any order that leaves a recovery, a reroute and both at once (a
failing backup was checked once for `RecoveryInvariant`, 1.3 million states; the
theorems have no such condition).  `PipeSize` is 12, and it is tight: with 11,
`JoinReturns` fails, because the loop waits for a thread that is blocked on the
pipe that only the loop reads.  The real pipe holds 8192 pointers (64 KiB), so
the property says that a proposer stands as long as the events it has not read
and the objects of the broker it adds fit, and no longer.

`Monitoring` has two brokers, for what goes wrong is the recovery of one that keeps
the loop while the other is judged, and one backup for two requests, so that the
list is used up.  A handler takes no time or longer than the expiry (`BlockTimes`).
The times are scaled down to a period of 1, a delay of 1, an expiry of 2 and a
timeout of 2, which is the tightest `DelayAssumption` admits.  `MaxUnread` bounds the
heartbeats that wait in a socket: the client takes its time when it reads one,
whatever their number.

`Reconfiguring` ends by itself: the requestor takes each name once, so three
acceptors for lists of two allow the change to the first list and one
replacement, and versions, requests and attempts are bounded with them (a
proposer watches a service again only after a request).  Two of three is the least
in which an acceptor stays and another goes, and one expected proposer of two the
least in which one is replaced.  It was also run once with `MaxLost` 2 for
`NobodyIsEarly` and `RecoveryIsRestarted`, which hold there as the theorems say.
The exception of `RecoveryIsKept` needs two proposers that are both expected; that
instance (1,189,193 states) was run once, and the property holds there too.

Deadlock is not checked: a vote that is over has nothing left to do, a link that
is rerouted neither, and nor has a program that has crashed or used up its lists.

Symmetry is used where the cfg gives sets that hold all or none of the
interchangeable parties, never with liveness.

### Fairness

`PaxosVote!Fairness`: weak fairness of each voter's program and of each acceptor
whose connections work.  A program is one select loop that serves a ready
descriptor as soon as it returns to it; TCP delivers what a live program wrote;
`copyObjects` ends.  Nothing else is fair: nobody must crash, time out, or lose a
heartbeat.  `RecoveryFlow!FlowFairness`: the listener reads a connection that stays
ready, and the copy of a winner that stays up ends (`JoinReturns`).
`RecoveryManager!FairSpec`: the sessions and both threads run (each is a thread of
its own), and the main loop takes steps as long as it has some.  `mainLoop` has
no steps of the environment: a client need not make the bridge, a broker need
not fail, a heartbeat need not be lost, a vote need not end.  The arrival of an
address that the loop waits for is fair, which is what `LinkIsRerouted` and
`WinnerInforms` of `RecoveryFlow` give under their conditions.
The loop serves the first ready descriptor of its table, so a descriptor that
is ready again each time the loop returns would starve those behind it; this
fairness assumes that no peer writes that fast (heartbeats come once per
`HEARTBEAT_PERIOD`, and a vote has a bounded number of messages).  `Monitor` has that
order and states what it does promise without such an assumption, in seconds
instead of under fairness: `NoticedInTime` counts the time in select.  `Monitor` and
`Reconfig` state no fairness and no liveness.

## Findings

What the code does and what its own text says differ in five places.  Each has
a run whose counterexample shows it.

* `ForgottenAcceptance`.  An acceptor's timer (`paxos.cpp:146-151`) forgets an
  acceptance that the winner counted.  The winner is still copying and has told
  nobody; the acceptor accepts the second proposer, which wins too.  Copying
  takes longer than 4 seconds easily, so every acceptor forgets before the
  winner's commitment arrives.
* `GivenUpProposal`.  `checkTimeout` puts a voting proposer back to `INITIAL`; its
  heartbeat client is gone, so its timer loop skips the broker from then on,
  with the comment "proposing or recovered".
* `SplitVote`.  Three proposers with equal proposals are each accepted by one of
  three acceptors; the other requests are dropped without an answer and
  nobody proposes again.
* `ForgottenSubscriber`.  A repeated participate request replaces the `Monitored`
  of a service and its inform list with it; whoever had asked waits on an open
  connection for ever.
* `CopiedLink`.  A link that is copied while its destination is down gets its
  link-down event from the copy itself ("if the dest is down, no LinkDownEvent
  will come", `recoverymanager.cpp:338`), and the proposer waits for the
  destination's new address.  When it arrives, `reroute` adds the backup, whose
  objects go to the event pipe, and looks for the link in the mirror at once,
  before the loop has read the pipe: "old link not found"
  (`recoverymanager.cpp:406`).  The wait is over and nobody tries again.

## The proofs

Every theorem holds for all values of the constants.  Assumptions on constants:
`VotersAssumption` (voters and acceptors are different programs), `BackupsAssumption`,
`AcceptorsAssumption` (the acceptor list is finite), `MaxChangesAssumption`
(a natural number), `BackupAssumption`, `ObjectsAssumption` and `PipeAssumption`
(every broker has a backup, objects are objects, the pipe has a size),
`TimesAssumption` (times and bounds are natural numbers), `DelayAssumption`
(`ServerPeriod + MaxDelay <= Expiry`), `ComparedAssumption` (the proposals whose order
is asked are ones that programs make), `PartiesAssumption` (the acceptors are finitely
many and no voters) and `ExpectedAssumption` (the expected numbers are natural).

`PaxosVoteInv` has the inductive invariant of the vote in five parts; `TLC`
checks their conjunction in `VoteInvariant`.

* `TypeInv`: types, and what a voting machine proposes and a commit message
  carries are real proposals.  `TypeOK` alone is not inductive: without it
  `sendCommitment` could send a `NoProposal`.  → `TypeCorrect` (`PaxosVoteProofs`).
* `CountInv`: a counter that knows nothing of acceptors equals the number of
  different acceptors that accepted.  It needs that a voter proposes at most
  once, asks each acceptor at most once for phase 2 and is acknowledged at most
  once by each.  → `WinnersHaveMajority` (`PaxosVoteSafety`), whatever timers,
  crashes and lost connections do.
* `OutcomeInv`: commit messages and machines in `PHASE3` hold what a finished
  winner decided.  → `OutcomesAreFinishedDecisions`.
* `AcceptOnce`: an acceptor that does not forget accepts one voter.  The state
  ensures this and not the comparison of proposals, since equal ones do not
  outrank each other.
* `WinnerActs`: a winner is copying, has finished or crashed, so it never votes
  again.

`VoteInductive` (`PaxosVoteRefinement`) is their conjunction; no part of it assumes
anything of majorities.  More theorems of `PaxosVoteSafety` follow from parts of it:

* `OutcomesAreFinal` adds `FinalInv`: a machine in `PHASE3` has closed its sockets, so
  nothing reaches it, and a proposer whose address moved is carrying a recovery out,
  has an outcome or crashed.
* `PromisesRise` needs that `compare` is a total order, which `CompareOrdersAll` proves for
  all proposals of a version: a rank by type, then the first difference of the
  fields compared, which exists since acceptor lists are compared by length
  first.  It assumes `BackupsAssumption` (scores are natural numbers below the sign
  bit: one read as a negative `int` could equal the value of an acceptor change) and
  that addresses and ports are numbers.  `OrderIsTotal` is what the run checks, for any
  set of proposals that programs make.
* `OnlyTimersGiveUp` is the claim that `GivenUpProposal` refutes ("proposing or
  recovered"), where no proposer has a timer that fires: the timer is the only way
  back to `INITIAL` without a heartbeat client.

`OneWinner` and `OneOutcome` use all of them and one assumption about the
constants, `ReliableMajorities`: any two majorities share an acceptor that does
not forget.  Without it they are false, as `ForgottenAcceptance` shows.
`NoTimerNoDoubt` discharges it when no acceptor forgets and there is one at
least (a majority is more than half, by cardinality of finite sets).
`VoteImplementsDecision` (`PaxosVoteRefinement`) shows, under the same assumption,
that initial states map to initial states and every step to a step of
`RecoveryDecision` or to a stutter.

`RerouteProofs` has the invariant of rerouting, `RerouteInvariant`: types;
`WaitIsOver`, a wait that rerouted has no open connection; `AskedAfterLinkDown`,
nobody is asked before the link-down event, so a wait never opens connections
twice; `ChangeIsOnItsWay`, whoever a proposer accepted and did not drop is in
its inform list, and a changed address is on its way to it.  →
`RerouteInductive`, `ReroutedOnce`, `NoChangeIsMissed`.  `OnlyRepetitionForgets` is the
claim that `ForgottenSubscriber` refutes, where the acceptors never change: a proposer
is then asked to participate once, before anybody can ask it (`AskedOnce`), so no
inform list is replaced.

About `RecoveryFlow` the same module proves that it does nothing `Reroute` does not
(`FlowImplementsReroute`), so that all of the above holds of it; that until the copy is
done no address but the old one is known or on its way, and then only that of the
winner's backup (`FlowInvariant` → `NobodyKnowsEarly`); and that it implements
`ServiceRecovery` (`LinksFollowTheCopy`): a link follows only an address that was on its
way, which is the outcome and was sent after the copy; whoever waits for one found the
host dead (`AskedIfDead`); and by `WaitIsOver` it follows no second one.

`RecoveryManagerProofs` has the invariant of `RecoveryManagerInv`,
`RecoveryInvariant` (→ `RecoveryInductive`):

* `ThreadInv`: a thread runs exactly while the main loop waits for it.  All else
  rests on this: it is what the joins are for.
* `AdderInv`, with `OneEntryPerBroker` and `SourceIsAdded`: a broker whose thread is
  connecting is not in `bavec` yet, one whose thread reads is; a reroute that waits
  waits for its source.  → `EnteredOnce`, `RerouteFindsSource`.
* `CopyInv`: the copy goes through the types in their order (`OrderInv`), and
  whatever of the snapshot is not `pending` is at the backup.  The step that copies
  a binding uses that its exchange and queue are not pending any more, the one
  that makes the bridges that no link is.  `CopyIsComplete` alone is not
  inductive: it speaks of the end only.  → `CopyComplete`.

`MonitorProofs` needs little beyond types for three of its theorems: the table holds
every descriptor once and those of clients that are there (→ `TableStaysExact`), a
request costs at most one backup because whoever raised an alarm is not watched
any more, and the program reads past the end of the list only after more requests than
there are backups (→ `BackupsLast`), and the types bound the indices (→ `MonitorTypes`).
`RunningBrokersAreSafe` rests on an invariant about a running, watched broker: a
heartbeat waits in the socket or `age` is at most `lag`; a pass begins with nothing
to read, so `age` is at most `ServerPeriod + MaxDelay` until something blocks (`Fresh`).
`SilenceIsNoticed` rests on a sum: of the time a broker
has been waited for, what is beyond its expiry is at most what is used up of the
current timeout.

`ReconfigInv` has the invariant of `Reconfig` in parts, of which each is inductive
given those before it; `ReconfigProofs` and `ReconfigSafety` prove them in that order,
one lemma for each action.  No run lists them (the proofs check them), but TLC
agreed with each on the instance of `Reconfiguring` before it was proved.

* `RequestorInv`, `KnownInv`, `ConnectionInv`: what the requestor's version, its machine's
  version and the acceptors it hears say of each other; only what won is told
  of; what is on a voter's connections is about the proposal it makes now.
* `ChangeInv`: acceptor changes are decided one version after the other.
* `VersionInv`: nobody is more than one version ahead of the requestor, since an
  acceptor change is known to others only when the requestor carries it out.
  → `RequestorLeads`.
* `RequestInv`: the requests of a program are for later and later versions and none
  before its machine's.  → `MachinesRise`.
* `AcceptedInv`: an acceptor accepts one proposal in a version.
* `ListInv`: the lists that proposers are told for one version are nested and miss
  at most `MaxLost` acceptors of the committed one, because the requestor hears
  fewer and fewer of them while the version lasts.
* `BackedInv`: what won was accepted by a majority of a list that nests with every
  list told.  If at most one acceptor is missing, majorities of nested lists
  meet (`NestedMajoritiesMeet`), in an acceptor that accepted both.
  → `VersionEndsOnce`, `RecoveryIsLast`.
* `ToldInv`: each acceptor of a version was told of it or will be before any
  proposer is.  → `AcceptorsKnowFirst`, `EndedRecoveryRestarts`.
* `SeatInv`: an acceptor is told only of versions whose decision chose it, and a proposer
  proposes its own recovery.  `ChainInv`: each version before one that ended was ended
  by an acceptor change, which follows from `VersionEndsOnce`, `RecoveryIsLast` and
  `KnownInv`.  Each action is then a step of `VersionChain` or a stutter: what wins is
  `Decide`, what a program reads of a version is `Start` or `Join`, and a vote or a
  loss is nothing.  → `VersionsFormChain`.
* `KeptInv`: a proposer that takes part in a vote (`Votes`) was told of its version and
  will be told only of versions that an acceptor change began.  One that recovered,
  or learned, in its own version cannot be told of that version (the decision was
  not a change) nor of a later one (nothing follows a recovery).  → `RecoveredStay`.

`VersionEndsOnce`, `RecoveryIsLast`, `VersionsFormChain` and `RecoveredStay` assume `MaxLost <= 1` and
`ExpectedAcceptors >= 2`; the other four do not.

Model-checked only: liveness (`LostBrokerIsRecovered`, `AcceptorsLearnOutcome`,
`LinkIsRerouted`, `WinnerInforms`, and `JoinReturns`, `DownLinkIsRerouted`, `ChangeIsMirrored` and
`DownLinkIsReported` of the copy), which this prover does not reach.

`LostBrokerIsRecovered` needs the conditions of its run.  With three equal
proposals it fails (`SplitVote`), and so it does when a timer fires
(`GivenUpProposal`) or the winner crashes.

## What checks the checks

Next to the definitions they vary, the modules have operators that
no action uses, faults that a change to the code could introduce.  With the
fault in place of the definition, TLC reports the property on the right.

| Definition | Fault | Noticed by |
| --- | --- | --- |
| `compare` | `compareWithoutPriority`: any larger field decides | `CompareIsTotalOrder` |
| `Majority` | `MajorityRoundedDown` | `SingleWinner`, `Agreement`, `WinnerHasMajority` |
| `Majority` | `MajorityMeansAll` | `LostBrokerIsRecovered` |
| `Accepts` | `AcceptsTwice`: an accepting acceptor accepts again | `ImplementsDecision`, `InductiveInvariant` |
| `Outranks` | `OutranksNothing` | `PromiseOnlyRises` |
| `CommittingProposal` | `ProposalAlreadyReset` | `TypeOK` |
| `AnswersWithOutcome` | `AnswersWhenAccepted`: phase 2 taken for committed | `OutcomeIsFinishedDecision` |
| `TakesOutcome` | `TakesOutcomeIfAccepted` | `AcceptorsLearnOutcome` |
| `ResetByTimer` | `TimesOutInEveryState` | `OutcomeIsFinal` |
| `closeAll` | `closeReadyOnly` | `RerouteOnce` |
| `firstAnswer` | `firstAnswerLater`: no answer before the next change | `AddressIsKnown` |
| `informed` | `informNobody` | `RerouteInvariant`, `LinkIsRerouted` |
| `learnOutcome` | `LearnsWhoWon`: who won is learned before the copy is done | `FlowInvariant` |
| `askable` | `asksAnyway`: the probe before `listenAddressChange` is left out | `ImplementsRecovery` |
| `finishCopy` | `FinishesSilently`: the winner's list is not informed | `WinnerInforms` |
| `toBeAdded` | `alwaysAdded`: a thread for a broker that is entered | `OneEntryPerBroker` |
| `joinThread` | `detachThread`, as in the line that is commented out (`recoverymanager.cpp:154`) | `SourceIsAdded`, `RecoveryInvariant` |
| `CopyOrder` | `bindingsBeforeQueues` | `CopyIsComplete` |
| `objectsOfType` | `notCleared`: the objects of earlier types again | `JoinReturns` |
| `toNewDest` | `toOldDest` | `DownLinkIsRerouted` |
| `addObjectInfo` | `replaceKnownOnly` | `ChangeIsMirrored` |
| `sendLinkDownEvent` | `reportNothing` | `DownLinkIsReported` |
| `NoBackupLeft` | `TakesBeyondTheList`: off by one at the end of the list | `TypeOK` |
| `isExpired` | `ExpiresAfterOnePeriod`: the period is not doubled | `OnlyDelayMisjudges` |
| `TimeLeft` | `TimeoutStartsAnew`: every call of select gets the whole timeout | `NoticedInTime` |
| `Unwatch` | `KeepsClient`: the client outlives its alarm | `OneBackupPerRequest` |
| `Unregister` | `KeepsDescriptor`: closed, but left in the table | `TableIsExact` |
| `nextVersion` | `SkipsVersion` | `TypeOK` |
| `outdated` | `acceptsOutdated`: no version test | `OneDecisionPerVersion` |
| `Majority` (`Reconfig`) | `MajorityRoundedDown` | `RecoveredOnce` |
| `mayTell` | `ProposersFirst` | `NobodyIsEarly` |
| `recipients` | `NewAcceptorsOnly`: the proposers are not told | `RecoveryIsRestarted` |
| `Participate` | `NewestFirst`: requests overtake each other | `VersionsOnlyRise` |
| `Participate` | `TellsWhoItKnows`: all acceptors in the request instead of the list | `ImplementsChain` |
| `requestProposer` | `AsksAgain`: a proposer that was lost is asked again | `RecoveryIsKept` |

## The plan

Done: `Proposal`, `PaxosVote`, `RecoveryDecision`, `Reroute`, `RecoveryFlow`,
`ServiceRecovery`, `RecoveryManager`, `FileSelector`, `Monitor`, `Reconfig` and
`VersionChain`, with their proofs.  What is left:

1. That a version of `Reconfig` in which nobody forgets implements, in one step for
   two phases, what `PaxosVote` does with messages in each version.

## Not modelled

* Sockets, ports and time stamps: wrappers of system calls, used for what they do
  where they are called.  With them, the size of the table (400), a descriptor of
  -1 that is registered when a connection failed, a heartbeat of which only a part
  has arrived, and a clock that is set back.
* Attributes of broker objects and the statistics of queues; reading the name lists
  from their files.
* A requestor that is started again for a service that has one or had one.
* A handler that never returns (a peer that connects and sends nothing,
  `common.h:93`): the program stops there, and with it everything that is promised.
* Message copy (its only call is commented out), the tools under `src/extra` (command
  line helpers and a vendored ping daemon that nothing calls), build files and
  scripts.
