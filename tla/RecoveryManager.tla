------------------------ MODULE RecoveryManager ------------------------
(***************************************************************************)
(* What a proposer does to the brokers (recovery/recoverymanager.cpp).     *)
(*                                                                         *)
(* It keeps a mirror of the objects of the brokers it knows: exchanges,    *)
(* queues, bindings, links and bridges.  The QMF sessions, which run in    *)
(* threads of their own, report objects, failed links and lost brokers by  *)
(* writing to a pipe (class Listener) that the main loop reads.  The main  *)
(* loop fills the mirror from the pipe, adds brokers, recovers a failed    *)
(* broker on its backup (copyObjects) and moves a link to the backup of    *)
(* its destination (reroute).  Adding and recovering start a thread and    *)
(* wait for its end; these threads write to the same pipe.                 *)
(*                                                                         *)
(* PaxosVote says who recovers a broker, Reroute how a listener learns a   *)
(* new address; here a vote is won or lost, and an address changes, at     *)
(* any time.                                                               *)
(***************************************************************************)
EXTENDS Naturals, Sequences, FiniteSets

CONSTANTS
    Brokers,
    Names,          \* of exchanges, queues and bridges
    Registering,    \* brokers whose requestors ask this proposer to watch them
    StableBrokers,  \* brokers that do not fail
    Backup,         \* Backup[b]: the address that replaces b's
    Objects,        \* objects that clients have made or make at the brokers
    FirstObjects,   \* those that exist at the start
    Changing,       \* bound: objects that a session reports, each once
    Ignored,        \* names that isIgnoredName leaves out of the mirror
    PipeSize        \* how many events the pipe holds

(* An object: the broker that has it, its type, and what identifies it     *)
(* there: a name, the exchange and queue of a binding, the destination of a*)
(* link, the destination and name of a bridge.  That a broker also has an  *)
(* object for itself is left out: nothing is done with it.                 *)
object(b, t, k) == [broker |-> b, type |-> t, key |-> k]
moved(o, b) == [o EXCEPT !.broker = b]

(* The objects that o refers to by their ids. *)
references(o) ==
    IF o.type = "binding"
    THEN {object(o.broker, "exchange", <<o.key[1]>>), object(o.broker, "queue", <<o.key[2]>>)}
    ELSE IF o.type = "bridge" THEN {object(o.broker, "link", <<o.key[1]>>)} ELSE {}

isIgnoredName(o) == o.type \in {"exchange", "queue"} /\ o.key[1] \in Ignored

AllObjects ==
         [broker : Brokers, type : {"exchange", "queue"}, key : {<<m>> : m \in Names}]
    \cup [broker : Brokers, type : {"binding"}, key : Names \X Names]
    \cup [broker : Brokers, type : {"link"}, key : {<<d>> : d \in Brokers}]
    \cup [broker : Brokers, type : {"bridge"}, key : Brokers \X Names]
Types == {"exchange", "queue", "binding", "link", "bridge"}
Links == {o \in Objects : o.type = "link"}

ASSUME BackupAssumption == Backup \in [Brokers -> Brokers]
ASSUME ObjectsAssumption == Objects \subseteq AllObjects /\ FirstObjects \subseteq Objects
ASSUME PipeAssumption == PipeSize \in Nat

OBJECTPROPERTY(o) == [type |-> "OBJECTPROPERTY", object |-> o]
LINKDOWN(src, dst) == [type |-> "LINKDOWN", src |-> src, dst |-> dst]
BROKERDISCONNECTION(b) == [type |-> "BROKERDISCONNECTION", broker |-> b]
Events == [type : {"OBJECTPROPERTY"}, object : AllObjects]
          \cup [type : {"LINKDOWN"}, src : Brokers, dst : Brokers]
          \cup [type : {"BROKERDISCONNECTION"}, broker : Brokers]

VARIABLES
    \* the brokers
    up,             \* those that run
    content,        \* the objects they have
    operational,    \* the links that were connected
    \* the QMF sessions
    sessions,       \* brokers that the session manager is connected to
    reported,       \* changed objects that a session reported
    disconnected,   \* brokers whose loss was reported
    pipe,           \* events that the main loop has not read
    \* the main loop
    main,           \* what it does
    next,           \* where it goes on after addBroker
    job,            \* the link that it reroutes
    bavec,          \* the brokers it added
    mirror,         \* the objects it knows
    registered,     \* bound: brokers that asked to be watched, each once
    watched,        \* brokers whose heartbeats it receives
    voting,         \* brokers whose recovery it proposed
    dstproposers,   \* destinations whose requestors it is subscribed to
    listening,      \* links whose destination's new address it waits for
    \* the threads that it waits for
    adder,          \* addBrokerThread
    copier          \* copyObjectsThread

brokers == <<up, content, operational>>
qmf     == <<sessions, reported, disconnected>>
program == <<registered, watched, voting>>
links   == <<dstproposers, listening>>
vars == <<brokers, qmf, pipe, main, next, job, bavec, mirror, program, links, adder, copier>>

NoJob == [src |-> "none", old |-> "none"]
Jobs == {NoJob} \cup [src : Brokers, old : Brokers]

Adders ==
    [at : {"none", "connect", "read", "done"}, broker : Brokers \cup {"none"},
     types : Seq(Types), batch : SUBSET AllObjects]
Copiers ==
    [at : {"none", "connect", "broker", "copy", "bridges", "done", "failed"},
     from : Brokers \cup {"none"}, to : Brokers \cup {"none"}, types : Seq(Types),
     snapshot : SUBSET AllObjects, todo : SUBSET AllObjects, link : SUBSET AllObjects]

TypeOK ==
    /\ up \subseteq Brokers
    /\ content \subseteq AllObjects
    /\ operational \subseteq {o \in content : o.type = "link"}
    /\ sessions \subseteq Brokers /\ disconnected \subseteq sessions
    /\ reported \subseteq AllObjects
    /\ pipe \in Seq(Events) /\ Len(pipe) <= PipeSize
    /\ main \in {"select", "addBroker", "reroute", "bridges", "copyObjects", "crashed"}
    /\ next \in {"select", "reroute"}
    /\ job \in Jobs
    /\ bavec \in Seq(Brokers)
    /\ mirror \subseteq AllObjects
    /\ registered \subseteq Brokers /\ watched \subseteq registered /\ voting \subseteq registered
    /\ dstproposers \subseteq Brokers
    /\ listening \subseteq Brokers \X Brokers
    /\ adder \in Adders
    /\ copier \in Copiers

NoAdder == [at |-> "none", broker |-> "none", types |-> <<>>, batch |-> {}]
NoCopier == [at |-> "none", from |-> "none", to |-> "none", types |-> <<>>,
             todo |-> {}, link |-> {}, snapshot |-> {}]

Init ==
    /\ up = Brokers
    /\ content = FirstObjects
    /\ operational = {o \in FirstObjects : o.type = "link"}
    /\ sessions = {} /\ reported = {} /\ disconnected = {}
    /\ pipe = <<>>
    /\ main = "select" /\ next = "select" /\ job = NoJob
    /\ bavec = <<>> /\ mirror = {}
    /\ registered = {} /\ watched = {} /\ voting = {}
    /\ dstproposers = {} /\ listening = {}
    /\ adder = NoAdder /\ copier = NoCopier
-----------------------------------------------------------------------------
(* Faults a change to the code could introduce, each a variant of one       *)
(* definition below; the specification uses none of them.                   *)
alwaysAdded(b) == TRUE
replaceKnownOnly(o) == mirror
detachThread(then) == then
notCleared(types) ==
    {o \in content : /\ o.broker = adder.broker /\ o.broker \in up
                     /\ \A i \in 2 .. Len(types) : o.type # types[i]}
bindingsBeforeQueues == <<"exchange", "binding", "queue", "link">>
reportNothing(src, dst) == <<>>
toOldDest(dst) == [d \in {dst} |-> d]
-----------------------------------------------------------------------------
(* The brokers and their clients. *)

clientCreates(o) ==
    /\ o \in Objects \ content
    /\ o.broker \in up
    /\ references(o) \subseteq content
    /\ content' = content \cup {o}
    /\ operational' = IF o.type = "link" /\ o.key[1] \in up
                      THEN operational \cup {o} ELSE operational
    /\ UNCHANGED <<up, qmf, pipe, main, next, job, bavec, mirror, program, links, adder, copier>>

brokerFails(b) ==
    /\ b \in up \ StableBrokers
    /\ up' = up \ {b}
    /\ operational' = {o \in operational : o.broker # b}
    /\ UNCHANGED <<content, qmf, pipe, main, next, job, bavec, mirror, program, links, adder, copier>>

(* The objects that a broker creates when asked for new: it runs and has    *)
(* what they refer to.                                                      *)
created(new) == {o \in new : o.broker \in up /\ references(o) \subseteq content}
create(new) ==
    /\ content' = content \cup created(new)
    /\ operational' = operational \cup {o \in created(new) : o.type = "link" /\ o.key[1] \in up}
-----------------------------------------------------------------------------
(* The QMF sessions. *)

(* A write to a full pipe blocks the writer. *)
sendEventPtr(e) == main # "crashed" /\ Len(pipe) < PipeSize /\ pipe' = Append(pipe, e)

(* A session reports a new or changed object. *)
objectProps(o) ==
    /\ o \in Changing \ reported
    /\ o.broker \in sessions \cap up
    /\ sendEventPtr(OBJECTPROPERTY(o))
    /\ reported' = reported \cup {o}
    /\ UNCHANGED <<brokers, sessions, disconnected, main, next, job, bavec, mirror, program,
                   links, adder, copier>>

(* A broker announces that one of its links lost its destination, to the    *)
(* sessions there are.                                                      *)
event(o) ==
    /\ o.key[1] \notin up
    /\ operational' = operational \ {o}
    /\ IF o.broker \in sessions THEN sendEventPtr(LINKDOWN(o.broker, o.key[1]))
                                ELSE UNCHANGED pipe
    /\ UNCHANGED <<up, content, qmf, main, next, job, bavec, mirror, program, links, adder, copier>>

brokerDisconnected(b) ==
    /\ b \in sessions \ (up \cup disconnected)
    /\ sendEventPtr(BROKERDISCONNECTION(b))
    /\ disconnected' = disconnected \cup {b}
    /\ UNCHANGED <<brokers, sessions, reported, main, next, job, bavec, mirror, program,
                   links, adder, copier>>
-----------------------------------------------------------------------------
(* addBroker and deleteBroker *)

isAdded(b) == \E i \in 1 .. Len(bavec) : bavec[i] = b
getBrokerIndexByAddress(b) ==
    CHOOSE i \in 1 .. Len(bavec) : bavec[i] = b /\ \A j \in 1 .. (i - 1) : bavec[j] # b

toBeAdded(b) == ~ isAdded(b)

(* What the caller does once the thread is created: it waits for its end.   *)
joinThread(then) == "addBroker"

addBroker(b, then) ==
    IF toBeAdded(b)
    THEN /\ main' = joinThread(then)
         /\ next' = then
         /\ adder' = [NoAdder EXCEPT !.at = "connect", !.broker = b]
    ELSE main' = then /\ UNCHANGED <<next, adder>>

deleteBroker(b) ==
    LET i == getBrokerIndexByAddress(b)
    IN  bavec' = IF isAdded(b) THEN SubSeq(bavec, 1, i - 1) \o SubSeq(bavec, i + 1, Len(bavec))
                               ELSE bavec

(* addBrokerThread waits until the session is stable, which takes a running *)
(* broker, and enters the broker.                                           *)
connectBroker ==
    /\ adder.at = "connect"
    /\ adder.broker \in up
    /\ sessions' = sessions \cup {adder.broker}
    /\ bavec' = Append(bavec, adder.broker)
    /\ adder' = [adder EXCEPT !.at = "read",
                              !.types = <<"link", "exchange", "queue", "binding", "bridge">>]
    /\ UNCHANGED <<brokers, reported, disconnected, pipe, main, next, job, mirror, program,
                   links, copier>>

objectsOfType(types) ==
    {o \in content : o.broker = adder.broker /\ o.broker \in up /\ o.type = Head(types)}

(* It asks for the objects of one type after the other, *)
getObjects ==
    /\ adder.at = "read" /\ adder.batch = {}
    /\ adder' = IF adder.types = <<>> THEN [adder EXCEPT !.at = "done"]
                ELSE [adder EXCEPT !.types = Tail(@), !.batch = objectsOfType(adder.types)]
    /\ UNCHANGED <<brokers, qmf, pipe, main, next, job, bavec, mirror, program, links, copier>>

(* and writes each of them to the pipe. *)
addObjectProps(o) ==
    /\ adder.at = "read" /\ o \in adder.batch
    /\ sendEventPtr(OBJECTPROPERTY(o))
    /\ adder' = [adder EXCEPT !.batch = @ \ {o}]
    /\ UNCHANGED <<brokers, qmf, main, next, job, bavec, mirror, program, links, copier>>

joinAdder ==
    /\ main = "addBroker" /\ adder.at = "done"
    /\ main' = next
    /\ adder' = NoAdder
    /\ UNCHANGED <<brokers, qmf, pipe, next, job, bavec, mirror, program, links, copier>>
-----------------------------------------------------------------------------
(* copyObjects *)

(* The order in which copyObjectsThread copies what it was given. *)
CopyOrder == <<"exchange", "queue", "binding", "link">>

copyObjects(fail, backup) ==
    /\ main' = "copyObjects"
    /\ copier' = [NoCopier EXCEPT !.at = "connect", !.from = fail, !.to = backup,
                                  !.snapshot = {o \in mirror : o.broker = fail}]

connectBackup ==
    /\ copier.at = "connect"
    /\ copier.to \in up
    /\ copier' = [copier EXCEPT !.at = "broker"]
    /\ UNCHANGED <<brokers, qmf, pipe, main, next, job, bavec, mirror, program, links, adder>>

(* The thread gives up if the backup has no broker object. *)
getBackupBroker ==
    /\ copier.at = "broker"
    /\ copier' = IF copier.to \in up THEN [copier EXCEPT !.at = "copy", !.types = CopyOrder]
                                     ELSE [copier EXCEPT !.at = "failed"]
    /\ UNCHANGED <<brokers, qmf, pipe, main, next, job, bavec, mirror, program, links, adder>>

nextType ==
    /\ copier.at = "copy" /\ copier.todo = {} /\ copier.link = {}
    /\ copier' = IF copier.types = <<>> THEN [copier EXCEPT !.at = "bridges"]
                 ELSE [copier EXCEPT !.types = Tail(@),
                          !.todo = {o \in copier.snapshot : o.type = Head(copier.types)}]
    /\ UNCHANGED <<brokers, qmf, pipe, main, next, job, bavec, mirror, program, links, adder>>

(* setBindingNames finds names only for what was copied from the mirror. *)
copyObject(o) ==
    /\ copier.at = "copy" /\ o \in copier.todo /\ o.type # "link"
    /\ create(IF references(o) \subseteq copier.snapshot THEN {moved(o, copier.to)} ELSE {})
    /\ copier' = [copier EXCEPT !.todo = @ \ {o}]
    /\ UNCHANGED <<up, qmf, pipe, main, next, job, bavec, mirror, program, links, adder>>

sendLinkDownEvent(src, dst) == <<LINKDOWN(src, dst)>>

(* A link's destination is probed first; if it is down, the event that no   *)
(* broker will send is written to the pipe.  The link is copied anyway.     *)
probeLink(o) ==
    /\ copier.at = "copy" /\ o \in copier.todo /\ o.type = "link" /\ copier.link = {}
    /\ IF o.key[1] \in up THEN UNCHANGED pipe
       ELSE /\ Len(pipe) < PipeSize
            /\ pipe' = pipe \o sendLinkDownEvent(copier.to, o.key[1])
    /\ copier' = [copier EXCEPT !.todo = @ \ {o}, !.link = {o}]
    /\ UNCHANGED <<brokers, qmf, main, next, job, bavec, mirror, program, links, adder>>

copyLink ==
    /\ copier.at = "copy" /\ copier.link # {}
    /\ create({moved(o, copier.to) : o \in copier.link})
    /\ copier' = [copier EXCEPT !.link = {}]
    /\ UNCHANGED <<up, qmf, pipe, main, next, job, bavec, mirror, program, links, adder>>

(* The bridges of src among the known objects, if their link is known and   *)
(* its destination in the domain of dest, are made anew at newsrc.          *)
copyBridges(known, src, newsrc, dest) ==
    create({object(newsrc, "bridge", <<dest[o.key[1]], o.key[2]>>) :
               o \in {m \in known : /\ m.type = "bridge" /\ m.broker = src
                                    /\ references(m) \subseteq known
                                    /\ m.key[1] \in DOMAIN dest}})

copyAllBridges ==
    /\ copier.at = "bridges"
    /\ copyBridges(copier.snapshot, copier.from, copier.to, [d \in Brokers |-> d])
    /\ copier' = [copier EXCEPT !.at = "done"]
    /\ UNCHANGED <<up, qmf, pipe, main, next, job, bavec, mirror, program, links, adder>>

(* The result of the thread is not looked at. *)
joinCopier ==
    /\ main = "copyObjects" /\ copier.at \in {"done", "failed"}
    /\ main' = "select"
    /\ copier' = NoCopier
    /\ UNCHANGED <<brokers, qmf, pipe, next, job, bavec, mirror, program, links, adder>>
-----------------------------------------------------------------------------
(* reroute, after addBroker *)

toNewDest(dst) == [d \in {dst} |-> Backup[d]]

linkIsKnown == object(job.src, "link", <<job.old>>) \in mirror

rerouteEnds ==
    /\ main = "reroute" /\ (~ linkIsKnown \/ ~ isAdded(job.src))
    /\ main' = "select" /\ job' = NoJob
    /\ UNCHANGED <<brokers, qmf, pipe, next, bavec, mirror, program, links, adder, copier>>

(* It takes the first broker object of the source, also if there is none:   *)
(* then the program crashes.                                                *)
copyToNewDest ==
    /\ main = "reroute" /\ linkIsKnown /\ isAdded(job.src)
    /\ IF job.src \in up
       THEN /\ create({object(job.src, "link", <<Backup[job.old]>>)})
            /\ main' = "bridges"
       ELSE /\ main' = "crashed"
            /\ UNCHANGED <<content, operational>>
    /\ UNCHANGED <<up, qmf, pipe, next, job, bavec, mirror, program, links, adder, copier>>

rerouteBridges ==
    /\ main = "bridges"
    /\ copyBridges(mirror, job.src, job.src, toNewDest(job.old))
    /\ main' = "select" /\ job' = NoJob
    /\ UNCHANGED <<up, qmf, pipe, next, bavec, mirror, program, links, adder, copier>>
-----------------------------------------------------------------------------
(* The main loop *)

(* A requestor asks to watch the broker beside it. *)
participateRequest(b) ==
    /\ main = "select"
    /\ b \in Registering \ registered
    /\ b \in up
    /\ registered' = registered \cup {b} /\ watched' = watched \cup {b}
    /\ addBroker(b, "select")
    /\ UNCHANGED <<brokers, qmf, pipe, job, bavec, mirror, voting, links, copier>>

startRecovery(b) ==
    /\ main = "select"
    /\ b \in watched
    /\ watched' = watched \ {b}
    /\ deleteBroker(b)
    /\ voting' = voting \cup {b}
    /\ UNCHANGED <<brokers, qmf, pipe, main, next, job, mirror, registered, links, adder, copier>>

(* The vote ends: this proposer won it, or another one did. *)
handleCommit(b) ==
    /\ main = "select"
    /\ b \in voting
    /\ voting' = voting \ {b}
    /\ copyObjects(b, Backup[b]) \/ UNCHANGED <<main, copier>>
    /\ UNCHANGED <<brokers, qmf, pipe, next, job, bavec, mirror, registered, watched, links, adder>>

addObjectInfo(o) == IF isIgnoredName(o) THEN mirror ELSE mirror \cup {o}

(* A link also makes the program connect to the requestor beside its        *)
(* destination.                                                             *)
handleObjectProperty(o) ==
    /\ mirror' = addObjectInfo(o)
    /\ dstproposers' = IF o.type = "link" /\ o.key[1] \in up
                       THEN dstproposers \cup {o.key[1]} ELSE dstproposers
    /\ UNCHANGED <<bavec, listening>>

handleLinkDown(src, dst) ==
    /\ listening' = IF dst \notin up /\ dst \in dstproposers
                    THEN listening \cup {<<src, dst>>} ELSE listening
    /\ UNCHANGED <<bavec, mirror, dstproposers>>

handleEvent ==
    /\ main = "select"
    /\ pipe # <<>>
    /\ pipe' = Tail(pipe)
    /\ LET le == Head(pipe)
       IN  \/ le.type = "OBJECTPROPERTY" /\ handleObjectProperty(le.object)
           \/ le.type = "LINKDOWN" /\ handleLinkDown(le.src, le.dst)
           \/ /\ le.type = "BROKERDISCONNECTION" /\ deleteBroker(le.broker)
              /\ UNCHANGED <<mirror, links>>
    /\ UNCHANGED <<brokers, qmf, main, next, job, program, adder, copier>>

(* The new address of a link's destination arrives. *)
readAddressChange(src, dst) ==
    /\ main = "select"
    /\ listening' = listening \ {<<src, dst>>}
    /\ IF src \in up THEN addBroker(src, "reroute") /\ job' = [src |-> src, old |-> dst]
                     ELSE UNCHANGED <<main, next, adder, job>>
    /\ UNCHANGED <<brokers, qmf, pipe, bavec, mirror, program, dstproposers, copier>>
-----------------------------------------------------------------------------
environment ==
    \/ \E o \in Objects : clientCreates(o)
    \/ \E b \in Brokers : brokerFails(b) \/ participateRequest(b) \/ startRecovery(b) \/ handleCommit(b)

sessionThreads ==
    \/ \E o \in content : objectProps(o)
    \/ \E o \in operational : event(o)
    \/ \E b \in Brokers : brokerDisconnected(b)

addBrokerThread == connectBroker \/ getObjects \/ (\E o \in adder.batch : addObjectProps(o))

copyObjectsThread ==
    \/ connectBackup \/ getBackupBroker \/ nextType \/ copyLink \/ copyAllBridges
    \/ \E o \in copier.todo : copyObject(o) \/ probeLink(o)

mainLoop ==
    \/ joinAdder \/ joinCopier
    \/ rerouteEnds \/ copyToNewDest \/ rerouteBridges
    \/ handleEvent
    \/ \E l \in listening : readAddressChange(l[1], l[2])

Next == environment \/ sessionThreads \/ addBrokerThread \/ copyObjectsThread \/ mainLoop

Spec == Init /\ [][Next]_vars

(* The threads run, the brokers report what changed, and the proposers of a *)
(* destination announce its new address.  A client need not make an object, *)
(* a broker need not fail and a heartbeat need not be lost.                 *)
FairSpec ==
    /\ Spec
    /\ WF_vars(sessionThreads)
    /\ WF_vars(addBrokerThread) /\ WF_vars(copyObjectsThread) /\ WF_vars(mainLoop)
-----------------------------------------------------------------------------
(* bavec has a broker at most once, however registrations, reroutings, lost *)
(* heartbeats and disconnections follow each other: addBroker looks and     *)
(* enters in two threads, and deleteBroker removes one entry only.          *)
OneEntryPerBroker ==
    \A i, j \in 1 .. Len(bavec) : bavec[i] = bavec[j] => i = j

(* A rerouting that looks for its source in bavec finds it there, even if   *)
(* the source was just added or had been deleted when its heartbeat or its  *)
(* session was lost.                                                        *)
SourceIsAdded == main = "reroute" => isAdded(job.src)

(* When copyObjects returns and its backup did not fail, the backup has all *)
(* that the mirror knows of the failed broker, as far as what it refers to  *)
(* is known too: nothing is refused for coming too early.                   *)
CopyIsComplete ==
    copier.at = "done" /\ copier.to \in up =>
        \A o \in mirror :
            o.broker = copier.from /\ references(o) \subseteq mirror =>
                moved(o, copier.to) \in content

(* The main loop waits for a broker that does not answer, or has crashed.   *)
Stopped ==
    \/ main = "crashed"
    \/ main = "addBroker" /\ adder.at = "connect" /\ adder.broker \notin up
    \/ main = "copyObjects" /\ copier.at = "connect" /\ copier.to \notin up

(* A thread that the main loop waits for ends, although it writes to the    *)
(* pipe that only the main loop reads.                                      *)
JoinReturns == main \in {"addBroker", "copyObjects"} ~> main \in {"select", "reroute"} \/ Stopped

hasMoved(src, dst) ==
    /\ object(src, "link", <<Backup[dst]>>) \in content
    /\ \A o \in mirror :
          o.type = "bridge" /\ o.broker = src /\ o.key[1] = dst =>
              object(src, "bridge", <<Backup[dst], o.key[2]>>) \in content

(* When the destination of a known link fails while the link is connected,  *)
(* the source gets a link to the destination's backup and on it the bridges *)
(* of the old one.                                                          *)
DownLinkIsRerouted ==
    \A o \in Links :
        /\ o \in mirror \cap operational
        /\ o.broker \in sessions /\ o.key[1] \in dstproposers \ up
        ~> hasMoved(o.broker, o.key[1]) \/ o.broker \notin up \/ Stopped

(* What a changed object's session reports reaches the mirror.              *)
ChangeIsMirrored ==
    \A o \in Changing :
        o \in content /\ o.broker \in sessions
        ~> o \in mirror \/ isIgnoredName(o) \/ o.broker \notin up \/ Stopped

(* A link that is to be copied while its destination is down is reported   *)
(* by the thread itself, ``if the dest is down, no LinkDownEvent will come''*)
(* (recoverymanager.cpp:338), and the main loop, which waits for the thread,*)
(* then waits for the destination's new address.                            *)
DownLinkIsReported ==
    \A o \in Links :
        o \in copier.todo /\ o.key[1] \in dstproposers \ up
        ~> <<Backup[o.broker], o.key[1]>> \in listening \/ Stopped

(* When that address arrives, the copied link is rerouted: reroute says     *)
(* ``find link from src to old'' (recoverymanager.cpp:394).  It does not    *)
(* find it: addBroker has only just written the backup's objects to the     *)
(* pipe, and the mirror does not have them.                                 *)
CopiedLinkIsRerouted ==
    \A o \in Links :
        <<Backup[o.broker], o.key[1]>> \in listening
        ~> hasMoved(Backup[o.broker], o.key[1]) \/ Backup[o.broker] \notin up \/ Stopped
=============================================================================
