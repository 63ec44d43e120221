----------------------------- MODULE Monitor -----------------------------
(***************************************************************************)
(* How a proposer (or the landmark, the same source built for centralized  *)
(* mode) watches several brokers from one select loop: the heartbeat       *)
(* server beside each broker (heartbeat_server.cpp), the heartbeat clients *)
(* (heartbeat_lib.cpp), the loop of proposer.cpp with its timer pass, and  *)
(* the list of backups (namelist.cpp).                                     *)
(*                                                                         *)
(* Time passes in seconds.  The loop waits in select, or it is blocked in  *)
(* a handler; any other step takes no time.  What is kept of the clock is  *)
(* how long ago things happened.  A heartbeat's way through server and     *)
(* network takes at most MaxDelay longer than it should.                   *)
(*                                                                         *)
(* HEARTBEAT_PERIOD is 2.5: the server hands it to unsigned parameters and *)
(* so sends every 2 seconds (ServerPeriod), the client doubles it first    *)
(* and expires after 5 (Expiry).                                           *)
(***************************************************************************)
EXTENDS FileSelector, FiniteSets

CONSTANTS
    Services,      \* the watched brokers
    Modes,         \* is it the landmark (empty acceptor lists)? a set of Booleans
    Backups,       \* the length of the list of backups
    ServerPeriod, Expiry, LoopTimeout, MaxDelay,
    BlockTimes,    \* how long a handler that waits for something may take
    MaxUnread,     \* the heartbeats a socket holds in the model: more tell nothing new
    MaxRequests    \* how often the program is asked to watch a broker

ASSUME TimesAssumption ==
    /\ ServerPeriod \in Nat /\ Expiry \in Nat /\ LoopTimeout \in Nat /\ MaxDelay \in Nat
    /\ BlockTimes \subseteq Nat
    /\ Backups \in Nat /\ MaxUnread \in Nat \ {0} /\ MaxRequests \in Nat
    /\ Modes \subseteq BOOLEAN

(* Heartbeats that are not lost arrive before the client expires. *)
ASSUME DelayAssumption == ServerPeriod + MaxDelay <= Expiry

VARIABLES
    centralized,
    \* the heartbeat servers and the connections to their clients
    up,        \* the brokers whose heartbeat server runs
    lag,       \* lag[s]: the time since s sent its last heartbeat
    unread,    \* unread[s]: the heartbeats that wait in the client's socket
    closed,    \* the brokers whose server has closed the connection
    \* the program: Monitored, the FileSelector and the list of backups
    requests,  \* the participate requests it has not accepted yet
    monitor,   \* the services, in the order of the vector
    watching,  \* those with a heartbeat client (hbc # NULL)
    age,       \* age[s]: the time since the client's timestamp
    vote,      \* vote[s]: how the machine of s stands
    regfd,     \* the table of the FileSelector
    remaining, \* what is left of its timeout
    index,     \* how many backups were taken from the list
    pass,      \* in the timer pass, the position of the next service; else 0
    blocked,   \* how long the current handler still takes
    crashed,
    \* history: no step of the code reads it
    asked,     \* how many participate requests there were
    accepted,  \* how many of them were handled
    waited,    \* waited[s]: the time spent in select since the client's timestamp
    delayed,   \* did a recovery block earlier in this timer pass?
    misjudged  \* running brokers declared dead in a pass that nothing had delayed

serverVars == <<up, lag>>
socketVars == <<unread, closed>>
clientVars == <<monitor, watching, age, vote, waited>>
loopVars == <<remaining, pass, blocked, delayed>>
historyVars == <<asked, accepted, misjudged>>
vars == <<centralized, serverVars, socketVars, requests, clientVars, regfd, loopVars,
          index, crashed, historyVars>>

(* Descriptors: those of the program, and of each service a heartbeat       *)
(* socket and the sockets to its acceptors, which stand for one.            *)
FD(kind, s) == <<kind, s>>
Requests == FD("requests", "proposer")
Events == FD("events", "proposer")
Queries == FD("queries", "proposer")
Own == {Events, Requests, Queries}
Heartbeat(s) == FD("heartbeat", s)
Paxos(s) == FD("paxos", s)
FDs == Own \cup {Heartbeat(s) : s \in Services} \cup {Paxos(s) : s \in Services}

VoteStates == {"INITIAL", "VOTING", "COMMITTED"}

TypeOK ==
    /\ centralized \in BOOLEAN
    /\ up \subseteq Services
    /\ lag \in [Services -> 0 .. ServerPeriod + MaxDelay]
    /\ unread \in [Services -> 0 .. MaxUnread]
    /\ closed \subseteq Services
    /\ requests \in Seq(Services)
    /\ monitor \in Seq(Services)
    /\ watching \subseteq Services
    /\ age \in [Services -> 0 .. Expiry + 1]
    /\ vote \in [Services -> VoteStates]
    /\ regfd \in Seq(FDs)
    /\ remaining \in 0 .. LoopTimeout
    /\ index \in 0 .. Backups
    /\ pass \in 0 .. Len(monitor)
    /\ blocked \in Nat
    /\ crashed \in BOOLEAN
    /\ asked \in 0 .. MaxRequests
    /\ accepted \in 0 .. MaxRequests
    /\ waited \in [Services -> Nat]
    /\ delayed \in BOOLEAN
    /\ misjudged \subseteq Services

(* main: the loop starts with a timeout of zero. *)
Init ==
    /\ centralized \in Modes
    /\ up = Services
    /\ lag = [s \in Services |-> 0]
    /\ unread = [s \in Services |-> 0]
    /\ closed = {}
    /\ requests = <<>>
    /\ monitor = <<>>
    /\ watching = {}
    /\ age = [s \in Services |-> 0]
    /\ vote = [s \in Services |-> "INITIAL"]
    /\ regfd = <<Events, Requests, Queries>>
    /\ remaining = 0
    /\ index = 0
    /\ pass = 0
    /\ blocked = 0
    /\ crashed = FALSE
    /\ asked = 0
    /\ accepted = 0
    /\ waited = [s \in Services |-> 0]
    /\ delayed = FALSE
    /\ misjudged = {}
-----------------------------------------------------------------------------
(* Faults a change to the code could introduce, each a variant of one       *)
(* definition of this module.                                               *)
TimeoutStartsAnew == LoopTimeout
ExpiresAfterOnePeriod(s) == age[s] > Expiry \div 2
KeepsClient(s) == watching
KeepsDescriptor(s) == regfd
TakesBeyondTheList == index > Backups
-----------------------------------------------------------------------------
(* What select sees.  Whether there is an event of the mirror, a query or   *)
(* an answer of an acceptor to read is up to the others.                    *)

Ready ==
    {fd \in Registered(regfd) :
        \/ fd = Requests /\ requests # <<>>
        \/ \E s \in Services : fd = Heartbeat(s) /\ (unread[s] > 0 \/ s \in closed)}

AtSelect == ~crashed /\ pass = 0 /\ blocked = 0

(* What is left of the timeout when select returns for a descriptor: Linux  *)
(* writes it back, and the next call starts with that.                      *)
TimeLeft == remaining

Serves(fd, others) ==
    /\ AtSelect
    /\ FirstReady(regfd, Ready \cup others, fd)
    /\ remaining' = TimeLeft

isExpired(s) == age[s] > Expiry
-----------------------------------------------------------------------------
(* The brokers and the network. *)

(* One second passes, unless a heartbeat is overdue: the loop waits in      *)
(* select, or a handler keeps it.                                           *)
tick ==
    /\ \A s \in up : lag[s] < ServerPeriod + MaxDelay
    /\ lag' = [s \in Services |-> IF s \in up THEN lag[s] + 1 ELSE lag[s]]
    /\ age' = [s \in Services |->
                 IF s \in watching /\ age[s] <= Expiry THEN age[s] + 1 ELSE age[s]]
    /\ \/ /\ AtSelect /\ Ready = {} /\ remaining > 0
          /\ remaining' = remaining - 1
          /\ waited' = [s \in Services |->
                          IF s \in watching THEN waited[s] + 1 ELSE waited[s]]
          /\ UNCHANGED blocked
       \/ /\ blocked > 0
          /\ blocked' = blocked - 1
          /\ UNCHANGED <<remaining, waited>>
    /\ UNCHANGED <<centralized, up, socketVars, requests, monitor, watching, vote, regfd,
                   pass, delayed, index, crashed, historyVars>>

(* sendHeartbeat: the server's select ran out of time.                      *)
sendHeartbeat(s) ==
    /\ s \in up
    /\ lag[s] >= ServerPeriod
    /\ lag' = [lag EXCEPT ![s] = 0]
    /\ unread' = IF Heartbeat(s) \in Registered(regfd) /\ unread[s] < MaxUnread
                 THEN [unread EXCEPT ![s] = @ + 1] ELSE unread
    /\ UNCHANGED <<centralized, up, closed, requests, clientVars, regfd, loopVars,
                   index, crashed, historyVars>>

(* A heartbeat server dies, and its connections close; or its host dies and *)
(* there is silence.                                                        *)
die(s) ==
    /\ s \in up
    /\ up' = up \ {s}
    /\ \/ Heartbeat(s) \in Registered(regfd) /\ closed' = closed \cup {s}
       \/ UNCHANGED closed
    /\ UNCHANGED <<centralized, lag, unread, requests, clientVars, regfd, loopVars,
                   index, crashed, historyVars>>

(* A requestor asks the program to watch its broker. *)
sendRequest(s) ==
    /\ asked < MaxRequests
    /\ asked' = asked + 1
    /\ requests' = Append(requests, s)
    /\ UNCHANGED <<centralized, serverVars, socketVars, clientVars, regfd, loopVars,
                   index, crashed, accepted, misjudged>>
-----------------------------------------------------------------------------
(* The program. *)

unlisten(t, s) == unregisterFD(t, Heartbeat(s))
disconnectAcceptors(t, s) == unregisterFD(t, Paxos(s))

(* The entry of a service leaves the vector; it has one at most. *)
erase(v, s) ==
    IF s \notin {v[i] : i \in DOMAIN v} THEN v
    ELSE LET gone == CHOOSE i \in DOMAIN v : v[i] = s
         IN  [j \in 1 .. Len(v) - 1 |-> IF j < gone THEN v[j] ELSE v[j + 1]]

(* createProposer: a service that is known starts anew, at the end of the   *)
(* vector; the client of a broker that cannot be reached has no descriptor. *)
(* addBroker then waits for the broker's objects.                           *)
createProposer(s) ==
    LET without == unlisten(disconnectAcceptors(regfd, s), s)
        watched == IF s \in up THEN registerFD(without, Heartbeat(s)) ELSE without
    IN
    /\ Serves(Requests, {})
    /\ s = Head(requests)
    /\ requests' = Tail(requests)
    /\ monitor' = Append(erase(monitor, s), s)
    /\ watching' = watching \cup {s}
    /\ age' = [age EXCEPT ![s] = 0]
    /\ waited' = [waited EXCEPT ![s] = 0]
    /\ unread' = [unread EXCEPT ![s] = 0]
    /\ closed' = closed \ {s}
    /\ vote' = [vote EXCEPT ![s] = "INITIAL"]
    /\ regfd' = IF centralized THEN watched ELSE registerFD(watched, Paxos(s))
    /\ blocked' \in BlockTimes
    /\ accepted' = accepted + 1
    /\ UNCHANGED <<centralized, serverVars, index, pass, delayed, crashed, asked, misjudged>>

(* The heartbeat client is given up. *)
Unwatch(s) == watching \ {s}
Unregister(s) == unlisten(regfd, s)

(* getAnElement: the list is used up. *)
NoBackupLeft == index = Backups

(* startRecovery.  An empty list of backups ends the program: a string is   *)
(* made from a null pointer.  In centralized mode there is nobody to ask,   *)
(* and the copy keeps the loop.                                             *)
startRecovery(s) ==
    /\ watching' = Unwatch(s)
    /\ regfd' = Unregister(s)
    /\ unread' = [unread EXCEPT ![s] = 0]
    /\ closed' = closed \ {s}
    /\ age' = [age EXCEPT ![s] = 0]
    /\ waited' = [waited EXCEPT ![s] = 0]
    /\ IF NoBackupLeft
       THEN crashed' = TRUE /\ UNCHANGED <<index, vote, blocked>>
       ELSE /\ index' = index + 1
            /\ vote' = [vote EXCEPT ![s] = IF centralized THEN "COMMITTED" ELSE "VOTING"]
            /\ IF centralized THEN blocked' \in BlockTimes ELSE UNCHANGED blocked
            /\ UNCHANGED crashed

(* receiveHeartbeat: a heartbeat renews the timestamp, the end of the       *)
(* connection is an error.                                                  *)
receiveHeartbeat(s) ==
    /\ Serves(Heartbeat(s), {})
    /\ IF unread[s] > 0
       THEN /\ unread' = [unread EXCEPT ![s] = @ - 1]
            /\ age' = [age EXCEPT ![s] = 0]
            /\ waited' = [waited EXCEPT ![s] = 0]
            /\ UNCHANGED <<closed, watching, regfd, index, vote, blocked, crashed>>
       ELSE startRecovery(s)
    /\ UNCHANGED <<centralized, serverVars, requests, monitor, pass, delayed, historyVars>>

(* Handlers of events and queries: they may have to wait, and change        *)
(* nothing here.                                                            *)
serveOther(fd) ==
    /\ Serves(fd, {fd})
    /\ blocked' \in BlockTimes
    /\ UNCHANGED <<centralized, serverVars, socketVars, requests, clientVars, regfd, pass,
                   delayed, index, crashed, historyVars>>

(* handlePaxosMessage and handleCommit: the message decides nothing, or     *)
(* this proposer wins and copies, or it learns of another's recovery or of  *)
(* an acceptor change (the sockets of the new machine take the places of    *)
(* the old ones), or the connection fails.                                  *)
handlePaxosMessage(s) ==
    /\ Serves(Paxos(s), {Paxos(s)})
    /\ \/ UNCHANGED <<vote, regfd, blocked>>
       \/ /\ vote[s] = "VOTING"
          /\ vote' = [vote EXCEPT ![s] = "COMMITTED"]
          /\ regfd' = disconnectAcceptors(regfd, s)
          /\ blocked' \in BlockTimes
       \/ /\ vote' = [vote EXCEPT ![s] = "COMMITTED"]
          /\ regfd' = disconnectAcceptors(regfd, s)
          /\ UNCHANGED blocked
       \/ /\ vote' = [vote EXCEPT ![s] = "INITIAL"]
          /\ UNCHANGED <<regfd, blocked>>
       \/ /\ regfd' = disconnectAcceptors(regfd, s)
          /\ UNCHANGED <<vote, blocked>>
    /\ UNCHANGED <<centralized, serverVars, socketVars, requests, monitor, watching, age,
                   waited, pass, delayed, index, crashed, historyVars>>

(* select runs out of time with nothing to read: the timer pass begins. *)
timeout ==
    /\ AtSelect /\ Ready = {} /\ remaining = 0
    /\ remaining' = LoopTimeout
    /\ pass' = IF monitor = <<>> THEN 0 ELSE 1
    /\ delayed' = FALSE
    /\ UNCHANGED <<centralized, serverVars, socketVars, requests, clientVars, regfd,
                   index, blocked, crashed, historyVars>>

(* One service of the pass: its machine's timer, then its heartbeats, which *)
(* are judged by what has been read of them.                                *)
judge ==
    /\ ~crashed /\ pass > 0 /\ blocked = 0
    /\ pass' = IF pass < Len(monitor) THEN pass + 1 ELSE 0
    /\ LET s == monitor[pass] IN
         IF s \in watching /\ isExpired(s)
         THEN /\ startRecovery(s)
              /\ delayed' = (delayed \/ blocked' > 0)
              /\ misjudged' = IF s \in up /\ ~delayed THEN misjudged \cup {s} ELSE misjudged
         ELSE /\ \/ vote[s] = "VOTING" /\ vote' = [vote EXCEPT ![s] = "INITIAL"]
                 \/ UNCHANGED vote
              /\ UNCHANGED <<watching, age, waited, regfd, unread, closed, index,
                             blocked, crashed, delayed, misjudged>>
    /\ UNCHANGED <<centralized, serverVars, requests, monitor, remaining, asked, accepted>>

Next ==
    \/ tick
    \/ \E s \in Services :
          sendHeartbeat(s) \/ die(s) \/ sendRequest(s) \/ createProposer(s)
          \/ receiveHeartbeat(s) \/ handlePaxosMessage(s)
    \/ \E fd \in {Events, Queries} : serveOther(fd)
    \/ timeout
    \/ judge

Spec == Init /\ [][Next]_vars
-----------------------------------------------------------------------------
(* Safety. *)

(* A broker that runs is declared dead only in a timer pass in which an     *)
(* earlier recovery kept the loop: nothing is readable when a pass begins,  *)
(* so a client that has expired has had no heartbeat; but in the middle of  *)
(* a pass nothing is read (proposer.cpp's timer branch).                    *)
OnlyDelayMisjudges == misjudged = {}

(* A broker that fell silent is noticed while the loop waits for no more    *)
(* than Expiry and one timeout, however often other descriptors wake it:    *)
(* the timeout goes on where it was (getReadReadyFD keeps what select       *)
(* leaves of it).                                                           *)
NoticedInTime == \A s \in watching : waited[s] <= Expiry + LoopTimeout

(* Each recovery takes a backup, or ends the program when none is left; a   *)
(* request to watch a broker leads to at most one: the client that has      *)
(* raised an alarm is gone before the next pass (startRecovery).  So the    *)
(* null element past the end is read only by a program that was asked to    *)
(* watch more often than the list is long, and then only when it is used up.*)
OneBackupPerRequest ==
    /\ index + (IF crashed THEN 1 ELSE 0) <= accepted
    /\ crashed => index = Backups /\ accepted > Backups

(* The table holds each descriptor once, and exactly the heartbeat sockets  *)
(* of clients that are there: a descriptor that was closed and stays would  *)
(* make every later select fail.                                            *)
TableIsExact ==
    /\ EachOnce(regfd)
    /\ Own \subseteq Registered(regfd)
    /\ \A s \in Services :
         /\ Heartbeat(s) \in Registered(regfd) => s \in watching
         /\ s \in watching \cap up => Heartbeat(s) \in Registered(regfd)
         /\ Paxos(s) \in Registered(regfd) => ~centralized /\ vote[s] # "COMMITTED"
=============================================================================
