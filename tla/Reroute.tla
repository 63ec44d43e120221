---------------------------- MODULE Reroute ----------------------------
(***************************************************************************)
(* How a link into a failed broker finds the backup.                       *)
(*                                                                         *)
(* The listener is a proposer that watches the broker at the link's source *)
(* (proposer_link.cpp, class LinkDstListener, and the main loop of         *)
(* proposer.cpp).  From the requestor beside the link's destination it     *)
(* learns which proposers watch the destination.  When the link goes down  *)
(* and the destination's host looks dead, it asks each of them for the     *)
(* service's address and waits on these connections for an address that    *)
(* differs from the old one.  A proposer answers a query at once and again *)
(* whenever the address changes (class Monitored).                         *)
(*                                                                         *)
(* How the proposers agree on the backup is PaxosVote; here each of them   *)
(* learns of some backup at some time or never.  RecoveryFlow adds the     *)
(* vote and the copy.                                                      *)
(***************************************************************************)
EXTENDS Naturals, Sequences, FiniteSets

CONSTANTS
    Proposers,          \* the requestor's list of available proposers
    ExpectedProposers,  \* how many of them should watch the destination
    Backups,            \* addresses of the brokers in the proposers' backup lists
    Waits,              \* entries of the listener's vector `listening'
    CrashingProposers,  \* proposers that may crash
    MaxChanges,         \* bound: acceptor changes that make the requestor ask again
    MaxAnswers          \* bound: answers on one connection before a periodic one is sent

ASSUME MaxChangesAssumption == MaxChanges \in Nat

Old == "old address"       \* of the broker that failed
EOF == "end of file"
Addresses == Backups \cup {Old}

(* A backup is another broker than the one that is watched. *)
ASSUME BackupsAssumption == Old \notin Backups /\ EOF \notin Backups

VARIABLES
    looksDead,      \* does checkFailure say that the destination's host failed?
    sourceUp,       \* does checkFailure say that the source's host is up?
    \* the requestor
    requestorUp,
    asked,          \* the proposers it took from its list, each once
    registered,     \* those whose heartbeats it hears
    changes,        \* acceptor changes so far
    subscribed,     \* does it send the listener its list (replysfd)?
    lists,          \* the lists it sent and the listener has not read
    \* the listener
    plist,          \* the list it read last
    used,           \* the waits whose link-down event was handled
    sfd,            \* sfd[w][p]: the state of wait w's connection to p
    \* the proposers
    up,
    requests,       \* requests[p]: participate requests p has not handled
    monitored,      \* proposers with a Monitored of the service
    address,        \* address[p]: mon.ip and mon.port there
    informlist,     \* informlist[p]: the waits p informs
    \* the connections
    query,          \* query[p]: waits that connected to p and were not accepted yet
    answers,        \* answers[w][p]: what p wrote and w has not read
    \* history
    accepted,       \* <<w, p>>: p accepted w's query and answered it
    forgotten,      \* those of them that p dropped with its inform list
    reroutes        \* reroutes[w]: how often w's link was rerouted

environment == <<looksDead, sourceUp>>
requestor   == <<requestorUp, asked, registered, changes, subscribed, lists>>
listener    == <<plist, used, sfd>>
proposer    == <<up, requests, monitored, address, informlist>>
connections == <<query, answers>>
history     == <<accepted, forgotten, reroutes>>
vars == <<environment, requestor, listener, proposer, connections, history>>

TypeOK ==
    /\ looksDead \in BOOLEAN /\ sourceUp \in BOOLEAN
    /\ requestorUp \in BOOLEAN
    /\ registered \subseteq asked /\ asked \subseteq Proposers
    /\ changes \in 0 .. MaxChanges
    /\ subscribed \in BOOLEAN
    /\ lists \in Seq(SUBSET Proposers)
    /\ plist \subseteq Proposers
    /\ used \subseteq Waits
    /\ sfd \in [Waits -> [Proposers -> {"none", "open", "closed"}]]
    /\ up \subseteq Proposers
    /\ requests \in [Proposers -> Nat]
    /\ monitored \subseteq Proposers
    /\ address \in [Proposers -> Addresses]
    /\ informlist \in [Proposers -> SUBSET Waits]
    /\ query \in [Proposers -> SUBSET Waits]
    /\ answers \in [Waits -> [Proposers -> Seq(Addresses \cup {EOF})]]
    /\ forgotten \subseteq accepted /\ accepted \subseteq Waits \X Proposers
    /\ reroutes \in [Waits -> Nat]

Init ==
    /\ looksDead = FALSE /\ sourceUp = TRUE
    /\ requestorUp = TRUE
    /\ asked = {} /\ registered = {}
    /\ changes = 0
    /\ subscribed = FALSE
    /\ lists = <<>>
    /\ plist = {}
    /\ used = {}
    /\ sfd = [w \in Waits |-> [p \in Proposers |-> "none"]]
    /\ up = Proposers
    /\ requests = [p \in Proposers |-> 0]
    /\ monitored = {}
    /\ address = [p \in Proposers |-> Old]
    /\ informlist = [p \in Proposers |-> {}]
    /\ query = [p \in Proposers |-> {}]
    /\ answers = [w \in Waits |-> [p \in Proposers |-> <<>>]]
    /\ accepted = {} /\ forgotten = {}
    /\ reroutes = [w \in Waits |-> 0]
-----------------------------------------------------------------------------
(* Faults a change to the code could introduce, each a variant of one       *)
(* definition below; the specification uses none of them.                   *)
closeReadyOnly(w, p) == [sfd EXCEPT ![w][p] = "closed"]
firstAnswerLater(p) == <<>>
informNobody(p) == {}
asksAnyway == plist \cap up
-----------------------------------------------------------------------------
(* The requestor of the destination. *)

tooFew == requestorUp /\ Cardinality(registered) < ExpectedProposers

(* It asks another proposer to watch its broker, and sends its list to      *)
(* whoever subscribed to it.  One that cannot be reached is not asked again.*)
requestProposer(p) ==
    /\ tooFew
    /\ p \in Proposers \ asked
    /\ asked' = asked \cup {p}
    /\ IF p \in up
       THEN /\ registered' = registered \cup {p}
            /\ requests' = [requests EXCEPT ![p] = @ + 1]
            /\ lists' = IF subscribed THEN Append(lists, registered') ELSE lists
       ELSE UNCHANGED <<registered, requests, lists>>
    /\ UNCHANGED <<environment, requestorUp, changes, subscribed, listener, up, monitored,
                   address, informlist, connections, history>>

(* With nobody left to ask it ends. *)
insufficientProposers ==
    /\ tooFew
    /\ asked = Proposers
    /\ requestorUp' = FALSE
    /\ UNCHANGED <<environment, asked, registered, changes, subscribed, lists, listener,
                   proposer, connections, history>>

(* A proposer's heartbeats stop or are late: the requestor drops it from    *)
(* its list, and tells its subscribers only when it adds another one.       *)
loseProposer(p) ==
    /\ requestorUp
    /\ p \in registered
    /\ registered' = registered \ {p}
    /\ UNCHANGED <<environment, requestorUp, asked, changes, subscribed, lists, listener,
                   proposer, connections, history>>

(* After an acceptor change it asks all its proposers again. *)
changeAcceptor ==
    /\ requestorUp
    /\ changes < MaxChanges
    /\ changes' = changes + 1
    /\ requests' = [p \in Proposers |->
                      IF p \in registered \cap up THEN requests[p] + 1 ELSE requests[p]]
    /\ UNCHANGED <<environment, requestorUp, asked, registered, subscribed, lists, listener, up,
                   monitored, address, informlist, connections, history>>

(* The listener sees the link for the first time and subscribes: the        *)
(* requestor, once it has proposers enough, answers with its list.          *)
listenProposerList ==
    /\ requestorUp /\ ~tooFew
    /\ ~subscribed
    /\ subscribed' = TRUE
    /\ lists' = Append(lists, registered)
    /\ UNCHANGED <<environment, requestorUp, asked, registered, changes, listener, proposer,
                   connections, history>>
-----------------------------------------------------------------------------
(* A proposer of the destination. *)

(* The connections over which p reaches a wait when it informs its list:    *)
(* a write to one that the listener closed fails and removes it.            *)
informed(p) == {w \in informlist[p] : sfd[w][p] = "open"}

Tell(p, a) ==
    /\ answers' = [w \in Waits |->
                     IF w \in informed(p) THEN [answers[w] EXCEPT ![p] = Append(@, a)]
                                         ELSE answers[w]]
    /\ informlist' = [informlist EXCEPT ![p] = informed(p)]

(* createProposer: a participate request replaces the Monitored of the      *)
(* service, if there is one, and with it the address and the inform list:   *)
(* the service is where the request came from.                              *)
createProposer(p) ==
    /\ p \in up
    /\ requests[p] > 0
    /\ requests' = [requests EXCEPT ![p] = @ - 1]
    /\ monitored' = monitored \cup {p}
    /\ address' = [address EXCEPT ![p] = Old]
    /\ informlist' = [informlist EXCEPT ![p] = {}]
    /\ forgotten' = forgotten \cup {wp \in accepted : wp[2] = p}
    /\ UNCHANGED <<environment, requestor, listener, up, connections, accepted, reroutes>>

(* What addInformList writes at once. *)
firstAnswer(p) == <<address[p]>>

(* p accepts a query: it answers and remembers who asked, or closes the     *)
(* connection if it does not know the service.                              *)
acceptQuery(w, p) ==
    /\ p \in up
    /\ w \in query[p]
    /\ query' = [query EXCEPT ![p] = @ \ {w}]
    /\ IF p \in monitored
       THEN /\ answers' = [answers EXCEPT ![w][p] = @ \o firstAnswer(p)]
            /\ informlist' = [informlist EXCEPT ![p] = @ \cup {w}]
            /\ accepted' = accepted \cup {<<w, p>>}
       ELSE /\ answers' = [answers EXCEPT ![w][p] = Append(@, EOF)]
            /\ UNCHANGED <<informlist, accepted>>
    /\ UNCHANGED <<environment, requestor, listener, up, requests, monitored, address,
                   forgotten, reroutes>>

(* p won the vote or learns its outcome, the backup b: handleCommit changes *)
(* the address and informs the list.  Late heartbeats are enough for a      *)
(* vote: whether the host answers is asked by listeners only.               *)
commitRecovery(p, b) ==
    /\ p \in up \cap monitored
    /\ address[p] = Old
    /\ address' = [address EXCEPT ![p] = b]
    /\ Tell(p, b)
    /\ UNCHANGED <<environment, requestor, listener, up, requests, monitored, query, history>>

(* Every minute p tells its list the address again, to notice connections   *)
(* that are gone.                                                           *)
informAll(p) ==
    /\ p \in up \cap monitored
    /\ informlist[p] # {}
    /\ \A w \in informlist[p] : Len(answers[w][p]) < MaxAnswers
    /\ Tell(p, address[p])
    /\ UNCHANGED <<environment, requestor, listener, up, requests, monitored, address, query,
                   history>>

(* p's process dies, which closes its connections, or its host, which does  *)
(* not tell anybody.                                                        *)
crash(p) ==
    /\ p \in CrashingProposers \cap up
    /\ up' = up \ {p}
    /\ \/ answers' = [w \in Waits |->
                        IF sfd[w][p] = "open" THEN [answers[w] EXCEPT ![p] = Append(@, EOF)]
                                              ELSE answers[w]]
       \/ UNCHANGED answers
    /\ UNCHANGED <<environment, requestor, listener, requests, monitored, address, informlist,
                   query, history>>
-----------------------------------------------------------------------------
(* The listener. *)

readProposerList ==
    /\ lists # <<>>
    /\ plist' = Head(lists)
    /\ lists' = Tail(lists)
    /\ UNCHANGED <<environment, requestorUp, asked, registered, changes, subscribed, used, sfd,
                   proposer, connections, history>>

(* Whom the listener can ask, if checkFailure finds the host dead. *)
askable == IF looksDead THEN plist \cap up ELSE {}

(* A link-down event: unless the destination's host answers, ask every      *)
(* proposer of the list that can be reached.  The event is used up even     *)
(* when none can, when the list was never read or when the host answers.    *)
listenAddressChange(w) ==
    /\ w \notin used
    /\ used' = used \cup {w}
    /\ sfd' = [sfd EXCEPT ![w] =
                 [p \in Proposers |-> IF p \in askable THEN "open" ELSE "none"]]
    /\ query' = [p \in Proposers |->
                   IF p \in askable THEN query[p] \cup {w} ELSE query[p]]
    /\ UNCHANGED <<environment, requestor, plist, proposer, answers, history>>

(* All connections of a wait are closed when the new address is known. *)
closeAll(w, p) ==
    [sfd EXCEPT ![w] = [q \in Proposers |-> IF @[q] = "open" THEN "closed" ELSE @[q]]]

(* An answer with a new address reroutes the link, unless the source's host *)
(* failed meanwhile; a connection that ends is closed.                      *)
readAddressChange(w, p) ==
    /\ sfd[w][p] = "open"
    /\ answers[w][p] # <<>>
    /\ answers' = [answers EXCEPT ![w][p] = Tail(@)]
    /\ \/ /\ Head(answers[w][p]) = EOF
          /\ sfd' = [sfd EXCEPT ![w][p] = "closed"]
          /\ UNCHANGED reroutes
       \/ /\ Head(answers[w][p]) = Old
          /\ UNCHANGED <<sfd, reroutes>>
       \/ /\ Head(answers[w][p]) \in Backups
          /\ sfd' = closeAll(w, p)
          /\ reroutes' = IF sourceUp THEN [reroutes EXCEPT ![w] = @ + 1] ELSE reroutes
    /\ UNCHANGED <<environment, requestor, plist, used, proposer, query, accepted,
                   forgotten>>
-----------------------------------------------------------------------------
(* The environment: what checkFailure sees of the two hosts, and the        *)
(* requestor, which ends with the destination or outlives it.               *)
destinationFails ==
    /\ ~looksDead
    /\ looksDead' = TRUE
    /\ requestorUp' \in {requestorUp, FALSE}
    /\ UNCHANGED <<sourceUp, asked, registered, changes, subscribed, lists, listener, proposer,
                   connections, history>>

sourceFails ==
    /\ sourceUp
    /\ sourceUp' = FALSE
    /\ UNCHANGED <<looksDead, requestor, listener, proposer, connections, history>>
-----------------------------------------------------------------------------
proposerProgram(p) ==
    \/ createProposer(p)
    \/ \E w \in Waits : acceptQuery(w, p)

listenerProgram ==
    \/ readProposerList
    \/ \E w \in Waits : listenAddressChange(w)
    \/ \E w \in Waits, p \in Proposers : readAddressChange(w, p)

Next ==
    \/ changeAcceptor \/ insufficientProposers \/ listenProposerList
    \/ \E p \in Proposers : \/ requestProposer(p) \/ loseProposer(p) \/ proposerProgram(p)
                            \/ informAll(p) \/ crash(p)
    \/ \E p \in Proposers, b \in Backups : commitRecovery(p, b)
    \/ listenerProgram
    \/ destinationFails \/ sourceFails

Spec == Init /\ [][Next]_vars
-----------------------------------------------------------------------------
(* A wait reroutes its link once, although every proposer it asked tells it *)
(* the new address, perhaps several times (closeAll in readAddressChange).  *)
RerouteOnce == \A w \in Waits : reroutes[w] <= 1

(* On a connection that p accepted and on which nothing is on its way, the  *)
(* listener knows p's address.                                              *)
Knows(w, p) ==
    (p \in up /\ sfd[w][p] = "open" /\ answers[w][p] = <<>>) => address[p] = Old

(* No change of address is missed, whether the query or the change came     *)
(* first, unless the proposer was asked to watch the broker again           *)
(* (addInformList, informAll and handleCommit).                             *)
AddressIsKnown == \A wp \in accepted \ forgotten : Knows(wp[1], wp[2])

(* What the comment beside informlist says, "inform when ip:port changed":  *)
(* as above, but for everyone who was ever accepted.  createProposer breaks *)
(* it, because it starts the service anew with an empty list.               *)
WhoAskedIsInformed == \A wp \in accepted : Knows(wp[1], wp[2])

(* A link is rerouted if one proposer that stays up accepted the query, was *)
(* not asked to watch again and learned the new address, whatever the other *)
(* proposers do, unless the source fails too.                               *)
LinkIsRerouted ==
    \A w \in Waits, p \in Proposers \ CrashingProposers :
        (<<w, p>> \in accepted \ forgotten /\ address[p] # Old)
            ~> (reroutes[w] > 0 \/ ~sourceUp)
-----------------------------------------------------------------------------
(* Why RerouteOnce and AddressIsKnown hold. *)

(* A wait that rerouted its link has no connection left and opens no other. *)
WaitIsOver ==
    \A w \in Waits :
        \/ reroutes[w] = 0
        \/ reroutes[w] = 1 /\ w \in used /\ \A p \in Proposers : sfd[w][p] # "open"

(* Nobody is asked before the link-down event. *)
AskedAfterLinkDown ==
    \A w \in Waits \ used :
        /\ reroutes[w] = 0
        /\ \A p \in Proposers :
             w \notin query[p] /\ <<w, p>> \notin accepted /\ sfd[w][p] = "none"

OnItsWay(w, p, a) == \E i \in 1 .. Len(answers[w][p]) : answers[w][p][i] = a

(* Whoever p accepted and did not drop is in its inform list as long as the *)
(* connection is open, and a changed address is on its way to it.           *)
ChangeIsOnItsWay ==
    \A w \in Waits, p \in Proposers :
        (p \in up /\ <<w, p>> \in accepted \ forgotten /\ sfd[w][p] = "open") =>
            /\ w \in informlist[p]
            /\ address[p] # Old => OnItsWay(w, p, address[p])

(* The inductive invariant of the proofs. *)
RerouteInvariant == TypeOK /\ WaitIsOver /\ AskedAfterLinkDown /\ ChangeIsOnItsWay
=============================================================================
