-------------------------- MODULE MonitorProofs --------------------------
(***************************************************************************)
(* Proofs about Monitor: types, the table of descriptors, that a broker    *)
(* that runs is not declared dead, that one that died is noticed in time,  *)
(* and what a recovery costs.                                              *)
(***************************************************************************)
EXTENDS Monitor, FiniteSetTheorems, TLAPS

(***************************************************************************)
(* Sequences.                                                              *)
(***************************************************************************)

(* What registerFD does to the table. *)
LEMMA RegisterFacts ==
    ASSUME NEW F, NEW t \in Seq(F), NEW fd \in F
    PROVE  /\ registerFD(t, fd) \in Seq(F)
           /\ Registered(registerFD(t, fd)) = Registered(t) \cup {fd}
           /\ EachOnce(t) => EachOnce(registerFD(t, fd))
  <1>1. CASE fd \in Registered(t)
    BY <1>1 DEF registerFD
  <1>2. CASE fd \notin Registered(t)
    <2> DEFINE u == Append(t, fd)
    <2>1. registerFD(t, fd) = u /\ u \in Seq(F)
      BY <1>2 DEF registerFD
    <2>2. /\ DOMAIN u = 1 .. Len(t) + 1 /\ DOMAIN t = 1 .. Len(t)
          /\ u[Len(t) + 1] = fd
          /\ \A i \in DOMAIN t : u[i] = t[i]
      OBVIOUS
    <2>3. Registered(u) = Registered(t) \cup {fd}
      BY <2>2 DEF Registered
    <2>4. EachOnce(t) => EachOnce(u)
      BY <1>2, <2>2 DEF EachOnce, Registered
    <2> QED
      BY <2>1, <2>3, <2>4
  <1> QED
    BY <1>1, <1>2

(* What unregisterFD does to a table that holds each descriptor once. *)
LEMMA UnregisterFacts ==
    ASSUME NEW F, NEW t \in Seq(F), NEW fd, EachOnce(t)
    PROVE  /\ unregisterFD(t, fd) \in Seq(F)
           /\ Registered(unregisterFD(t, fd)) = Registered(t) \ {fd}
           /\ EachOnce(unregisterFD(t, fd))
  <1>1. CASE fd \notin Registered(t)
    BY <1>1 DEF unregisterFD
  <1>2. CASE fd \in Registered(t)
    <2> DEFINE gone == CHOOSE i \in DOMAIN t : t[i] = fd
               u == [j \in 1 .. Len(t) - 1 |-> IF j = gone THEN t[Len(t)] ELSE t[j]]
    <2>1. gone \in DOMAIN t /\ t[gone] = fd
      BY <1>2 DEF Registered
    <2>2. unregisterFD(t, fd) = u
      BY <1>2 DEF unregisterFD
    <2>3. DOMAIN t = 1 .. Len(t) /\ Len(t) \in Nat /\ \A i \in DOMAIN t : t[i] \in F
      OBVIOUS
    <2>4. DOMAIN u = 1 .. Len(t) - 1 /\ Len(t) - 1 \in Nat
      BY <2>1, <2>3
    <2>5. u \in Seq(F)
      <3>1. \A j \in 1 .. Len(t) - 1 : u[j] \in F
        BY <2>1, <2>3
      <3> HIDE DEF u
      <3>2. u = [j \in 1 .. Len(t) - 1 |-> u[j]]
        BY DEF u
      <3> QED
        BY <3>1, <3>2, <2>4
    <2>6. \A i \in DOMAIN t : t[i] = fd => i = gone
      BY <2>1 DEF EachOnce
    <2> HIDE DEF gone
    <2>7. Registered(u) \subseteq Registered(t) \ {fd}
      <3>1. SUFFICES ASSUME NEW j \in DOMAIN u PROVE u[j] \in Registered(t) /\ u[j] # fd
        BY DEF Registered
      <3> QED
        BY <3>1, <2>1, <2>3, <2>4, <2>6 DEF Registered
    <2>8. Registered(t) \ {fd} \subseteq Registered(u)
      <3>1. SUFFICES ASSUME NEW i \in DOMAIN t, t[i] # fd
                     PROVE  \E j \in DOMAIN u : u[j] = t[i]
        BY DEF Registered
      <3>2. i # gone
        BY <3>1, <2>1
      <3>3. CASE i < Len(t)
        BY <3>2, <3>3, <2>3, <2>4
      <3>4. CASE i = Len(t)
        <4>1. gone \in DOMAIN u
          BY <3>2, <3>4, <2>1, <2>3, <2>4
        <4> QED
          BY <4>1, <3>4, <2>4
      <3> QED
        BY <3>3, <3>4, <2>3
    <2>9. EachOnce(u)
      BY <2>1, <2>3, <2>4 DEF EachOnce
    <2> QED
      BY <2>2, <2>5, <2>7, <2>8, <2>9
  <1> QED
    BY <1>1, <1>2

(* What erase does to a vector. *)
LEMMA EraseFacts ==
    ASSUME NEW S, NEW v \in Seq(S), NEW s
    PROVE  /\ erase(v, s) \in Seq(S)
           /\ \A i \in DOMAIN v : v[i] # s =>
                 \E j \in DOMAIN erase(v, s) : erase(v, s)[j] = v[i]
  <1>1. CASE s \notin {v[i] : i \in DOMAIN v}
    BY <1>1 DEF erase
  <1>2. CASE s \in {v[i] : i \in DOMAIN v}
    <2> DEFINE gone == CHOOSE i \in DOMAIN v : v[i] = s
               u == [j \in 1 .. Len(v) - 1 |-> IF j < gone THEN v[j] ELSE v[j + 1]]
    <2>1. DOMAIN v = 1 .. Len(v) /\ Len(v) \in Nat /\ \A i \in DOMAIN v : v[i] \in S
      OBVIOUS
    <2>3. gone \in DOMAIN v /\ v[gone] = s
      BY <1>2
    <2>4. erase(v, s) = u
      BY <1>2 DEF erase
    <2> HIDE DEF gone
    <2>5. DOMAIN u = 1 .. Len(v) - 1 /\ Len(v) - 1 \in Nat
      BY <2>1, <2>3
    <2>6. u \in Seq(S)
      <3>1. \A j \in 1 .. Len(v) - 1 : u[j] \in S
        BY <2>1, <2>3
      <3> HIDE DEF u
      <3>2. u = [j \in 1 .. Len(v) - 1 |-> u[j]]
        BY DEF u
      <3> QED
        BY <3>1, <3>2, <2>5
    <2>7. ASSUME NEW i \in DOMAIN v, v[i] # s
          PROVE  \E j \in DOMAIN u : u[j] = v[i]
      <3>1. CASE i < gone
        BY <3>1, <2>1, <2>3, <2>5
      <3>2. CASE i > gone
        <4>1. i - 1 \in DOMAIN u /\ ~(i - 1 < gone) /\ (i - 1) + 1 = i
          BY <3>2, <2>1, <2>3, <2>5
        <4> QED
          BY <4>1
      <3> QED
        BY <3>1, <3>2, <2>1, <2>3, <2>7
    <2> QED
      BY <2>4, <2>6, <2>7
  <1> QED
    BY <1>1, <1>2

(***************************************************************************)
(* Types and the table of descriptors.                                     *)
(***************************************************************************)

(* The socket a service has for its heartbeats is no other service's, and  *)
(* none of those to acceptors.                                             *)
LEMMA DescriptorsDiffer ==
    /\ Own \subseteq FDs
    /\ \A s \in Services :
         /\ Heartbeat(s) \in FDs /\ Paxos(s) \in FDs
         /\ Heartbeat(s) \notin Own /\ Paxos(s) \notin Own
         /\ \A r \in Services :
              /\ Heartbeat(s) # Paxos(r)
              /\ Heartbeat(s) = Heartbeat(r) => s = r
              /\ Paxos(s) = Paxos(r) => s = r
  BY DEF FDs, Own, Heartbeat, Paxos, FD, Events, Requests, Queries

(* A request is counted when it is sent and when it is handled. *)
RequestsCounted == asked = accepted + Len(requests)

MonitorType == TypeOK /\ RequestsCounted

(* What createProposer makes of the table. *)
LEMMA CreateProposerTable ==
    ASSUME TypeOK, TableIsExact, NEW s \in Services, createProposer(s)
    PROVE  /\ regfd' \in Seq(FDs) /\ EachOnce(regfd')
           /\ Registered(regfd') =
                 (Registered(regfd) \ {Paxos(s), Heartbeat(s)})
                 \cup (IF s \in up THEN {Heartbeat(s)} ELSE {})
                 \cup (IF centralized THEN {} ELSE {Paxos(s)})
  <1> DEFINE cut == disconnectAcceptors(regfd, s)
             without == unlisten(cut, s)
             watched == IF s \in up THEN registerFD(without, Heartbeat(s)) ELSE without
  <1>1. regfd \in Seq(FDs) /\ EachOnce(regfd)
    BY DEF TypeOK, TableIsExact
  <1>2. /\ cut \in Seq(FDs) /\ EachOnce(cut)
        /\ Registered(cut) = Registered(regfd) \ {Paxos(s)}
    BY <1>1, UnregisterFacts DEF disconnectAcceptors
  <1> HIDE DEF cut
  <1>3. /\ without \in Seq(FDs) /\ EachOnce(without)
        /\ Registered(without) = Registered(cut) \ {Heartbeat(s)}
    BY <1>2, UnregisterFacts DEF unlisten
  <1> HIDE DEF without
  <1>4. /\ watched \in Seq(FDs) /\ EachOnce(watched)
        /\ Registered(watched) = Registered(without)
                                   \cup (IF s \in up THEN {Heartbeat(s)} ELSE {})
    <2>1. Heartbeat(s) \in FDs
      BY DescriptorsDiffer
    <2>2. /\ registerFD(without, Heartbeat(s)) \in Seq(FDs)
          /\ EachOnce(registerFD(without, Heartbeat(s)))
          /\ Registered(registerFD(without, Heartbeat(s))) = Registered(without) \cup {Heartbeat(s)}
      BY <1>3, <2>1, RegisterFacts
    <2> QED
      BY <1>3, <2>2
  <1>5. regfd' = IF centralized THEN watched ELSE registerFD(watched, Paxos(s))
    BY DEF createProposer, watched, without, cut
  <1> HIDE DEF watched
  <1>6. /\ registerFD(watched, Paxos(s)) \in Seq(FDs)
        /\ EachOnce(registerFD(watched, Paxos(s)))
        /\ Registered(registerFD(watched, Paxos(s))) = Registered(watched) \cup {Paxos(s)}
    <2>1. Paxos(s) \in FDs
      BY DescriptorsDiffer
    <2> QED
      BY <1>4, <2>1, RegisterFacts
  <1> QED
    BY <1>2, <1>3, <1>4, <1>5, <1>6

(* What a recovery and a message of an acceptor leave of it. *)
LEMMA UnlistenTable ==
    ASSUME TypeOK, TableIsExact, NEW s \in Services
    PROVE  /\ Unregister(s) \in Seq(FDs) /\ EachOnce(Unregister(s))
           /\ Registered(Unregister(s)) = Registered(regfd) \ {Heartbeat(s)}
           /\ disconnectAcceptors(regfd, s) \in Seq(FDs)
           /\ EachOnce(disconnectAcceptors(regfd, s))
           /\ Registered(disconnectAcceptors(regfd, s)) = Registered(regfd) \ {Paxos(s)}
  BY UnregisterFacts DEF TypeOK, TableIsExact, Unregister, unlisten, disconnectAcceptors

(* What startRecovery changes. *)
LEMMA StartRecoveryType ==
    ASSUME MonitorType, TableIsExact, NEW s \in Services, startRecovery(s)
    PROVE  /\ watching' \subseteq Services /\ regfd' \in Seq(FDs)
           /\ unread' \in [Services -> 0 .. MaxUnread] /\ closed' \subseteq Services
           /\ age' \in [Services -> 0 .. Expiry + 1] /\ waited' \in [Services -> Nat]
           /\ vote' \in [Services -> VoteStates] /\ index' \in 0 .. Backups
           /\ blocked' \in Nat /\ crashed' \in BOOLEAN
  <1>1. regfd' \in Seq(FDs)
    BY UnlistenTable DEF MonitorType, startRecovery
  <1>2. index' \in 0 .. Backups /\ crashed' \in BOOLEAN
    <2>1. index \in 0 .. Backups /\ crashed \in BOOLEAN
      BY DEF MonitorType, TypeOK
    <2>2. \/ index = Backups /\ index' = index /\ crashed' = TRUE
          \/ index # Backups /\ index' = index + 1 /\ crashed' = crashed
      BY DEF startRecovery, NoBackupLeft
    <2>3. crashed' \in BOOLEAN
      BY <2>1, <2>2
    <2>4. Backups \in Nat
      BY TimesAssumption
    <2>5. index' \in 0 .. Backups
      BY <2>1, <2>2, <2>4
    <2> QED
      BY <2>3, <2>5
  <1>3. vote' \in [Services -> VoteStates] /\ blocked' \in Nat
    BY TimesAssumption DEF MonitorType, TypeOK, startRecovery, VoteStates
  <1>4. /\ watching' \subseteq Services /\ closed' \subseteq Services
        /\ unread' \in [Services -> 0 .. MaxUnread]
        /\ age' \in [Services -> 0 .. Expiry + 1] /\ waited' \in [Services -> Nat]
    BY TimesAssumption DEF MonitorType, TypeOK, startRecovery, Unwatch
  <1> QED
    BY <1>1, <1>2, <1>3, <1>4

LEMMA TypeStep ==
    ASSUME MonitorType, TableIsExact, [Next]_vars
    PROVE  MonitorType'
  <1> USE TimesAssumption
  <1>1. CASE tick
    <2>1. lag' \in [Services -> 0 .. ServerPeriod + MaxDelay]
      <3>1. ASSUME NEW s \in Services
            PROVE  (IF s \in up THEN lag[s] + 1 ELSE lag[s]) \in 0 .. ServerPeriod + MaxDelay
        <4>1. lag[s] \in 0 .. ServerPeriod + MaxDelay
              /\ (s \in up => lag[s] < ServerPeriod + MaxDelay)
          BY <1>1 DEF MonitorType, TypeOK, tick
        <4> QED
          BY <4>1
      <3> QED
        BY <1>1, <3>1 DEF tick
    <2>2. age' \in [Services -> 0 .. Expiry + 1]
      <3>1. ASSUME NEW s \in Services
            PROVE  (IF s \in watching /\ age[s] <= Expiry THEN age[s] + 1 ELSE age[s])
                      \in 0 .. Expiry + 1
        <4>1. age[s] \in 0 .. Expiry + 1
          BY DEF MonitorType, TypeOK
        <4> QED
          BY <4>1
      <3> QED
        BY <1>1, <3>1 DEF tick
    <2>3. remaining' \in 0 .. LoopTimeout /\ blocked' \in Nat /\ waited' \in [Services -> Nat]
      <3>1. \A s \in Services : (IF s \in watching THEN waited[s] + 1 ELSE waited[s]) \in Nat
        BY DEF MonitorType, TypeOK
      <3>2. remaining \in 0 .. LoopTimeout /\ blocked \in Nat /\ waited \in [Services -> Nat]
        BY DEF MonitorType, TypeOK
      <3> QED
        BY <1>1, <3>1, <3>2 DEF tick
    <2> QED
      BY <1>1, <2>1, <2>2, <2>3
         DEF MonitorType, TypeOK, RequestsCounted, tick, socketVars, historyVars
  <1>2. ASSUME NEW s \in Services, sendHeartbeat(s)
        PROVE  MonitorType'
    <2>1. unread' \in [Services -> 0 .. MaxUnread]
      <3>1. unread \in [Services -> 0 .. MaxUnread] /\ unread[s] \in 0 .. MaxUnread
        BY DEF MonitorType, TypeOK
      <3>2. CASE unread' = unread
        BY <3>1, <3>2
      <3>3. CASE unread[s] < MaxUnread /\ unread' = [unread EXCEPT ![s] = @ + 1]
        <4>1. unread[s] + 1 \in 0 .. MaxUnread
          BY <3>1, <3>3
        <4> QED
          BY <3>1, <3>3, <4>1
      <3> QED
        BY <1>2, <3>2, <3>3 DEF sendHeartbeat
    <2>2. lag' \in [Services -> 0 .. ServerPeriod + MaxDelay]
      BY <1>2 DEF MonitorType, TypeOK, sendHeartbeat
    <2> QED
      BY <1>2, <2>1, <2>2 DEF MonitorType, TypeOK, RequestsCounted, sendHeartbeat, clientVars,
                              loopVars, historyVars
  <1>3. ASSUME NEW s \in Services, die(s)
        PROVE  MonitorType'
    BY <1>3 DEF MonitorType, TypeOK, RequestsCounted, die, clientVars, loopVars, historyVars
  <1>4. ASSUME NEW s \in Services, sendRequest(s)
        PROVE  MonitorType'
    <2>1. /\ requests' \in Seq(Services) /\ Len(requests') = Len(requests) + 1
          /\ asked' = asked + 1 /\ asked' \in 0 .. MaxRequests
      BY <1>4 DEF MonitorType, TypeOK, sendRequest
    <2>2. RequestsCounted'
      BY <1>4, <2>1 DEF MonitorType, TypeOK, RequestsCounted, sendRequest
    <2> QED
      BY <1>4, <2>1, <2>2 DEF MonitorType, TypeOK, sendRequest, serverVars, socketVars,
                              clientVars, loopVars
  <1>5. ASSUME NEW s \in Services, createProposer(s)
        PROVE  MonitorType'
    <2>1. regfd' \in Seq(FDs)
      BY <1>5, CreateProposerTable DEF MonitorType
    <2>2. monitor' \in Seq(Services)
      <3>1. erase(monitor, s) \in Seq(Services)
        BY EraseFacts DEF MonitorType, TypeOK
      <3> QED
        BY <3>1, <1>5 DEF createProposer
    <2>3. requests # <<>>
      BY <1>5, DescriptorsDiffer
         DEF createProposer, Serves, FirstReady, Ready, Own, Heartbeat, Requests, FD
    <2>4. requests' \in Seq(Services) /\ RequestsCounted' /\ accepted' \in 0 .. MaxRequests
      BY <1>5, <2>3 DEF createProposer, MonitorType, TypeOK, RequestsCounted
    <2>5. pass' \in 0 .. Len(monitor')
      BY <1>5, <2>2 DEF createProposer, Serves, AtSelect
    <2>6. remaining' \in 0 .. LoopTimeout
      BY <1>5 DEF createProposer, Serves, TimeLeft, MonitorType, TypeOK
    <2>7. blocked' \in Nat /\ vote' \in [Services -> VoteStates]
      BY <1>5 DEF createProposer, MonitorType, TypeOK, VoteStates
    <2>8. /\ watching' \subseteq Services /\ closed' \subseteq Services
          /\ unread' \in [Services -> 0 .. MaxUnread]
          /\ age' \in [Services -> 0 .. Expiry + 1] /\ waited' \in [Services -> Nat]
      <3>1. watching' \subseteq Services /\ closed' \subseteq Services
        BY <1>5 DEF createProposer, MonitorType, TypeOK
      <3>2. unread' \in [Services -> 0 .. MaxUnread]
        BY <1>5 DEF createProposer, MonitorType, TypeOK
      <3>3. age' \in [Services -> 0 .. Expiry + 1] /\ waited' \in [Services -> Nat]
        BY <1>5 DEF createProposer, MonitorType, TypeOK
      <3> QED
        BY <3>1, <3>2, <3>3
    <2> QED
      BY <1>5, <2>1, <2>2, <2>4, <2>5, <2>6, <2>7, <2>8
         DEF createProposer, MonitorType, TypeOK, serverVars
  <1>6. ASSUME NEW s \in Services, receiveHeartbeat(s)
        PROVE  MonitorType'
    <2>1. remaining' \in 0 .. LoopTimeout
      BY <1>6 DEF receiveHeartbeat, Serves, TimeLeft, MonitorType, TypeOK
    <2>2. CASE unread[s] > 0
      <3>1. unread[s] - 1 \in 0 .. MaxUnread
        BY <2>2 DEF MonitorType, TypeOK
      <3>2. /\ unread' = [unread EXCEPT ![s] = unread[s] - 1]
            /\ age' = [age EXCEPT ![s] = 0] /\ waited' = [waited EXCEPT ![s] = 0]
            /\ UNCHANGED <<closed, watching, regfd, index, vote, blocked, crashed>>
        BY <1>6, <2>2 DEF receiveHeartbeat
      <3>3. /\ unread' \in [Services -> 0 .. MaxUnread]
            /\ age' \in [Services -> 0 .. Expiry + 1] /\ waited' \in [Services -> Nat]
        BY <3>1, <3>2 DEF MonitorType, TypeOK
      <3> QED
        BY <1>6, <2>1, <3>2, <3>3 DEF receiveHeartbeat, MonitorType, TypeOK, RequestsCounted,
                                      serverVars, historyVars
    <2>3. CASE ~(unread[s] > 0)
      <3>1. startRecovery(s)
        BY <1>6, <2>3 DEF receiveHeartbeat
      <3> QED
        BY <1>6, <2>1, <3>1, StartRecoveryType
           DEF receiveHeartbeat, MonitorType, TypeOK, RequestsCounted, serverVars, historyVars
    <2> QED
      BY <2>2, <2>3
  <1>7. ASSUME NEW fd \in {Events, Queries}, serveOther(fd)
        PROVE  MonitorType'
    BY <1>7 DEF serveOther, Serves, TimeLeft, MonitorType, TypeOK, RequestsCounted,
                serverVars, socketVars, clientVars, historyVars
  <1>8. ASSUME NEW s \in Services, handlePaxosMessage(s)
        PROVE  MonitorType'
    <2>1. regfd' \in Seq(FDs)
      BY <1>8, UnlistenTable DEF handlePaxosMessage, MonitorType, TypeOK
    <2>2. vote' \in [Services -> VoteStates] /\ blocked' \in Nat
      BY <1>8 DEF handlePaxosMessage, MonitorType, TypeOK, VoteStates
    <2>3. remaining' \in 0 .. LoopTimeout
      BY <1>8 DEF handlePaxosMessage, Serves, TimeLeft, MonitorType, TypeOK
    <2> QED
      BY <1>8, <2>1, <2>2, <2>3
         DEF handlePaxosMessage, MonitorType, TypeOK, RequestsCounted, serverVars,
             socketVars, historyVars
  <1>9. CASE timeout
    <2>1. pass' \in 0 .. Len(monitor') /\ remaining' \in 0 .. LoopTimeout /\ delayed' \in BOOLEAN
      <3>1. /\ 0 \in 0 .. Len(monitor) /\ LoopTimeout \in 0 .. LoopTimeout
            /\ monitor # <<>> => 1 \in 0 .. Len(monitor)
        BY DEF MonitorType, TypeOK
      <3> QED
        BY <1>9, <3>1 DEF timeout, clientVars
    <2> QED
      BY <1>9, <2>1 DEF timeout, MonitorType, TypeOK, RequestsCounted, serverVars, socketVars,
                        clientVars, historyVars
  <1>10. CASE judge
    <2> DEFINE s == monitor[pass]
    <2>1. s \in Services /\ pass' \in 0 .. Len(monitor)
      <3>1. /\ pass \in 1 .. Len(monitor) /\ monitor \in Seq(Services)
            /\ pass' = IF pass < Len(monitor) THEN pass + 1 ELSE 0
        BY <1>10 DEF judge, MonitorType, TypeOK
      <3> QED
        BY <3>1
    <2> HIDE DEF s
    <2>2. CASE s \in watching /\ isExpired(s)
      <3>1. /\ startRecovery(s) /\ delayed' = (delayed \/ blocked' > 0)
            /\ misjudged' = IF s \in up /\ ~delayed THEN misjudged \cup {s} ELSE misjudged
        BY <1>10, <2>2 DEF judge, s
      <3> QED
        BY <1>10, <2>1, <3>1, StartRecoveryType
           DEF judge, MonitorType, TypeOK, RequestsCounted, serverVars
    <2>3. CASE ~(s \in watching /\ isExpired(s))
      <3>1. /\ \/ vote[s] = "VOTING" /\ vote' = [vote EXCEPT ![s] = "INITIAL"]
               \/ UNCHANGED vote
            /\ UNCHANGED <<watching, age, waited, regfd, unread, closed, index, blocked,
                           crashed, delayed, misjudged>>
        BY <1>10, <2>3 DEF judge, s
      <3>2. vote' \in [Services -> VoteStates]
        BY <3>1 DEF MonitorType, TypeOK, VoteStates
      <3> QED
        BY <1>10, <2>1, <3>1, <3>2 DEF judge, MonitorType, TypeOK, RequestsCounted, serverVars
    <2> QED
      BY <2>2, <2>3
  <1>11. CASE UNCHANGED vars
    BY <1>11 DEF MonitorType, TypeOK, RequestsCounted, vars, serverVars, socketVars,
                 clientVars, loopVars, historyVars
  <1> QED
    BY <1>1, <1>2, <1>3, <1>4, <1>5, <1>6, <1>7, <1>8, <1>9, <1>10, <1>11 DEF Next

LEMMA StartRecoveryTable ==
    ASSUME MonitorType, TableIsExact, NEW s \in Services, s \in watching, startRecovery(s),
           UNCHANGED <<centralized, up>>
    PROVE  TableIsExact'
  <1>1. /\ EachOnce(regfd') /\ Registered(regfd') = Registered(regfd) \ {Heartbeat(s)}
        /\ watching' = watching \ {s}
    BY UnlistenTable DEF MonitorType, startRecovery, Unwatch
  <1>2. Own \subseteq Registered(regfd')
    BY <1>1, DescriptorsDiffer DEF TableIsExact
  <1>3. ASSUME NEW r \in Services
        PROVE  /\ Heartbeat(r) \in Registered(regfd') => r \in watching'
               /\ r \in watching' \cap up => Heartbeat(r) \in Registered(regfd')
    BY <1>1, DescriptorsDiffer DEF TableIsExact
  <1>4. ASSUME NEW r \in Services, Paxos(r) \in Registered(regfd')
        PROVE  ~centralized /\ vote'[r] # "COMMITTED"
    <2>1. ~centralized /\ vote[r] # "COMMITTED"
      BY <1>1, <1>4 DEF TableIsExact
    <2> QED
      BY <2>1 DEF startRecovery, MonitorType, TypeOK
  <1> QED
    BY <1>1, <1>2, <1>3, <1>4 DEF TableIsExact

LEMMA TableStep ==
    ASSUME MonitorType, TableIsExact, [Next]_vars
    PROVE  TableIsExact'
  <1>1. CASE tick \/ UNCHANGED vars
    BY <1>1 DEF tick, TableIsExact, vars, serverVars, clientVars
  <1>2. ASSUME NEW s \in Services, sendHeartbeat(s) \/ sendRequest(s)
        PROVE  TableIsExact'
    BY <1>2 DEF sendHeartbeat, sendRequest, TableIsExact, serverVars, clientVars
  <1>3. ASSUME NEW s \in Services, die(s)
        PROVE  TableIsExact'
    BY <1>3 DEF die, TableIsExact, clientVars
  <1>4. ASSUME NEW s \in Services, createProposer(s)
        PROVE  TableIsExact'
    <2>1. /\ EachOnce(regfd')
          /\ Registered(regfd') = (Registered(regfd) \ {Paxos(s), Heartbeat(s)})
                                   \cup (IF s \in up THEN {Heartbeat(s)} ELSE {})
                                   \cup (IF centralized THEN {} ELSE {Paxos(s)})
      BY <1>4, CreateProposerTable DEF MonitorType
    <2>2. /\ watching' = watching \cup {s} /\ UNCHANGED <<centralized, up>>
          /\ vote' = [vote EXCEPT ![s] = "INITIAL"]
      BY <1>4 DEF createProposer, serverVars
    <2>3. Own \subseteq Registered(regfd')
      BY <2>1, DescriptorsDiffer DEF TableIsExact
    <2>4. ASSUME NEW r \in Services
          PROVE  /\ Heartbeat(r) \in Registered(regfd') => r \in watching'
                 /\ r \in watching' \cap up => Heartbeat(r) \in Registered(regfd')
      BY <2>1, <2>2, DescriptorsDiffer DEF TableIsExact
    <2>5. ASSUME NEW r \in Services, Paxos(r) \in Registered(regfd')
          PROVE  ~centralized /\ vote'[r] # "COMMITTED"
      <3>1. CASE r = s
        <4>1. ~centralized
          BY <3>1, <2>1, <2>5, DescriptorsDiffer
        <4> QED
          BY <3>1, <4>1, <2>2 DEF MonitorType, TypeOK
      <3>2. CASE r # s
        <4>1. Paxos(r) \in Registered(regfd)
          BY <3>2, <2>1, <2>5, DescriptorsDiffer
        <4> QED
          BY <3>2, <4>1, <2>2 DEF TableIsExact, MonitorType, TypeOK
      <3> QED
        BY <3>1, <3>2
    <2> QED
      BY <2>1, <2>2, <2>3, <2>4, <2>5 DEF TableIsExact
  <1>5. ASSUME NEW s \in Services, receiveHeartbeat(s)
        PROVE  TableIsExact'
    <2>1. CASE unread[s] > 0
      BY <1>5, <2>1 DEF receiveHeartbeat, TableIsExact, serverVars
    <2>2. CASE ~(unread[s] > 0)
      <3>1. s \in watching
        BY <1>5 DEF receiveHeartbeat, Serves, FirstReady, Registered, TableIsExact
      <3>2. startRecovery(s) /\ UNCHANGED <<centralized, up>>
        BY <1>5, <2>2 DEF receiveHeartbeat, serverVars
      <3> QED
        BY <3>1, <3>2, StartRecoveryTable
    <2> QED
      BY <2>1, <2>2
  <1>6. ASSUME NEW fd \in {Events, Queries}, serveOther(fd)
        PROVE  TableIsExact'
    BY <1>6 DEF serveOther, TableIsExact, serverVars, clientVars
  <1>7. ASSUME NEW s \in Services, handlePaxosMessage(s)
        PROVE  TableIsExact'
    <2>1. /\ \/ UNCHANGED <<vote, regfd>>
             \/ vote' = [vote EXCEPT ![s] = "COMMITTED"] /\ regfd' = disconnectAcceptors(regfd, s)
             \/ vote' = [vote EXCEPT ![s] = "INITIAL"] /\ UNCHANGED regfd
             \/ regfd' = disconnectAcceptors(regfd, s) /\ UNCHANGED vote
          /\ UNCHANGED <<centralized, up, watching>>
      BY <1>7 DEF handlePaxosMessage, serverVars
    <2>2. CASE regfd' = regfd
      <3>1. ASSUME NEW r \in Services, Paxos(r) \in Registered(regfd)
            PROVE  vote'[r] # "COMMITTED"
        <4>1. vote[r] # "COMMITTED"
          BY <3>1 DEF TableIsExact
        <4>2. \/ UNCHANGED vote
              \/ vote' = [vote EXCEPT ![s] = "INITIAL"]
              \/ /\ vote' = [vote EXCEPT ![s] = "COMMITTED"]
                 /\ Paxos(s) \notin Registered(regfd)
          BY <2>1, <2>2, UnlistenTable DEF MonitorType
        <4> QED
          BY <3>1, <4>1, <4>2 DEF MonitorType, TypeOK
      <3> QED
        BY <2>1, <2>2, <3>1 DEF TableIsExact
    <2>3. CASE regfd' = disconnectAcceptors(regfd, s)
      <3>1. EachOnce(regfd') /\ Registered(regfd') = Registered(regfd) \ {Paxos(s)}
        BY <2>3, UnlistenTable DEF MonitorType
      <3>2. Own \subseteq Registered(regfd')
        BY <3>1, DescriptorsDiffer DEF TableIsExact
      <3>3. ASSUME NEW r \in Services
            PROVE  /\ Heartbeat(r) \in Registered(regfd') => r \in watching'
                   /\ r \in watching' \cap up => Heartbeat(r) \in Registered(regfd')
        BY <3>1, <2>1, DescriptorsDiffer DEF TableIsExact
      <3>4. ASSUME NEW r \in Services, Paxos(r) \in Registered(regfd')
            PROVE  ~centralized /\ vote'[r] # "COMMITTED"
        <4>1. r # s /\ ~centralized /\ vote[r] # "COMMITTED"
          BY <3>1, <3>4 DEF TableIsExact
        <4> QED
          BY <4>1, <2>1 DEF MonitorType, TypeOK
      <3> QED
        BY <2>1, <3>1, <3>2, <3>3, <3>4 DEF TableIsExact
    <2> QED
      BY <2>1, <2>2, <2>3
  <1>8. CASE timeout
    BY <1>8 DEF timeout, TableIsExact, serverVars, clientVars
  <1>9. CASE judge
    <2> DEFINE s == monitor[pass]
    <2>1. s \in Services
      BY <1>9 DEF judge, MonitorType, TypeOK
    <2> HIDE DEF s
    <2>2. CASE s \in watching /\ isExpired(s)
      <3>1. startRecovery(s) /\ UNCHANGED <<centralized, up>>
        BY <1>9, <2>2 DEF judge, serverVars, s
      <3> QED
        BY <2>1, <2>2, <3>1, StartRecoveryTable
    <2>3. CASE ~(s \in watching /\ isExpired(s))
      <3>1. /\ \/ vote' = [vote EXCEPT ![s] = "INITIAL"]
               \/ UNCHANGED vote
            /\ UNCHANGED <<centralized, up, watching, regfd>>
        BY <1>9, <2>3 DEF judge, serverVars, s
      <3>2. \A r \in Services : vote'[r] = "COMMITTED" => vote[r] = "COMMITTED"
        BY <3>1, <2>1 DEF MonitorType, TypeOK
      <3> QED
        BY <3>1, <3>2 DEF TableIsExact
    <2> QED
      BY <2>2, <2>3
  <1> QED
    BY <1>1, <1>2, <1>3, <1>4, <1>5, <1>6, <1>7, <1>8, <1>9 DEF Next

LEMMA TypeAndTableInit == Init => MonitorType /\ TableIsExact
  <1>1. ASSUME Init
        PROVE  MonitorType
    <2>1. regfd \in Seq(FDs) /\ requests \in Seq(Services) /\ monitor \in Seq(Services)
      BY <1>1 DEF Init, FDs, Own
    <2>2. RequestsCounted /\ pass \in 0 .. Len(monitor)
      BY <1>1 DEF Init, RequestsCounted
    <2>3. /\ lag \in [Services -> 0 .. ServerPeriod + MaxDelay]
          /\ unread \in [Services -> 0 .. MaxUnread] /\ age \in [Services -> 0 .. Expiry + 1]
          /\ waited \in [Services -> Nat] /\ vote \in [Services -> VoteStates]
      BY <1>1, TimesAssumption DEF Init, VoteStates
    <2>4. /\ centralized \in BOOLEAN /\ crashed \in BOOLEAN /\ delayed \in BOOLEAN
      BY <1>1, TimesAssumption DEF Init
    <2>5. /\ remaining \in 0 .. LoopTimeout /\ index \in 0 .. Backups /\ blocked \in Nat
          /\ asked \in 0 .. MaxRequests /\ accepted \in 0 .. MaxRequests
      BY <1>1, TimesAssumption DEF Init
    <2> QED
      BY <1>1, <2>1, <2>2, <2>3, <2>4, <2>5 DEF Init, MonitorType, TypeOK
  <1>2. ASSUME Init
        PROVE  TableIsExact
    <2>1. regfd = <<Events, Requests, Queries>>
      BY <1>2 DEF Init
    <2>2. EachOnce(regfd) /\ Registered(regfd) = Own
      BY <2>1 DEF EachOnce, Registered, Own, Events, Requests, Queries, FD
    <2> QED
      BY <1>2, <2>2, DescriptorsDiffer DEF Init, TableIsExact
  <1> QED
    BY <1>1, <1>2

(* Every variable keeps its type; in particular the timer pass stays       *)
(* within the vector and the index within the list of backups.             *)
THEOREM MonitorTypes == Spec => []TypeOK
  <1>1. Spec => [](MonitorType /\ TableIsExact)
    BY TypeAndTableInit, TypeStep, TableStep, PTL DEF Spec
  <1> QED
    BY <1>1, PTL DEF MonitorType

(* The select table is exact, for any number of services and requests. *)
THEOREM TableStaysExact == Spec => []TableIsExact
  BY TypeAndTableInit, TypeStep, TableStep, PTL DEF Spec

(***************************************************************************)
(* A running broker is declared dead only in a pass that a recovery        *)
(* delayed.                                                                *)
(***************************************************************************)

(* While the client's socket is empty it is as old as the last heartbeat,  *)
(* and in a pass nothing was unread when the pass began.                   *)
Fresh(s) ==
    /\ s \notin closed
    /\ unread[s] = 0 => age[s] <= lag[s]
    /\ pass > 0 /\ ~delayed => age[s] <= ServerPeriod + MaxDelay

FreshInvariant ==
    /\ \A s \in watching \cap up : Fresh(s)
    /\ up \cap closed = {}
    /\ pass > 0 /\ blocked > 0 => delayed
    /\ misjudged = {}

LEMMA FreshStep ==
    ASSUME MonitorType, TableIsExact, FreshInvariant, [Next]_vars
    PROVE  FreshInvariant'
  <1> USE TimesAssumption
  <1>t. /\ \A s \in Services : lag[s] \in Nat /\ age[s] \in Nat /\ unread[s] \in 0 .. MaxUnread
        /\ lag \in [Services -> 0 .. ServerPeriod + MaxDelay]
        /\ age \in [Services -> 0 .. Expiry + 1] /\ unread \in [Services -> 0 .. MaxUnread]
        /\ up \subseteq Services /\ watching \subseteq Services
        /\ pass \in Nat /\ blocked \in Nat
    BY DEF MonitorType, TypeOK
  <1>1. CASE tick
    <2>1. /\ UNCHANGED <<up, unread, closed, watching, pass, delayed, misjudged>>
          /\ pass > 0 => delayed
          /\ blocked' > 0 => blocked > 0
      BY <1>1, <1>t DEF tick, AtSelect, socketVars, historyVars, FreshInvariant
    <2>2. ASSUME NEW s \in watching \cap up, unread[s] = 0
          PROVE  age'[s] <= lag'[s]
      <3>1. lag'[s] = lag[s] + 1 /\ age'[s] <= age[s] + 1 /\ age[s] <= lag[s]
        BY <1>1, <1>t, <2>2 DEF tick, FreshInvariant, Fresh
      <3>2. age'[s] \in Nat /\ age[s] \in Nat /\ lag[s] \in Nat
        BY <1>1, <1>t DEF tick
      <3> QED
        BY <3>1, <3>2
    <2>3. \A s \in watching \cap up : Fresh(s)'
      BY <2>1, <2>2 DEF FreshInvariant, Fresh
    <2> QED
      BY <2>1, <2>3, <1>t DEF FreshInvariant
  <1>2. ASSUME NEW s \in Services, sendHeartbeat(s)
        PROVE  FreshInvariant'
    <2>1. /\ UNCHANGED <<up, closed, watching, age, pass, blocked, delayed, misjudged>>
          /\ lag' = [lag EXCEPT ![s] = 0]
      BY <1>2 DEF sendHeartbeat, clientVars, loopVars, historyVars
    <2>2. CASE s \in watching \cap up
      <3>1. unread'[s] # 0 /\ \A r \in Services : r # s => unread'[r] = unread[r]
        <4>1. Heartbeat(s) \in Registered(regfd)
          BY <2>2 DEF TableIsExact
        <4> QED
          BY <1>2, <1>t, <4>1 DEF sendHeartbeat
      <3>2. ASSUME NEW r \in watching \cap up
            PROVE  Fresh(r)'
        BY <1>t, <2>1, <3>1 DEF FreshInvariant, Fresh
      <3> QED
        BY <2>1, <3>2 DEF FreshInvariant
    <2>3. CASE s \notin watching \cap up
      <3>1. \A r \in watching \cap up : unread'[r] = unread[r] /\ lag'[r] = lag[r]
        BY <1>2, <1>t, <2>1, <2>3 DEF sendHeartbeat
      <3> QED
        BY <2>1, <3>1 DEF FreshInvariant, Fresh
    <2> QED
      BY <2>2, <2>3
  <1>3. ASSUME NEW s \in Services, die(s)
        PROVE  FreshInvariant'
    BY <1>3 DEF die, FreshInvariant, Fresh, clientVars, loopVars, historyVars
  <1>4. ASSUME NEW s \in Services, sendRequest(s)
        PROVE  FreshInvariant'
    BY <1>4 DEF sendRequest, FreshInvariant, Fresh, serverVars, socketVars, clientVars, loopVars
  <1>5. ASSUME NEW s \in Services, createProposer(s)
        PROVE  FreshInvariant'
    <2>1. /\ UNCHANGED <<up, lag, pass, delayed, misjudged>> /\ pass = 0
          /\ watching' = watching \cup {s} /\ closed' = closed \ {s}
          /\ age' = [age EXCEPT ![s] = 0] /\ unread' = [unread EXCEPT ![s] = 0]
      BY <1>5 DEF createProposer, Serves, AtSelect, serverVars
    <2>2. ASSUME NEW r \in watching' \cap up
          PROVE  Fresh(r)'
      <3>1. CASE r = s
        BY <3>1, <2>1, <1>t DEF Fresh
      <3>2. CASE r # s
        BY <3>2, <2>1, <2>2, <1>t DEF FreshInvariant, Fresh
      <3> QED
        BY <3>1, <3>2
    <2> QED
      BY <2>1, <2>2 DEF FreshInvariant
  <1>6. ASSUME NEW s \in Services, startRecovery(s), UNCHANGED <<up, lag>>,
               \A r \in watching \cap up : r # s /\ pass' > 0 /\ ~delayed' =>
                                             age[r] <= ServerPeriod + MaxDelay
        PROVE  /\ \A r \in watching' \cap up' : Fresh(r)'
               /\ up' \cap closed' = {}
    <2>1. /\ watching' = watching \ {s} /\ closed' = closed \ {s}
          /\ \A r \in Services : r # s => unread'[r] = unread[r] /\ age'[r] = age[r]
      BY <1>6, <1>t DEF startRecovery, Unwatch
    <2> QED
      BY <1>6, <1>t, <2>1 DEF FreshInvariant, Fresh
  <1>7. ASSUME NEW s \in Services, receiveHeartbeat(s)
        PROVE  FreshInvariant'
    <2>1. UNCHANGED <<up, lag, pass, delayed, misjudged>> /\ pass = 0
      BY <1>7 DEF receiveHeartbeat, Serves, AtSelect, serverVars, historyVars
    <2>2. CASE unread[s] > 0
      <3>1. /\ UNCHANGED <<closed, watching, blocked>>
            /\ age' = [age EXCEPT ![s] = 0]
            /\ \A r \in Services : r # s => unread'[r] = unread[r]
        BY <1>7, <1>t, <2>2 DEF receiveHeartbeat
      <3>2. ASSUME NEW r \in watching \cap up
            PROVE  Fresh(r)'
        <4>1. CASE r = s
          BY <4>1, <2>1, <3>1, <1>t DEF FreshInvariant, Fresh
        <4>2. CASE r # s
          BY <4>2, <2>1, <3>1, <1>t DEF FreshInvariant, Fresh
        <4> QED
          BY <4>1, <4>2
      <3> QED
        BY <2>1, <3>1, <3>2 DEF FreshInvariant
    <2>3. CASE ~(unread[s] > 0)
      <3>1. startRecovery(s)
        BY <1>7, <2>3 DEF receiveHeartbeat
      <3> QED
        BY <2>1, <3>1, <1>6 DEF FreshInvariant
    <2> QED
      BY <2>2, <2>3
  <1>8. ASSUME NEW fd \in {Events, Queries}, serveOther(fd)
        PROVE  FreshInvariant'
    BY <1>8 DEF serveOther, Serves, AtSelect, FreshInvariant, Fresh, serverVars, socketVars,
                clientVars, historyVars
  <1>9. ASSUME NEW s \in Services, handlePaxosMessage(s)
        PROVE  FreshInvariant'
    BY <1>9 DEF handlePaxosMessage, Serves, AtSelect, FreshInvariant, Fresh, serverVars,
                socketVars, historyVars
  <1>10. CASE timeout
    <2>1. /\ UNCHANGED <<up, lag, unread, closed, watching, age, blocked, misjudged>>
          /\ Ready = {} /\ blocked = 0
      BY <1>10 DEF timeout, AtSelect, serverVars, socketVars, clientVars, historyVars
    <2>2. ASSUME NEW s \in watching \cap up
          PROVE  age[s] <= ServerPeriod + MaxDelay
      <3>1. Heartbeat(s) \in Registered(regfd)
        BY DEF TableIsExact, TypeOK, MonitorType
      <3>2. ~(unread[s] > 0)
        BY <2>1, <3>1, <1>t DEF Ready
      <3>3. age[s] <= lag[s] /\ lag[s] \in 0 .. ServerPeriod + MaxDelay /\ age[s] \in Nat
        BY <3>2, <1>t DEF FreshInvariant, Fresh
      <3> QED
        BY <3>3
    <2>3. ASSUME NEW s \in watching' \cap up'
          PROVE  Fresh(s)'
      BY <2>1, <2>2 DEF FreshInvariant, Fresh
    <2> QED
      BY <2>1, <2>3, <1>t DEF FreshInvariant
  <1>11. CASE judge
    <2> DEFINE s == monitor[pass]
    <2>1. /\ s \in Services /\ UNCHANGED <<up, lag>> /\ pass > 0 /\ blocked = 0
      BY <1>11 DEF judge, MonitorType, TypeOK, serverVars
    <2> HIDE DEF s
    <2>2. CASE s \in watching /\ isExpired(s)
      <3>1. /\ startRecovery(s) /\ delayed' = (delayed \/ blocked' > 0)
            /\ misjudged' = IF s \in up /\ ~delayed THEN misjudged \cup {s} ELSE misjudged
        BY <1>11, <2>2 DEF judge, s
      <3>2. ~(s \in up /\ ~delayed)
        <4>1. SUFFICES ASSUME s \in up, ~delayed PROVE FALSE
          OBVIOUS
        <4>2. age[s] <= ServerPeriod + MaxDelay /\ age[s] > Expiry /\ age[s] \in Nat
          BY <4>1, <2>1, <2>2, <1>t DEF FreshInvariant, Fresh, isExpired
        <4> QED
          BY <4>2, DelayAssumption
      <3>3. \A r \in watching \cap up : r # s /\ pass' > 0 /\ ~delayed' =>
                                           age[r] <= ServerPeriod + MaxDelay
        BY <2>1, <3>1 DEF FreshInvariant, Fresh
      <3> QED
        BY <2>1, <3>1, <3>2, <3>3, <1>6 DEF FreshInvariant
    <2>3. CASE ~(s \in watching /\ isExpired(s))
      <3>1. UNCHANGED <<watching, age, unread, closed, blocked, delayed, misjudged>>
        BY <1>11, <2>3 DEF judge, s
      <3> QED
        BY <2>1, <3>1 DEF FreshInvariant, Fresh
    <2> QED
      BY <2>2, <2>3
  <1>12. CASE UNCHANGED vars
    BY <1>12 DEF FreshInvariant, Fresh, vars, serverVars, socketVars, clientVars, loopVars,
                 historyVars
  <1> QED
    BY <1>1, <1>2, <1>3, <1>4, <1>5, <1>7, <1>8, <1>9, <1>10, <1>11, <1>12 DEF Next

(* A broker whose heartbeats arrive in time is never declared dead in a    *)
(* timer pass, unless an earlier recovery of the same pass kept the loop.  *)
THEOREM RunningBrokersAreSafe == Spec => []OnlyDelayMisjudges
  <1>1. Init => FreshInvariant
    BY DEF Init, FreshInvariant
  <1>2. FreshInvariant => OnlyDelayMisjudges
    BY DEF FreshInvariant, OnlyDelayMisjudges
  <1> QED
    BY <1>1, <1>2, TypeAndTableInit, TypeStep, TableStep, FreshStep, PTL DEF Spec

(***************************************************************************)
(* A broker that fell silent is noticed in time.                           *)
(***************************************************************************)

(* The services that stand before the current position of the pass. *)
Judged(s) == \E i \in DOMAIN monitor : i < pass /\ monitor[i] = s

(* What the next timer pass is still allowed to find: the loop's own wait  *)
(* is what the timeout has used up, and a judged client was not expired.   *)
Waiting(s) ==
    /\ \E i \in DOMAIN monitor : monitor[i] = s
    /\ waited[s] <= age[s] \/ age[s] = Expiry + 1
    /\ pass = 0 => waited[s] + remaining <= Expiry + LoopTimeout
    /\ pass > 0 => waited[s] <= Expiry + LoopTimeout
    /\ pass > 0 /\ Judged(s) => waited[s] <= Expiry

WaitInvariant ==
    /\ \A s \in watching : Waiting(s)
    /\ pass > 0 => remaining = LoopTimeout

LEMMA WaitStep ==
    ASSUME MonitorType, TableIsExact, WaitInvariant, [Next]_vars
    PROVE  WaitInvariant'
  <1> USE TimesAssumption
  <1>t. /\ \A s \in Services : age[s] \in 0 .. Expiry + 1 /\ waited[s] \in Nat
        /\ age \in [Services -> 0 .. Expiry + 1] /\ waited \in [Services -> Nat]
        /\ watching \subseteq Services /\ monitor \in Seq(Services)
        /\ remaining \in 0 .. LoopTimeout /\ pass \in 0 .. Len(monitor)
    BY DEF MonitorType, TypeOK
  <1>k. ASSUME UNCHANGED <<monitor, remaining, pass>>, watching' \subseteq watching,
               \A s \in watching' : waited'[s] = waited[s] /\ age'[s] = age[s]
        PROVE  WaitInvariant'
    BY <1>k DEF WaitInvariant, Waiting, Judged
  <1>r. ASSUME NEW s \in Services, startRecovery(s)
        PROVE  /\ watching' = watching \ {s}
               /\ \A r \in watching' : waited'[r] = waited[r] /\ age'[r] = age[r]
    <2>1. /\ watching' = watching \ {s}
          /\ age' = [age EXCEPT ![s] = 0] /\ waited' = [waited EXCEPT ![s] = 0]
      BY <1>r DEF startRecovery, Unwatch
    <2> QED
      BY <2>1, <1>t
  <1>1. CASE tick
    <2>1. UNCHANGED <<monitor, watching, pass>>
      BY <1>1 DEF tick
    <2>2. ASSUME NEW s \in watching
          PROVE  \/ age'[s] = age[s] + 1 /\ age[s] <= Expiry
                 \/ age'[s] = Expiry + 1 /\ age[s] = Expiry + 1
      <3>1. age'[s] = IF age[s] <= Expiry THEN age[s] + 1 ELSE age[s]
        BY <1>1, <1>t DEF tick
      <3> QED
        BY <3>1, <1>t
    <2>3. CASE /\ AtSelect /\ remaining > 0 /\ remaining' = remaining - 1
               /\ waited' = [s \in Services |-> IF s \in watching THEN waited[s] + 1 ELSE waited[s]]
      <3>1. pass = 0
        BY <2>3 DEF AtSelect
      <3>2. ASSUME NEW s \in watching
            PROVE  Waiting(s)'
        <4>1. waited'[s] = waited[s] + 1 /\ remaining' = remaining - 1
          BY <2>3, <1>t
        <4>2. /\ waited[s] <= age[s] \/ age[s] = Expiry + 1
              /\ waited[s] + remaining <= Expiry + LoopTimeout
              /\ \E i \in DOMAIN monitor : monitor[i] = s
          BY <3>1 DEF WaitInvariant, Waiting
        <4>3. waited'[s] <= age'[s] \/ age'[s] = Expiry + 1
          <5>1. age[s] \in Nat /\ waited[s] \in Nat
            BY <1>t
          <5>2. CASE age'[s] = age[s] + 1 /\ age[s] <= Expiry
            <6>1. waited[s] <= age[s]
              BY <4>2, <5>1, <5>2
            <6> QED
              BY <4>1, <5>1, <5>2, <6>1
          <5> QED
            BY <2>2, <5>2
        <4>4. waited'[s] + remaining' <= Expiry + LoopTimeout
          BY <4>1, <4>2, <1>t
        <4> QED
          BY <4>2, <4>3, <4>4, <3>1, <2>1 DEF Waiting
      <3> QED
        BY <3>1, <3>2, <2>1 DEF WaitInvariant
    <2>4. CASE UNCHANGED <<remaining, waited>>
      <3>1. ASSUME NEW s \in watching
            PROVE  Waiting(s)'
        <4>1. waited'[s] <= age'[s] \/ age'[s] = Expiry + 1
          <5>1. waited[s] <= age[s] \/ age[s] = Expiry + 1
            BY DEF WaitInvariant, Waiting
          <5> QED
            BY <5>1, <2>2, <2>4, <1>t
        <4> QED
          BY <4>1, <2>1, <2>4 DEF WaitInvariant, Waiting, Judged
      <3> QED
        BY <3>1, <2>1, <2>4 DEF WaitInvariant
    <2> QED
      BY <1>1, <2>3, <2>4 DEF tick
  <1>2. ASSUME NEW s \in Services, sendHeartbeat(s) \/ die(s) \/ sendRequest(s)
        PROVE  WaitInvariant'
    BY <1>2, <1>k DEF sendHeartbeat, die, sendRequest, clientVars, loopVars
  <1>3. ASSUME NEW s \in Services, createProposer(s)
        PROVE  WaitInvariant'
    <2>1. /\ pass = 0 /\ UNCHANGED <<pass, remaining>>
          /\ watching' = watching \cup {s}
          /\ age' = [age EXCEPT ![s] = 0] /\ waited' = [waited EXCEPT ![s] = 0]
          /\ monitor' = Append(erase(monitor, s), s)
      BY <1>3 DEF createProposer, Serves, AtSelect, TimeLeft
    <2>2. ASSUME NEW r \in watching'
          PROVE  \E i \in DOMAIN monitor' : monitor'[i] = r
      <3> DEFINE v == erase(monitor, s)
      <3>1. v \in Seq(Services)
            /\ \A i \in DOMAIN monitor : monitor[i] # s => \E j \in DOMAIN v : v[j] = monitor[i]
        <4>1. monitor \in Seq(Services)
          BY <1>t
        <4> QED
          BY <4>1, EraseFacts
      <3> HIDE DEF v
      <3>2. /\ monitor' = Append(v, s) /\ DOMAIN monitor' = 1 .. Len(v) + 1
            /\ DOMAIN v = 1 .. Len(v) /\ Len(v) \in Nat
            /\ monitor'[Len(v) + 1] = s /\ \A j \in DOMAIN v : monitor'[j] = v[j]
        BY <3>1, <2>1 DEF v
      <3>3. CASE r = s
        BY <3>2, <3>3
      <3>4. CASE r # s
        <4>1. PICK i \in DOMAIN monitor : monitor[i] = r
          BY <3>4, <2>1, <2>2 DEF WaitInvariant, Waiting
        <4>2. PICK j \in DOMAIN v : v[j] = r
          BY <4>1, <3>1, <3>4
        <4> QED
          BY <4>2, <3>2
      <3> QED
        BY <3>3, <3>4
    <2>3. ASSUME NEW r \in watching'
          PROVE  Waiting(r)'
      <3>1. CASE r = s
        <4>1. waited'[r] = 0 /\ age'[r] = 0
          BY <3>1, <2>1, <1>t
        <4>2. pass' = 0 /\ 0 + remaining' <= Expiry + LoopTimeout
          BY <2>1, <1>t
        <4> QED
          BY <4>1, <4>2, <2>2, <2>3 DEF Waiting
      <3>2. CASE r # s
        <4>1. waited'[r] = waited[r] /\ age'[r] = age[r] /\ Waiting(r)
          BY <3>2, <2>1, <2>3, <1>t DEF WaitInvariant
        <4> QED
          BY <4>1, <2>1, <2>2 DEF Waiting
      <3> QED
        BY <3>1, <3>2
    <2> QED
      BY <2>1, <2>3 DEF WaitInvariant
  <1>4. ASSUME NEW s \in Services, receiveHeartbeat(s)
        PROVE  WaitInvariant'
    <2>1. pass = 0 /\ UNCHANGED <<monitor, pass, remaining>>
      BY <1>4 DEF receiveHeartbeat, Serves, AtSelect, TimeLeft
    <2>2. CASE unread[s] > 0
      <3>1. /\ UNCHANGED watching
            /\ age' = [age EXCEPT ![s] = 0] /\ waited' = [waited EXCEPT ![s] = 0]
        BY <1>4, <2>2 DEF receiveHeartbeat
      <3>2. ASSUME NEW r \in watching
            PROVE  Waiting(r)'
        <4>1. CASE r = s
          <5>1. waited'[r] = 0 /\ age'[r] = 0
            BY <4>1, <3>1, <1>t
          <5> QED
            BY <5>1, <2>1, <1>t DEF WaitInvariant, Waiting
        <4>2. CASE r # s
          <5>1. waited'[r] = waited[r] /\ age'[r] = age[r] /\ Waiting(r)
            BY <4>2, <3>1, <1>t DEF WaitInvariant
          <5> QED
            BY <5>1, <2>1 DEF Waiting
        <4> QED
          BY <4>1, <4>2
      <3> QED
        BY <3>1, <3>2, <2>1 DEF WaitInvariant
    <2>3. CASE ~(unread[s] > 0)
      BY <1>4, <2>1, <2>3, <1>r, <1>k DEF receiveHeartbeat
    <2> QED
      BY <2>2, <2>3
  <1>5. ASSUME NEW fd \in {Events, Queries}, serveOther(fd)
        PROVE  WaitInvariant'
    BY <1>5, <1>k DEF serveOther, Serves, TimeLeft, clientVars
  <1>6. ASSUME NEW s \in Services, handlePaxosMessage(s)
        PROVE  WaitInvariant'
    BY <1>6, <1>k DEF handlePaxosMessage, Serves, TimeLeft
  <1>7. CASE timeout
    <2>1. /\ pass = 0 /\ remaining = 0 /\ remaining' = LoopTimeout
          /\ pass' = IF monitor = <<>> THEN 0 ELSE 1
          /\ UNCHANGED <<monitor, watching, age, waited>>
      BY <1>7 DEF timeout, AtSelect, clientVars
    <2>2. ASSUME NEW s \in watching
          PROVE  Waiting(s)'
      <3>1. PICK i \in DOMAIN monitor : monitor[i] = s
        BY DEF WaitInvariant, Waiting
      <3>2. monitor # <<>> /\ pass' = 1
        BY <3>1, <2>1
      <3>3. ~Judged(s)'
        BY <3>2, <2>1, <1>t DEF Judged
      <3>4. waited[s] <= Expiry + LoopTimeout
        BY <2>1, <1>t DEF WaitInvariant, Waiting
      <3> QED
        BY <3>1, <3>2, <3>3, <3>4, <2>1 DEF WaitInvariant, Waiting
    <2> QED
      BY <2>1, <2>2 DEF WaitInvariant
  <1>8. CASE judge
    <2> DEFINE s == monitor[pass]
    <2>1. /\ s \in Services /\ pass \in 1 .. Len(monitor)
          /\ pass' = IF pass < Len(monitor) THEN pass + 1 ELSE 0
          /\ UNCHANGED <<monitor, remaining>> /\ remaining = LoopTimeout
      BY <1>8 DEF judge, MonitorType, TypeOK, WaitInvariant
    <2>2. /\ watching' \subseteq watching
          /\ \A r \in watching' : waited'[r] = waited[r] /\ age'[r] = age[r]
          /\ s \in watching' => ~isExpired(s)
      <3> HIDE DEF s
      <3>1. CASE s \in watching /\ isExpired(s)
        <4>1. startRecovery(s)
          BY <1>8, <3>1 DEF judge, s
        <4> QED
          BY <4>1, <2>1, <1>r
      <3>2. CASE ~(s \in watching /\ isExpired(s))
        <4>1. UNCHANGED <<watching, age, waited>>
          BY <1>8, <3>2 DEF judge, s
        <4> QED
          BY <4>1, <3>2
      <3> QED
        BY <3>1, <3>2
    <2>3. ASSUME NEW r \in watching'
          PROVE  Waiting(r)'
      <3>1. Waiting(r) /\ r \in Services /\ waited'[r] = waited[r] /\ age'[r] = age[r]
        BY <2>2, <2>3, <1>t DEF WaitInvariant
      <3>2. ASSUME \E i \in DOMAIN monitor : i <= pass /\ monitor[i] = r
            PROVE  waited[r] <= Expiry
        <4>1. PICK i \in DOMAIN monitor : i <= pass /\ monitor[i] = r
          BY <3>2
        <4>2. CASE i < pass
          <5>1. Judged(r) /\ pass > 0
            BY <4>1, <4>2, <2>1, <1>t DEF Judged
          <5> QED
            BY <5>1, <3>1 DEF Waiting
        <4>3. CASE i = pass
          <5>1. r = s /\ ~(age[r] > Expiry)
            BY <4>1, <4>3, <2>2, <2>3 DEF isExpired
          <5>2. age[r] \in 0 .. Expiry + 1 /\ waited[r] \in Nat
            BY <3>1, <1>t
          <5> QED
            BY <5>1, <5>2, <3>1 DEF Waiting
        <4> QED
          BY <4>1, <4>2, <4>3, <2>1, <1>t
      <3>3. CASE pass < Len(monitor)
        <4>1. pass' = pass + 1
          BY <2>1, <3>3
        <4>2. Judged(r)' => waited[r] <= Expiry
          <5>1. Judged(r)' => \E i \in DOMAIN monitor : i <= pass /\ monitor[i] = r
            BY <4>1, <2>1, <1>t DEF Judged
          <5> QED
            BY <5>1, <3>2
        <4> QED
          BY <4>1, <4>2, <3>1, <2>1, <1>t DEF Waiting
      <3>4. CASE ~(pass < Len(monitor))
        <4>1. pass' = 0 /\ pass = Len(monitor)
          BY <2>1, <3>4
        <4>2. PICK i \in DOMAIN monitor : monitor[i] = r
          BY <3>1 DEF Waiting
        <4>3. waited[r] <= Expiry
          BY <4>1, <4>2, <3>2, <1>t
        <4>4. waited'[r] + remaining' <= Expiry + LoopTimeout
          BY <4>3, <3>1, <2>1, <1>t
        <4> QED
          BY <4>1, <4>4, <3>1, <2>1 DEF Waiting
      <3> QED
        BY <3>3, <3>4
    <2> QED
      BY <2>1, <2>3 DEF WaitInvariant
  <1>9. CASE UNCHANGED vars
    BY <1>9, <1>k DEF vars, clientVars, loopVars
  <1> QED
    BY <1>1, <1>2, <1>3, <1>4, <1>5, <1>6, <1>7, <1>8, <1>9 DEF Next

(* However often other descriptors wake the loop, a client that hears      *)
(* nothing is noticed after Expiry and one timeout of waiting.             *)
THEOREM SilenceIsNoticed == Spec => []NoticedInTime
  <1>1. Init => WaitInvariant
    BY DEF Init, WaitInvariant
  <1>2. MonitorType /\ WaitInvariant => NoticedInTime
    <2>1. SUFFICES ASSUME MonitorType, WaitInvariant, NEW s \in watching
                   PROVE  waited[s] <= Expiry + LoopTimeout
      BY DEF NoticedInTime
    <2>2. /\ waited[s] \in Nat /\ remaining \in 0 .. LoopTimeout /\ pass \in Nat
      BY <2>1 DEF MonitorType, TypeOK
    <2> QED
      BY <2>1, <2>2, TimesAssumption DEF WaitInvariant, Waiting
  <1> QED
    BY <1>1, <1>2, TypeAndTableInit, TypeStep, TableStep, WaitStep, PTL DEF Spec

(***************************************************************************)
(* What a recovery costs.                                                  *)
(***************************************************************************)

Alarms == index + (IF crashed THEN 1 ELSE 0)

(* Every client that is left may still cost a backup, and the program ends  *)
(* when none is left.                                                       *)
CostInvariant ==
    /\ crashed => index = Backups
    /\ IsFiniteSet(watching)
    /\ Alarms + Cardinality(watching) <= accepted

LEMMA RecoveryCost ==
    ASSUME MonitorType, CostInvariant, NEW s \in watching, startRecovery(s), ~crashed,
           UNCHANGED accepted
    PROVE  CostInvariant'
  <1>1. watching' = watching \ {s} /\ IsFiniteSet(watching)
    BY DEF startRecovery, Unwatch, CostInvariant
  <1>2. /\ IsFiniteSet(watching') /\ Cardinality(watching') = Cardinality(watching) - 1
        /\ Cardinality(watching) \in Nat
    BY <1>1, FS_RemoveElement, FS_CardinalityType
  <1>3. index \in Nat /\ accepted \in Nat
    BY TimesAssumption DEF MonitorType, TypeOK
  <1>4. Alarms' = Alarms + 1 /\ Alarms \in Nat
    <2>1. \/ index' = index /\ crashed'
          \/ index' = index + 1 /\ ~crashed'
      BY DEF startRecovery, NoBackupLeft
    <2> QED
      BY <2>1, <1>3 DEF Alarms
  <1>5. crashed' => index' = Backups
    BY DEF startRecovery, NoBackupLeft
  <1> QED
    BY <1>2, <1>3, <1>4, <1>5 DEF CostInvariant

LEMMA CostStep ==
    ASSUME MonitorType, TableIsExact, CostInvariant, [Next]_vars
    PROVE  CostInvariant'
  <1>k. ASSUME UNCHANGED <<index, crashed, watching, accepted>>
        PROVE  CostInvariant'
    BY <1>k DEF CostInvariant, Alarms
  <1>1. CASE tick \/ timeout \/ UNCHANGED vars
    BY <1>1, <1>k DEF tick, timeout, vars, clientVars, historyVars
  <1>2. ASSUME NEW s \in Services,
               sendHeartbeat(s) \/ die(s) \/ sendRequest(s) \/ handlePaxosMessage(s)
        PROVE  CostInvariant'
    BY <1>2, <1>k DEF sendHeartbeat, die, sendRequest, handlePaxosMessage, clientVars,
                      historyVars
  <1>3. ASSUME NEW fd \in {Events, Queries}, serveOther(fd)
        PROVE  CostInvariant'
    BY <1>3, <1>k DEF serveOther, clientVars, historyVars
  <1>4. ASSUME NEW s \in Services, createProposer(s)
        PROVE  CostInvariant'
    <2>1. /\ watching' = watching \cup {s} /\ accepted' = accepted + 1
          /\ UNCHANGED <<index, crashed>> /\ IsFiniteSet(watching)
      BY <1>4 DEF createProposer, CostInvariant
    <2>2. /\ IsFiniteSet(watching') /\ Cardinality(watching) \in Nat
          /\ Cardinality(watching') \in Nat
          /\ Cardinality(watching') <= Cardinality(watching) + 1
      <3>1. /\ IsFiniteSet(watching') /\ Cardinality(watching) \in Nat
            /\ Cardinality(watching') = Cardinality(watching)
               \/ Cardinality(watching') = Cardinality(watching) + 1
        BY <2>1, FS_AddElement, FS_CardinalityType
      <3> QED
        BY <3>1
    <2>3. Alarms \in Nat /\ Alarms' = Alarms /\ accepted \in Nat
      BY <2>1, TimesAssumption DEF Alarms, MonitorType, TypeOK
    <2> QED
      BY <2>1, <2>2, <2>3 DEF CostInvariant
  <1>5. ASSUME NEW s \in Services, receiveHeartbeat(s)
        PROVE  CostInvariant'
    <2>1. s \in watching /\ ~crashed /\ UNCHANGED accepted
      BY <1>5 DEF receiveHeartbeat, Serves, AtSelect, FirstReady, Registered, TableIsExact,
                  historyVars
    <2>2. CASE unread[s] > 0
      BY <1>5, <2>1, <2>2, <1>k DEF receiveHeartbeat
    <2>3. CASE ~(unread[s] > 0)
      BY <1>5, <2>1, <2>3, RecoveryCost DEF receiveHeartbeat
    <2> QED
      BY <2>2, <2>3
  <1>6. CASE judge
    <2> DEFINE s == monitor[pass]
    <2>1. ~crashed /\ UNCHANGED accepted
      BY <1>6 DEF judge
    <2> HIDE DEF s
    <2>2. CASE s \in watching /\ isExpired(s)
      <3>1. startRecovery(s)
        BY <1>6, <2>2 DEF judge, s
      <3> QED
        BY <2>1, <2>2, <3>1, RecoveryCost
    <2>3. CASE ~(s \in watching /\ isExpired(s))
      <3>1. UNCHANGED <<watching, index, crashed>>
        BY <1>6, <2>3 DEF judge, s
      <3> QED
        BY <2>1, <3>1, <1>k
    <2> QED
      BY <2>2, <2>3
  <1> QED
    BY <1>1, <1>2, <1>3, <1>4, <1>5, <1>6 DEF Next

(* The list of backups, and with it the program, lasts as long as there    *)
(* are no more requests than backups: each recovery takes one element, no  *)
(* request causes two, and none is read past the end before that.          *)
THEOREM BackupsLast == Spec => []OneBackupPerRequest
  <1>1. Init => CostInvariant
    <2>1. IsFiniteSet({}) /\ Cardinality({}) = 0
      BY FS_EmptySet
    <2> QED
      BY <2>1 DEF Init, CostInvariant, Alarms
  <1>2. MonitorType /\ CostInvariant => OneBackupPerRequest
    <2>1. SUFFICES ASSUME MonitorType, CostInvariant
                   PROVE  Alarms <= accepted /\ (crashed => index = Backups /\ accepted > Backups)
      BY DEF OneBackupPerRequest, Alarms
    <2>2. Cardinality(watching) \in Nat /\ Alarms \in Nat /\ accepted \in Nat
      BY <2>1, FS_CardinalityType, TimesAssumption DEF CostInvariant, Alarms, MonitorType, TypeOK
    <2>3. Alarms <= accepted /\ (crashed => index = Backups)
      BY <2>1, <2>2 DEF CostInvariant
    <2>4. ASSUME crashed PROVE accepted > Backups
      BY <2>2, <2>3, <2>4, TimesAssumption DEF Alarms
    <2> QED
      BY <2>3, <2>4
  <1> QED
    BY <1>1, <1>2, TypeAndTableInit, TypeStep, TableStep, CostStep, PTL DEF Spec
=============================================================================
