------------------------- MODULE RerouteProofs -------------------------
(***************************************************************************)
(* Proofs about Reroute and RecoveryFlow: types, that a wait reroutes its  *)
(* link at most once, that no change of address is missed, and that links  *)
(* follow the copy.                                                        *)
(***************************************************************************)
EXTENDS RecoveryFlow, TLAPS

(* What is on a connection. *)
Answers == Seq(Addresses \cup {EOF})

AnswersType == answers \in [Waits -> [Proposers -> Answers]]

SfdType == sfd \in [Waits -> [Proposers -> {"none", "open", "closed"}]]

(* A queue of answers stays one when something is written or read. *)
LEMMA AnswerQueues ==
    ASSUME NEW q \in Answers
    PROVE  /\ \A a \in Addresses \cup {EOF} : Append(q, a) \in Answers /\ q \o <<a>> \in Answers
           /\ q # <<>> => Tail(q) \in Answers /\ Head(q) \in Addresses \cup {EOF}
  BY DEF Answers

LEMMA OneQueueChanges ==
    ASSUME AnswersType, NEW w \in Waits, NEW p \in Proposers, NEW q \in Answers
    PROVE  [answers EXCEPT ![w][p] = q] \in [Waits -> [Proposers -> Answers]]
  BY DEF AnswersType

(* Accepting a query writes one answer. *)
LEMMA AcceptQueryAnswers ==
    ASSUME AnswersType, NEW w \in Waits, NEW p \in Proposers, address[p] \in Addresses,
           acceptQuery(w, p)
    PROVE  AnswersType'
  <1>1. answers[w][p] \in Answers
    BY DEF AnswersType
  <1>2. PICK q \in Answers : answers' = [answers EXCEPT ![w][p] = q]
    <2>1. CASE p \in monitored
      <3>1. answers' = [answers EXCEPT ![w][p] = answers[w][p] \o <<address[p]>>]
        BY <2>1 DEF acceptQuery, firstAnswer, AnswersType
      <3> QED
        BY <3>1, <1>1, AnswerQueues
    <2>2. CASE p \notin monitored
      <3>1. answers' = [answers EXCEPT ![w][p] = Append(answers[w][p], EOF)]
        BY <2>2 DEF acceptQuery, AnswersType
      <3> QED
        BY <3>1, <1>1, AnswerQueues
    <2> QED
      BY <2>1, <2>2
  <1> QED
    BY <1>2, OneQueueChanges DEF AnswersType

(* Telling the inform list writes one answer on each open connection. *)
LEMMA TellAnswers ==
    ASSUME AnswersType, NEW p \in Proposers, NEW a \in Addresses, Tell(p, a)
    PROVE  AnswersType'
  <1>1. ASSUME NEW w \in Waits
        PROVE  [answers[w] EXCEPT ![p] = Append(@, a)] \in [Proposers -> Answers]
    BY AnswerQueues DEF AnswersType
  <1> QED
    BY <1>1 DEF Tell, AnswersType

(* A process that dies closes its connections. *)
LEMMA CrashAnswers ==
    ASSUME AnswersType, NEW p \in Proposers, crash(p)
    PROVE  AnswersType'
  <1>1. ASSUME NEW w \in Waits
        PROVE  [answers[w] EXCEPT ![p] = Append(@, EOF)] \in [Proposers -> Answers]
    BY AnswerQueues DEF AnswersType
  <1>2. \/ answers' = answers
        \/ answers' = [w \in Waits |->
                         IF sfd[w][p] = "open" THEN [answers[w] EXCEPT ![p] = Append(@, EOF)]
                                               ELSE answers[w]]
    BY DEF crash
  <1>3. CASE answers' = answers
    BY <1>3 DEF AnswersType
  <1>4. CASE answers' = [w \in Waits |->
                           IF sfd[w][p] = "open" THEN [answers[w] EXCEPT ![p] = Append(@, EOF)]
                                                 ELSE answers[w]]
    <2>1. ASSUME NEW w \in Waits PROVE answers[w] \in [Proposers -> Answers]
      BY DEF AnswersType
    <2> QED
      BY <1>1, <1>4, <2>1 DEF AnswersType
  <1> QED
    BY <1>2, <1>3, <1>4

(* Reading an answer takes it away. *)
LEMMA ReadAnswers ==
    ASSUME AnswersType, NEW w \in Waits, NEW p \in Proposers, readAddressChange(w, p)
    PROVE  AnswersType'
  <1>1. Tail(answers[w][p]) \in Answers
    BY AnswerQueues DEF readAddressChange, AnswersType
  <1>2. answers' = [answers EXCEPT ![w][p] = Tail(answers[w][p])]
    BY DEF readAddressChange, AnswersType
  <1> QED
    BY <1>1, <1>2, OneQueueChanges DEF AnswersType
-----------------------------------------------------------------------------
(* The types of the other variables. *)
OtherTypes ==
    /\ looksDead \in BOOLEAN /\ sourceUp \in BOOLEAN
    /\ requestorUp \in BOOLEAN
    /\ registered \subseteq asked /\ asked \subseteq Proposers
    /\ changes \in 0 .. MaxChanges
    /\ subscribed \in BOOLEAN
    /\ lists \in Seq(SUBSET Proposers)
    /\ plist \subseteq Proposers
    /\ used \subseteq Waits
    /\ up \subseteq Proposers
    /\ requests \in [Proposers -> Nat]
    /\ monitored \subseteq Proposers
    /\ address \in [Proposers -> Addresses]
    /\ informlist \in [Proposers -> SUBSET Waits]
    /\ query \in [Proposers -> SUBSET Waits]
    /\ forgotten \subseteq accepted /\ accepted \subseteq Waits \X Proposers
    /\ reroutes \in [Waits -> Nat]

LEMMA TypeParts == TypeOK <=> OtherTypes /\ SfdType /\ AnswersType
  BY DEF TypeOK, OtherTypes, SfdType, AnswersType, Answers

(* The states of the connections keep their type when one or all close. *)
LEMMA ReadSfd ==
    ASSUME SfdType, NEW w \in Waits, NEW p \in Proposers, readAddressChange(w, p)
    PROVE  SfdType'
  <1>1. closeAll(w, p) \in [Waits -> [Proposers -> {"none", "open", "closed"}]]
    BY DEF closeAll, SfdType
  <1>2. [sfd EXCEPT ![w][p] = "closed"] \in [Waits -> [Proposers -> {"none", "open", "closed"}]]
    BY DEF SfdType
  <1>3. \/ sfd' = sfd
        \/ sfd' = closeAll(w, p)
        \/ sfd' = [sfd EXCEPT ![w][p] = "closed"]
    BY DEF readAddressChange
  <1> QED
    BY <1>1, <1>2, <1>3 DEF SfdType

(* The initial state has the types, and every step keeps them. *)
LEMMA TypeInit == Init => TypeOK
  <1> SUFFICES ASSUME Init PROVE TypeOK
    OBVIOUS
  <1>1. <<>> \in Seq(SUBSET Proposers) /\ <<>> \in Answers
    BY DEF Answers
  <1>2. AnswersType /\ SfdType
    BY <1>1 DEF Init, AnswersType, SfdType
  <1>3. 0 \in 0 .. MaxChanges
    BY MaxChangesAssumption
  <1>4. OtherTypes
    BY <1>1, <1>3 DEF Init, OtherTypes, Addresses
  <1> QED
    BY <1>2, <1>4, TypeParts

LEMMA TypeStep == TypeOK /\ [Next]_vars => TypeOK'
  <1> SUFFICES ASSUME TypeOK, [Next]_vars PROVE TypeOK'
    OBVIOUS
  <1> SUFFICES OtherTypes' /\ SfdType' /\ AnswersType'
    BY TypeParts DEF TypeOK, OtherTypes, SfdType, AnswersType, Answers
  <1>0. OtherTypes /\ SfdType /\ AnswersType
    BY TypeParts
  <1> USE DEF environment, requestor, listener, proposer, connections, history
  <1>1. CASE changeAcceptor
    BY <1>0, <1>1, MaxChangesAssumption DEF changeAcceptor, OtherTypes, SfdType, AnswersType
  <1>2. CASE insufficientProposers
    BY <1>0, <1>2 DEF insufficientProposers, OtherTypes, SfdType, AnswersType
  <1>3. CASE listenProposerList
    <2>1. lists' \in Seq(SUBSET Proposers)
      BY <1>0, <1>3 DEF listenProposerList, OtherTypes
    <2> QED
      BY <1>0, <1>3, <2>1 DEF listenProposerList, OtherTypes, SfdType, AnswersType
  <1>4. ASSUME NEW p \in Proposers, requestProposer(p) PROVE OtherTypes' /\ SfdType' /\ AnswersType'
    <2>1. registered' \subseteq asked' /\ asked' \subseteq Proposers
      BY <1>0, <1>4 DEF requestProposer, OtherTypes
    <2>2. lists' \in Seq(SUBSET Proposers)
      <3>1. registered' \in SUBSET Proposers
        BY <2>1
      <3>2. Append(lists, registered') \in Seq(SUBSET Proposers)
        BY <3>1, <1>0 DEF OtherTypes
      <3>3. lists' = lists \/ lists' = Append(lists, registered')
        BY <1>4 DEF requestProposer
      <3> QED
        BY <1>0, <3>2, <3>3 DEF OtherTypes
    <2>3. requests' \in [Proposers -> Nat]
      <3>1. requests' = requests \/ requests' = [requests EXCEPT ![p] = @ + 1]
        BY <1>4 DEF requestProposer
      <3>2. [requests EXCEPT ![p] = @ + 1] \in [Proposers -> Nat]
        BY <1>0 DEF OtherTypes
      <3> QED
        BY <1>0, <3>1, <3>2 DEF OtherTypes
    <2> QED
      BY <1>0, <1>4, <2>1, <2>2, <2>3 DEF requestProposer, OtherTypes, SfdType, AnswersType
  <1>5. ASSUME NEW p \in Proposers, loseProposer(p) PROVE OtherTypes' /\ SfdType' /\ AnswersType'
    BY <1>0, <1>5 DEF loseProposer, OtherTypes, SfdType, AnswersType
  <1>6. ASSUME NEW p \in Proposers, createProposer(p) PROVE OtherTypes' /\ SfdType' /\ AnswersType'
    BY <1>0, <1>6 DEF createProposer, OtherTypes, SfdType, Addresses, AnswersType
  <1>7. ASSUME NEW p \in Proposers, NEW w \in Waits, acceptQuery(w, p)
        PROVE  OtherTypes' /\ SfdType' /\ AnswersType'
    <2>1. AnswersType'
      BY <1>0, <1>7, AcceptQueryAnswers DEF OtherTypes
    <2>2. /\ query' \in [Proposers -> SUBSET Waits]
          /\ informlist' \in [Proposers -> SUBSET Waits]
      <3>1. query' = [query EXCEPT ![p] = @ \ {w}]
        BY <1>7 DEF acceptQuery
      <3>2. informlist' = informlist \/ informlist' = [informlist EXCEPT ![p] = @ \cup {w}]
        BY <1>7 DEF acceptQuery
      <3>3. /\ query \in [Proposers -> SUBSET Waits]
            /\ informlist \in [Proposers -> SUBSET Waits]
        BY <1>0 DEF OtherTypes
      <3>4. query' \in [Proposers -> SUBSET Waits]
        BY <3>1, <3>3
      <3>5. informlist' \in [Proposers -> SUBSET Waits]
        BY <3>2, <3>3
      <3> QED
        BY <3>4, <3>5
    <2>3. forgotten' \subseteq accepted' /\ accepted' \subseteq Waits \X Proposers
      <3>1. forgotten' = forgotten
        BY <1>7 DEF acceptQuery
      <3>2. accepted' = accepted \/ accepted' = accepted \cup {<<w, p>>}
        BY <1>7 DEF acceptQuery
      <3> QED
        BY <1>0, <3>1, <3>2 DEF OtherTypes
    <2> QED
      BY <1>0, <1>7, <2>1, <2>2, <2>3 DEF acceptQuery, OtherTypes, SfdType
  <1>8. ASSUME NEW p \in Proposers, NEW b \in Backups, commitRecovery(p, b)
        PROVE  OtherTypes' /\ SfdType' /\ AnswersType'
    <2>1. AnswersType'
      BY <1>0, <1>8, TellAnswers DEF commitRecovery, Addresses
    <2> QED
      BY <1>0, <1>8, <2>1 DEF commitRecovery, Tell, informed, OtherTypes, SfdType, Addresses
  <1>9. ASSUME NEW p \in Proposers, informAll(p) PROVE OtherTypes' /\ SfdType' /\ AnswersType'
    <2>1. AnswersType'
      BY <1>0, <1>9, TellAnswers DEF informAll, OtherTypes
    <2> QED
      BY <1>0, <1>9, <2>1 DEF informAll, Tell, informed, OtherTypes, SfdType
  <1>10. ASSUME NEW p \in Proposers, crash(p) PROVE OtherTypes' /\ SfdType' /\ AnswersType'
    BY <1>0, <1>10, CrashAnswers DEF crash, OtherTypes, SfdType
  <1>11. CASE readProposerList
    <2>1. lists' \in Seq(SUBSET Proposers) /\ plist' \subseteq Proposers
      BY <1>0, <1>11 DEF readProposerList, OtherTypes
    <2> QED
      BY <1>0, <1>11, <2>1 DEF readProposerList, OtherTypes, SfdType, AnswersType
  <1>12. ASSUME NEW w \in Waits, listenAddressChange(w)
         PROVE  OtherTypes' /\ SfdType' /\ AnswersType'
    BY <1>0, <1>12 DEF listenAddressChange, askable, OtherTypes, SfdType, AnswersType
  <1>13. ASSUME NEW w \in Waits, NEW p \in Proposers, readAddressChange(w, p)
         PROVE  OtherTypes' /\ SfdType' /\ AnswersType'
    <2>1. reroutes' \in [Waits -> Nat]
      <3>1. reroutes' = reroutes \/ reroutes' = [reroutes EXCEPT ![w] = @ + 1]
        BY <1>0, <1>13 DEF readAddressChange, OtherTypes
      <3>2. [reroutes EXCEPT ![w] = @ + 1] \in [Waits -> Nat]
        BY <1>0 DEF OtherTypes
      <3> QED
        BY <1>0, <3>1, <3>2 DEF OtherTypes
    <2> QED
      BY <1>0, <1>13, <2>1, ReadAnswers, ReadSfd DEF readAddressChange, OtherTypes
  <1>14. CASE destinationFails
    BY <1>0, <1>14 DEF destinationFails, OtherTypes, SfdType, AnswersType
  <1>15. CASE sourceFails
    BY <1>0, <1>15 DEF sourceFails, OtherTypes, SfdType, AnswersType
  <1>16. CASE UNCHANGED vars
    BY <1>0, <1>16 DEF vars, OtherTypes, SfdType, AnswersType
  <1> QED
    BY <1>1, <1>2, <1>3, <1>4, <1>5, <1>6, <1>7, <1>8, <1>9, <1>10, <1>11, <1>12, <1>13,
       <1>14, <1>15, <1>16 DEF Next, proposerProgram, listenerProgram

(* Every variable keeps its type: the state of Reroute, in particular the   *)
(* answers on every connection (Monitored::inform).                         *)
THEOREM TypeCorrect == Spec => []TypeOK
  BY TypeInit, TypeStep, PTL DEF Spec
-----------------------------------------------------------------------------
(* A wait reroutes its link once. *)

LEMMA WaitInit == Init => WaitIsOver /\ AskedAfterLinkDown /\ ChangeIsOnItsWay
  BY DEF Init, WaitIsOver, AskedAfterLinkDown, ChangeIsOnItsWay

(* Reading concerns one wait. *)
LEMMA OneWaitReads ==
    ASSUME SfdType, OtherTypes, NEW w \in Waits, NEW p \in Proposers, readAddressChange(w, p)
    PROVE  \A u \in Waits : u # w => sfd'[u] = sfd[u] /\ reroutes'[u] = reroutes[u]
  <1> SUFFICES ASSUME NEW u \in Waits, u # w PROVE sfd'[u] = sfd[u] /\ reroutes'[u] = reroutes[u]
    OBVIOUS
  <1>1. \/ sfd' = sfd
        \/ sfd' = [sfd EXCEPT ![w][p] = "closed"]
        \/ sfd' = closeAll(w, p)
    BY DEF readAddressChange
  <1>2. sfd'[u] = sfd[u]
    BY <1>1 DEF closeAll, SfdType
  <1>3. reroutes' = reroutes \/ reroutes' = [reroutes EXCEPT ![w] = @ + 1]
    BY DEF readAddressChange, OtherTypes
  <1> QED
    BY <1>2, <1>3 DEF OtherTypes

(* Only reading an address, and asking for one, can end a wait or open      *)
(* connections.                                                             *)
LEMMA WaitStep ==
    TypeOK /\ WaitIsOver /\ AskedAfterLinkDown /\ [Next]_vars => WaitIsOver'
  <1> SUFFICES ASSUME TypeOK, WaitIsOver, AskedAfterLinkDown, [Next]_vars PROVE WaitIsOver'
    OBVIOUS
  <1>0. SfdType /\ OtherTypes
    BY TypeParts
  <1> USE DEF environment, requestor, listener, proposer, connections, history
  <1>1. ASSUME UNCHANGED <<used, sfd, reroutes>> PROVE WaitIsOver'
    BY <1>1 DEF WaitIsOver
  <1>2. ASSUME NEW w \in Waits, listenAddressChange(w) PROVE WaitIsOver'
    <2>1. reroutes' = reroutes /\ used' = used \cup {w} /\ reroutes[w] = 0
      BY <1>2 DEF listenAddressChange, AskedAfterLinkDown
    <2>2. \A u \in Waits : u # w => sfd'[u] = sfd[u]
      BY <1>0, <1>2 DEF listenAddressChange, SfdType
    <2> QED
      BY <2>1, <2>2 DEF WaitIsOver
  <1>3. ASSUME NEW w \in Waits, NEW p \in Proposers, readAddressChange(w, p) PROVE WaitIsOver'
    <2>1. \A u \in Waits : u # w => sfd'[u] = sfd[u] /\ reroutes'[u] = reroutes[u]
      BY <1>0, <1>3, OneWaitReads
    <2>2. used' = used /\ sfd[w][p] = "open"
      BY <1>3 DEF readAddressChange
    <2>3. reroutes[w] = 0 /\ w \in used
      BY <2>2, <1>0 DEF WaitIsOver, AskedAfterLinkDown, SfdType
    <2>4. \/ reroutes'[w] = 0
          \/ reroutes'[w] = 1 /\ \A q \in Proposers : sfd'[w][q] # "open"
      <3>1. CASE sfd' = closeAll(w, p)
        <4>1. \A q \in Proposers : sfd'[w][q] # "open"
          BY <3>1, <1>0 DEF closeAll, SfdType
        <4>2. reroutes' = reroutes \/ reroutes' = [reroutes EXCEPT ![w] = @ + 1]
          BY <1>0, <1>3 DEF readAddressChange, OtherTypes
        <4> QED
          BY <4>1, <4>2, <2>3, <1>0 DEF OtherTypes
      <3>2. CASE reroutes' = reroutes
        BY <3>2, <2>3
      <3> QED
        BY <1>3, <3>1, <3>2 DEF readAddressChange
    <2> QED
      BY <2>1, <2>2, <2>3, <2>4 DEF WaitIsOver
  <1> QED
    BY <1>1, <1>2, <1>3 DEF Next, proposerProgram, listenerProgram, vars, changeAcceptor,
       insufficientProposers, listenProposerList, requestProposer, loseProposer, createProposer,
       acceptQuery, commitRecovery, informAll, crash, readProposerList, destinationFails,
       sourceFails

(* Nobody is asked before the link-down event. *)
LEMMA AskedStep ==
    TypeOK /\ AskedAfterLinkDown /\ [Next]_vars => AskedAfterLinkDown'
  <1> SUFFICES ASSUME TypeOK, AskedAfterLinkDown, [Next]_vars PROVE AskedAfterLinkDown'
    OBVIOUS
  <1>0. SfdType /\ OtherTypes
    BY TypeParts
  <1> USE DEF environment, requestor, listener, proposer, connections, history
  <1>1. ASSUME UNCHANGED <<used, sfd, reroutes, query, accepted>> PROVE AskedAfterLinkDown'
    BY <1>1 DEF AskedAfterLinkDown
  <1>2. ASSUME NEW w \in Waits, listenAddressChange(w) PROVE AskedAfterLinkDown'
    <2>1. /\ reroutes' = reroutes /\ used' = used \cup {w} /\ accepted' = accepted
          /\ \A p \in Proposers : query'[p] \subseteq query[p] \cup {w}
      BY <1>0, <1>2 DEF listenAddressChange, OtherTypes
    <2>2. \A u \in Waits : u # w => sfd'[u] = sfd[u]
      BY <1>0, <1>2 DEF listenAddressChange, SfdType
    <2> QED
      BY <2>1, <2>2 DEF AskedAfterLinkDown
  <1>3. ASSUME NEW w \in Waits, NEW p \in Proposers, readAddressChange(w, p)
        PROVE  AskedAfterLinkDown'
    <2>1. w \in used
      BY <1>3 DEF readAddressChange, AskedAfterLinkDown
    <2>2. \A u \in Waits : u # w => sfd'[u] = sfd[u] /\ reroutes'[u] = reroutes[u]
      BY <1>0, <1>3, OneWaitReads
    <2>3. used' = used /\ query' = query /\ accepted' = accepted
      BY <1>3 DEF readAddressChange
    <2> QED
      BY <2>1, <2>2, <2>3 DEF AskedAfterLinkDown
  <1>4. ASSUME NEW w \in Waits, NEW p \in Proposers, acceptQuery(w, p)
        PROVE  AskedAfterLinkDown'
    <2>1. /\ used' = used /\ reroutes' = reroutes /\ sfd' = sfd
          /\ \A q \in Proposers : query'[q] \subseteq query[q]
          /\ accepted' = accepted \/ accepted' = accepted \cup {<<w, p>>}
      BY <1>0, <1>4 DEF acceptQuery, OtherTypes
    <2>2. w \in used
      BY <1>4 DEF acceptQuery, AskedAfterLinkDown
    <2> QED
      BY <2>1, <2>2 DEF AskedAfterLinkDown
  <1> QED
    BY <1>1, <1>2, <1>3, <1>4 DEF Next, proposerProgram, listenerProgram, vars, changeAcceptor,
       insufficientProposers, listenProposerList, requestProposer, loseProposer, createProposer,
       commitRecovery, informAll, crash, readProposerList, destinationFails, sourceFails

(* Whatever the proposers answer and how often, a wait reroutes its link    *)
(* once: closeAll leaves no connection to read a second address from.       *)
THEOREM ReroutedOnce == Spec => []RerouteOnce
  <1>1. WaitIsOver => RerouteOnce
    BY DEF WaitIsOver, RerouteOnce
  <1> QED
    BY <1>1, TypeInit, TypeStep, WaitInit, WaitStep, AskedStep, PTL DEF Spec
-----------------------------------------------------------------------------
(* No change of address is missed. *)

(* What is on a connection stays there when something is added, and what is *)
(* added is there.                                                          *)
LEMMA QueueGrows ==
    ASSUME NEW q \in Answers, NEW a \in Addresses \cup {EOF}
    PROVE  /\ \A i \in 1 .. Len(q) : i \in 1 .. Len(Append(q, a)) /\ Append(q, a)[i] = q[i]
           /\ \E i \in 1 .. Len(Append(q, a)) : Append(q, a)[i] = a
  <1>1. /\ Len(q) \in Nat
        /\ Len(Append(q, a)) = Len(q) + 1
        /\ \A i \in 1 .. Len(q) : Append(q, a)[i] = q[i]
        /\ Append(q, a)[Len(q) + 1] = a
    BY DEF Answers
  <1> QED
    BY <1>1

(* What is read is gone, the rest stays. *)
LEMMA QueueShrinks ==
    ASSUME NEW q \in Answers, q # <<>>, NEW i \in 1 .. Len(q), q[i] # Head(q)
    PROVE  i - 1 \in 1 .. Len(Tail(q)) /\ Tail(q)[i - 1] = q[i]
  <1>1. /\ Len(q) \in Nat /\ Head(q) = q[1] /\ Len(Tail(q)) = Len(q) - 1
        /\ \A j \in 1 .. Len(q) - 1 : Tail(q)[j] = q[j + 1]
    BY DEF Answers
  <1>2. i # 1
    BY <1>1
  <1> QED
    BY <1>1, <1>2

(* One pair of a wait and a proposer. *)
Informed(w, p) ==
    (p \in up /\ <<w, p>> \in accepted \ forgotten /\ sfd[w][p] = "open") =>
        /\ w \in informlist[p]
        /\ address[p] # Old => OnItsWay(w, p, address[p])

LEMMA ChangeStep ==
    TypeOK /\ AskedAfterLinkDown /\ ChangeIsOnItsWay /\ [Next]_vars => ChangeIsOnItsWay'
  <1> SUFFICES ASSUME TypeOK, AskedAfterLinkDown, ChangeIsOnItsWay, [Next]_vars,
                      NEW w \in Waits, NEW p \in Proposers
               PROVE  Informed(w, p)'
    BY DEF ChangeIsOnItsWay, Informed
  <1>0. SfdType /\ OtherTypes /\ AnswersType /\ Informed(w, p)
    BY TypeParts DEF ChangeIsOnItsWay, Informed
  <1> USE DEF environment, requestor, listener, proposer, connections, history
  <1>1. ASSUME UNCHANGED <<up, accepted, forgotten, sfd, informlist, address, answers>>
        PROVE  Informed(w, p)'
    BY <1>0, <1>1 DEF Informed, OnItsWay
  <1>2. ASSUME NEW q \in Proposers, createProposer(q) PROVE Informed(w, p)'
    <2>1. CASE q = p
      BY <1>0, <1>2, <2>1 DEF createProposer, Informed, OtherTypes
    <2>2. CASE q # p
      <3>1. /\ address'[p] = address[p] /\ informlist'[p] = informlist[p]
            /\ accepted' \ forgotten' \subseteq accepted \ forgotten
            /\ up' = up /\ sfd' = sfd /\ answers' = answers
        BY <1>0, <1>2, <2>2 DEF createProposer, OtherTypes
      <3> QED
        BY <1>0, <3>1 DEF Informed, OnItsWay
    <2> QED
      BY <2>1, <2>2
  <1>3. ASSUME NEW u \in Waits, NEW q \in Proposers, acceptQuery(u, q) PROVE Informed(w, p)'
    <2>1. up' = up /\ sfd' = sfd /\ address' = address /\ forgotten' = forgotten
      BY <1>3 DEF acceptQuery
    <2>2. CASE u = w /\ q = p
      <3>1. CASE p \in monitored
        <4>1. w \in informlist'[p]
          BY <1>0, <1>3, <2>2, <3>1 DEF acceptQuery, OtherTypes
        <4>2. answers'[w][p] = answers[w][p] \o <<address[p]>>
          BY <1>0, <1>3, <2>2, <3>1 DEF acceptQuery, firstAnswer, AnswersType
        <4>3. /\ answers[w][p] \in Answers /\ address[p] \in Addresses \cup {EOF}
              /\ answers[w][p] \o <<address[p]>> = Append(answers[w][p], address[p])
          BY <1>0 DEF AnswersType, Answers, OtherTypes
        <4>4. /\ answers'[w][p] = Append(answers[w][p], address[p])
              /\ address'[p] = address[p]
          BY <4>2, <4>3, <2>1
        <4>5. \E i \in 1 .. Len(Append(answers[w][p], address[p])) :
                Append(answers[w][p], address[p])[i] = address[p]
          BY <4>3, QueueGrows
        <4>6. OnItsWay(w, p, address[p])'
          BY <4>4, <4>5 DEF OnItsWay
        <4> QED
          BY <4>1, <4>6, <2>1 DEF Informed
      <3>2. CASE p \notin monitored
        <4>1. /\ accepted' = accepted /\ informlist' = informlist
              /\ answers'[w][p] = Append(answers[w][p], EOF)
          BY <1>0, <1>3, <2>2, <3>2 DEF acceptQuery, AnswersType
        <4>2. answers[w][p] \in Answers
          BY <1>0 DEF AnswersType
        <4>3. ASSUME NEW a, OnItsWay(w, p, a) PROVE OnItsWay(w, p, a)'
          BY <4>1, <4>2, <4>3, QueueGrows DEF OnItsWay
        <4> QED
          BY <1>0, <2>1, <4>1, <4>3 DEF Informed
      <3> QED
        BY <3>1, <3>2
    <2>3. CASE ~(u = w /\ q = p)
      <3>1. /\ answers'[w][p] = answers[w][p]
            /\ informlist[p] \subseteq informlist'[p]
            /\ <<w, p>> \in accepted' => <<w, p>> \in accepted
        BY <1>0, <1>3, <2>3 DEF acceptQuery, AnswersType, OtherTypes
      <3> QED
        BY <1>0, <2>1, <3>1 DEF Informed, OnItsWay
    <2> QED
      BY <2>2, <2>3
  <1>4. ASSUME NEW q \in Proposers, NEW a \in Addresses, Tell(q, a),
               address' = [address EXCEPT ![q] = a],
               UNCHANGED <<up, sfd, accepted, forgotten>>
        PROVE  Informed(w, p)'
    <2>1. CASE q = p
      <3>1. informlist'[p] = {v \in informlist[p] : sfd[v][p] = "open"}
        BY <1>0, <1>4, <2>1 DEF Tell, informed, OtherTypes
      <3>2. ASSUME w \in informlist[p], sfd[w][p] = "open"
            PROVE  answers'[w][p] = Append(answers[w][p], a)
        BY <1>0, <1>4, <2>1, <3>2 DEF Tell, informed, AnswersType
      <3>3. answers[w][p] \in Answers /\ a \in Addresses \cup {EOF}
        BY <1>0, <1>4 DEF AnswersType
      <3>4. ASSUME w \in informlist[p], sfd[w][p] = "open"
            PROVE  OnItsWay(w, p, a)'
        BY <3>2, <3>3, <3>4, QueueGrows DEF OnItsWay
      <3>5. address'[p] = a
        BY <1>0, <1>4, <2>1 DEF OtherTypes
      <3> QED
        BY <1>0, <1>4, <3>1, <3>4, <3>5 DEF Informed
    <2>2. CASE q # p
      <3>1. /\ informlist'[p] = informlist[p] /\ address'[p] = address[p]
            /\ answers'[w][p] = answers[w][p]
        BY <1>0, <1>4, <2>2 DEF Tell, OtherTypes, AnswersType
      <3> QED
        BY <1>0, <1>4, <3>1 DEF Informed, OnItsWay
    <2> QED
      BY <2>1, <2>2
  <1>5. ASSUME NEW q \in Proposers, NEW b \in Backups, commitRecovery(q, b)
        PROVE  Informed(w, p)'
    BY <1>4, <1>5 DEF commitRecovery, Addresses
  <1>6. ASSUME NEW q \in Proposers, informAll(q) PROVE Informed(w, p)'
    <2>1. address[q] \in Addresses /\ address' = [address EXCEPT ![q] = address[q]]
      BY <1>0, <1>6 DEF informAll, OtherTypes
    <2> QED
      BY <1>4, <1>6, <2>1 DEF informAll
  <1>7. ASSUME NEW q \in Proposers, crash(q) PROVE Informed(w, p)'
    <2>1. CASE q = p
      BY <1>7, <2>1 DEF crash, Informed
    <2>2. CASE q # p
      <3>1. answers'[w][p] = answers[w][p] /\ up' \subseteq up
        BY <1>0, <1>7, <2>2 DEF crash, AnswersType
      <3> QED
        BY <1>0, <1>7, <3>1 DEF crash, Informed, OnItsWay
    <2> QED
      BY <2>1, <2>2
  <1>8. ASSUME NEW u \in Waits, listenAddressChange(u) PROVE Informed(w, p)'
    <2>1. CASE u = w
      BY <1>8, <2>1 DEF listenAddressChange, AskedAfterLinkDown, Informed
    <2>2. CASE u # w
      <3>1. sfd'[w] = sfd[w]
        BY <1>0, <1>8, <2>2 DEF listenAddressChange, SfdType
      <3> QED
        BY <1>0, <1>8, <3>1 DEF listenAddressChange, Informed, OnItsWay
    <2> QED
      BY <2>1, <2>2
  <1>9. ASSUME NEW u \in Waits, NEW q \in Proposers, readAddressChange(u, q)
        PROVE  Informed(w, p)'
    <2>1. UNCHANGED <<up, accepted, forgotten, informlist, address>>
      BY <1>9 DEF readAddressChange
    <2>2. answers' = [answers EXCEPT ![u][q] = Tail(answers[u][q])]
      BY <1>0, <1>9 DEF readAddressChange, AnswersType
    <2>3. CASE u = w /\ q = p
      <3>1. Head(answers[w][p]) # Old => sfd'[w][p] # "open"
        BY <1>0, <1>9, <2>3 DEF readAddressChange, closeAll, SfdType
      <3>2. CASE Head(answers[w][p]) = Old
        <4>1. answers[w][p] \in Answers /\ answers[w][p] # <<>>
          BY <1>0, <1>9, <2>3 DEF readAddressChange, AnswersType
        <4>2. answers'[w][p] = Tail(answers[w][p])
          BY <1>0, <2>2, <2>3 DEF AnswersType
        <4>4. ASSUME NEW a, a # Old, OnItsWay(w, p, a) PROVE OnItsWay(w, p, a)'
          BY <4>1, <4>2, <4>4, <3>2, QueueShrinks DEF OnItsWay
        <4>5. sfd' = sfd
          BY <1>9, <2>3, <3>2, BackupsAssumption DEF readAddressChange, Old, EOF
        <4> QED
          BY <1>0, <2>1, <4>4, <4>5 DEF Informed
      <3> QED
        BY <3>1, <3>2 DEF Informed
    <2>4. CASE ~(u = w /\ q = p)
      <3>1. answers'[w][p] = answers[w][p]
        BY <1>0, <2>2, <2>4 DEF AnswersType
      <3>2. sfd'[w][p] = "open" => sfd[w][p] = "open"
        BY <1>0, <1>9 DEF readAddressChange, closeAll, SfdType
      <3> QED
        BY <1>0, <2>1, <3>1, <3>2 DEF Informed, OnItsWay
    <2> QED
      BY <2>3, <2>4
  <1> QED
    BY <1>1, <1>2, <1>3, <1>5, <1>6, <1>7, <1>8, <1>9 DEF Next, proposerProgram,
       listenerProgram, vars, changeAcceptor, insufficientProposers, listenProposerList,
       requestProposer, loseProposer, readProposerList, destinationFails, sourceFails

(* The invariant that a passing run checks is inductive. *)
THEOREM RerouteInductive == Spec => []RerouteInvariant
  BY TypeInit, TypeStep, WaitInit, WaitStep, AskedStep, ChangeStep, PTL DEF Spec, RerouteInvariant

(* A listener that a proposer accepted and did not drop never sits on an    *)
(* idle connection while the proposer knows a new address, whether the      *)
(* query or the change came first (addInformList, informAll).               *)
THEOREM NoChangeIsMissed == Spec => []AddressIsKnown
  <1>1. TypeOK /\ ChangeIsOnItsWay => AddressIsKnown
    <2> SUFFICES ASSUME TypeOK, ChangeIsOnItsWay, NEW wp \in accepted \ forgotten
                 PROVE  Knows(wp[1], wp[2])
      BY DEF AddressIsKnown
    <2>1. /\ wp[1] \in Waits /\ wp[2] \in Proposers /\ wp = <<wp[1], wp[2]>>
          /\ address[wp[2]] \in Addresses
      BY DEF TypeOK
    <2>2. answers[wp[1]][wp[2]] = <<>> => ~OnItsWay(wp[1], wp[2], address[wp[2]])
      BY DEF OnItsWay
    <2> QED
      BY <2>1, <2>2 DEF ChangeIsOnItsWay, Knows
  <1> QED
    BY <1>1, TypeInit, TypeStep, WaitInit, WaitStep, AskedStep, ChangeStep, PTL DEF Spec
-----------------------------------------------------------------------------
(* Only a repeated request forgets a listener. *)

(* As long as no acceptor changes, a proposer is asked once to watch the    *)
(* broker, and it handles that request before it accepts a query.           *)
AskedOnce ==
    /\ changes = 0
    /\ \A p \in Proposers :
          /\ requests[p] <= 1
          /\ requests[p] = 1 => p \in asked /\ p \notin monitored
          /\ p \in monitored => p \in asked
    /\ \A wp \in accepted : wp[2] \in monitored
    /\ forgotten = {}

LEMMA AskedOnceStep ==
    ASSUME MaxChanges = 0, TypeOK, AskedOnce, [Next]_vars
    PROVE  AskedOnce'
  <1> USE DEF environment, requestor, listener, proposer, connections, history
  <1>0. OtherTypes
    BY TypeParts
  <1>1. ASSUME UNCHANGED <<changes, requests, asked, monitored, accepted, forgotten>>
        PROVE  AskedOnce'
    BY <1>1 DEF AskedOnce
  <1>2. ~changeAcceptor
    BY DEF changeAcceptor, AskedOnce
  <1>3. ASSUME NEW p \in Proposers, requestProposer(p) PROVE AskedOnce'
    <2>1. /\ p \notin asked /\ asked' = asked \cup {p}
          /\ requests' = requests \/ requests' = [requests EXCEPT ![p] = @ + 1]
          /\ UNCHANGED <<changes, monitored, accepted, forgotten>>
      BY <1>3 DEF requestProposer
    <2>2. requests[p] \in Nat /\ requests[p] <= 1 /\ requests[p] # 1
      BY <1>0, <2>1 DEF AskedOnce, OtherTypes
    <2>3. p \notin monitored /\ requests[p] = 0
      BY <2>1, <2>2 DEF AskedOnce
    <2>4. \A q \in Proposers : \/ requests'[q] = requests[q]
                               \/ q = p /\ requests'[q] = 1
      BY <1>0, <2>1, <2>3 DEF OtherTypes
    <2> QED
      BY <2>1, <2>3, <2>4 DEF AskedOnce
  <1>4. ASSUME NEW p \in Proposers, createProposer(p) PROVE AskedOnce'
    <2>1. /\ requests[p] > 0 /\ requests' = [requests EXCEPT ![p] = @ - 1]
          /\ monitored' = monitored \cup {p}
          /\ forgotten' = forgotten \cup {wp \in accepted : wp[2] = p}
          /\ UNCHANGED <<changes, asked, accepted>>
      BY <1>4 DEF createProposer
    <2>2. requests[p] = 1 /\ p \in asked /\ p \notin monitored
      BY <1>0, <2>1 DEF AskedOnce, OtherTypes
    <2>3. requests'[p] = 0 /\ \A q \in Proposers : q # p => requests'[q] = requests[q]
      BY <1>0, <2>1, <2>2 DEF OtherTypes
    <2>4. forgotten' = {}
      BY <2>1, <2>2 DEF AskedOnce
    <2> QED
      BY <2>1, <2>2, <2>3, <2>4 DEF AskedOnce
  <1>5. ASSUME NEW w \in Waits, NEW p \in Proposers, acceptQuery(w, p) PROVE AskedOnce'
    <2>1. /\ UNCHANGED <<changes, requests, asked, monitored, forgotten>>
          /\ \/ accepted' = accepted
             \/ p \in monitored /\ accepted' = accepted \cup {<<w, p>>}
      BY <1>5 DEF acceptQuery
    <2> QED
      BY <2>1 DEF AskedOnce
  <1> QED
    BY <1>1, <1>2, <1>3, <1>4, <1>5 DEF Next, proposerProgram, listenerProgram, vars,
       insufficientProposers, listenProposerList, loseProposer, commitRecovery, informAll, crash,
       readProposerList, listenAddressChange, readAddressChange, destinationFails, sourceFails

(* What the comment beside informlist promises, ``inform when ip:port       *)
(* changed'', holds for whoever was ever accepted as long as the requestor  *)
(* repeats no request: an acceptor change is the only thing that breaks it, *)
(* whatever crashes and in whatever order queries, requests and commits     *)
(* arrive.                                                                  *)
THEOREM OnlyRepetitionForgets ==
    ASSUME MaxChanges = 0
    PROVE  Spec => []WhoAskedIsInformed
  <1>1. Init => AskedOnce
    BY DEF Init, AskedOnce
  <1>2. TypeOK /\ AskedOnce /\ [Next]_vars => AskedOnce'
    BY AskedOnceStep
  <1>3. AskedOnce /\ AddressIsKnown => WhoAskedIsInformed
    BY DEF AskedOnce, AddressIsKnown, WhoAskedIsInformed
  <1> QED
    BY <1>1, <1>2, <1>3, TypeInit, TypeStep, NoChangeIsMissed, PTL DEF Spec
-----------------------------------------------------------------------------
(* From the vote to the links: RecoveryFlow. *)

(* What is on a connection after a step was there before it or was added.   *)
LEMMA QueueAdds ==
    ASSUME NEW q \in Answers, NEW a \in Addresses \cup {EOF}, NEW i \in 1 .. Len(Append(q, a))
    PROVE  Append(q, a)[i] = a \/ \E j \in 1 .. Len(q) : q[j] = Append(q, a)[i]
  <1>1. /\ Len(q) \in Nat
        /\ Len(Append(q, a)) = Len(q) + 1
        /\ \A j \in 1 .. Len(q) : Append(q, a)[j] = q[j]
        /\ Append(q, a)[Len(q) + 1] = a
    BY DEF Answers
  <1> QED
    BY <1>1

LEMMA QueueLoses ==
    ASSUME NEW q \in Answers, q # <<>>, NEW i \in 1 .. Len(Tail(q))
    PROVE  \E j \in 1 .. Len(q) : q[j] = Tail(q)[i]
  <1>1. /\ Len(q) \in Nat /\ Len(Tail(q)) = Len(q) - 1
        /\ \A j \in 1 .. Len(q) - 1 : Tail(q)[j] = q[j + 1]
    BY DEF Answers
  <1> QED
    BY <1>1

(* A connection changes by at most the addition of a. *)
LEMMA OneMore ==
    ASSUME AnswersType, NEW w \in Waits, NEW p \in Proposers, NEW a \in Addresses \cup {EOF},
           answers'[w][p] = answers[w][p] \/ answers'[w][p] = Append(answers[w][p], a),
           NEW b, OnItsWay(w, p, b)'
    PROVE  OnItsWay(w, p, b) \/ b = a
  <1>1. answers[w][p] \in Answers
    BY DEF AnswersType
  <1> QED
    BY <1>1, QueueAdds DEF OnItsWay

(* Telling the inform list puts nothing but that address on its way. *)
LEMMA TellsOne ==
    ASSUME AnswersType, NEW q \in Proposers, NEW a \in Addresses, Tell(q, a),
           NEW w \in Waits, NEW p \in Proposers, NEW b, OnItsWay(w, p, b)'
    PROVE  OnItsWay(w, p, b) \/ (p = q /\ b = a)
  <1>1. CASE p = q
    <2>1. answers'[w][p] = answers[w][p] \/ answers'[w][p] = Append(answers[w][p], a)
      BY <1>1 DEF Tell, AnswersType
    <2> QED
      BY <1>1, <2>1, OneMore
  <1>2. CASE p # q
    <2>1. answers'[w][p] = answers[w][p]
      BY <1>2 DEF Tell, AnswersType
    <2> QED
      BY <2>1 DEF OnItsWay
  <1> QED
    BY <1>1, <1>2

(* Between the vote and the end of the copy, and after it, no step but a    *)
(* commit brings up an address: a proposer answers with the one it has, and *)
(* createProposer goes back to the old one.                                 *)
LEMMA OthersTell ==
    ASSUME TypeOK, otherSteps
    PROVE  /\ \A p \in Proposers : address'[p] \in {Old, address[p]}
           /\ \A w \in Waits, p \in Proposers, b \in Backups :
                 OnItsWay(w, p, b)' => OnItsWay(w, p, b) \/ b = address[p]
  <1>0. OtherTypes /\ AnswersType
    BY TypeParts
  <1> DEFINE Goal == /\ \A p \in Proposers : address'[p] \in {Old, address[p]}
                     /\ \A w \in Waits, p \in Proposers, b \in Backups :
                           OnItsWay(w, p, b)' => OnItsWay(w, p, b) \/ b = address[p]
  <1> USE DEF environment, requestor, listener, proposer, connections, history
  <1>1. ASSUME UNCHANGED <<address, answers>> PROVE Goal
    BY <1>1 DEF OnItsWay
  <1>2. ASSUME NEW q \in Proposers, createProposer(q) PROVE Goal
    <2>1. answers' = answers /\ address' = [address EXCEPT ![q] = Old]
      BY <1>2 DEF createProposer
    <2>2. \A p \in Proposers : address'[p] \in {Old, address[p]}
      BY <1>0, <2>1 DEF OtherTypes
    <2> QED
      BY <2>1, <2>2 DEF OnItsWay
  <1>3. ASSUME NEW u \in Waits, NEW q \in Proposers, acceptQuery(u, q) PROVE Goal
    <2>1. address' = address
      BY <1>3 DEF acceptQuery
    <2>2. ASSUME NEW w \in Waits, NEW p \in Proposers, NEW b \in Backups, OnItsWay(w, p, b)'
          PROVE  OnItsWay(w, p, b) \/ b = address[p]
      <3>1. answers[w][p] \in Answers /\ address[p] \in Addresses
        BY <1>0 DEF AnswersType, OtherTypes
      <3>2. CASE u = w /\ q = p /\ p \in monitored
        <4>1. answers'[w][p] = answers[w][p] \o <<address[p]>>
          BY <1>0, <1>3, <3>2 DEF acceptQuery, firstAnswer, AnswersType
        <4>2. answers[w][p] \o <<address[p]>> = Append(answers[w][p], address[p])
          BY <3>1 DEF Answers
        <4> QED
          BY <1>0, <2>2, <3>1, <4>1, <4>2, OneMore
      <3>3. CASE u = w /\ q = p /\ p \notin monitored
        <4>1. answers'[w][p] = Append(answers[w][p], EOF)
          BY <1>0, <1>3, <3>3 DEF acceptQuery, AnswersType
        <4> QED
          BY <1>0, <2>2, <4>1, OneMore, BackupsAssumption
      <3>4. CASE ~(u = w /\ q = p)
        <4>1. answers'[w][p] = answers[w][p]
          BY <1>0, <1>3, <3>4 DEF acceptQuery, AnswersType
        <4> QED
          BY <2>2, <4>1 DEF OnItsWay
      <3> QED
        BY <3>2, <3>3, <3>4
    <2> QED
      BY <2>1, <2>2
  <1>4. ASSUME NEW q \in Proposers, informAll(q) PROVE Goal
    <2>1. address' = address /\ Tell(q, address[q]) /\ address[q] \in Addresses
      BY <1>0, <1>4 DEF informAll, OtherTypes
    <2> QED
      BY <1>0, <2>1, TellsOne
  <1>5. ASSUME NEW q \in Proposers, crash(q) PROVE Goal
    <2>1. address' = address
      BY <1>5 DEF crash
    <2>2. ASSUME NEW w \in Waits, NEW p \in Proposers
          PROVE  answers'[w][p] = answers[w][p] \/ answers'[w][p] = Append(answers[w][p], EOF)
      BY <1>0, <1>5 DEF crash, AnswersType
    <2>3. ASSUME NEW w \in Waits, NEW p \in Proposers, NEW b \in Backups, OnItsWay(w, p, b)'
          PROVE  OnItsWay(w, p, b)
      BY <1>0, <2>2, <2>3, OneMore, BackupsAssumption
    <2> QED
      BY <2>1, <2>3
  <1> HIDE DEF Goal
  <1>6. Goal
    BY <1>1, <1>2, <1>3, <1>4, <1>5 DEF otherSteps, proposerProgram, changeAcceptor,
       insufficientProposers, listenProposerList, readProposerList, destinationFails,
       sourceFails, listenAddressChange, requestProposer, loseProposer
  <1> QED
    BY <1>6 DEF Goal

(* The outcome of the vote, once there is one, stays. *)
LEMMA OutcomeStays ==
    ASSUME NEW a, IsOutcome(a), won' = won, done' = done
    PROVE  IsOutcome(a)'
  BY DEF IsOutcome

(* Whoever learns of the outcome learns the winner's. *)
LEMMA LearnsOutcome ==
    ASSUME FlowInvariant, NEW p \in Proposers, learnOutcome(p)
    PROVE  \E b \in Backups : /\ IsOutcome(b) /\ commitRecovery(p, b)
                              /\ UNCHANGED <<won, done, target>>
                              /\ \/ learned' = learned
                                 \/ learned' = [learned EXCEPT ![p] = b]
  <1>1. CASE learned[p] # Old /\ commitRecovery(p, learned[p]) /\ UNCHANGED vote
    <2>1. learned[p] \in Backups /\ IsOutcome(learned[p])
      BY <1>1 DEF FlowInvariant, LearnedIsOutcome, Addresses
    <2> QED
      BY <1>1, <2>1 DEF learnOutcome, vote
  <1>2. CASE Vote!Learn(p) /\ commitRecovery(p, learned'[p])
    <2>1. PICK v \in won : learned' = [learned EXCEPT ![p] = v[2]]
      BY <1>2 DEF Vote!Learn
    <2>2. v \in Proposers \X Backups /\ done /\ UNCHANGED <<won, done>>
      BY <1>2 DEF Vote!Learn, FlowInvariant, OneOutcome
    <2>3. v[2] \in Backups /\ IsOutcome(v[2]) /\ learned'[p] = v[2]
      BY <2>1, <2>2 DEF IsOutcome, FlowInvariant, LearnedIsOutcome
    <2> QED
      BY <1>2, <2>1, <2>2, <2>3 DEF learnOutcome
  <1> QED
    BY <1>1, <1>2 DEF learnOutcome

(* Every step of RecoveryFlow is one of Reroute, or leaves its state alone. *)
LEMMA FlowStep == FlowInvariant /\ [FlowNext]_flowVars => [Next]_vars
  <1> SUFFICES ASSUME FlowInvariant, [FlowNext]_flowVars PROVE [Next]_vars
    OBVIOUS
  <1>1. CASE otherSteps
    BY <1>1 DEF otherSteps, Next, listenerProgram
  <1>2. ASSUME NEW p \in Proposers, NEW b \in Backups, winVote(p, b) PROVE UNCHANGED vars
    BY <1>2 DEF winVote
  <1>3. ASSUME NEW p \in Proposers, NEW b \in Backups, finishCopy(p, b) PROVE Next
    BY <1>3 DEF finishCopy, Next
  <1>4. ASSUME NEW p \in Proposers, learnOutcome(p) PROVE Next
    BY <1>4, LearnsOutcome DEF Next
  <1>5. ASSUME NEW w \in Waits, NEW p \in Proposers, reroute(w, p) PROVE Next
    BY <1>5 DEF reroute, Next, listenerProgram
  <1> QED
    BY <1>1, <1>2, <1>3, <1>4, <1>5 DEF FlowNext, flowVars

LEMMA FlowInit1 == FlowInit => FlowInvariant
  <1> SUFFICES ASSUME FlowInit PROVE FlowInvariant
    OBVIOUS
  <1> USE DEF FlowInit, Init, Vote!Init
  <1>1. OneOutcome
    BY DEF OneOutcome
  <1>2. AddressIsOutcome /\ LearnedIsOutcome /\ TargetIsOutcome
    BY DEF AddressIsOutcome, LearnedIsOutcome, TargetIsOutcome, Addresses
  <1>3. AnswerIsOutcome
    <2>1. \A w \in Waits, p \in Proposers : Len(answers[w][p]) = 0
      OBVIOUS
    <2> QED
      BY <2>1 DEF AnswerIsOutcome, OnItsWay
  <1>4. AskedIfDead
    BY DEF AskedIfDead
  <1> QED
    BY <1>1, <1>2, <1>3, <1>4 DEF FlowInvariant

(* Connections are opened by a listener that finds the host dead, and the   *)
(* host stays dead.                                                         *)
LEMMA AskedIfDeadStep ==
    ASSUME TypeOK, AskedIfDead, [Next]_vars
    PROVE  AskedIfDead'
  <1>0. SfdType
    BY TypeParts
  <1> USE DEF environment, requestor, listener, proposer, connections, history
  <1>1. ASSUME sfd' = sfd, looksDead => looksDead' PROVE AskedIfDead'
    BY <1>1 DEF AskedIfDead
  <1>2. ASSUME NEW w \in Waits, listenAddressChange(w) PROVE AskedIfDead'
    <2>1. looksDead' = looksDead
      BY <1>2 DEF listenAddressChange
    <2>2. \A u \in Waits \ {w} : sfd'[u] = sfd[u]
      BY <1>0, <1>2 DEF listenAddressChange, SfdType
    <2>3. \A p \in Proposers : sfd'[w][p] = "open" => looksDead
      BY <1>0, <1>2 DEF listenAddressChange, askable, SfdType
    <2> QED
      BY <2>1, <2>2, <2>3 DEF AskedIfDead
  <1>3. ASSUME NEW w \in Waits, NEW p \in Proposers, readAddressChange(w, p) PROVE AskedIfDead'
    <2>1. looksDead' = looksDead
      BY <1>3 DEF readAddressChange
    <2>2. looksDead
      BY <1>3 DEF readAddressChange, AskedIfDead
    <2> QED
      BY <2>1, <2>2 DEF AskedIfDead
  <1>4. looksDead => looksDead'
    BY DEF Next, proposerProgram, listenerProgram, vars, changeAcceptor,
       insufficientProposers, listenProposerList, requestProposer, loseProposer, createProposer,
       acceptQuery, commitRecovery, informAll, crash, readProposerList, destinationFails,
       sourceFails, listenAddressChange, readAddressChange
  <1>5. CASE \A w \in Waits : /\ ~listenAddressChange(w)
                             /\ \A p \in Proposers : ~readAddressChange(w, p)
    <2>1. sfd' = sfd
      BY <1>5 DEF Next, proposerProgram, listenerProgram, vars, changeAcceptor,
         insufficientProposers, listenProposerList, requestProposer, loseProposer,
         createProposer, acceptQuery, commitRecovery, informAll, crash, readProposerList,
         destinationFails, sourceFails
    <2> QED
      BY <1>1, <1>4, <2>1
  <1> QED
    BY <1>2, <1>3, <1>5

(* A proposer that commits to the outcome tells its list only of that. *)
LEMMA CommitKeepsFlow ==
    ASSUME TypeOK, FlowInvariant, NEW q \in Proposers, NEW c \in Backups, commitRecovery(q, c),
           IsOutcome(c)', won' = won, done \in {done', FALSE}, done' \in BOOLEAN,
           learned' = learned \/ learned' = [learned EXCEPT ![q] = c], target' = target,
           AskedIfDead'
    PROVE  FlowInvariant'
  <1>0. OtherTypes /\ AnswersType
    BY TypeParts
  <1>1. ASSUME NEW a, IsOutcome(a) PROVE IsOutcome(a)'
    BY <1>1 DEF IsOutcome
  <1>2. address' = [address EXCEPT ![q] = c] /\ Tell(q, c) /\ reroutes' = reroutes
    BY DEF commitRecovery, history
  <1>3. AddressIsOutcome'
    <2>1. \A p \in Proposers : address'[p] = address[p] \/ address'[p] = c
      BY <1>0, <1>2 DEF OtherTypes
    <2> QED
      BY <1>1, <2>1 DEF FlowInvariant, AddressIsOutcome
  <1>4. LearnedIsOutcome'
    <2>1. /\ learned' \in [Proposers -> Addresses]
          /\ \A p \in Proposers : learned'[p] = learned[p] \/ learned'[p] = c
      BY DEF FlowInvariant, LearnedIsOutcome, Addresses
    <2> QED
      BY <1>1, <2>1 DEF FlowInvariant, LearnedIsOutcome
  <1>5. AnswerIsOutcome'
    <2>1. ASSUME NEW w \in Waits, NEW p \in Proposers, NEW b \in Backups, OnItsWay(w, p, b)'
          PROVE  IsOutcome(b)'
      <3>1. OnItsWay(w, p, b) \/ b = c
        BY <1>0, <1>2, <2>1, TellsOne DEF Addresses
      <3> QED
        BY <1>1, <3>1 DEF FlowInvariant, AnswerIsOutcome
    <2> QED
      BY <2>1 DEF AnswerIsOutcome
  <1>6. TargetIsOutcome'
    BY <1>1, <1>2 DEF FlowInvariant, TargetIsOutcome
  <1>7. OneOutcome'
    BY <1>2 DEF FlowInvariant, OneOutcome, IsOutcome
  <1> QED
    BY <1>3, <1>4, <1>5, <1>6, <1>7 DEF FlowInvariant

LEMMA FlowInvStep == TypeOK /\ FlowInvariant /\ [FlowNext]_flowVars => FlowInvariant'
  <1> SUFFICES ASSUME TypeOK, FlowInvariant, [FlowNext]_flowVars PROVE FlowInvariant'
    OBVIOUS
  <1>0. OtherTypes /\ AnswersType
    BY TypeParts
  <1>a. AskedIfDead'
    BY FlowStep, AskedIfDeadStep DEF FlowInvariant
  <1>1. CASE otherSteps
    <2>1. won' = won /\ done' = done /\ learned' = learned /\ target' = target
      BY <1>1 DEF otherSteps, vote
    <2>2. reroutes' = reroutes
      BY <1>1 DEF otherSteps, proposerProgram, changeAcceptor, insufficientProposers,
         listenProposerList, readProposerList, destinationFails, sourceFails,
         listenAddressChange, requestProposer, loseProposer, crash, createProposer, acceptQuery,
         informAll, history
    <2>4. \A a : IsOutcome(a) => IsOutcome(a)'
      BY <2>1 DEF IsOutcome
    <2>5. OneOutcome'
      BY <2>1 DEF FlowInvariant, OneOutcome
    <2>6. AddressIsOutcome'
      <3>1. \A p \in Proposers : address'[p] \in {Old, address[p]}
        BY <1>1, OthersTell
      <3> QED
        BY <2>4, <3>1 DEF FlowInvariant, AddressIsOutcome
    <2>7. AnswerIsOutcome'
      <3>1. \A w \in Waits, p \in Proposers, b \in Backups :
               OnItsWay(w, p, b)' => OnItsWay(w, p, b) \/ b = address[p]
        BY <1>1, OthersTell
      <3>2. \A p \in Proposers, b \in Backups : b = address[p] => IsOutcome(b)
        BY BackupsAssumption DEF FlowInvariant, AddressIsOutcome
      <3>3. \A w \in Waits, p \in Proposers, b \in Backups : OnItsWay(w, p, b)' => IsOutcome(b)
        BY <3>1, <3>2 DEF FlowInvariant, AnswerIsOutcome
      <3> QED
        BY <2>4, <3>3 DEF AnswerIsOutcome
    <2>8. LearnedIsOutcome' /\ TargetIsOutcome'
      BY <2>1, <2>2, <2>4 DEF FlowInvariant, LearnedIsOutcome, TargetIsOutcome
    <2> QED
      BY <1>a, <2>5, <2>6, <2>7, <2>8 DEF FlowInvariant
  <1>2. ASSUME NEW p \in Proposers, NEW b \in Backups, winVote(p, b) PROVE FlowInvariant'
    <2>1. /\ won = {} /\ won' = {<<p, b>>}
          /\ UNCHANGED <<done, learned, target, address, answers, reroutes>>
      BY <1>2 DEF winVote, Vote!Win, vars, proposer, connections, history
    <2>2. ~done /\ \A a : ~IsOutcome(a)
      BY <2>1 DEF FlowInvariant, OneOutcome, IsOutcome
    <2>3. OneOutcome'
      <3>1. <<p, b>> \in Proposers \X Backups /\ done \in BOOLEAN
        BY DEF FlowInvariant, OneOutcome
      <3> QED
        BY <2>1, <2>2, <3>1 DEF OneOutcome
    <2>4. AddressIsOutcome' /\ LearnedIsOutcome' /\ TargetIsOutcome'
      BY <2>1, <2>2 DEF FlowInvariant, AddressIsOutcome, LearnedIsOutcome, TargetIsOutcome
    <2>5. AnswerIsOutcome'
      BY <2>1, <2>2 DEF FlowInvariant, AnswerIsOutcome, OnItsWay
    <2> QED
      BY <1>a, <2>3, <2>4, <2>5 DEF FlowInvariant
  <1>3. ASSUME NEW p \in Proposers, NEW b \in Backups, finishCopy(p, b) PROVE FlowInvariant'
    <2>1. /\ won = {<<p, b>>} /\ won' = won /\ ~done /\ done' = TRUE /\ target' = target
          /\ learned' = [learned EXCEPT ![p] = b] /\ commitRecovery(p, b)
      BY <1>3 DEF finishCopy, Vote!Finish
    <2>2. IsOutcome(b)'
      BY <2>1 DEF IsOutcome
    <2> QED
      BY <1>a, <2>1, <2>2, CommitKeepsFlow DEF FlowInvariant, OneOutcome
  <1>4. ASSUME NEW p \in Proposers, learnOutcome(p) PROVE FlowInvariant'
    <2>1. PICK b \in Backups : /\ IsOutcome(b) /\ commitRecovery(p, b)
                               /\ UNCHANGED <<won, done, target>>
                               /\ \/ learned' = learned
                                  \/ learned' = [learned EXCEPT ![p] = b]
      BY <1>4, LearnsOutcome
    <2>2. IsOutcome(b)'
      BY <2>1 DEF IsOutcome
    <2> QED
      BY <1>a, <2>1, <2>2, CommitKeepsFlow DEF FlowInvariant, OneOutcome
  <1>5. ASSUME NEW w \in Waits, NEW p \in Proposers, reroute(w, p) PROVE FlowInvariant'
    <2>1. UNCHANGED <<won, done, learned, address>>
      BY <1>5 DEF reroute, vote, readAddressChange, proposer
    <2>2. \A a : IsOutcome(a) => IsOutcome(a)'
      BY <2>1 DEF IsOutcome
    <2>3. answers[w][p] \in Answers /\ answers[w][p] # <<>>
      BY <1>0, <1>5 DEF reroute, readAddressChange, AnswersType
    <2>4. answers' = [answers EXCEPT ![w][p] = Tail(answers[w][p])]
      BY <1>0, <1>5 DEF reroute, readAddressChange, AnswersType
    <2>5. ASSUME NEW u \in Waits, NEW q \in Proposers, NEW a, OnItsWay(u, q, a)'
          PROVE  OnItsWay(u, q, a)
      <3>1. CASE u = w /\ q = p
        <4>1. answers'[u][q] = Tail(answers[u][q])
          BY <1>0, <2>4, <3>1 DEF AnswersType
        <4> QED
          BY <2>3, <2>5, <3>1, <4>1, QueueLoses DEF OnItsWay
      <3>2. CASE ~(u = w /\ q = p)
        <4>1. answers'[u][q] = answers[u][q]
          BY <1>0, <2>4, <3>2 DEF AnswersType
        <4> QED
          BY <2>5, <4>1 DEF OnItsWay
      <3> QED
        BY <3>1, <3>2
    <2>6. \/ reroutes' = reroutes /\ target' = target
          \/ /\ reroutes' = [reroutes EXCEPT ![w] = @ + 1]
             /\ target' = [target EXCEPT ![w] = Head(answers[w][p])]
             /\ Head(answers[w][p]) \in Backups
      BY <1>0, <1>5 DEF reroute, readAddressChange, OtherTypes
    <2>7. OnItsWay(w, p, Head(answers[w][p]))
      <3>1. Head(answers[w][p]) = answers[w][p][1] /\ Len(answers[w][p]) \in Nat \ {0}
        BY <2>3 DEF Answers
      <3> QED
        BY <3>1 DEF OnItsWay
    <2>8. TargetIsOutcome'
      <3>1. CASE reroutes' = reroutes /\ target' = target
        BY <2>2, <3>1 DEF FlowInvariant, TargetIsOutcome
      <3>2. CASE /\ reroutes' = [reroutes EXCEPT ![w] = @ + 1]
                 /\ target' = [target EXCEPT ![w] = Head(answers[w][p])]
                 /\ Head(answers[w][p]) \in Backups
        <4>1. IsOutcome(Head(answers[w][p]))
          BY <2>7, <3>2 DEF FlowInvariant, AnswerIsOutcome
        <4>2. target' \in [Waits -> Addresses]
          BY <3>2 DEF FlowInvariant, TargetIsOutcome, Addresses
        <4>3. reroutes'[w] > 0 /\ \A u \in Waits : u # w => reroutes'[u] = reroutes[u]
          BY <1>0, <3>2 DEF OtherTypes
        <4>4. target'[w] = Head(answers[w][p]) /\ \A u \in Waits : u # w => target'[u] = target[u]
          BY <3>2 DEF FlowInvariant, TargetIsOutcome
        <4>5. ASSUME NEW u \in Waits, target'[u] # Old
              PROVE  reroutes'[u] > 0 /\ IsOutcome(target'[u])
          <5>1. CASE u = w
            BY <4>1, <4>3, <4>4, <5>1
          <5>2. CASE u # w
            <6>1. reroutes[u] > 0 /\ IsOutcome(target[u])
              BY <4>4, <4>5, <5>2 DEF FlowInvariant, TargetIsOutcome
            <6> QED
              BY <4>3, <4>4, <5>2, <6>1
          <5> QED
            BY <5>1, <5>2
        <4> QED
          BY <2>1, <4>2, <4>5 DEF TargetIsOutcome, IsOutcome
      <3> QED
        BY <2>6, <3>1, <3>2
    <2>9. AddressIsOutcome' /\ LearnedIsOutcome' /\ OneOutcome'
      BY <2>1, <2>2 DEF FlowInvariant, AddressIsOutcome, LearnedIsOutcome, OneOutcome
    <2>10. AnswerIsOutcome'
      BY <2>2, <2>5 DEF FlowInvariant, AnswerIsOutcome
    <2> QED
      BY <1>a, <2>8, <2>9, <2>10 DEF FlowInvariant
  <1>6. CASE UNCHANGED flowVars
    <2>1. UNCHANGED <<won, done, learned, target, address, answers, reroutes>>
      BY <1>6 DEF flowVars, vars, vote, proposer, connections, history
    <2>2. \A a : IsOutcome(a)' <=> IsOutcome(a)
      BY <2>1 DEF IsOutcome
    <2>3. AddressIsOutcome' /\ LearnedIsOutcome' /\ OneOutcome' /\ TargetIsOutcome'
      BY <2>1, <2>2 DEF FlowInvariant, AddressIsOutcome, LearnedIsOutcome, OneOutcome,
         TargetIsOutcome
    <2>4. AnswerIsOutcome'
      BY <2>1, <2>2 DEF FlowInvariant, AnswerIsOutcome, OnItsWay
    <2> QED
      BY <1>a, <2>3, <2>4 DEF FlowInvariant
  <1> QED
    BY <1>1, <1>2, <1>3, <1>4, <1>5, <1>6 DEF FlowNext

(* The composition adds nothing to what Reroute allows: every theorem about *)
(* Reroute is one about a recovery that begins with a vote.                 *)
THEOREM FlowImplementsReroute == FlowSpec => Spec
  <1>1. FlowInit => Init
    BY DEF FlowInit
  <1>2. Init => TypeOK
    BY TypeInit
  <1>3. TypeOK /\ [Next]_vars => TypeOK'
    BY TypeStep
  <1> QED
    BY <1>1, <1>2, <1>3, FlowStep, FlowInit1, FlowInvStep, PTL DEF FlowSpec, Spec
-----------------------------------------------------------------------------
(* The refinement. *)

(* A link that leads to a backup is not rerouted again, nor one whose       *)
(* destination was never found dead.                                        *)
LEMMA FollowsOnce ==
    ASSUME TypeOK, WaitIsOver, FlowInvariant, NEW w \in Waits, NEW p \in Proposers, reroute(w, p)
    PROVE  target[w] = Old /\ looksDead
  <1>1. sfd[w][p] = "open"
    BY DEF reroute, readAddressChange
  <1>2. reroutes[w] = 0
    BY <1>1 DEF WaitIsOver
  <1> QED
    BY <1>1, <1>2 DEF FlowInvariant, TargetIsOutcome, AskedIfDead

LEMMA WholeStep ==
    TypeOK /\ WaitIsOver /\ FlowInvariant /\ [FlowNext]_flowVars => [Whole!Next]_(Whole!vars)
  <1> SUFFICES ASSUME TypeOK, WaitIsOver, FlowInvariant, [FlowNext]_flowVars
               PROVE  Whole!Next \/ UNCHANGED Whole!vars
    OBVIOUS
  <1> USE DEF environment, history
  <1>0. OtherTypes
    BY TypeParts
  <1>1. ASSUME UNCHANGED <<looksDead, won, done, target>> PROVE UNCHANGED Whole!vars
    BY <1>1 DEF Whole!vars
  <1>2. CASE otherSteps
    <2>1. UNCHANGED <<won, done, target>>
      BY <1>2 DEF otherSteps, vote
    <2>2. CASE destinationFails
      BY <2>1, <2>2 DEF destinationFails, Whole!Next, Whole!Fail
    <2>3. CASE ~destinationFails
      <3>1. looksDead' = looksDead
        BY <1>2, <2>3 DEF otherSteps, proposerProgram, changeAcceptor, insufficientProposers,
           listenProposerList, readProposerList, sourceFails, listenAddressChange,
           requestProposer, loseProposer, crash, createProposer, acceptQuery, informAll
      <3> QED
        BY <1>1, <2>1, <3>1
    <2> QED
      BY <2>2, <2>3
  <1>3. ASSUME NEW p \in Proposers, NEW b \in Backups, winVote(p, b) PROVE Whole!Next
    <2>1. /\ won = {} /\ won' = {<<p, b>>}
          /\ UNCHANGED <<looksDead, done, target>>
      BY <1>3 DEF winVote, Vote!Win, vars
    <2>2. {v[2] : v \in won} = {} /\ {v[2] : v \in won'} = {b}
      BY <2>1
    <2> QED
      BY <2>1, <2>2 DEF Whole!Next, Whole!Choose
  <1>4. ASSUME NEW p \in Proposers, NEW b \in Backups, finishCopy(p, b) PROVE Whole!Next
    <2>1. /\ won = {<<p, b>>} /\ won' = won /\ ~done /\ done' = TRUE
          /\ UNCHANGED <<looksDead, target>>
      BY <1>4 DEF finishCopy, Vote!Finish, commitRecovery
    <2>2. {v[2] : v \in won} # {}
      BY <2>1
    <2> QED
      BY <2>1, <2>2 DEF Whole!Next, Whole!Move
  <1>5. ASSUME NEW p \in Proposers, learnOutcome(p) PROVE UNCHANGED Whole!vars
    BY <1>1, <1>5, LearnsOutcome DEF commitRecovery
  <1>6. ASSUME NEW w \in Waits, NEW p \in Proposers, reroute(w, p)
        PROVE  Whole!Next \/ UNCHANGED Whole!vars
    <2>1. UNCHANGED <<looksDead, won, done>>
      BY <1>6 DEF reroute, vote, readAddressChange
    <2>2. CASE target' = target
      BY <1>1, <2>1, <2>2
    <2>3. CASE target' # target
      <3>1. /\ target' = [target EXCEPT ![w] = Head(answers[w][p])]
            /\ Head(answers[w][p]) \in Backups /\ answers[w][p] # <<>>
        BY <1>0, <1>6, <2>3 DEF reroute, readAddressChange, OtherTypes
      <3>2. OnItsWay(w, p, Head(answers[w][p]))
        <4>1. answers[w][p] \in Answers
          BY TypeParts DEF AnswersType
        <4>2. Head(answers[w][p]) = answers[w][p][1] /\ Len(answers[w][p]) \in Nat \ {0}
          BY <3>1, <4>1 DEF Answers
        <4> QED
          BY <4>2 DEF OnItsWay
      <3>3. done /\ Head(answers[w][p]) \in {v[2] : v \in won}
        <4>1. IsOutcome(Head(answers[w][p]))
          BY <3>1, <3>2 DEF FlowInvariant, AnswerIsOutcome
        <4> QED
          BY <4>1 DEF IsOutcome
      <3>4. target[w] = Old /\ looksDead
        BY <1>6, FollowsOnce
      <3> QED
        BY <2>1, <3>1, <3>3, <3>4 DEF Whole!Next, Whole!Follow
    <2> QED
      BY <2>2, <2>3
  <1>7. CASE UNCHANGED flowVars
    BY <1>1, <1>7 DEF flowVars, vars, vote
  <1> QED
    BY <1>2, <1>3, <1>4, <1>5, <1>6, <1>7 DEF FlowNext

(* A recovery is that of ServiceRecovery, for any number of proposers,      *)
(* backups and links: one backup is chosen, its copy is complete before any *)
(* link follows, and each link follows once, to that backup and only when   *)
(* the broker's host looked dead, whoever crashes, is asked again, or       *)
(* answers late or twice (handleCommit, informAll, readAddressChange and    *)
(* the probe before listenAddressChange).                                   *)
THEOREM LinksFollowTheCopy == FlowSpec => ImplementsRecovery
  <1>1. FlowInit => Whole!Init
    BY DEF FlowInit, Init, Vote!Init, Whole!Init
  <1>2. FlowInit => Init
    BY DEF FlowInit
  <1> QED
    BY <1>1, <1>2, TypeInit, TypeStep, WaitInit, WaitStep, AskedStep, FlowStep, FlowInit1,
       FlowInvStep, WholeStep, PTL DEF FlowSpec, ImplementsRecovery, Whole!Spec

(* Until the copy is done nobody knows an address but the old one, nor is   *)
(* one on its way: the invariant a run checks is inductive.                 *)
THEOREM NobodyKnowsEarly == FlowSpec => []FlowInvariant
  <1>1. FlowInit => Init
    BY DEF FlowInit
  <1> QED
    BY <1>1, TypeInit, TypeStep, FlowStep, FlowInit1, FlowInvStep, PTL DEF FlowSpec
=============================================================================
