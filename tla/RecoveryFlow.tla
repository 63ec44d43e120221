--------------------------- MODULE RecoveryFlow ---------------------------
(***************************************************************************)
(* A recovery from the vote to the links: the proposers of Reroute learn   *)
(* of the backup from a vote, of which only the promise is used here       *)
(* (RecoveryDecision, which PaxosVote implements), and the winner copies   *)
(* the broker's objects before anybody learns of it.                       *)
(*                                                                         *)
(* handleCommit (proposer.cpp:148) changes the address, copies, sends the  *)
(* commitment and informs its list, in that order and in one handler: from *)
(* the vote to the end of the copy the winner's program answers no query,  *)
(* informs nobody and reads no request.  Nobody can see the address that   *)
(* it has already changed, so it changes here when the copy is done.       *)
(***************************************************************************)
EXTENDS Reroute

VARIABLES
    won,        \* {<<p, b>>} once p won the vote with backup b
    done,       \* were the objects copied and the commitment sent?
    learned,    \* learned[p]: the backup p ever learned of
    target      \* target[w]: the broker to which wait w's link leads

vote == <<won, done, learned>>
flowVars == <<vars, vote, target>>

Vote == INSTANCE RecoveryDecision WITH
            Voters <- Proposers, Parties <- Proposers, Outcomes <- Backups, NoOutcome <- Old

FlowInit == Init /\ Vote!Init /\ target = [w \in Waits |-> Old]
-----------------------------------------------------------------------------
(* Faults a change to the code could introduce, each a variant of one       *)
(* definition below; the specification uses none of them.                   *)
LearnsWhoWon(p) ==
    \E v \in won : commitRecovery(p, v[2]) /\ UNCHANGED <<vote, target>>
FinishesSilently(p, b) ==
    /\ Vote!Finish(p, b)
    /\ address' = [address EXCEPT ![p] = b]
    /\ UNCHANGED <<environment, requestor, listener, up, requests, monitored, informlist,
                   connections, history, target>>
-----------------------------------------------------------------------------
(* p's program is inside copyObjects. *)
copying(p) == ~done /\ \E b \in Backups : <<p, b>> \in won

(* A proposer that lost the broker's heartbeats, or to which they came      *)
(* late, wins with a backup of its list.                                    *)
winVote(p, b) ==
    /\ p \in up \cap monitored
    /\ Vote!Win(p, b)
    /\ UNCHANGED <<vars, target>>

(* The copy is done: the winner sends its commitment and informs its list.  *)
finishCopy(p, b) ==
    /\ Vote!Finish(p, b)
    /\ commitRecovery(p, b)
    /\ UNCHANGED target

(* p reads a commitment: an acceptor has it from the winner and tells       *)
(* whoever still votes, also p again when createProposer started it anew.   *)
learnOutcome(p) ==
    /\ \/ Vote!Learn(p) /\ commitRecovery(p, learned'[p])
       \/ learned[p] # Old /\ commitRecovery(p, learned[p]) /\ UNCHANGED vote
    /\ UNCHANGED target

(* The link of wait w leads to the address that reroutes it. *)
reroute(w, p) ==
    /\ readAddressChange(w, p)
    /\ target' = IF reroutes'[w] # reroutes[w] THEN [target EXCEPT ![w] = Head(answers[w][p])]
                                               ELSE target
    /\ UNCHANGED vote

(* Everything else is as in Reroute, but for the winner while it copies. *)
otherSteps ==
    /\ \/ changeAcceptor \/ insufficientProposers \/ listenProposerList
       \/ readProposerList \/ destinationFails \/ sourceFails
       \/ \E w \in Waits : listenAddressChange(w)
       \/ \E p \in Proposers :
             \/ requestProposer(p) \/ loseProposer(p) \/ crash(p)
             \/ ~copying(p) /\ (proposerProgram(p) \/ informAll(p))
    /\ UNCHANGED <<vote, target>>

FlowNext ==
    \/ otherSteps
    \/ \E p \in Proposers, b \in Backups : winVote(p, b) \/ finishCopy(p, b)
    \/ \E p \in Proposers : learnOutcome(p)
    \/ \E w \in Waits, p \in Proposers : reroute(w, p)

FlowSpec == FlowInit /\ [][FlowNext]_flowVars

(* The listener's select loop serves every connection that has something to *)
(* read: what is ready stays ready until it is read.  The copy of a winner  *)
(* that stays up ends, which is JoinReturns of RecoveryManager.  Nothing    *)
(* else is fair: no query need be accepted, no vote need be won and no      *)
(* other proposer need learn the outcome.                                   *)
FlowFairness ==
    /\ \A w \in Waits, p \in Proposers : WF_flowVars(reroute(w, p))
    /\ \A p \in Proposers \ CrashingProposers, b \in Backups : WF_flowVars(finishCopy(p, b))

FairFlowSpec == FlowSpec /\ FlowFairness
-----------------------------------------------------------------------------
(* The whole recovery: one backup is chosen, and each link follows once, to *)
(* that backup and only when the broker's objects have been copied there,   *)
(* although the listener hears of it from whichever proposer answers first. *)
(* A broker that works can be replaced, when its heartbeats are late; but   *)
(* its links stay with it (checkFailure before listenAddressChange).        *)
Whole == INSTANCE ServiceRecovery WITH
            Links <- Waits, failed <- looksDead, chosen <- {v[2] : v \in won}, moved <- done,
            leadsTo <- target

ImplementsRecovery == Whole!Spec

(* A listener that the winner accepted before or while it copied is told    *)
(* when the copy is done, whatever the others do: its link is rerouted      *)
(* unless its source fails too.                                             *)
WinnerInforms ==
    \A w \in Waits, p \in Proposers \ CrashingProposers :
        (copying(p) /\ <<w, p>> \in accepted \ forgotten)
            ~> (target[w] # Old \/ ~sourceUp)

(* Why links follow only after the copy: until the winner is done nobody    *)
(* knows, or is being told, an address other than the old one.              *)
IsOutcome(a) == done /\ \E p \in Proposers : <<p, a>> \in won

OneOutcome ==
    /\ done \in BOOLEAN
    /\ won = {} \/ \E v \in Proposers \X Backups : won = {v}
    /\ done => won # {}

AddressIsOutcome == \A p \in Proposers : address[p] # Old => IsOutcome(address[p])

LearnedIsOutcome ==
    /\ learned \in [Proposers -> Addresses]
    /\ \A p \in Proposers : learned[p] # Old => IsOutcome(learned[p])

AnswerIsOutcome ==
    \A w \in Waits, p \in Proposers, b \in Backups : OnItsWay(w, p, b) => IsOutcome(b)

TargetIsOutcome ==
    /\ target \in [Waits -> Addresses]
    /\ \A w \in Waits : target[w] # Old => reroutes[w] > 0 /\ IsOutcome(target[w])

(* Whoever waits for another address found the broker's host dead. *)
AskedIfDead == \A w \in Waits, p \in Proposers : sfd[w][p] = "open" => looksDead

FlowInvariant ==
    /\ OneOutcome /\ AddressIsOutcome /\ LearnedIsOutcome /\ AnswerIsOutcome
    /\ TargetIsOutcome /\ AskedIfDead
=============================================================================
