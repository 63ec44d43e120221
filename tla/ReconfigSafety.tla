-------------------------- MODULE ReconfigSafety --------------------------
(***************************************************************************)
(* A version ends once, and a recovery is the last thing to be decided:    *)
(* proved for every number of programs as long as no more than one of the  *)
(* acceptors of a version is lost at a time and there are at least two of  *)
(* them.  The argument is that the voters of a version were told nested    *)
(* lists that differ in at most one acceptor (ListInv), so that majorities *)
(* of any two of them meet.                                                *)
(*                                                                         *)
(* That nobody votes before its acceptors are told, and that an ended      *)
(* recovery starts again, needs no such bound (ToldInv).                   *)
(*                                                                         *)
(* Under the same bound a proposer that recovered is not asked again       *)
(* (KeptInv), and the changes of the acceptors form one chain: the         *)
(* specification implements VersionChain (SeatInv, ChainInv).              *)
(***************************************************************************)
EXTENDS ReconfigProofs

LEMMA NestedMajoritiesMeet ==
    ASSUME NEW l \in SUBSET Acceptors, NEW k \in SUBSET l, Cardinality(l \ k) <= 1,
           NEW Q \in SUBSET k, NEW R \in SUBSET l,
           2 * Cardinality(Q) > Cardinality(k), 2 * Cardinality(R) > Cardinality(l)
    PROVE  \E a \in Q : a \in R
  <1>1. /\ IsFiniteSet(l) /\ IsFiniteSet(k) /\ IsFiniteSet(Q) /\ IsFiniteSet(R)
        /\ Cardinality(l) \in Nat /\ Cardinality(k) \in Nat
        /\ Cardinality(Q) \in Nat /\ Cardinality(R) \in Nat
    BY Finite
  <1>2. Cardinality(l \ k) = Cardinality(l) - Cardinality(k)
    <2>1. l \cap k = k
      OBVIOUS
    <2> QED
      BY <1>1, <2>1, FS_Difference
  <1>3. Cardinality(Q) + Cardinality(R) > Cardinality(l)
    BY <1>1, <1>2
  <1>4. Q \cap R # {}
    BY <1>1, <1>3, FS_MajoritiesIntersect
  <1> QED
    BY <1>4

-----------------------------------------------------------------------------
(* What is accepted.                                                       *)

LEMMA AcceptedInit == Init => AcceptedInv
  <1>1. Init => accepted = {} /\ \A a \in Acceptors : asm[a].version = 0
    BY DEF Init
  <1> QED
    BY <1>1 DEF AcceptedInv

(* An acceptor that stays in its version does not go back to PHASE1.       *)
LEMMA PhaseKept ==
    ASSUME Layers, [Next]_vars, NEW a \in Acceptors,
           asm'[a].version = asm[a].version, asm[a].state # "PHASE1"
    PROVE  asm'[a].state # "PHASE1"
  <1>0. asm[a].version \in Nat
    BY Fields DEF Layers, Types
  <1>1. ASSUME NEW r \in Proposals, Takes(a, r), asm'[a].version = r.version + 1 PROVE FALSE
    <2>1. r.version >= asm[a].version /\ r.version \in Nat
      BY <1>1, Taken, Fields DEF Layers, RequestInv
    <2> QED
      BY <1>0, <1>1, <2>1
  <1> QED
    BY <1>1, AcceptorStep DEF Layers

LEMMA AcceptedStep == Layers /\ AcceptedInv /\ [Next]_vars => AcceptedInv'
  <1> SUFFICES ASSUME Layers, AcceptedInv, [Next]_vars
               PROVE  AcceptedInv'
    OBVIOUS
  <1>0. Types /\ Types'
    BY TypesStep DEF Layers
  <1>1. decided \subseteq decided' /\ \A d \in decided : d.version \in Nat
    BY <1>0, DecidedStep, Fields DEF DecidedGrows, Types
  <1>2. \A a \in Acceptors : asm[a].version \in Nat /\ asm'[a].version \in Nat
    BY <1>0, Fields DEF Types
  <1>3. \A e \in accepted : e[1] \in Acceptors /\ e[2] \in Proposals /\ e[2].version \in Nat
    BY <1>0, Fields DEF Types
  <1>4. ASSUME NEW e \in accepted'
        PROVE  \/ e \in accepted
               \/ \E m \in votes : /\ m \in VoteMessages /\ e = <<m.to, m.proposal>>
                                   /\ asm[m.to].version = m.proposal.version
                                   /\ asm[m.to].state = "PHASE1"
                                   /\ asm'[m.to].version = m.proposal.version
                                   /\ asm'[m.to].state = "PHASE2"
    <2>1. CASE UNCHANGED accepted
      BY <2>1
    <2>2. ASSUME NEW m \in votes, handleVote(m)
          PROVE  \/ UNCHANGED accepted
                 \/ /\ accepted' = accepted \cup {<<m.to, m.proposal>>} /\ m \in VoteMessages
                    /\ asm[m.to].version = m.proposal.version /\ asm[m.to].state = "PHASE1"
                    /\ asm' = [asm EXCEPT ![m.to].state = "PHASE2"]
      BY <1>0, <2>2, Voted
    <2>3. ASSUME NEW m \in votes, m \in VoteMessages, asm' = [asm EXCEPT ![m.to].state = "PHASE2"]
          PROVE  asm'[m.to].version = asm[m.to].version /\ asm'[m.to].state = "PHASE2"
      <3>1. m.to \in Acceptors /\ asm[m.to] \in AcceptorMachines
        BY <1>0, <2>3, Fields DEF Types
      <3> QED
        BY <1>0, <2>3, <3>1 DEF Types, AcceptorMachines
    <2>4. CASE \E m \in votes : handleVote(m)
      <3>1. PICK m \in votes : handleVote(m)
        BY <2>4
      <3>2. CASE accepted' = accepted \cup {<<m.to, m.proposal>>} /\ e = <<m.to, m.proposal>>
                 /\ ~UNCHANGED accepted
        BY <2>2, <2>3, <3>1, <3>2
      <3> QED
        BY <2>1, <2>2, <3>1, <3>2
    <2> QED
      BY <2>1, <2>4, Frames
  <1>5. ASSUME NEW e \in accepted'
        PROVE  /\ e[2].version >= 1 /\ e[2].version <= asm'[e[1]].version
               /\ e[2].version = asm'[e[1]].version => asm'[e[1]].state # "PHASE1"
               /\ \E c \in decided' : IsChange(c, e[2].version - 1)
    <2>1. CASE e \in accepted
      <3>1. /\ e[2].version >= 1 /\ e[2].version <= asm[e[1]].version
            /\ e[2].version = asm[e[1]].version => asm[e[1]].state # "PHASE1"
            /\ \E c \in decided : IsChange(c, e[2].version - 1)
        BY <2>1 DEF AcceptedInv
      <3>2. asm'[e[1]].version >= asm[e[1]].version
        BY <1>3, <2>1, AcceptorVersionsRise
      <3> QED
        BY <1>1, <1>2, <1>3, <2>1, <3>1, <3>2, PhaseKept
    <2>2. ASSUME NEW m \in votes, m \in VoteMessages, e = <<m.to, m.proposal>>,
                 asm[m.to].version = m.proposal.version,
                 asm'[m.to].version = m.proposal.version, asm'[m.to].state = "PHASE2"
          PROVE  <1>5!2
      <3>1. m.to \in Acceptors /\ m.proposal.version \in Nat /\ m.proposal.version >= 1
        BY <2>2, Fields DEF Layers, KnownInv
      <3>2. e[1] = m.to /\ e[2] = m.proposal
        BY <2>2
      <3>3. \E c \in decided : IsChange(c, m.proposal.version - 1)
        BY <2>2, <3>1 DEF AcceptedInv
      <3> QED
        BY <1>1, <2>2, <3>1, <3>2, <3>3
    <2> QED
      BY <1>4, <2>1, <2>2
  <1>6. ASSUME NEW e \in accepted', NEW f \in accepted', e[1] = f[1], e[2].version = f[2].version
        PROVE  e = f
    <2>1. CASE e \in accepted /\ f \in accepted
      BY <1>6, <2>1 DEF AcceptedInv
    <2>2. ASSUME NEW g \in accepted, NEW m \in votes, g[1] = m.to, g[2].version = m.proposal.version,
                 asm[m.to].version = m.proposal.version, asm[m.to].state = "PHASE1"
          PROVE  FALSE
      BY <2>2 DEF AcceptedInv
    <2>3. ASSUME NEW m \in votes, NEW n \in votes, e = <<m.to, m.proposal>>, f = <<n.to, n.proposal>>,
                 e \notin accepted, f \notin accepted
          PROVE  m.proposal = n.proposal
      <3>1. ASSUME NEW x \in votes, handleVote(x)
            PROVE  UNCHANGED accepted \/ accepted' = accepted \cup {<<x.to, x.proposal>>}
        BY <1>0, <3>1, Voted
      <3>2. ASSUME NEW x \in votes, accepted' = accepted \cup {<<x.to, x.proposal>>}
            PROVE  m.proposal = n.proposal
        BY <2>3, <3>2
      <3> QED
        BY <2>3, <3>1, <3>2, Frames
    <2>4. CASE e \in accepted /\ f \notin accepted
      <3>1. PICK m \in votes : /\ f = <<m.to, m.proposal>> /\ asm[m.to].version = m.proposal.version
                               /\ asm[m.to].state = "PHASE1"
        BY <1>4, <2>4
      <3>2. f[1] = m.to /\ f[2] = m.proposal
        BY <3>1
      <3> QED
        BY <1>6, <2>2, <2>4, <3>1, <3>2
    <2>5. CASE e \notin accepted /\ f \in accepted
      <3>1. PICK m \in votes : /\ e = <<m.to, m.proposal>> /\ asm[m.to].version = m.proposal.version
                               /\ asm[m.to].state = "PHASE1"
        BY <1>4, <2>5
      <3>2. e[1] = m.to /\ e[2] = m.proposal
        BY <3>1
      <3> QED
        BY <1>6, <2>2, <2>5, <3>1, <3>2
    <2>6. CASE e \notin accepted /\ f \notin accepted
      <3>1. PICK m \in votes : e = <<m.to, m.proposal>>
        BY <1>4, <2>6
      <3>2. PICK n \in votes : f = <<n.to, n.proposal>>
        BY <1>4, <2>6
      <3> QED
        BY <1>6, <2>3, <2>6, <3>1, <3>2
    <2> QED
      BY <2>1, <2>4, <2>5, <2>6
  <1>7. ASSUME NEW a \in Acceptors, asm'[a].version > 0
        PROVE  \E c \in decided' : IsChange(c, asm'[a].version - 1)
    <2>1. CASE asm'[a].version = asm[a].version
      BY <1>1, <1>7, <2>1 DEF AcceptedInv
    <2>2. ASSUME NEW r \in Proposals, Takes(a, r), asm'[a].version = r.version + 1
          PROVE  \E c \in decided' : IsChange(c, asm'[a].version - 1)
      <3>1. r \in decided /\ r.type = "ACCEPTORCHANGE" /\ r.version \in Nat
        BY <2>2, Taken, Fields DEF Layers, KnownInv
      <3> QED
        BY <1>1, <2>2, <3>1 DEF IsChange
    <2> QED
      BY <1>0, <2>1, <2>2, AcceptorStep
  <1> QED
    BY <1>5, <1>6, <1>7 DEF AcceptedInv

-----------------------------------------------------------------------------
(* The lists the proposers are told.                                       *)

(* Whom the requestor hears is among the acceptors of its version.         *)
LEMMA HeardSuits ==
    ASSUME Layers, NEW c \in decided, IsChange(c, currentversion)
    PROVE  heard \subseteq c.list /\ Cardinality(c.list \ heard) <= MaxLost
  <1>0. /\ machine.version \in Nat /\ currentversion \in Nat /\ machine.state \in {"INITIAL", "VOTING", "WON", "PHASE3"}
        /\ c \in Proposals /\ c.version = currentversion /\ c.type = "ACCEPTORCHANGE" /\ c.version >= 1
        /\ c.list \subseteq Acceptors
    BY Fields, Parties DEF Layers, Types, machine, IsChange, VersionInv
  <1>1. CASE machine.state = "WON" /\ currentversion = machine.version
    <2>1. c = machine.proposal
      BY <1>0, <1>1 DEF Layers, ChangeInv
    <2>2. heard = c.list
      BY <1>1, <2>1 DEF Layers, RequestorInv
    <2>3. c.list \ heard = {}
      BY <2>2
    <2> QED
      BY <2>2, <2>3, FS_EmptySet, ExpectedAssumption
  <1>2. CASE currentversion = machine.version - 1
    <2>1. PICK d \in decided : IsChange(d, machine.version - 1) /\ d.list = machine.list
      BY <1>0, <1>2 DEF Layers, ChangeInv
    <2>2. c = d
      BY <1>2, <2>1 DEF Layers, ChangeInv, IsChange
    <2> QED
      BY <1>2, <2>1, <2>2 DEF Layers, RequestorInv
  <1>3. CASE machine.state = "PHASE3"
    <2>1. currentversion = machine.version
      BY <1>3 DEF Layers, VersionInv
    <2> QED
      BY <1>0, <1>3, <2>1 DEF Layers, ChangeInv
  <1> QED
    BY <1>0, <1>1, <1>2, <1>3 DEF Layers, RequestorInv

LEMMA SomeAreLeft ==
    ASSUME MaxLost <= 1, ExpectedAcceptors >= 2, NEW l \in SUBSET Acceptors,
           Cardinality(l) = ExpectedAcceptors, NEW k \in SUBSET l, Cardinality(l \ k) <= MaxLost
    PROVE  k # {}
  <1>1. k = {} => l \ k = l
    OBVIOUS
  <1> QED
    BY <1>1, ExpectedAssumption

LEMMA Members ==
    ASSUME Layers, NEW c \in decided, c.type = "ACCEPTORCHANGE"
    PROVE  c.list \in SUBSET Acceptors /\ Cardinality(c.list) = ExpectedAcceptors
  BY Fields DEF Layers, Types, KnownInv

(* When the requestor sends requests it has carried out a change.          *)
Carried ==
    \/ machine.state # "WON" /\ machine.version > 1
    \/ machine.state = "WON" /\ currentversion = machine.version

LEMMA CarriedSuits ==
    ASSUME Layers, Carried
    PROVE  Suits(currentversion, heard) \/ Ended(currentversion)
  <1>0. /\ machine.version \in Nat /\ currentversion \in Nat
        /\ machine.state \in {"INITIAL", "VOTING", "WON", "PHASE3"}
    BY Fields, Parties DEF Layers, Types, machine
  <1>1. ASSUME NEW c \in decided, IsChange(c, currentversion)
        PROVE  Suits(currentversion, heard)
    BY <1>1, HeardSuits DEF Suits
  <1>2. CASE machine.state = "WON" /\ currentversion = machine.version
    <2>1. machine.proposal \in decided
      BY <1>2, Parties DEF Layers, KnownInv, machine
    <2>2. machine.proposal = AcceptorChange(machine.version, machine.proposal.list)
      BY <1>2 DEF Layers, RequestorInv
    <2>3. IsChange(machine.proposal, currentversion)
      BY <1>2, <2>2 DEF AcceptorChange, IsChange
    <2> QED
      BY <1>1, <2>1, <2>3
  <1>3. CASE machine.state # "WON" /\ machine.version > 1
    <2>1. CASE currentversion = machine.version - 1
      BY <1>1, <1>3, <2>1 DEF Layers, ChangeInv
    <2>2. CASE machine.state = "PHASE3"
      BY <2>2 DEF Layers, VersionInv
    <2> QED
      BY <1>0, <1>3, <2>1, <2>2 DEF Layers, RequestorInv
  <1> QED
    BY <1>2, <1>3 DEF Carried

LEMMA CarriedNonempty ==
    ASSUME Layers, Carried, MaxLost <= 1, ExpectedAcceptors >= 2
    PROVE  heard # {}
  <1>1. CASE machine.state = "WON" /\ currentversion = machine.version
    <2>1. heard = machine.proposal.list /\ Cardinality(machine.proposal.list) = ExpectedAcceptors
      BY <1>1 DEF Layers, RequestorInv
    <2> QED
      BY <2>1, FS_EmptySet, ExpectedAssumption
  <1>2. CASE machine.state # "WON" /\ machine.version > 1
    <2>1. PICK c \in decided : IsChange(c, machine.version - 1) /\ c.list = machine.list
      BY <1>2 DEF Layers, ChangeInv
    <2>2. heard \subseteq machine.list /\ Cardinality(machine.list \ heard) <= MaxLost
      BY <1>2 DEF Layers, RequestorInv
    <2> QED
      BY <2>1, <2>2, Members, SomeAreLeft DEF IsChange
  <1> QED
    BY <1>1, <1>2 DEF Carried

(* A list a step may add to those told of u.                               *)
ToldNow(u, k) ==
    \/ IsTold(u, k)
    \/ u = currentversion /\ k = heard /\ Carried
    \/ u <= currentversion /\ \E c \in decided : IsChange(c, u) /\ k = c.list

LEMMA ToldStep ==
    ASSUME Layers, [Next]_vars, NEW u \in Nat, NEW k \in SUBSET Acceptors, IsTold(u, k)'
    PROVE  ToldNow(u, k)
  <1>0. Types /\ RequestorInv
    BY DEF Layers
  <1>1. ASSUME NEW p \in Proposers, psm'[p].version = u + 1, psm'[p].list = k
        PROVE  ToldNow(u, k)
    <2>0. p \in Voters /\ p # Requestor
      BY Parties
    <2>1. CASE Stays(p)
      BY <1>1, <2>1 DEF ToldNow, IsTold, Stays
    <2>2. ASSUME NEW r \in Proposals, Takes(p, r), Reset(p, r.version + 1, r.list)
          PROVE  ToldNow(u, k)
      <3>1. 1 \in DOMAIN requests[p] /\ requests[p][1] = r
        BY <2>2, Taken
      <3>2. r.version = u /\ r.list = k
        BY <1>1, <2>2, Fields DEF Reset
      <3> QED
        BY <3>1, <3>2 DEF ToldNow, IsTold
    <2>3. ASSUME NEW m \in answers, m.to = p, m.outcome.type = "ACCEPTORCHANGE",
                 Reset(p, m.outcome.version + 1, m.outcome.list)
          PROVE  ToldNow(u, k)
      <3>1. m.outcome \in Proposals /\ m.outcome # Ack
        BY <1>0, <2>3, Fields, Constructors DEF Types
      <3>2. m.outcome \in decided /\ m.outcome.version <= currentversion
        BY <2>3, <3>1 DEF Layers, KnownInv, VersionInv
      <3>3. m.outcome.version = u /\ m.outcome.list = k
        BY <1>1, <2>3, <3>1, Fields DEF Reset
      <3> QED
        BY <2>3, <3>2, <3>3 DEF ToldNow, IsChange
    <2> QED
      BY <1>0, <2>0, <2>1, <2>2, <2>3, MachineStep
  <1>2. ASSUME NEW p \in Proposers, NEW i \in DOMAIN requests'[p],
               requests'[p][i].version = u, requests'[p][i].list = k
        PROVE  ToldNow(u, k)
    <2>1. CASE requests'[p] = requests[p]
      BY <1>2, <2>1 DEF ToldNow, IsTold
    <2>2. ASSUME NEW r \in Proposals, IsSent(p, r), Request(p, r), r.version = currentversion,
                 r.list = heard
          PROVE  ToldNow(u, k)
      <3>1. (i \in DOMAIN requests[p] /\ requests'[p][i] = requests[p][i]) \/ requests'[p][i] = r
        BY <1>2, <2>2, Appended
      <3>2. Carried
        <4>1. machine.version \in Nat /\ machine.version >= 1
          BY <1>0, Fields, Parties DEF Types, machine, RequestorInv
        <4>2. CASE telling # {}
          BY <1>0, <4>2 DEF RequestorInv, Carried
        <4>3. CASE requestProposer
          <5>1. machine.state # "WON" /\ (needchange => changing)
            BY <4>3 DEF requestProposer, missesProposer, machine
          <5>2. machine.version # 1
            BY <1>0, <5>1 DEF RequestorInv
          <5> QED
            BY <4>1, <5>1, <5>2 DEF Carried
        <4> QED
          BY <2>2, <4>2, <4>3 DEF Request
      <3> QED
        BY <1>2, <2>2, <3>1, <3>2 DEF ToldNow, IsTold
    <2>3. ASSUME NEW r \in Proposals, Takes(p, r) PROVE ToldNow(u, k)
      <3>1. i + 1 \in DOMAIN requests[p] /\ requests'[p][i] = requests[p][i + 1]
        BY <1>2, <2>3, Taken
      <3> QED
        BY <1>2, <3>1 DEF ToldNow, IsTold
    <2> QED
      BY <1>0, <2>1, <2>2, <2>3, RequestStep
  <1> QED
    BY <1>1, <1>2 DEF IsTold

LEMMA ToldVersions ==
    ASSUME Layers, NEW u \in Nat, NEW k, ToldNow(u, k)
    PROVE  u <= currentversion
  <1>0. currentversion \in Nat
    BY DEF Layers, Types
  <1>1. \A p \in Proposers : psm[p].version = u + 1 => u <= currentversion
    BY <1>0, Parties DEF Layers, VersionInv
  <1>2. \A p \in Proposers : \A i \in DOMAIN requests[p] :
           requests[p][i].version = u => u <= currentversion
    BY DEF Layers, VersionInv
  <1> QED
    BY <1>0, <1>1, <1>2 DEF ToldNow, IsTold

(* Whatever is suited stays so.                                            *)
LEMMA SuitsStep ==
    ASSUME Layers, [Next]_vars, NEW u \in Nat, u <= currentversion, NEW k, Suits(u, k)
    PROVE  Suits(u, k)'
  <1>1. PICK c \in decided : /\ IsChange(c, u)
                             /\ k \subseteq c.list /\ Cardinality(c.list \ k) <= MaxLost
                             /\ u = currentversion => heard \subseteq k
    BY DEF Suits
  <1>2. c \in decided'
    BY DecidedStep DEF DecidedGrows, Layers
  <1>3. currentversion \in Nat /\ currentversion' \in {currentversion, currentversion + 1}
    BY VersionRises DEF Layers, Types
  <1>4. u = currentversion' => heard' \subseteq k
    <2>1. ASSUME u = currentversion' PROVE u = currentversion /\ heard' \subseteq heard
      <3>1. u = currentversion /\ currentversion' = currentversion
        BY <1>3, <2>1
      <3>2. ~changeAcceptor
        BY <3>1 DEF changeAcceptor
      <3> QED
        BY <3>1, <3>2, Frames DEF loseAcceptor
    <2> QED
      BY <1>1, <2>1
  <1> QED
    BY <1>1, <1>2, <1>4 DEF Suits, IsChange

(* The lists told now or by a step nest with each suited one ...           *)
LEMMA ToldNests ==
    ASSUME Layers, NEW u \in Nat, NEW k, ToldNow(u, k), ~IsTold(u, k), NEW l, Suits(u, l)
    PROVE  Nested(k, l)
  <1>1. PICK c \in decided : /\ IsChange(c, u) /\ l \subseteq c.list
                             /\ u = currentversion => heard \subseteq l
    BY DEF Suits
  <1>2. CASE u = currentversion /\ k = heard
    BY <1>1, <1>2 DEF Nested
  <1>3. ASSUME NEW d \in decided, IsChange(d, u), k = d.list PROVE Nested(k, l)
    <2>1. c = d
      BY <1>1, <1>3 DEF Layers, ChangeInv, IsChange
    <2> QED
      BY <1>1, <1>3, <2>1 DEF Nested
  <1> QED
    BY <1>2, <1>3 DEF ToldNow

(* ... and are suited themselves, or too late ...                          *)
LEMMA ToldSuits ==
    ASSUME Layers, ListInv, NEW u \in Nat, u >= 1, NEW k \in SUBSET Acceptors, ToldNow(u, k)
    PROVE  Suits(u, k) \/ Ended(u)
  <1>0. u \in 1 .. currentversion /\ currentversion \in Nat
    BY ToldVersions DEF Layers, Types
  <1>1. CASE IsTold(u, k)
    BY <1>0, <1>1 DEF ListInv
  <1>2. CASE u = currentversion /\ k = heard /\ Carried
    BY <1>2, CarriedSuits
  <1>3. ASSUME NEW c \in decided, IsChange(c, u), k = c.list PROVE Suits(u, k)
    <2>1. k \ k = {}
      OBVIOUS
    <2>2. Cardinality(k \ k) <= MaxLost
      BY <2>1, FS_EmptySet, ExpectedAssumption
    <2>3. u = currentversion => heard \subseteq k
      BY <1>3, HeardSuits
    <2> QED
      BY <1>3, <2>2, <2>3 DEF Suits
  <1> QED
    BY <1>1, <1>2, <1>3 DEF ToldNow

(* ... and not empty as long as acceptors are left.                        *)
LEMMA ToldNonempty ==
    ASSUME Layers, NonemptyInv, MaxLost <= 1, ExpectedAcceptors >= 2,
           NEW u \in Nat, u >= 1, NEW k \in SUBSET Acceptors, ToldNow(u, k)
    PROVE  k # {}
  <1>0. u \in 1 .. currentversion /\ currentversion \in Nat
    BY ToldVersions DEF Layers, Types
  <1>1. CASE IsTold(u, k)
    BY <1>0, <1>1 DEF NonemptyInv
  <1>2. CASE u = currentversion /\ k = heard /\ Carried
    BY <1>2, CarriedNonempty
  <1>3. ASSUME NEW c \in decided, IsChange(c, u), k = c.list PROVE k # {}
    <2>1. Cardinality(k) = ExpectedAcceptors
      BY <1>3, Members DEF IsChange
    <2> QED
      BY <2>1, FS_EmptySet, ExpectedAssumption
  <1> QED
    BY <1>1, <1>2, <1>3 DEF ToldNow

LEMMA NonemptyStep ==
    ASSUME MaxLost <= 1, ExpectedAcceptors >= 2, Layers, NonemptyInv, [Next]_vars
    PROVE  NonemptyInv'
  <1>0. currentversion' \in Nat
    BY TypesStep DEF Layers, Types
  <1>1. ASSUME NEW u \in 1 .. currentversion', NEW k \in SUBSET Acceptors, IsTold(u, k)'
        PROVE  k # {}
    <2>1. u \in Nat /\ u >= 1
      BY <1>0
    <2> QED
      BY <1>1, <2>1, ToldStep, ToldNonempty
  <1> QED
    BY <1>1 DEF NonemptyInv

LEMMA ListStep ==
    ASSUME Layers, ListInv, [Next]_vars
    PROVE  ListInv'
  <1>0. /\ currentversion \in Nat /\ currentversion' \in Nat
        /\ decided \subseteq decided'
    BY TypesStep, DecidedStep DEF Layers, Types, DecidedGrows
  <1>1. ASSUME NEW u \in 1 .. currentversion', NEW k \in SUBSET Acceptors, IsTold(u, k)'
        PROVE  u \in Nat /\ u >= 1 /\ u <= currentversion /\ ToldNow(u, k)
    <2>1. u \in Nat /\ u >= 1
      BY <1>0
    <2> QED
      BY <1>1, <2>1, ToldStep, ToldVersions
  <1>2. ASSUME NEW u \in Nat, Ended(u) PROVE Ended(u)'
    BY <1>0, <1>2 DEF Ended
  <1>3. ASSUME NEW u \in 1 .. currentversion', NEW k \in SUBSET Acceptors, IsTold(u, k)'
        PROVE  Suits(u, k)' \/ Ended(u)'
    BY <1>1, <1>2, <1>3, ToldSuits, SuitsStep
  <1>4. ASSUME NEW u \in 1 .. currentversion', NEW k \in SUBSET Acceptors, IsTold(u, k)',
               NEW l \in SUBSET Acceptors, IsTold(u, l)'
        PROVE  Nested(k, l) \/ Ended(u)'
    <2>0. u \in Nat /\ u >= 1 /\ u <= currentversion /\ ToldNow(u, k) /\ ToldNow(u, l)
      BY <1>1, <1>4
    <2>1. CASE Ended(u)
      BY <1>2, <2>0, <2>1
    <2>2. CASE ~Ended(u)
      <3>1. Suits(u, k) /\ Suits(u, l)
        BY <2>0, <2>2, ToldSuits
      <3>2. CASE IsTold(u, k) /\ IsTold(u, l)
        <4>1. u \in 1 .. currentversion
          BY <1>0, <2>0
        <4> QED
          BY <2>2, <3>2, <4>1 DEF ListInv
      <3>3. CASE ~IsTold(u, k)
        BY <2>0, <3>1, <3>3, ToldNests
      <3>4. CASE ~IsTold(u, l)
        <4>1. Nested(l, k)
          BY <2>0, <3>1, <3>4, ToldNests
        <4> QED
          BY <4>1 DEF Nested
      <3> QED
        BY <3>2, <3>3, <3>4
    <2> QED
      BY <2>1, <2>2
  <1> QED
    BY <1>3, <1>4 DEF ListInv, Nested

-----------------------------------------------------------------------------
(* What is decided.                                                        *)

(* No acceptor is in a version that follows one ended by a recovery.       *)
LEMMA NobodyAfterRecovery ==
    ASSUME Layers, OneDecisionPerVersion, NEW c \in decided, NEW u \in Nat, IsChange(c, u)
    PROVE  ~Ended(u)
  BY DEF OneDecisionPerVersion, IsChange, Ended

(* Whoever wins a version after the first has a suited list, a majority of  *)
(* whose acceptors accepted what it proposed.                               *)
LEMMA Winner ==
    ASSUME MaxLost <= 1, ExpectedAcceptors >= 2,
           Layers, AcceptedInv, ListInv, NonemptyInv, OneDecisionPerVersion, [Next]_vars,
           Layers', AcceptedInv',
           NEW w \in Voters, NEW d, Wins(w, d), d.version > 1
    PROVE  LET l == psm'[w].list
               Q == psm'[w].acks
               u == d.version - 1
           IN  /\ u \in Nat /\ u >= 1 /\ u <= currentversion
               /\ d = psm'[w].proposal
               /\ l \in SUBSET Acceptors /\ Q \in SUBSET l
               /\ 2 * Cardinality(Q) > Cardinality(l)
               /\ \A a \in Q : <<a, d>> \in accepted'
               /\ Suits(u, l) /\ ToldNow(u, l)
               /\ \A k \in SUBSET Acceptors : ToldNow(u, k) => Nested(k, l)
  <1> DEFINE l == psm'[w].list
             Q == psm'[w].acks
             u == d.version - 1
  <1>0. /\ psm'[w] \in Machines /\ psm[w] \in Machines /\ d = psm'[w].proposal
        /\ d.version \in Nat /\ psm[w].version \in Nat /\ currentversion \in Nat
        /\ l = psm[w].list /\ l \in SUBSET Acceptors
    BY Fields DEF Layers, Types, Wins
  <1>1. Q \in SUBSET l /\ \A a \in Q : <<a, d>> \in accepted'
    BY <1>0 DEF Layers, ConnectionInv
  <1>2. d.version = psm[w].version
    <2>1. CASE w = Requestor
      <3>1. machine'.state = "WON"
        BY <2>1 DEF Wins, machine
      <3>2. machine'.proposal = AcceptorChange(machine'.version, machine'.proposal.list)
        BY <3>1 DEF Layers, RequestorInv
      <3>3. machine'.proposal.version = machine'.version
        BY <3>2 DEF AcceptorChange
      <3> QED
        BY <1>0, <2>1, <3>3 DEF machine, Wins
    <2>2. CASE w \in Proposers
      BY <1>0, <2>2 DEF Layers, KnownInv, Wins
    <2> QED
      BY <2>1, <2>2, Parties
  <1>3. u \in Nat /\ u >= 1 /\ u <= currentversion
    BY <1>0, <1>2 DEF Layers, VersionInv
  <1>4. w = Requestor => \E c \in decided : IsChange(c, u) /\ c.list = l /\ Suits(u, l)
    <2>1. SUFFICES ASSUME w = Requestor
                   PROVE  \E c \in decided : IsChange(c, u) /\ c.list = l /\ Suits(u, l)
      OBVIOUS
    <2>2. machine.version = u + 1 /\ machine.version > 1 /\ machine.list = l
      BY <1>0, <1>2, <1>3, <2>1 DEF machine
    <2>3. PICK c \in decided : IsChange(c, machine.version - 1) /\ c.list = machine.list
      BY <2>2 DEF Layers, ChangeInv
    <2>4. IsChange(c, u) /\ c.list = l
      BY <1>3, <2>2, <2>3
    <2>5. u = currentversion => heard \subseteq l
      BY <2>4, HeardSuits
    <2>6. l \ l = {} /\ Cardinality(l \ l) <= MaxLost
      <3>1. l \ l = {}
        OBVIOUS
      <3> QED
        BY <3>1, FS_EmptySet, ExpectedAssumption
    <2>7. Suits(u, l)
      BY <2>4, <2>5, <2>6 DEF Suits
    <2> QED
      BY <2>4, <2>7
  <1>5. w \in Proposers => IsTold(u, l)
    BY <1>0, <1>2, <1>3 DEF IsTold
  <1>6. l # {}
    <2>1. CASE w = Requestor
      <3>1. PICK c \in decided : IsChange(c, u) /\ c.list = l
        BY <1>4, <2>1
      <3>2. Cardinality(l) = ExpectedAcceptors
        BY <3>1, Members DEF IsChange
      <3> QED
        BY <3>2, FS_EmptySet, ExpectedAssumption
    <2>2. CASE w \in Proposers
      <3>1. ToldNow(u, l)
        BY <1>5, <2>2 DEF ToldNow
      <3> QED
        BY <1>0, <1>3, <3>1, ToldNonempty
    <2> QED
      BY <2>1, <2>2, Parties
  <1>7. 2 * Cardinality(Q) > Cardinality(l)
    <2>1. Majority(Q, l)
      BY DEF Wins
    <2> QED
      BY <1>6, <2>1, Finite, <1>0, <1>1 DEF Majority
  <1>8. \E a \in Q : TRUE
    <2>1. Cardinality(l) \in Nat
      BY <1>0, Finite
    <2>2. Q # {}
      BY <1>7, <2>1, FS_EmptySet
    <2> QED
      BY <2>2
  <1>9. \E c \in decided : IsChange(c, u)
    <2>1. UNCHANGED accepted
      BY Frames, Voted DEF Wins, Layers
    <2>2. PICK a \in Q : <<a, d>> \in accepted
      BY <1>1, <1>8, <2>1
    <2> QED
      BY <2>2 DEF AcceptedInv
  <1>10. ~Ended(u)
    BY <1>3, <1>9, NobodyAfterRecovery
  <1>11. Suits(u, l)
    <2>1. CASE w = Requestor
      BY <1>4, <2>1
    <2>2. CASE w \in Proposers
      <3>1. ToldNow(u, l)
        BY <1>5, <2>2 DEF ToldNow
      <3> QED
        BY <1>0, <1>3, <1>10, <3>1, ToldSuits
    <2> QED
      BY <2>1, <2>2, Parties
  <1>12. ASSUME NEW k \in SUBSET Acceptors, ToldNow(u, k) PROVE Nested(k, l)
    <2>1. CASE ~IsTold(u, k)
      BY <1>3, <1>11, <1>12, <2>1, ToldNests
    <2>2. CASE w = Requestor
      <3>1. PICK c \in decided : IsChange(c, u) /\ c.list = l
        BY <1>4, <2>2
      <3>2. Suits(u, k)
        BY <1>3, <1>10, <1>12, ToldSuits
      <3>3. PICK e \in decided : IsChange(e, u) /\ k \subseteq e.list
        BY <3>2 DEF Suits
      <3>4. c = e
        BY <3>1, <3>3 DEF Layers, ChangeInv, IsChange
      <3> QED
        BY <3>1, <3>3, <3>4 DEF Nested
    <2>3. CASE w \in Proposers /\ IsTold(u, k)
      <3>1. u \in 1 .. currentversion
        BY <1>0, <1>3
      <3> QED
        BY <1>0, <1>5, <1>10, <2>3, <3>1 DEF ListInv
    <2> QED
      BY <2>1, <2>2, <2>3, Parties
  <1>13. ToldNow(u, l)
    BY <1>3, <1>4, <1>5, Parties DEF ToldNow
  <1> QED
    BY <1>0, <1>1, <1>3, <1>7, <1>11, <1>12, <1>13

(* Majorities of two suited lists meet if the lists are nested.            *)
LEMMA SuitedMajoritiesMeet ==
    ASSUME MaxLost <= 1, Layers, NEW u, NEW k \in SUBSET Acceptors, NEW l \in SUBSET Acceptors,
           Suits(u, k), Suits(u, l), Nested(k, l), NEW Q \in SUBSET k, NEW R \in SUBSET l,
           2 * Cardinality(Q) > Cardinality(k), 2 * Cardinality(R) > Cardinality(l)
    PROVE  \E a \in Q : a \in R
  <1>1. PICK c \in decided : /\ IsChange(c, u) /\ k \subseteq c.list
                             /\ Cardinality(c.list \ k) <= MaxLost
    BY DEF Suits
  <1>2. PICK e \in decided : /\ IsChange(e, u) /\ l \subseteq e.list
                             /\ Cardinality(e.list \ l) <= MaxLost
    BY DEF Suits
  <1>3. c = e
    BY <1>1, <1>2 DEF Layers, ChangeInv, IsChange
  <1>4. c.list \in SUBSET Acceptors
    BY <1>1, Members DEF IsChange
  <1>5. ASSUME NEW x \in SUBSET c.list, NEW y \in SUBSET c.list, Cardinality(c.list \ x) <= MaxLost
        PROVE  Cardinality(y \ x) <= 1
    <2>1. y \ x \in SUBSET (c.list \ x) /\ c.list \ x \in SUBSET Acceptors
      BY <1>4
    <2>2. Cardinality(y \ x) <= Cardinality(c.list \ x)
      BY <2>1, Finite, FS_Subset
    <2>3. Cardinality(y \ x) \in Nat /\ Cardinality(c.list \ x) \in Nat
      BY <2>1, Finite
    <2> QED
      BY <1>5, <2>2, <2>3, ExpectedAssumption
  <1>6. CASE k \subseteq l
    <2>1. Cardinality(l \ k) <= 1
      BY <1>1, <1>2, <1>3, <1>5
    <2> QED
      BY <1>6, <2>1, NestedMajoritiesMeet
  <1>7. CASE l \subseteq k
    <2>1. Cardinality(k \ l) <= 1
      BY <1>1, <1>2, <1>3, <1>5
    <2>2. \E a \in R : a \in Q
      BY <1>7, <2>1, NestedMajoritiesMeet
    <2> QED
      BY <2>2
  <1> QED
    BY <1>6, <1>7 DEF Nested

(* Backed, by a list that nests with those the step adds as well.          *)
BackedNow(d, l, Q) ==
    /\ Suits(d.version - 1, l)
    /\ Q \subseteq l /\ 2 * Cardinality(Q) > Cardinality(l)
    /\ \A a \in Q : <<a, d>> \in accepted'
    /\ \A k \in SUBSET Acceptors : ToldNow(d.version - 1, k) => Nested(k, l)

SafetyLayers ==
    Layers /\ AcceptedInv /\ ListInv /\ NonemptyInv /\ BackedInv /\ OneDecisionPerVersion

LEMMA AcceptedGrows == ASSUME Layers, [Next]_vars PROVE accepted \subseteq accepted'
  BY Frames, Voted DEF Layers

LEMMA OldIsBacked ==
    ASSUME SafetyLayers, [Next]_vars, NEW d \in decided, d.version > 1
    PROVE  /\ d.version - 1 \in Nat /\ d.version - 1 >= 1 /\ d.version - 1 <= currentversion
           /\ \E l, Q \in SUBSET Acceptors : BackedNow(d, l, Q)
  <1>0. d.version \in Nat /\ currentversion \in Nat /\ d.version <= currentversion + 1
    BY Fields DEF SafetyLayers, Layers, Types, VersionInv
  <1> DEFINE u == d.version - 1
  <1>1. u \in Nat /\ u >= 1 /\ u <= currentversion
    BY <1>0
  <1>2. PICK l, Q \in SUBSET Acceptors :
           /\ Suits(u, l)
           /\ Q \subseteq l /\ 2 * Cardinality(Q) > Cardinality(l)
           /\ \A a \in Q : <<a, d>> \in accepted
           /\ \A k \in SUBSET Acceptors : IsTold(u, k) => Nested(k, l)
    BY DEF SafetyLayers, BackedInv, Backed
  <1>3. \A a \in Q : <<a, d>> \in accepted'
    BY <1>2, AcceptedGrows DEF SafetyLayers
  <1>4. ASSUME NEW k \in SUBSET Acceptors, ToldNow(u, k) PROVE Nested(k, l)
    BY <1>1, <1>2, <1>4, ToldNests DEF SafetyLayers
  <1>5. BackedNow(d, l, Q)
    BY <1>2, <1>3, <1>4 DEF BackedNow
  <1> QED
    BY <1>1, <1>5

LEMMA OneDecisionStep ==
    ASSUME MaxLost <= 1, ExpectedAcceptors >= 2, SafetyLayers, [Next]_vars, Layers', AcceptedInv'
    PROVE  OneDecisionPerVersion'
  <1>1. ASSUME NEW d \in decided', NEW e \in decided', d.version = e.version,
               NEW w \in Voters, Wins(w, d)
        PROVE  d = e
    <2>0. d.version \in Nat /\ d.version >= 1
      BY Fields DEF Layers, Types, VersionInv
    <2>1. CASE d.version = 1
      <3>1. d.type = "ACCEPTORCHANGE" /\ e.type = "ACCEPTORCHANGE"
        <4>1. \A x \in decided' : x.type = "RECOVERY" => x.version >= 2
          BY DEF Layers, VersionInv
        <4>2. \A x \in decided' : x.type = "RECOVERY" \/ x.type = "ACCEPTORCHANGE"
          BY DEF Layers, KnownInv
        <4>3. e.version = 1
          BY <1>1, <2>1
        <4>4. d.type # "RECOVERY" /\ e.type # "RECOVERY"
          BY <2>1, <4>1, <4>3
        <4> QED
          BY <4>2, <4>4
      <3> QED
        BY <1>1, <3>1 DEF Layers, ChangeInv, IsChange
    <2>2. CASE d.version > 1
      <3> DEFINE u == d.version - 1
                 l == psm'[w].list
                 Q == psm'[w].acks
      <3>1. /\ u \in Nat /\ l \in SUBSET Acceptors /\ Q \in SUBSET l
            /\ 2 * Cardinality(Q) > Cardinality(l)
            /\ \A a \in Q : <<a, d>> \in accepted'
            /\ Suits(u, l) /\ ToldNow(u, l)
        BY <1>1, <2>2, Winner DEF SafetyLayers
      <3>2. \E k, R \in SUBSET Acceptors : BackedNow(e, k, R)
        <4>1. CASE e \in decided
          BY <1>1, <2>2, <4>1, OldIsBacked
        <4>2. ASSUME NEW x \in Voters, Wins(x, e) PROVE \E k, R \in SUBSET Acceptors : BackedNow(e, k, R)
          <5> DEFINE k == psm'[x].list
                     R == psm'[x].acks
          <5>1. /\ k \in SUBSET Acceptors /\ R \in SUBSET k
                /\ 2 * Cardinality(R) > Cardinality(k)
                /\ \A a \in R : <<a, e>> \in accepted'
                /\ Suits(e.version - 1, k)
                /\ \A j \in SUBSET Acceptors : ToldNow(e.version - 1, j) => Nested(j, k)
            BY <1>1, <2>2, <4>2, Winner DEF SafetyLayers
          <5>2. BackedNow(e, k, R)
            BY <5>1 DEF BackedNow
          <5> QED
            BY <5>1, <5>2
        <4> QED
          BY <4>1, <4>2, DecidedStep DEF DecidedGrows, SafetyLayers, Layers
      <3>3. PICK k, R \in SUBSET Acceptors : BackedNow(e, k, R)
        BY <3>2
      <3>4. /\ Suits(u, k) /\ R \subseteq k /\ 2 * Cardinality(R) > Cardinality(k)
            /\ \A a \in R : <<a, e>> \in accepted'
            /\ Nested(l, k)
        BY <1>1, <3>1, <3>3 DEF BackedNow
      <3>5. PICK a \in Q : a \in R
        BY <3>1, <3>4, SuitedMajoritiesMeet DEF SafetyLayers
      <3>6. <<a, d>> \in accepted' /\ <<a, e>> \in accepted'
        BY <3>1, <3>4, <3>5
      <3>7. <<a, d>> = <<a, e>>
        BY <1>1, <3>6 DEF AcceptedInv
      <3> QED
        BY <3>7
    <2> QED
      BY <2>0, <2>1, <2>2
  <1>2. ASSUME NEW d \in decided', NEW e \in decided', d.version = e.version
        PROVE  d = e
    <2>1. CASE d \in decided /\ e \in decided
      BY <1>2, <2>1 DEF SafetyLayers, OneDecisionPerVersion
    <2>2. CASE d \notin decided
      BY <1>1, <1>2, <2>2, DecidedStep DEF DecidedGrows, SafetyLayers, Layers
    <2>3. CASE e \notin decided
      <3>1. e = d
        BY <1>1, <1>2, <2>3, DecidedStep DEF DecidedGrows, SafetyLayers, Layers
      <3> QED
        BY <3>1
    <2> QED
      BY <2>1, <2>2, <2>3
  <1> QED
    BY <1>2 DEF OneDecisionPerVersion

LEMMA BackedStep ==
    ASSUME MaxLost <= 1, ExpectedAcceptors >= 2, SafetyLayers, [Next]_vars, Layers', AcceptedInv'
    PROVE  BackedInv'
  <1>1. ASSUME NEW d \in decided', d.version > 1, NEW l \in SUBSET Acceptors,
               NEW Q \in SUBSET Acceptors, BackedNow(d, l, Q),
               d.version - 1 \in Nat, d.version - 1 <= currentversion
        PROVE  Backed(d)'
    <2> DEFINE u == d.version - 1
    <2>1. Suits(u, l)'
      BY <1>1, SuitsStep DEF BackedNow, SafetyLayers
    <2>2. ASSUME NEW k \in SUBSET Acceptors, IsTold(u, k)' PROVE Nested(k, l)
      BY <1>1, <2>2, ToldStep DEF BackedNow, SafetyLayers
    <2> QED
      BY <1>1, <2>1, <2>2 DEF Backed, BackedNow, Nested
  <1>2. ASSUME NEW d \in decided', d.version > 1 PROVE Backed(d)'
    <2>1. CASE d \in decided
      BY <1>1, <1>2, <2>1, OldIsBacked
    <2>2. ASSUME NEW w \in Voters, Wins(w, d) PROVE Backed(d)'
      <3> DEFINE l == psm'[w].list
                 Q == psm'[w].acks
      <3>1. /\ l \in SUBSET Acceptors /\ Q \in SUBSET l
            /\ d.version - 1 \in Nat /\ d.version - 1 <= currentversion
            /\ 2 * Cardinality(Q) > Cardinality(l)
            /\ \A a \in Q : <<a, d>> \in accepted'
            /\ Suits(d.version - 1, l)
            /\ \A j \in SUBSET Acceptors : ToldNow(d.version - 1, j) => Nested(j, l)
        BY <1>2, <2>2, Winner DEF SafetyLayers
      <3>2. BackedNow(d, l, Q) /\ Q \in SUBSET Acceptors
        BY <3>1 DEF BackedNow
      <3> QED
        BY <1>1, <1>2, <3>1, <3>2
    <2> QED
      BY <2>1, <2>2, DecidedStep DEF DecidedGrows, SafetyLayers, Layers
  <1> QED
    BY <1>2 DEF BackedInv

LEMMA SafetyStep ==
    ASSUME MaxLost <= 1, ExpectedAcceptors >= 2
    PROVE  SafetyLayers /\ [Next]_vars => SafetyLayers'
  BY LayersStep, AcceptedStep, ListStep, NonemptyStep, OneDecisionStep, BackedStep DEF SafetyLayers

LEMMA SafetyInit == Init => SafetyLayers
  <1> SUFFICES ASSUME Init PROVE SafetyLayers
    OBVIOUS
  <1>1. Layers
    BY InitTypes, RequestorInit, KnownInit, ConnectionInit, ChangeInit, VersionInit, RequestInit
       DEF Layers
  <1>2. decided = {} /\ currentversion = 0
    BY DEF Init
  <1>3. BackedInv /\ OneDecisionPerVersion /\ ListInv /\ NonemptyInv
    BY <1>2 DEF BackedInv, OneDecisionPerVersion, ListInv, NonemptyInv
  <1> QED
    BY <1>1, <1>3, AcceptedInit DEF SafetyLayers

(* Nothing is decided in a version after a recovery: what backs it was told *)
(* by an acceptor change of an earlier version, before which each version   *)
(* ended with an acceptor change.                                           *)
LEMMA NothingAfterRecovery ==
    ASSUME SafetyLayers
    PROVE  RecoveredOnce
  <1> SUFFICES ASSUME NEW d \in decided, NEW e \in decided, d.type = "RECOVERY",
                      ~(e.version <= d.version)
               PROVE  FALSE
    BY DEF RecoveredOnce
  <1>0. /\ d.version \in Nat /\ e.version \in Nat /\ d.version >= 1 /\ e.version > d.version
        /\ machine.version \in Nat
    BY Fields, Parties DEF SafetyLayers, Layers, Types, VersionInv, machine
  <1>1. PICK c \in decided : IsChange(c, e.version - 1)
    <2>1. e.version > 1
      BY <1>0
    <2>2. Backed(e)
      BY <2>1 DEF SafetyLayers, BackedInv
    <2> QED
      BY <2>2 DEF Backed, Suits
  <1>2. c.version <= machine.version
    BY <1>1 DEF SafetyLayers, Layers, ChangeInv, IsChange
  <1>3. \E x \in decided : IsChange(x, d.version)
    <2>1. CASE d.version = e.version - 1
      BY <1>1, <2>1
    <2>2. CASE d.version # e.version - 1
      <3>1. d.version \in 1 .. machine.version - 1
        BY <1>0, <1>1, <1>2, <2>2 DEF IsChange
      <3> QED
        BY <3>1 DEF SafetyLayers, Layers, ChangeInv
    <2> QED
      BY <2>1, <2>2
  <1> QED
    BY <1>3 DEF SafetyLayers, OneDecisionPerVersion, IsChange

(* However many acceptors and proposers there are, as long as each version  *)
(* has two acceptors or more and loses at most one of them at a time, the   *)
(* requestor's acceptor change and a proposer's recovery are never both     *)
(* decided in one version.                                                  *)
THEOREM VersionEndsOnce ==
    ASSUME MaxLost <= 1, ExpectedAcceptors >= 2
    PROVE  Spec => []OneDecisionPerVersion
  <1>1. SafetyLayers /\ [Next]_vars => SafetyLayers'
    BY SafetyStep
  <1>2. SafetyLayers => OneDecisionPerVersion
    BY DEF SafetyLayers
  <1> QED
    BY <1>1, <1>2, SafetyInit, PTL DEF Spec

(* Under the same assumptions a recovery is the last decision of a service. *)
THEOREM RecoveryIsLast ==
    ASSUME MaxLost <= 1, ExpectedAcceptors >= 2
    PROVE  Spec => []RecoveredOnce
  <1>1. SafetyLayers /\ [Next]_vars => SafetyLayers'
    BY SafetyStep
  <1>2. SafetyLayers => RecoveredOnce
    BY NothingAfterRecovery
  <1> QED
    BY <1>1, <1>2, SafetyInit, PTL DEF Spec

-----------------------------------------------------------------------------
(* Who has been told.                                                      *)

LEMMA AcceptorRequests ==
    ASSUME Types, [Next]_vars, NEW a \in Acceptors
    PROVE  \/ requests'[a] = requests[a]
           \/ \E r \in Proposals : IsSent(a, r)
           \/ \E r \in Proposals : Takes(a, r) /\ asm'[a].version = r.version + 1
  <1>1. CASE UNCHANGED requests
    BY <1>1
  <1>2. ASSUME NEW x \in Acceptors \cup Proposers, tell(x) PROVE \E r \in Proposals : IsSent(x, r)
    BY <1>2, TellEffect
  <1>3. CASE requestProposer
    BY <1>3, RequestProposerEffect, Parties DEF IsSent
  <1>4. ASSUME NEW b \in Acceptors, createAcceptor(b)
        PROVE  \E r \in Proposals : Takes(b, r) /\ asm'[b].version = r.version + 1
    BY <1>4, CreateAcceptorEffect
  <1>5. ASSUME NEW p \in Proposers, createProposer(p)
        PROVE  requests'[a] = requests[a]
    BY <1>5, CreateProposerEffect, Parties DEF Takes
  <1> QED
    BY <1>1, <1>2, <1>3, <1>4, <1>5, Frames DEF IsSent, Takes

LEMMA ProposerRequests ==
    ASSUME Types, [Next]_vars, NEW p \in Proposers
    PROVE  \/ requests'[p] = requests[p]
           \/ \E r \in Proposals : IsSent(p, r)
           \/ \E r \in Proposals : Takes(p, r) /\ Reset(p, r.version + 1, r.list)
  <1>1. CASE UNCHANGED requests
    BY <1>1
  <1>2. ASSUME NEW x \in Acceptors \cup Proposers, tell(x) PROVE \E r \in Proposals : IsSent(x, r)
    BY <1>2, TellEffect
  <1>3. CASE requestProposer
    BY <1>3, RequestProposerEffect DEF IsSent
  <1>4. ASSUME NEW b \in Acceptors, createAcceptor(b)
        PROVE  requests'[p] = requests[p]
    BY <1>4, CreateAcceptorEffect, Parties DEF Takes
  <1>5. ASSUME NEW q \in Proposers, createProposer(q)
        PROVE  \E r \in Proposals : Takes(q, r) /\ Reset(q, r.version + 1, r.list)
    BY <1>5, CreateProposerEffect
  <1> QED
    BY <1>1, <1>2, <1>3, <1>4, <1>5, Frames DEF IsSent, Takes

(* The requestor is not at rest in a version of its own while it tells.    *)
LEMMA RequestorWins ==
    ASSUME Layers, [Next]_vars, psm[Requestor].state # "WON", psm'[Requestor].state = "WON"
    PROVE  machine.version = currentversion + 1 /\ UNCHANGED currentversion
  <1>0. Types /\ RequestorInv /\ machine.version \in Nat /\ currentversion \in Nat
    BY Fields, Parties DEF Layers, Types, machine
  <1>1. CASE proposeChange
    <2>1. machine.state = "INITIAL" /\ UNCHANGED currentversion
      BY <1>0, <1>1 DEF proposeChange, missesAcceptor, RequestorInv
    <2> QED
      BY <1>0, <2>1 DEF RequestorInv
  <1>2. CASE finishChange
    BY <1>0, <1>2, FinishChangeEffect DEF Reset
  <1>3. ASSUME NEW m \in answers, requestorReads(m)
        PROVE  machine.version = currentversion + 1 /\ UNCHANGED currentversion
    <2>1. CASE ReadsAck(Requestor, m) /\ UNCHANGED currentversion
      <3>1. machine.state = "VOTING"
        BY <2>1 DEF ReadsAck, machine
      <3> QED
        BY <1>0, <2>1, <3>1 DEF RequestorInv
    <2>2. CASE Ends(Requestor)
      BY <2>2 DEF Ends
    <2> QED
      BY <1>0, <1>3, <2>1, <2>2, RequestorReadsEffect
  <1>4. OtherStep => FALSE
    BY <1>0, OthersKeep
  <1>5. psm' # psm
    OBVIOUS
  <1> QED
    BY <1>1, <1>2, <1>3, <1>4, <1>5, Frames DEF OtherStep

(* An acceptor change is decided before it is carried out.                 *)
LEMMA NewChange ==
    ASSUME Layers, [Next]_vars, Layers', NEW c \in decided', c.type = "ACCEPTORCHANGE",
           c.version <= currentversion'
    PROVE  c \in decided
  <1>1. ASSUME NEW w \in Voters, Wins(w, c) PROVE FALSE
    <2>1. w = Requestor
      BY <1>1, Parties DEF Wins, Layers, KnownInv
    <2>2. machine.version = currentversion + 1 /\ UNCHANGED currentversion
      BY <1>1, <2>1, RequestorWins DEF Wins
    <2>3. c.version = machine.version
      <3>1. machine'.state = "WON" /\ machine'.version = machine.version /\ c = machine'.proposal
        BY <1>1, <2>1 DEF Wins, machine
      <3>2. c = AcceptorChange(machine'.version, machine'.proposal.list)
        BY <3>1 DEF Layers, RequestorInv
      <3> QED
        BY <3>1, <3>2 DEF AcceptorChange
    <2>4. currentversion \in Nat
      BY DEF Layers, Types
    <2> QED
      BY <2>2, <2>3, <2>4
  <1> QED
    BY <1>1, DecidedStep DEF DecidedGrows, Layers

(* A vote is old, or by a voter that begins to vote.                       *)
NewVote(w, m) ==
    /\ Proposes(w, m.proposal) /\ m.to \in psm[w].connected
    /\ \/ w = Requestor /\ proposeChange /\ m.proposal.version = currentversion + 1
       \/ w \in watching /\ w \in Proposers /\ m.proposal.version = psm[w].version

LEMMA VoteStep ==
    ASSUME Types, [Next]_vars, NEW m \in votes'
    PROVE  \/ \E n \in votes : m.to = n.to /\ m.proposal = n.proposal
           \/ \E w \in Voters : NewVote(w, m)
  <1> DEFINE Old == \E n \in votes : m.to = n.to /\ m.proposal = n.proposal
  <1>0. \A w \in Voters : Cut(w) => Old
    BY DEF Cut
  <1>1. CASE UNCHANGED votes
    BY <1>1
  <1>2. ASSUME NEW w \in Voters, disconnect(w) PROVE Old
    BY <1>2, Disconnected
  <1>3. CASE proposeChange
    <2>1. PICK c \in Proposals : c.version = currentversion + 1 /\ Proposes(Requestor, c)
      BY <1>3, ProposeChangeEffect
    <2>2. m \in votes \/ (m.proposal = c /\ m.to \in psm[Requestor].connected)
      BY <2>1 DEF Proposes
    <2> QED
      BY <1>3, <2>1, <2>2, Parties DEF NewVote
  <1>4. ASSUME NEW p \in Proposers, startRecovery(p) PROVE Old \/ \E w \in Voters : NewVote(w, m)
    <2>1. PICK d \in Proposals : d.version = psm[p].version /\ Proposes(p, d)
      BY <1>4, StartRecoveryEffect
    <2>2. m \in votes \/ (m.proposal = d /\ m.to \in psm[p].connected)
      BY <2>1 DEF Proposes
    <2>3. p \in watching
      BY <1>4 DEF startRecovery
    <2> QED
      BY <2>1, <2>2, <2>3, Parties DEF NewVote
  <1>5. ASSUME NEW n \in votes, handleVote(n) PROVE Old
    BY <1>5, Voted
  <1>6. ASSUME NEW n \in answers, requestorReads(n) PROVE Old
    <2>1. UNCHANGED votes \/ disconnect(Requestor)
      BY <1>6 DEF requestorReads
    <2> QED
      BY <1>1, <1>2, <2>1, Parties
  <1>7. ASSUME NEW p \in Proposers, NEW n \in answers, proposerReads(p, n) PROVE Old
    <2>1. UNCHANGED votes \/ disconnect(p)
      BY <1>7 DEF proposerReads
    <2> QED
      BY <1>1, <1>2, <2>1, Parties
  <1>8. \/ UNCHANGED votes \/ disconnect(Requestor) \/ proposeChange
        \/ \E p \in Proposers : startRecovery(p) \/ disconnect(p)
        \/ \E n \in votes : handleVote(n)
        \/ \E n \in answers : requestorReads(n)
        \/ \E p \in Proposers, n \in answers : proposerReads(p, n)
    BY DEF Next, vars, insufficientAcceptors, insufficientProposers, crash, stop, changeAcceptor,
           tell, finishChange, requestProposer, loseAcceptor, loseProposer, createAcceptor,
           createProposer, checkTimeout, sendCommitment, handleCommitment, connectionVars
  <1> QED
    BY <1>1, <1>2, <1>3, <1>4, <1>5, <1>6, <1>7, <1>8, Parties

ToldLayers == Layers /\ ListInv /\ ToldInv

(* While requests are sent the requestor's machine has won and nothing      *)
(* changes currentversion.                                                  *)
LEMMA Telling ==
    ASSUME Layers, [Next]_vars, telling # {}
    PROVE  /\ machine.state = "WON" /\ currentversion = machine.version
           /\ UNCHANGED currentversion /\ telling' \subseteq telling
           /\ ~proposeChange /\ ~requestProposer
  <1>1. machine.state = "WON" /\ currentversion = machine.version
    BY DEF Layers, RequestorInv
  <1>2. ~changeAcceptor /\ ~proposeChange /\ ~requestProposer
    BY <1>1 DEF changeAcceptor, proposeChange, missesAcceptor, requestProposer, missesProposer, machine
  <1>3. \A m \in answers : ~requestorReads(m)
    BY <1>1 DEF requestorReads, Select, machine
  <1>4. UNCHANGED currentversion
    BY <1>2, <1>3, Frames
  <1>5. telling' \subseteq telling
    BY <1>2, Frames DEF tell
  <1> QED
    BY <1>1, <1>2, <1>4, <1>5

LEMMA AcceptorsToldStep ==
    ASSUME ToldLayers, [Next]_vars, Layers',
           NEW c \in decided', c.type = "ACCEPTORCHANGE", c.version <= currentversion', NEW a \in c.list
    PROVE  \/ a \in telling' /\ c.version = currentversion'
           \/ asm'[a].version > c.version
           \/ \E i \in DOMAIN requests'[a] : requests'[a][i].version >= c.version
  <1> DEFINE IsNext == \/ a \in telling' /\ c.version = currentversion'
                       \/ asm'[a].version > c.version
                       \/ \E i \in DOMAIN requests'[a] : requests'[a][i].version >= c.version
  <1>0. /\ Types /\ c \in decided /\ c.version \in Nat /\ a \in Acceptors
        /\ currentversion \in Nat /\ machine.version \in Nat
    <2>1. c \in decided
      BY NewChange DEF ToldLayers
    <2> QED
      BY <2>1, Members, Fields, Parties DEF ToldLayers, Layers, Types, machine
  <1>1. CASE c.version > currentversion
    <2>1. /\ currentversion' = currentversion + 1 /\ c.version = currentversion'
          /\ machine.version = currentversion'
      BY <1>0, <1>1, VersionRises DEF ToldLayers, Layers
    <2>2. machine.state = "WON" /\ machine.proposal = c
      BY <1>0, <2>1 DEF ToldLayers, Layers, ChangeInv
    <2>3. changeAcceptor
      <3>1. \A m \in answers : ~requestorReads(m)
        BY <2>2 DEF requestorReads, Select, machine
      <3> QED
        BY <2>1, <3>1, <1>0, Frames
    <2>4. a \in telling'
      BY <2>2, <2>3 DEF changeAcceptor, recipients, machine
    <2> QED
      BY <2>1, <2>4
  <1>2. CASE c.version <= currentversion
    <2>1. \/ a \in telling /\ c.version = currentversion
          \/ asm[a].version > c.version
          \/ \E i \in DOMAIN requests[a] : requests[a][i].version >= c.version
      BY <1>0, <1>2 DEF ToldLayers, ToldInv
    <2>2. CASE a \in telling /\ c.version = currentversion
      <3>1. UNCHANGED currentversion /\ ~changeAcceptor
        BY <2>2, Telling DEF ToldLayers, changeAcceptor, Layers, Types
      <3>2. CASE a \in telling'
        BY <2>2, <3>1, <3>2
      <3>3. CASE a \notin telling'
        <4>1. PICK x \in Acceptors \cup Proposers : tell(x)
          BY <2>2, <3>1, <3>3, Frames
        <4>2. PICK r \in Proposals : /\ r.version = currentversion /\ IsSent(x, r)
                                     /\ telling' = telling \ {x}
          BY <1>0, <4>1, TellEffect
        <4>3. x = a
          BY <2>2, <3>3, <4>2
        <4>4. Len(requests[a]) + 1 \in DOMAIN requests'[a] /\ requests'[a][Len(requests[a]) + 1] = r
          BY <4>2, <4>3, Appended
        <4> QED
          BY <1>0, <2>2, <4>2, <4>4
      <3> QED
        BY <3>2, <3>3
    <2>3. CASE asm[a].version > c.version
      <3>1. asm'[a].version >= asm[a].version /\ asm'[a].version \in Nat /\ asm[a].version \in Nat
        BY <1>0, AcceptorVersionsRise, Fields DEF ToldLayers, Layers, Types
      <3> QED
        BY <1>0, <2>3, <3>1
    <2>4. ASSUME NEW i \in DOMAIN requests[a], requests[a][i].version >= c.version
          PROVE  IsNext
      <3>1. CASE requests'[a] = requests[a]
        BY <2>4, <3>1
      <3>2. ASSUME NEW r \in Proposals, IsSent(a, r) PROVE IsNext
        BY <2>4, <3>2, Appended
      <3>3. ASSUME NEW r \in Proposals, Takes(a, r), asm'[a].version = r.version + 1 PROVE IsNext
        <4>1. CASE i = 1
          <5>1. r.version \in Nat /\ r.version >= c.version
            BY <2>4, <3>3, <4>1, Taken, Fields
          <5> QED
            BY <1>0, <3>3, <5>1
        <4>2. CASE i # 1
          BY <2>4, <3>3, <4>2, Taken
        <4> QED
          BY <4>1, <4>2
      <3> QED
        BY <1>0, <3>1, <3>2, <3>3, AcceptorRequests
    <2> QED
      BY <2>1, <2>2, <2>3, <2>4
  <1> QED
    BY <1>0, <1>1, <1>2

LEMMA VotesToldStep ==
    ASSUME ToldLayers, [Next]_vars, NEW m \in votes'
    PROVE  /\ m.proposal.version <= currentversion' + 1
           /\ \/ Ended(m.proposal.version - 1)'
              \/ \E c \in decided' : IsChange(c, m.proposal.version - 1) /\ m.to \in c.list
  <1> DEFINE v == m.proposal.version
             IsNext == /\ v <= currentversion' + 1
                       /\ \/ Ended(v - 1)'
                          \/ \E c \in decided' : IsChange(c, v - 1) /\ m.to \in c.list
  <1>0. /\ Types /\ Layers /\ decided \subseteq decided'
        /\ currentversion \in Nat /\ currentversion' \in {currentversion, currentversion + 1}
        /\ v \in Nat
    BY VersionRises, DecidedStep, TypesStep, Fields DEF ToldLayers, Layers, DecidedGrows, Types
  <1>1. ASSUME NEW n \in votes, m.to = n.to, m.proposal = n.proposal PROVE IsNext
    <2>1. /\ v <= currentversion + 1
          /\ \/ Ended(v - 1)
             \/ \E c \in decided : IsChange(c, v - 1) /\ m.to \in c.list
      BY <1>1 DEF ToldLayers, ToldInv
    <2> QED
      BY <1>0, <2>1 DEF Ended
  <1>2. ASSUME NEW w \in Voters, NewVote(w, m) PROVE IsNext
    <2>0. psm[w] \in Machines /\ m.to \in psm[w].list /\ psm[w].list \in SUBSET Acceptors
      BY <1>0, <1>2, Fields DEF NewVote, Layers, ConnectionInv, Types
    <2>1. CASE w = Requestor /\ proposeChange /\ v = currentversion + 1
      <3>1. machine.state = "INITIAL" /\ machine.version >= 1 /\ machine.version \in Nat
            /\ currentversion = machine.version - 1
        BY <2>0, <2>1, <1>0, Fields DEF proposeChange, missesAcceptor, Layers, RequestorInv, machine
      <3>2. m.to \in machine.list
        BY <2>0, <2>1 DEF machine
      <3>3. RequestorInv /\ ChangeInv
        BY <1>0 DEF Layers
      <3>4. machine.version > 1
        BY <3>1, <3>2, <3>3 DEF RequestorInv
      <3>5. PICK c \in decided : IsChange(c, machine.version - 1) /\ c.list = machine.list
        BY <3>3, <3>4 DEF ChangeInv
      <3>6. machine.version - 1 = v - 1
        BY <2>1, <3>1
      <3>7. c \in decided' /\ IsChange(c, v - 1) /\ m.to \in c.list
        BY <1>0, <3>2, <3>5, <3>6
      <3>8. v <= currentversion' + 1
        BY <1>0, <2>1
      <3> QED
        BY <3>7, <3>8
    <2>2. CASE w \in watching /\ w \in Proposers /\ v = psm[w].version
      <3>1. v >= 2 /\ v <= currentversion + 1
        BY <1>0, <2>2 DEF Layers, VersionInv
      <3>2. v - 1 \in 1 .. currentversion /\ IsTold(v - 1, psm[w].list)
        BY <1>0, <2>2, <3>1 DEF IsTold
      <3>3. Suits(v - 1, psm[w].list) \/ Ended(v - 1)
        BY <2>0, <3>2 DEF ToldLayers, ListInv
      <3>4. CASE Ended(v - 1)
        BY <1>0, <3>1, <3>4 DEF Ended
      <3>5. CASE Suits(v - 1, psm[w].list)
        <4>1. PICK c \in decided : IsChange(c, v - 1) /\ psm[w].list \subseteq c.list
          BY <3>5 DEF Suits
        <4> QED
          BY <1>0, <2>0, <3>1, <4>1
      <3> QED
        BY <3>3, <3>4, <3>5
    <2> QED
      BY <1>2, <2>1, <2>2 DEF NewVote
  <1> QED
    BY <1>0, <1>1, <1>2, VoteStep

LEMMA AcceptorsFirstStep ==
    ASSUME ToldLayers, [Next]_vars, telling' \cap Acceptors # {}
    PROVE  /\ \A p \in watching' : psm'[p].version <= currentversion'
           /\ \A m \in votes' : m.proposal.version <= currentversion'
           /\ \A p \in Proposers : \A i \in DOMAIN requests'[p] :
                 requests'[p][i].version < currentversion'
  <1>0. /\ Types /\ Layers /\ currentversion \in Nat
        /\ currentversion' \in {currentversion, currentversion + 1}
        /\ watching \in SUBSET Proposers
        /\ \A w \in Voters : psm[w].version \in Nat
        /\ \A m \in votes : m.proposal.version \in Nat
    BY VersionRises, Fields DEF ToldLayers, Layers, Types
  <1>r. \A p \in Proposers : \A i \in DOMAIN requests[p] :
           requests[p][i].version \in Nat /\ requests[p][i].version <= currentversion
    BY <1>0, Fields DEF Layers, VersionInv, Types
  <1>1. CASE changeAcceptor
    <2>1. currentversion' = currentversion + 1 /\ UNCHANGED <<psm, watching, votes, requests>>
      BY <1>0, <1>1 DEF changeAcceptor, proposerVars, connectionVars
    <2>2. \A p \in watching' : psm'[p].version <= currentversion'
      BY <1>0, <2>1, Parties DEF Layers, VersionInv
    <2>3. \A m \in votes' : m.proposal.version <= currentversion'
      BY <2>1 DEF ToldLayers, ToldInv
    <2>4. \A p \in Proposers : \A i \in DOMAIN requests'[p] :
             requests'[p][i].version < currentversion'
      BY <1>0, <1>r, <2>1
    <2> QED
      BY <2>2, <2>3, <2>4
  <1>2. CASE ~changeAcceptor
    <2>1. telling \cap Acceptors # {} /\ telling # {}
      BY <1>2, Frames DEF tell
    <2>2. UNCHANGED currentversion /\ ~proposeChange /\ ~requestProposer
      BY <1>0, <2>1, Telling
    <2>3. /\ \A p \in watching : psm[p].version <= currentversion
          /\ \A m \in votes : m.proposal.version <= currentversion
          /\ \A p \in Proposers : \A i \in DOMAIN requests[p] :
                requests[p][i].version < currentversion
      BY <2>1 DEF ToldLayers, ToldInv
    <2>4. ASSUME NEW p \in Proposers, NEW r \in Proposals, Takes(p, r), Reset(p, r.version + 1, r.list)
          PROVE  psm'[p].version <= currentversion
      <3>1. r.version < currentversion /\ r.version \in Nat
        BY <2>3, <2>4, Taken, Fields
      <3> QED
        BY <1>0, <2>4, <3>1 DEF Reset
    <2>5. ASSUME NEW p \in watching' PROVE psm'[p].version <= currentversion'
      <3>0. p \in Proposers
        BY TypesStep, <1>0 DEF Types
      <3>1. ASSUME NEW q \in Proposers, createProposer(q), q = p
            PROVE  psm'[p].version <= currentversion'
        BY <1>0, <2>2, <2>4, <3>1, CreateProposerEffect
      <3>2. CASE p \in watching
        <4>1. CASE Stays(p)
          BY <2>2, <2>3, <3>2, <4>1 DEF Stays
        <4>2. \A m \in answers : m.to # p
          BY <1>0, <3>2 DEF Layers, ConnectionInv
        <4> QED
          BY <1>0, <2>2, <2>4, <3>0, <4>1, <4>2, MachineStep, Parties
      <3>3. p \in watching \/ \E q \in Proposers : createProposer(q) /\ q = p
        BY Frames DEF createProposer, startRecovery
      <3> QED
        BY <3>1, <3>2, <3>3
    <2>6. ASSUME NEW m \in votes' PROVE m.proposal.version <= currentversion'
      <3>1. ASSUME NEW w \in Voters, NewVote(w, m) PROVE m.proposal.version <= currentversion'
        BY <2>2, <2>3, <3>1 DEF NewVote
      <3> QED
        BY <1>0, <2>2, <2>3, <3>1, VoteStep
    <2>7. ASSUME NEW p \in Proposers, NEW i \in DOMAIN requests'[p]
          PROVE  requests'[p][i].version < currentversion'
      <3>1. CASE requests'[p] = requests[p]
        BY <2>2, <2>3, <3>1
      <3>2. ~tell(p)
        BY <2>1, Parties DEF tell, mayTell
      <3>3. ASSUME NEW r \in Proposals, Takes(p, r) PROVE requests'[p][i].version < currentversion'
        BY <2>2, <2>3, <3>3, Taken
      <3> QED
        BY <1>0, <2>2, <3>1, <3>2, <3>3, RequestStep DEF Request
    <2> QED
      BY <2>5, <2>6, <2>7
  <1> QED
    BY <1>1, <1>2

(* Only carrying out a change moves the last change.                       *)
LEMMA LastChangeStep ==
    ASSUME Layers, [Next]_vars, ~changeAcceptor
    PROVE  LastChange' = LastChange
  <1>0. /\ Types /\ RequestorInv /\ currentversion \in Nat /\ machine.version \in Nat
        /\ machine.state \in {"INITIAL", "VOTING", "WON", "PHASE3"}
    BY Fields, Parties DEF Layers, Types, machine
  <1>1. ASSUME NEW m \in answers, requestorReads(m), ~ReadsAck(Requestor, m)
        PROVE  LastChange' = LastChange
    <2>1. /\ m.to = Requestor /\ m.outcome # Ack /\ psm[Requestor].state # "WON" /\ Ends(Requestor)
          /\ currentversion' = m.outcome.version
      BY <1>0, <1>1, RequestorReadsEffect
    <2>2. machine.state = "VOTING" /\ m.outcome.version = currentversion + 1
      BY <2>1, OutcomeRead DEF Layers
    <2>3. machine'.state = "PHASE3"
      BY <2>1 DEF Ends, machine
    <2> QED
      BY <1>0, <2>1, <2>2, <2>3 DEF LastChange
  <1>2. CASE \A m \in answers : requestorReads(m) => ReadsAck(Requestor, m)
    <2>1. UNCHANGED currentversion
      BY <1>0, <1>2, Frames, RequestorReadsEffect DEF ReadsAck
    <2>2. machine'.state = "PHASE3" <=> machine.state = "PHASE3"
      <3>1. CASE OtherStep
        BY <1>0, <3>1, OthersKeep DEF machine
      <3>2. CASE UNCHANGED psm
        BY <3>2 DEF machine
      <3>3. CASE proposeChange
        <4>1. machine.state = "INITIAL"
          BY <1>0, <3>3 DEF proposeChange, missesAcceptor, RequestorInv
        <4>2. machine'.state # "PHASE3"
          BY <1>0, <3>3, ProposeChangeEffect DEF Proposes, machine
        <4> QED
          BY <4>1, <4>2
      <3>4. CASE finishChange
        BY <1>0, <3>4, FinishChangeEffect DEF finishChange, Reset, machine
      <3>5. ASSUME NEW m \in answers, ReadsAck(Requestor, m)
            PROVE  machine'.state = "PHASE3" <=> machine.state = "PHASE3"
        BY <3>5 DEF ReadsAck, machine
      <3> QED
        BY <1>2, <3>1, <3>2, <3>3, <3>4, <3>5, Frames DEF OtherStep
    <2> QED
      BY <2>1, <2>2 DEF LastChange
  <1> QED
    BY <1>1, <1>2

LEMMA ProposersToldStep ==
    ASSUME ToldLayers, [Next]_vars, NEW p \in proposers'
    PROVE  \/ psm'[p].version > LastChange'
           \/ p \in telling'
           \/ \E i \in DOMAIN requests'[p] : requests'[p][i].version >= LastChange'
  <1> DEFINE IsNext == \/ psm'[p].version > LastChange'
                       \/ p \in telling'
                       \/ \E i \in DOMAIN requests'[p] : requests'[p][i].version >= LastChange'
  <1>0. /\ Types /\ Layers /\ p \in Proposers /\ p \in Voters
        /\ currentversion \in Nat /\ LastChange \in Int /\ LastChange <= currentversion
        /\ psm[p].version \in Nat /\ psm'[p].version \in Nat
    <2>1. Types /\ Types' /\ Layers
      BY TypesStep DEF ToldLayers, Layers
    <2>2. p \in Proposers /\ p \in Voters /\ currentversion \in Nat
      BY <2>1, Parties DEF Types
    <2>3. LastChange \in Int /\ LastChange <= currentversion
      BY <2>2 DEF LastChange
    <2>4. psm[p].version \in Nat /\ psm'[p].version \in Nat
      BY <2>1, <2>2, Fields DEF Types
    <2> QED
      BY <2>1, <2>2, <2>3, <2>4
  <1>1. CASE changeAcceptor
    <2>1. p \in proposers /\ telling' = recipients(psm[Requestor].proposal.list)
      BY <1>1 DEF changeAcceptor
    <2> QED
      BY <2>1 DEF recipients
  <1>2. CASE ~changeAcceptor
    <2>0. LastChange' = LastChange
      BY <1>0, <1>2, LastChangeStep
    <2>1. ASSUME NEW r \in Proposals, IsSent(p, r), r.version = currentversion PROVE IsNext
      BY <1>0, <2>0, <2>1, Appended
    <2>2. CASE p \in proposers
      <3>1. \/ psm[p].version > LastChange
            \/ p \in telling
            \/ \E i \in DOMAIN requests[p] : requests[p][i].version >= LastChange
        BY <2>2 DEF ToldLayers, ToldInv
      <3>2. CASE psm[p].version > LastChange
        <4>1. psm'[p].version >= psm[p].version
          BY <1>0, VoterVersionsRise
        <4> QED
          BY <1>0, <2>0, <3>2, <4>1
      <3>3. CASE p \in telling
        <4>1. CASE p \in telling'
          BY <4>1
        <4>2. CASE p \notin telling'
          <5>1. PICK x \in Acceptors \cup Proposers : tell(x)
            BY <1>2, <3>3, <4>2, Frames
          <5>2. PICK r \in Proposals : /\ r.version = currentversion /\ IsSent(x, r)
                                       /\ telling' = telling \ {x}
            BY <1>0, <5>1, TellEffect
          <5>3. x = p
            BY <3>3, <4>2, <5>2
          <5> QED
            BY <2>1, <5>2, <5>3
        <4> QED
          BY <4>1, <4>2
      <3>4. ASSUME NEW i \in DOMAIN requests[p], requests[p][i].version >= LastChange PROVE IsNext
        <4>1. CASE requests'[p] = requests[p]
          BY <2>0, <3>4, <4>1
        <4>2. ASSUME NEW r \in Proposals, IsSent(p, r) PROVE IsNext
          BY <2>0, <3>4, <4>2, Appended
        <4>3. ASSUME NEW r \in Proposals, Takes(p, r), Reset(p, r.version + 1, r.list) PROVE IsNext
          <5>1. CASE i = 1
            <6>1. r.version >= LastChange /\ r.version \in Nat
              BY <3>4, <4>3, <5>1, Taken, Fields
            <6>2. psm'[p].version = r.version + 1
              BY <4>3 DEF Reset
            <6> QED
              BY <1>0, <2>0, <6>1, <6>2
          <5>2. CASE i # 1
            BY <2>0, <3>4, <4>3, <5>2, Taken
          <5> QED
            BY <5>1, <5>2
        <4> QED
          BY <1>0, <4>1, <4>2, <4>3, ProposerRequests
      <3> QED
        BY <3>1, <3>2, <3>3, <3>4
    <2>3. CASE p \notin proposers
      <3>1. requestProposer
        BY <2>3, Frames DEF loseProposer
      <3>2. PICK q \in Proposers, r \in Proposals :
               /\ r.version = currentversion
               /\ \/ proposers' = proposers \cup {q} /\ IsSent(q, r)
                  \/ UNCHANGED <<proposers, requests>>
        BY <1>0, <3>1, RequestProposerEffect
      <3>3. q = p /\ IsSent(q, r)
        BY <2>3, <3>2
      <3> QED
        BY <2>1, <3>2, <3>3
    <2> QED
      BY <2>2, <2>3
  <1> QED
    BY <1>1, <1>2

LEMMA SupersededStep ==
    ASSUME ToldLayers, [Next]_vars, NEW p \in superseded' \cap proposers'
    PROVE  p \in telling' \/ requests'[p] # <<>>
  <1>0. /\ Types /\ Layers /\ p \in Proposers /\ p \in Voters
        /\ currentversion \in Nat /\ machine.version \in Nat /\ psm[p].version \in Nat
        /\ machine.state \in {"INITIAL", "VOTING", "WON", "PHASE3"}
    BY TypesStep, Parties, Fields DEF ToldLayers, Layers, Types, machine
  <1>1. CASE requestProposer /\ p \notin proposers
    <2>1. PICK q \in Proposers, r \in Proposals :
             \/ proposers' = proposers \cup {q} /\ IsSent(q, r)
             \/ UNCHANGED <<proposers, requests>>
      BY <1>0, <1>1, RequestProposerEffect
    <2> QED
      BY <1>1, <2>1, Appended
  <1>2. p \in proposers \/ requestProposer
    BY Frames DEF loseProposer
  <1>3. CASE p \in proposers /\ p \in superseded /\ ~createProposer(p)
    <2>1. p \in telling \/ requests[p] # <<>>
      BY <1>3 DEF ToldLayers, ToldInv
    <2>2. CASE p \in telling
      <3>1. CASE p \notin telling'
        <4>1. ~changeAcceptor
          BY <1>3, <3>1 DEF changeAcceptor, recipients
        <4>2. PICK x \in Acceptors \cup Proposers : tell(x)
          BY <2>2, <3>1, <4>1, Frames
        <4>3. PICK r \in Proposals : IsSent(x, r) /\ telling' = telling \ {x}
          BY <1>0, <4>2, TellEffect
        <4>4. x = p
          BY <2>2, <3>1, <4>3
        <4> QED
          BY <4>3, <4>4, Appended
      <3> QED
        BY <3>1
    <2>3. CASE requests[p] # <<>>
      <3>1. CASE requests'[p] = requests[p]
        BY <2>3, <3>1
      <3>2. ASSUME NEW r \in Proposals, IsSent(p, r) PROVE requests'[p] # <<>>
        BY <3>2, Appended
      <3>3. ASSUME NEW x \in Acceptors \cup Proposers, x # p, NEW r, Takes(x, r) \/ IsSent(x, r)
            PROVE  requests'[p] = requests[p]
        BY <1>0, <3>3 DEF Takes, IsSent
      <3>4. \/ requests'[p] = requests[p]
            \/ \E r \in Proposals : IsSent(p, r)
        <4>1. CASE UNCHANGED requests
          BY <4>1
        <4>2. ASSUME NEW x \in Acceptors \cup Proposers, tell(x)
              PROVE  requests'[p] = requests[p] \/ \E r \in Proposals : IsSent(p, r)
          BY <1>0, <3>3, <4>2, TellEffect
        <4>3. CASE requestProposer
          <5>1. PICK q \in Proposers, r \in Proposals : IsSent(q, r) \/ UNCHANGED requests
            BY <1>0, <4>3, RequestProposerEffect
          <5> QED
            BY <3>3, <5>1
        <4>4. ASSUME NEW a \in Acceptors, createAcceptor(a) PROVE requests'[p] = requests[p]
          BY <1>0, <3>3, <4>4, CreateAcceptorEffect, Parties
        <4>5. ASSUME NEW q \in Proposers, createProposer(q) PROVE requests'[p] = requests[p]
          <5>1. q # p
            BY <1>3, <4>5
          <5> QED
            BY <1>0, <3>3, <4>5, <5>1, CreateProposerEffect
        <4> QED
          BY <4>1, <4>2, <4>3, <4>4, <4>5, Frames
      <3> QED
        BY <3>1, <3>2, <3>4
    <2> QED
      BY <2>1, <2>2, <2>3
  <1>4. CASE p \in proposers /\ p \notin superseded
    <2>1. PICK m \in answers : proposerReads(p, m) /\ superseded' = superseded \cup {p}
                               /\ m.outcome.type = "ACCEPTORCHANGE"
      <3>1. \A q \in Proposers : createProposer(q) => p \notin superseded'
        BY <1>4 DEF createProposer
      <3>2. PICK q \in Proposers, m \in answers : proposerReads(q, m)
        BY <1>4, <3>1, Frames
      <3>3. q = p /\ superseded' = superseded \cup {p} /\ m.outcome.type = "ACCEPTORCHANGE"
        BY <1>0, <1>4, <3>2, ProposerReadsEffect
      <3> QED
        BY <3>2, <3>3
    <2>2. m.to = p /\ requests[p] = <<>> /\ DOMAIN requests[p] = {}
      BY <1>0, <2>1, ProposerReadsEffect
    <2>3. m.outcome \in decided /\ m.outcome # Ack /\ m.outcome.version \in Nat
      BY <1>0, <2>1, Constructors, Fields DEF Layers, KnownInv, Types
    <2>4. m.outcome.version <= currentversion /\ psm[p].version <= m.outcome.version
      BY <1>0, <2>1, <2>2, <2>3 DEF Layers, VersionInv
    <2>5. ~(psm[p].version > LastChange)
      <3>1. CASE machine.state = "PHASE3"
        <4>1. currentversion = machine.version
          BY <1>0, <3>1 DEF Layers, VersionInv
        <4>2. m.outcome.version # machine.version /\ m.outcome.version <= machine.version
          BY <1>0, <2>1, <2>3, <3>1 DEF Layers, ChangeInv
        <4> QED
          BY <1>0, <2>3, <2>4, <3>1, <4>1, <4>2 DEF LastChange
      <3> QED
        BY <1>0, <2>3, <2>4, <3>1 DEF LastChange
    <2>6. p \in telling
      BY <1>4, <2>2, <2>5 DEF ToldLayers, ToldInv
    <2>7. UNCHANGED telling
      BY <2>1 DEF proposerReads, requestorVars
    <2> QED
      BY <2>6, <2>7
  <1>5. createProposer(p) => p \notin superseded'
    BY DEF createProposer
  <1> QED
    BY <1>1, <1>2, <1>3, <1>4, <1>5

LEMMA ToldInvStep == ToldLayers /\ [Next]_vars => ToldLayers'
  <1> SUFFICES ASSUME ToldLayers, [Next]_vars PROVE ToldLayers'
    OBVIOUS
  <1>1. Layers' /\ ListInv'
    BY LayersStep, ListStep DEF ToldLayers
  <1>2. ToldInv'
    BY <1>1, AcceptorsToldStep, AcceptorsFirstStep, VotesToldStep, ProposersToldStep, SupersededStep
       DEF ToldInv
  <1> QED
    BY <1>1, <1>2 DEF ToldLayers

LEMMA ToldInit == Init => ToldLayers
  <1> SUFFICES ASSUME Init PROVE ToldLayers
    OBVIOUS
  <1>1. Layers
    BY InitTypes, RequestorInit, KnownInit, ConnectionInit, ChangeInit, VersionInit, RequestInit
       DEF Layers
  <1>2. /\ decided = {} /\ currentversion = 0 /\ telling = {} /\ votes = {} /\ proposers = {}
        /\ superseded = {}
    BY DEF Init
  <1> QED
    BY <1>1, <1>2 DEF ToldLayers, ListInv, ToldInv

LEMMA EarlyVotesAnswered ==
    ASSUME ToldLayers
    PROVE  NobodyIsEarly
  <1> SUFFICES ASSUME NEW m \in votes, asm[m.to].version < m.proposal.version,
                      ~\E d \in decided : d.type = "RECOVERY" /\ d.version < m.proposal.version
               PROVE  /\ requests[m.to] # <<>>
                      /\ nextVersion(requests[m.to][Len(requests[m.to])]) >= m.proposal.version
    BY DEF NobodyIsEarly
  <1> DEFINE v == m.proposal.version
             s == requests[m.to]
  <1>0. /\ Layers /\ v \in Nat /\ currentversion \in Nat /\ m.to \in Acceptors
        /\ asm[m.to].version \in Nat /\ s \in Seq(Proposals)
        /\ \A d \in decided : d.version \in Nat
    BY Fields DEF ToldLayers, Layers, Types
  <1>1. ~Ended(v - 1)
    BY <1>0 DEF Ended
  <1>2. v <= currentversion + 1 /\ \E c \in decided : IsChange(c, v - 1) /\ m.to \in c.list
    BY <1>1 DEF ToldLayers, ToldInv
  <1>3. PICK c \in decided : IsChange(c, v - 1) /\ m.to \in c.list
    BY <1>2
  <1>4. c.version = v - 1 /\ c.type = "ACCEPTORCHANGE" /\ c.version <= currentversion
    BY <1>0, <1>2, <1>3 DEF IsChange
  <1>5. \/ m.to \in telling /\ c.version = currentversion
        \/ asm[m.to].version > c.version
        \/ \E i \in DOMAIN s : s[i].version >= c.version
    BY <1>3, <1>4 DEF ToldLayers, ToldInv
  <1>6. ~(m.to \in telling /\ c.version = currentversion)
    BY <1>0, <1>4 DEF ToldLayers, ToldInv
  <1>7. ~(asm[m.to].version > c.version)
    BY <1>0, <1>4
  <1>8. PICK i \in DOMAIN s : s[i].version >= c.version
    BY <1>5, <1>6, <1>7
  <1>9. /\ DOMAIN s = 1 .. Len(s) /\ Len(s) \in Nat /\ i \in 1 .. Len(s) /\ Len(s) \in DOMAIN s
        /\ s # <<>>
    BY <1>0, <1>8
  <1>10. s[i].version \in Nat /\ s[Len(s)].version \in Nat
    BY <1>0, <1>9, Fields
  <1>11. s[Len(s)].version >= s[i].version
    <2>1. Rising(s)
      BY <1>0 DEF Layers, RequestInv
    <2> QED
      BY <1>9, <1>10, <2>1 DEF Rising
  <1>12. s[Len(s)].version + 1 >= v
    <2>1. s[i].version >= v - 1
      BY <1>4, <1>8
    <2>2. \A x, y, z \in Nat : x >= y /\ y >= z - 1 => x + 1 >= z
      OBVIOUS
    <2>3. v \in Nat
      BY <1>0
    <2> QED
      BY ONLY <1>10, <1>11, <2>1, <2>2, <2>3
  <1> QED
    BY <1>9, <1>12 DEF nextVersion

(* A vote reaches no acceptor that has not been told of its version and has *)
(* no request for it waiting, unless a recovery ended an earlier version:   *)
(* changeAcceptor tells all acceptors first and whoever votes was told      *)
(* later, however many acceptors are lost at a time.                        *)
THEOREM AcceptorsKnowFirst == Spec => []NobodyIsEarly
  <1>1. ToldLayers => NobodyIsEarly
    BY EarlyVotesAnswered
  <1> QED
    BY <1>1, ToldInit, ToldInvStep, PTL DEF Spec

(* A proposer whose recovery an acceptor change ended, and which the        *)
(* requestor still hears, will be sent a request or has one waiting.        *)
THEOREM EndedRecoveryRestarts == Spec => []RecoveryIsRestarted
  <1>1. ToldLayers => RecoveryIsRestarted
    BY DEF ToldLayers, ToldInv, RecoveryIsRestarted
  <1> QED
    BY <1>1, ToldInit, ToldInvStep, PTL DEF Spec

-----------------------------------------------------------------------------
(* Who takes part in a vote.                                               *)

LEMMA VotesFrom ==
    ASSUME Types, [Next]_vars, NEW p \in Proposers, NEW m \in votes', m.from = p
    PROVE  p \in watching \/ \E n \in votes : n.from = p
  <1> USE Parties
  <1>0. \A w \in Voters : Cut(w) => m \in votes
    BY DEF Cut
  <1>1. CASE UNCHANGED votes
    BY <1>1
  <1>2. ASSUME NEW w \in Voters, disconnect(w) PROVE m \in votes
    BY <1>2, Disconnected
  <1>3. CASE proposeChange
    BY <1>3, ProposeChangeEffect DEF Proposes
  <1>4. ASSUME NEW q \in Proposers, startRecovery(q) PROVE m \in votes \/ p \in watching
    <2>1. q \in watching
      BY <1>4 DEF startRecovery
    <2> QED
      BY <1>4, <2>1, StartRecoveryEffect DEF Proposes
  <1>5. ASSUME NEW n \in votes, handleVote(n) PROVE m \in votes
    BY <1>5, Voted
  <1>6. ASSUME NEW n \in answers, requestorReads(n) PROVE m \in votes
    <2>1. UNCHANGED votes \/ disconnect(Requestor)
      BY <1>6 DEF requestorReads
    <2> QED
      BY <1>2, <2>1
  <1>7. ASSUME NEW q \in Proposers, NEW n \in answers, proposerReads(q, n) PROVE m \in votes
    <2>1. UNCHANGED votes \/ disconnect(q)
      BY <1>7 DEF proposerReads
    <2> QED
      BY <1>2, <2>1
  <1>8. \/ UNCHANGED votes \/ disconnect(Requestor) \/ proposeChange
        \/ \E q \in Proposers : startRecovery(q) \/ disconnect(q)
        \/ \E n \in votes : handleVote(n)
        \/ \E n \in answers : requestorReads(n)
        \/ \E q \in Proposers, n \in answers : proposerReads(q, n)
    BY DEF Next, vars, insufficientAcceptors, insufficientProposers, crash, stop, changeAcceptor,
           tell, finishChange, requestProposer, loseAcceptor, loseProposer, createAcceptor,
           createProposer, checkTimeout, sendCommitment, handleCommitment, connectionVars
  <1> QED
    BY <1>1, <1>2, <1>3, <1>4, <1>5, <1>6, <1>7, <1>8

LEMMA AnswersTo ==
    ASSUME Types, [Next]_vars, NEW p \in Proposers, NEW m \in answers', m.to = p
    PROVE  m \in answers \/ \E n \in votes : n.from = p
  <1>1. ASSUME NEW n \in votes, handleVote(n) PROVE m \in answers \/ n.from = p
    <2>1. \/ answers' = answers
          \/ \E o : answers' = answers \cup {[to |-> n.from, from |-> n.to, outcome |-> o]}
      BY <1>1, Voted
    <2> QED
      BY <2>1
  <1> QED
    BY <1>1, AnswersFrame

(* Whoever takes part in a vote did so before, or begins with a request.   *)
LEMMA VotesStep ==
    ASSUME Types, ConnectionInv, [Next]_vars, NEW p \in Proposers, Votes(p)'
    PROVE  \/ Votes(p) /\ psm'[p].version = psm[p].version
           \/ /\ createProposer(p)
              /\ \E r \in Proposals : Takes(p, r) /\ Reset(p, r.version + 1, r.list)
  <1>0. p \in Voters /\ p # Requestor /\ Types'
    BY Parties, TypesStep
  <1>1. CASE createProposer(p)
    BY <1>1, CreateProposerEffect
  <1>2. CASE ~createProposer(p)
    <2>1. p \in watching' => p \in watching
      <3>1. ASSUME NEW q \in Proposers, createProposer(q) PROVE q # p /\ watching' = watching \cup {q}
        BY <1>2, <3>1 DEF createProposer
      <3>2. ASSUME NEW q \in Proposers, startRecovery(q) PROVE watching' \subseteq watching
        BY <3>2 DEF startRecovery
      <3> QED
        BY <3>1, <3>2, Frames
    <2>2. ASSUME NEW m \in answers, proposerReads(p, m), m.outcome.type = "ACCEPTORCHANGE"
          PROVE  FALSE
      <3>1. ~ReadsAck(p, m)
        BY <2>2, Constructors DEF ReadsAck
      <3>2. m.to = p /\ Cut(p) /\ Reset(p, m.outcome.version + 1, m.outcome.list)
        BY <2>2, <3>1, ProposerReadsEffect
      <3>3. p \notin watching'
        BY <2>1, <3>2 DEF ConnectionInv
      <3> QED
        BY <3>2, <3>3 DEF Votes, Cut, Reset
    <2>3. Stays(p)
      BY <1>0, <1>2, <2>2, MachineStep
    <2>4. psm'[p].state # "INITIAL" => Votes(p)
      <3>1. psm'[p].state \in {"INITIAL", "VOTING", "WON", "PHASE3"}
        BY <1>0, Fields DEF Types
      <3> QED
        BY <1>0, <2>3, <3>1 DEF Stays, Votes
    <2> QED
      BY <2>1, <2>3, <2>4, VotesFrom, AnswersTo DEF Votes, Stays
  <1> QED
    BY <1>1, <1>2

(* Who is not asked yet has no machine.                                    *)
LEMMA UnusedStep ==
    ASSUME Layers, KeptInv, [Next]_vars, NEW p \in Proposers, p \in unused'
    PROVE  psm'[p].version = 0 /\ ~Votes(p)'
  <1>0. Types /\ p \in Voters /\ p # Requestor
    BY Parties DEF Layers
  <1>1. p \in unused
    <2>1. CASE proposeChange
      BY <1>0, <2>1, ProposeChangeEffect
    <2>2. CASE requestProposer
      BY <1>0, <2>2, RequestProposerEffect
    <2> QED
      BY <2>1, <2>2, Frames
  <1>2. psm[p].version = 0 /\ ~Votes(p) /\ requests[p] = <<>>
    BY <1>1 DEF KeptInv, Layers, RequestInv
  <1>3. \A r : ~Takes(p, r)
    BY <1>2 DEF Takes
  <1>4. ~Votes(p)'
    BY <1>0, <1>2, <1>3, VotesStep DEF Layers
  <1>5. \A m \in answers : m.to # p
    BY <1>2 DEF Votes
  <1>6. psm'[p].version = psm[p].version
    BY <1>0, <1>3, <1>5, MachineStep DEF Stays
  <1> QED
    BY <1>2, <1>4, <1>6

(* A request that is sent is for the current version: a later one than that *)
(* of a proposer that takes part in a vote.                                 *)
LEMMA LaterStep ==
    ASSUME Layers, KeptInv, [Next]_vars, NEW p \in Proposers, Votes(p)'
    PROVE  /\ p \in telling' => psm'[p].version <= currentversion'
           /\ \A i \in DOMAIN requests'[p] : requests'[p][i].version >= psm'[p].version
  <1>0. /\ Types /\ Types' /\ RequestorInv /\ p \in Voters /\ p # Requestor
        /\ currentversion \in Nat /\ psm[p].version \in Nat /\ machine.version \in Nat
        /\ currentversion' \in Nat
    BY Parties, TypesStep, Fields DEF Layers, Types, machine
  <1>1. ASSUME createProposer(p),
               NEW r \in Proposals, Takes(p, r), Reset(p, r.version + 1, r.list)
        PROVE  /\ p \in telling' => psm'[p].version <= currentversion'
               /\ \A i \in DOMAIN requests'[p] : requests'[p][i].version >= psm'[p].version
    <2>0. r.version \in Nat /\ psm'[p].version = r.version + 1
      BY <1>1, Fields DEF Reset
    <2>3. UNCHANGED <<telling, currentversion>>
      BY <1>1 DEF createProposer, requestorVars
    <2>4. 1 \in DOMAIN requests[p] /\ requests[p][1] = r
      BY <1>1, Taken
    <2>5. p \in telling' => psm'[p].version <= currentversion'
      BY <1>0, <2>0, <2>3, <2>4 DEF Layers, RequestInv
    <2>6. ASSUME NEW i \in DOMAIN requests'[p]
          PROVE  requests'[p][i].version >= psm'[p].version
      <3>1. /\ i \in Nat /\ i >= 1 /\ i + 1 \in DOMAIN requests[p]
            /\ requests'[p][i] = requests[p][i + 1] /\ DOMAIN requests'[p] \subseteq Nat
        BY <1>1, <2>6, Taken
      <3>2. r.version < requests[p][i + 1].version
        BY <2>4, <3>1 DEF Layers, RequestInv, Rising
      <3>3. requests[p][i + 1].version \in Nat
        <4>1. requests[p] \in Seq(Proposals)
          BY <1>1 DEF Takes
        <4> QED
          BY <3>1, <4>1, Fields
      <3> QED
        BY <2>0, <3>1, <3>2, <3>3
    <2> QED
      BY <2>5, <2>6
  <1>2. CASE Votes(p) /\ psm'[p].version = psm[p].version
    <2>0. /\ p \notin unused
          /\ p \in telling => psm[p].version <= currentversion
          /\ \A i \in DOMAIN requests[p] : requests[p][i].version >= psm[p].version
      BY <1>2 DEF KeptInv
    <2>1. p \in telling' => psm'[p].version <= currentversion'
      <3>1. CASE changeAcceptor
        <4>1. machine.version = currentversion + 1 /\ currentversion' = machine.version
          BY <1>0, <3>1 DEF changeAcceptor, RequestorInv, machine
        <4>2. psm[p].version <= currentversion + 1
          BY <1>0 DEF Layers, VersionInv
        <4> QED
          BY <1>0, <1>2, <4>1, <4>2
      <3>2. CASE ~changeAcceptor /\ p \in telling'
        <4>1. telling' \subseteq telling
          BY <3>2, Frames DEF tell
        <4>2. UNCHANGED currentversion
          BY <3>2, <4>1, Telling
        <4> QED
          BY <1>2, <2>0, <3>2, <4>1, <4>2
      <3> QED
        BY <3>1, <3>2
    <2>2. ASSUME NEW i \in DOMAIN requests'[p]
          PROVE  requests'[p][i].version >= psm'[p].version
      <3>1. CASE requests'[p] = requests[p]
        BY <1>2, <2>0, <2>2, <3>1
      <3>2. ASSUME NEW r \in Proposals, IsSent(p, r), Request(p, r), r.version = currentversion
            PROVE  requests'[p][i].version >= psm'[p].version
        <4>1. p \in telling
          BY <2>0, <3>2 DEF Request
        <4> QED
          BY <1>2, <2>0, <2>2, <3>2, <4>1, Appended
      <3>3. ASSUME NEW r \in Proposals, Takes(p, r)
            PROVE  requests'[p][i].version >= psm'[p].version
        BY <1>2, <2>0, <2>2, <3>3, Taken
      <3> QED
        BY <1>0, <3>1, <3>2, <3>3, RequestStep
    <2> QED
      BY <2>1, <2>2
  <1> QED
    BY <1>0, <1>1, <1>2, VotesStep DEF Layers

(* Only the first request of a proposer may have come after a recovery.    *)
LEMMA ChangesStep ==
    ASSUME Layers, KeptInv, [Next]_vars, NEW p \in Proposers, NEW i \in DOMAIN requests'[p],
           i > 1 \/ psm'[p].version > 0
    PROVE  \E c \in decided' : IsChange(c, requests'[p][i].version)
  <1>0. Types /\ p \in Voters /\ p # Requestor /\ psm[p].version \in Nat
    BY Parties, Fields DEF Layers, Types
  <1>1. decided \subseteq decided'
    BY <1>0, DecidedStep DEF DecidedGrows
  <1>2. ASSUME NEW j \in DOMAIN requests[p], j > 1 \/ psm[p].version > 0,
               requests'[p][i] = requests[p][j]
        PROVE  \E c \in decided' : IsChange(c, requests'[p][i].version)
    BY <1>1, <1>2 DEF KeptInv
  <1>3. CASE requests'[p] = requests[p]
    <2>1. CASE psm'[p].version = psm[p].version
      BY <1>2, <1>3, <2>1
    <2>2. ASSUME NEW m \in answers, proposerReads(p, m) PROVE FALSE
      <3>1. requests[p] = <<>>
        BY <1>0, <2>2, ProposerReadsEffect
      <3> QED
        BY <1>3, <3>1
    <2>3. ASSUME NEW r \in Proposals, Takes(p, r) PROVE FALSE
      BY <1>3, <2>3, Taken
    <2> QED
      BY <1>0, <2>1, <2>2, <2>3, MachineStep DEF Stays
  <1>4. ASSUME NEW r \in Proposals, IsSent(p, r), Request(p, r), r.version = currentversion
        PROVE  \E c \in decided' : IsChange(c, requests'[p][i].version)
    <2>1. psm' = psm
      BY <1>4 DEF Request, tell, requestProposer
    <2>2. CASE p \in telling
      <3>1. machine.state = "WON" /\ currentversion = machine.version
        BY <2>2 DEF Layers, RequestorInv
      <3>2. machine.proposal \in decided
        BY <3>1, Parties DEF Layers, KnownInv, machine
      <3>3. IsChange(machine.proposal, currentversion)
        BY <3>1 DEF Layers, RequestorInv, IsChange, AcceptorChange
      <3> QED
        BY <1>1, <1>2, <1>4, <2>1, <3>2, <3>3, Appended
    <2>3. CASE p \in unused
      <3>1. requests[p] = <<>> /\ psm[p].version = 0
        BY <2>3 DEF Layers, RequestInv, KeptInv
      <3>2. i = 1
        BY <1>4, <3>1, Appended
      <3> QED
        BY <2>1, <3>1, <3>2
    <2> QED
      BY <1>4, <2>2, <2>3 DEF Request
  <1>5. ASSUME NEW r \in Proposals, Takes(p, r)
        PROVE  \E c \in decided' : IsChange(c, requests'[p][i].version)
    <2>1. i + 1 \in DOMAIN requests[p] /\ i + 1 > 1 /\ requests'[p][i] = requests[p][i + 1]
      BY <1>5, Taken
    <2> QED
      BY <1>2, <2>1
  <1> QED
    BY <1>0, <1>3, <1>4, <1>5, RequestStep

(* A proposer ends with its own recovery or with another's.                *)
LEMMA EndsWithRecovery ==
    ASSUME Layers, [Next]_vars, NEW p \in Proposers,
           psm'[p].state = "PHASE3", psm[p].state # "PHASE3"
    PROVE  /\ psm'[p].version = psm[p].version
           /\ \E d \in decided : d.type = "RECOVERY" /\ d.version >= psm[p].version
  <1>0. Types /\ p \in Voters /\ p # Requestor /\ psm[p].version \in Nat
    BY Parties, Fields DEF Layers, Types
  <1>1. CASE sendCommitment(p)
    <2>1. psm[p].state = "WON" /\ psm'[p].version = psm[p].version
      BY <1>0, <1>1, SendCommitmentEffect DEF Ends, SameProposal
    <2>2. /\ psm[p].proposal \in decided /\ psm[p].proposal.type = "RECOVERY"
          /\ psm[p].proposal.version = psm[p].version
      BY <1>0, <2>1 DEF Layers, KnownInv
    <2> QED
      BY <1>0, <2>1, <2>2
  <1>2. ASSUME NEW m \in answers, proposerReads(p, m), m.outcome.type = "RECOVERY", Ends(p)
        PROVE  /\ psm'[p].version = psm[p].version
               /\ \E d \in decided : d.type = "RECOVERY" /\ d.version >= psm[p].version
    <2>1. m.to = p /\ m.outcome # Ack
      BY <1>0, <1>2, Constructors, ProposerReadsEffect
    <2>2. m.outcome \in decided /\ m.outcome.version >= psm[p].version
      BY <2>1 DEF Layers, KnownInv, VersionInv
    <2> QED
      BY <1>2, <2>2 DEF Ends, SameProposal
  <1>3. ASSUME NEW w \in Voters, w # p, Only(w) PROVE FALSE
    BY <1>0, <1>3 DEF Only
  <1>4. ASSUME NEW w \in Voters, NEW m \in answers, ReadsAck(w, m) PROVE FALSE
    BY <1>0, <1>3, <1>4 DEF ReadsAck
  <1>5. CASE proposeChange
    BY <1>0, <1>3, <1>5, ProposeChangeEffect, Parties DEF Proposes
  <1>6. CASE finishChange
    BY <1>0, <1>3, <1>6, FinishChangeEffect, Parties
  <1>7. ASSUME NEW q \in Proposers, createProposer(q) PROVE FALSE
    BY <1>0, <1>3, <1>7, CreateProposerEffect, Parties DEF Reset
  <1>8. ASSUME NEW q \in Proposers, startRecovery(q) PROVE FALSE
    BY <1>0, <1>3, <1>8, StartRecoveryEffect, Parties DEF Proposes
  <1>9. ASSUME NEW q \in Proposers, checkTimeout(q) PROVE FALSE
    BY <1>0, <1>3, <1>9, CheckTimeoutEffect, Parties
  <1>10. ASSUME NEW q \in Proposers, sendCommitment(q) PROVE q = p
    BY <1>0, <1>3, <1>10, SendCommitmentEffect, Parties DEF Ends
  <1>11. ASSUME NEW m \in answers, requestorReads(m) PROVE FALSE
    BY <1>0, <1>3, <1>4, <1>11, RequestorReadsEffect, Parties DEF Ends
  <1>12. ASSUME NEW q \in Proposers, NEW m \in answers, proposerReads(q, m)
         PROVE  q = p /\ m.outcome.type = "RECOVERY" /\ Ends(p)
    BY <1>0, <1>3, <1>4, <1>12, ProposerReadsEffect, Parties DEF Ends, Reset
  <1>13. ASSUME NEW m \in votes, handleVote(m) PROVE FALSE
    BY <1>0, <1>13, Voted
  <1> QED
    BY <1>1, <1>2, <1>5, <1>6, <1>7, <1>8, <1>9, <1>10, <1>11, <1>12, <1>13, Frames

LEMMA KeptStep == Layers /\ KeptInv /\ [Next]_vars => KeptInv'
  <1> SUFFICES ASSUME Layers, KeptInv, [Next]_vars, NEW p \in Proposers
               PROVE  /\ p \in unused' => psm'[p].version = 0 /\ ~Votes(p)'
                      /\ Votes(p)' =>
                            /\ p \in telling' => psm'[p].version <= currentversion'
                            /\ \A i \in DOMAIN requests'[p] :
                                  requests'[p][i].version >= psm'[p].version
                      /\ \A i \in DOMAIN requests'[p] : i > 1 \/ psm'[p].version > 0 =>
                            \E c \in decided' : IsChange(c, requests'[p][i].version)
                      /\ psm'[p].state = "PHASE3" =>
                            \E d \in decided' : d.type = "RECOVERY" /\ d.version >= psm'[p].version
    BY DEF KeptInv, IsChange
  <1>1. decided \subseteq decided'
    BY DecidedStep DEF DecidedGrows, Layers
  <1>2. ASSUME psm'[p].state = "PHASE3"
        PROVE  \E d \in decided' : d.type = "RECOVERY" /\ d.version >= psm'[p].version
    <2>1. CASE psm[p].state = "PHASE3"
      <3>1. \E d \in decided : d.type = "RECOVERY" /\ d.version >= psm[p].version
        BY <2>1 DEF KeptInv
      <3>2. psm'[p].version = psm[p].version
        BY <1>2, Parties, MachineStep DEF Layers, Stays, Reset
      <3> QED
        BY <1>1, <3>1, <3>2
    <2>2. CASE psm[p].state # "PHASE3"
      BY <1>1, <1>2, <2>2, EndsWithRecovery
    <2> QED
      BY <2>1, <2>2
  <1> QED
    BY <1>2, UnusedStep, LaterStep, ChangesStep

LEMMA KeptInit == Init => KeptInv
  <1> SUFFICES ASSUME Init, NEW p \in Proposers
               PROVE  psm[p] = Machine(0, {}) /\ ~Votes(p) /\ DOMAIN requests[p] = {}
    BY DEF KeptInv, Machine
  <1>1. psm[p] = Machine(0, {}) /\ psm[p].state = "INITIAL"
    BY Parties DEF Init, Machine
  <1>2. p \notin watching /\ votes = {} /\ answers = {} /\ requests[p] = <<>>
    BY DEF Init
  <1> QED
    BY <1>1, <1>2 DEF Votes

(* With the bound on lost acceptors of the theorems above: whoever carried  *)
(* a recovery out or learned of it in its own version is not asked again.   *)
THEOREM RecoveredStay ==
    ASSUME MaxLost <= 1, ExpectedAcceptors >= 2
    PROVE  Spec => []RecoveryIsKept
  <1>1. ASSUME SafetyLayers, KeptInv PROVE RecoveryIsKept
    <2> SUFFICES ASSUME NEW p \in Proposers, psm[p].state \in {"WON", "PHASE3"},
                        \A d \in decided : d.type = "RECOVERY" => ~(d.version > psm[p].version)
                 PROVE  p \notin telling /\ requests[p] = <<>>
      BY DEF RecoveryIsKept
    <2>0. /\ Layers /\ Types /\ p \in Voters /\ psm[p].version \in Nat
          /\ \A d \in decided : d.version \in Nat
          /\ currentversion \in Nat /\ Votes(p)
      BY <1>1, Parties, Fields DEF SafetyLayers, Layers, Types, Votes
    <2>1. PICK d \in decided : d.type = "RECOVERY" /\ d.version = psm[p].version
      <3>1. CASE psm[p].state = "WON"
        BY <2>0, <3>1 DEF Layers, KnownInv
      <3>2. CASE psm[p].state = "PHASE3"
        BY <1>1, <2>0, <3>2 DEF KeptInv
      <3> QED
        BY <3>1, <3>2
    <2>2. \A c \in decided : \A u \in Nat : IsChange(c, u) => ~(u >= psm[p].version)
      <3> SUFFICES ASSUME NEW c \in decided, NEW u \in Nat, IsChange(c, u), u >= psm[p].version
                   PROVE  FALSE
        OBVIOUS
      <3>1. c.version <= d.version
        BY <1>1, <2>1, NothingAfterRecovery DEF RecoveredOnce
      <3>2. c.version = d.version
        BY <2>0, <2>1, <3>1 DEF IsChange
      <3>3. c = d
        BY <1>1, <3>2 DEF SafetyLayers, OneDecisionPerVersion
      <3> QED
        BY <2>1, <3>3 DEF IsChange
    <2>3. p \notin telling
      <3> SUFFICES ASSUME p \in telling PROVE FALSE
        OBVIOUS
      <3>1. machine.state = "WON" /\ currentversion = machine.version
        BY <2>0 DEF Layers, RequestorInv
      <3>2. machine.proposal \in decided
        BY <2>0, <3>1, Parties DEF Layers, KnownInv, machine
      <3>3. IsChange(machine.proposal, currentversion)
        BY <2>0, <3>1 DEF Layers, RequestorInv, IsChange, AcceptorChange
      <3>4. currentversion >= psm[p].version
        BY <1>1, <2>0 DEF KeptInv
      <3> QED
        BY <2>0, <2>2, <3>2, <3>3, <3>4
    <2>4. requests[p] = <<>>
      <3>0. requests[p] \in Seq(Proposals)
        BY <2>0 DEF Types
      <3> SUFFICES ASSUME requests[p] # <<>> PROVE FALSE
        OBVIOUS
      <3>1. 1 \in DOMAIN requests[p] /\ requests[p][1].version \in Nat
        BY <3>0, Fields
      <3>2. requests[p][1].version >= psm[p].version
        BY <1>1, <2>0, <3>1 DEF KeptInv
      <3>3. psm[p].version > 0
        BY <2>0, <2>1 DEF Layers, VersionInv
      <3>4. \E c \in decided : IsChange(c, requests[p][1].version)
        BY <1>1, <3>1, <3>3 DEF KeptInv
      <3> QED
        BY <2>2, <3>1, <3>2, <3>4
    <2> QED
      BY <2>3, <2>4
  <1>2. SafetyLayers /\ [Next]_vars => SafetyLayers'
    BY SafetyStep
  <1>3. SafetyLayers /\ KeptInv /\ [Next]_vars => KeptInv'
    BY KeptStep DEF SafetyLayers
  <1>4. SafetyLayers /\ KeptInv => RecoveryIsKept
    BY <1>1
  <1> QED
    BY <1>2, <1>3, <1>4, SafetyInit, KeptInit, PTL DEF Spec

-----------------------------------------------------------------------------
(* The chain of decisions.                                                 *)

ProposesItself(p) == psm[p].state \in {"VOTING", "WON"} => psm[p].proposal.by = p

LEMMA ItselfStep ==
    ASSUME Types, [Next]_vars, NEW p \in Proposers, ProposesItself(p)
    PROVE  ProposesItself(p)'
  <1>0. p \in Voters /\ p # Requestor
    BY Parties
  <1>1. ASSUME NEW w \in Voters, NEW m \in answers, ReadsAck(w, m) PROVE ProposesItself(p)'
    BY <1>0, <1>1 DEF ReadsAck, Only, SameProposal, ProposesItself
  <1>2. ASSUME NEW w \in Voters, Ends(w) PROVE ProposesItself(p)'
    BY <1>0, <1>2 DEF Ends, Only, ProposesItself
  <1>3. ASSUME NEW w \in Voters, NEW v, NEW l, Only(w), Reset(w, v, l) PROVE ProposesItself(p)'
    BY <1>0, <1>3 DEF Only, Reset, ProposesItself
  <1>4. CASE UNCHANGED psm
    BY <1>4 DEF ProposesItself
  <1>5. CASE proposeChange
    BY <1>0, <1>5, ProposeChangeEffect DEF Proposes, Only, ProposesItself
  <1>6. CASE finishChange
    BY <1>3, <1>6, FinishChangeEffect, Parties
  <1>7. ASSUME NEW q \in Proposers, createProposer(q) PROVE ProposesItself(p)'
    BY <1>3, <1>7, CreateProposerEffect, Parties
  <1>8. ASSUME NEW q \in Proposers, startRecovery(q) PROVE ProposesItself(p)'
    <2>1. PICK d \in Proposals : d = Recovery(psm[q].version, q, taken[q] + 1) /\ Proposes(q, d)
      BY <1>8, StartRecoveryEffect
    <2>2. d.by = q
      BY <2>1 DEF Recovery
    <2> QED
      BY <1>0, <2>1, <2>2 DEF Proposes, Only, ProposesItself
  <1>9. ASSUME NEW q \in Proposers, checkTimeout(q) PROVE ProposesItself(p)'
    BY <1>0, <1>9, CheckTimeoutEffect DEF Only, ProposesItself
  <1>10. ASSUME NEW q \in Proposers, sendCommitment(q) PROVE ProposesItself(p)'
    BY <1>2, <1>10, SendCommitmentEffect, Parties
  <1>11. ASSUME NEW m \in answers, requestorReads(m) PROVE ProposesItself(p)'
    BY <1>1, <1>2, <1>11, RequestorReadsEffect, Parties
  <1>12. ASSUME NEW q \in Proposers, NEW m \in answers, proposerReads(q, m)
         PROVE  ProposesItself(p)'
    BY <1>1, <1>2, <1>3, <1>12, ProposerReadsEffect, Parties
  <1>13. ASSUME NEW m \in votes, handleVote(m) PROVE ProposesItself(p)'
    BY <1>0, <1>13, Voted DEF ProposesItself
  <1> QED
    BY <1>4, <1>5, <1>6, <1>7, <1>8, <1>9, <1>10, <1>11, <1>12, <1>13, Frames

LEMMA SeatStep == Layers /\ SeatInv /\ [Next]_vars => SeatInv'
  <1> SUFFICES ASSUME Layers, SeatInv, [Next]_vars PROVE SeatInv'
    OBVIOUS
  <1>0. Types /\ RequestorInv
    BY DEF Layers
  <1>1. telling' \cap Acceptors \subseteq heard'
    <2>1. CASE changeAcceptor
      <3>1. heard' = psm[Requestor].proposal.list /\ telling' = heard' \cup proposers
        BY <2>1 DEF changeAcceptor, recipients
      <3>2. proposers \cap Acceptors = {}
        BY <1>0, PartiesAssumption DEF Types, Voters
      <3> QED
        BY <3>1, <3>2
    <2>2. CASE ~changeAcceptor /\ UNCHANGED heard
      <3>1. telling' \subseteq telling
        BY <2>2, Frames DEF tell
      <3> QED
        BY <2>2, <3>1 DEF SeatInv
    <2>3. ASSUME NEW a \in Acceptors, loseAcceptor(a) PROVE telling' = {}
      BY <1>0, <2>3 DEF loseAcceptor, Select, RequestorInv, machine
    <2> QED
      BY <2>1, <2>2, <2>3, Frames
  <1>2. ASSUME NEW a \in Acceptors, NEW i \in DOMAIN requests'[a] PROVE a \in requests'[a][i].list
    <2>1. CASE requests'[a] = requests[a]
      BY <2>1 DEF SeatInv
    <2>2. ASSUME NEW r \in Proposals, IsSent(a, r), Request(a, r), r.list = heard
          PROVE  a \in requests'[a][i].list
      <3>1. a \in heard
        BY <2>2, Parties DEF Request, SeatInv
      <3> QED
        BY <2>2, <3>1, Appended DEF SeatInv
    <2>3. ASSUME NEW r \in Proposals, Takes(a, r) PROVE a \in requests'[a][i].list
      BY <2>3, Taken DEF SeatInv
    <2> QED
      BY <1>0, <2>1, <2>2, <2>3, RequestStep
  <1>3. ASSUME NEW p \in Proposers PROVE ProposesItself(p)'
    BY <1>0, <1>3, ItselfStep DEF SeatInv, ProposesItself
  <1> QED
    BY <1>1, <1>2, <1>3 DEF SeatInv, ProposesItself

LEMMA SeatInit == Init => SeatInv
  <1> SUFFICES ASSUME Init PROVE SeatInv
    OBVIOUS
  <1>1. telling = {} /\ \A x \in Acceptors : DOMAIN requests[x] = {}
    BY DEF Init
  <1>2. ASSUME NEW p \in Proposers PROVE psm[p].state = "INITIAL"
    BY Parties DEF Init, Machine
  <1> QED
    BY <1>1, <1>2 DEF SeatInv

(* What backs a decision was told by the change of the version before.     *)
LEMMA DecisionsChain ==
    ASSUME SafetyLayers
    PROVE  ChainInv
  <1> SUFFICES ASSUME NEW e \in decided, NEW u \in 1 .. e.version - 1
               PROVE  \E c \in decided : IsChange(c, u)
    BY DEF ChainInv
  <1>0. e.version \in Nat /\ machine.version \in Nat
    BY Fields, Parties DEF SafetyLayers, Layers, Types, machine
  <1>1. PICK c \in decided : IsChange(c, e.version - 1)
    <2>1. e.version > 1
      BY <1>0
    <2> QED
      BY <2>1 DEF SafetyLayers, BackedInv, Backed, Suits
  <1>2. c.version <= machine.version
    BY <1>1 DEF SafetyLayers, Layers, ChangeInv, IsChange
  <1>3. CASE u # e.version - 1
    <2>1. u \in 1 .. machine.version - 1
      BY <1>0, <1>1, <1>2, <1>3 DEF IsChange
    <2> QED
      BY <2>1 DEF SafetyLayers, Layers, ChangeInv
  <1> QED
    BY <1>1, <1>3

(* No machine goes over to another version or other acceptors.             *)
MachinesStay ==
    /\ \A w \in Voters : psm'[w].version = psm[w].version /\ psm'[w].list = psm[w].list
    /\ \A a \in Acceptors : asm'[a].version = asm[a].version

(* A voter decides.                                                        *)
DecidesAs(w) ==
    Wins(w, psm'[w].proposal) /\ decided' = decided \cup {psm'[w].proposal}

(* A voter's machine is replaced.                                          *)
Restarts(w) ==
    /\ Only(w) /\ decided' = decided /\ asm' = asm
    /\ \/ w = Requestor /\ finishChange
       \/ w \in Proposers /\ createProposer(w)
       \/ w \in Proposers /\ \E m \in answers : /\ proposerReads(w, m)
                                                /\ m.outcome.type = "ACCEPTORCHANGE"

LEMMA AnswerRead ==
    ASSUME Types, NEW w \in Voters, NEW m \in answers, asm' = asm,
           ReadsAck(w, m) \/ (Ends(w) /\ decided' = decided)
    PROVE  MachinesStay /\ (decided' = decided \/ DecidesAs(w))
  <1>1. MachinesStay
    BY DEF ReadsAck, Ends, Only, SameProposal, MachinesStay
  <1>2. CASE Ends(w) /\ decided' = decided
    BY <1>1, <1>2
  <1>3. CASE ReadsAck(w, m)
    BY <1>1, <1>3 DEF ReadsAck, SameProposal, DecidesAs, Wins
  <1> QED
    BY <1>1, <1>2, <1>3

(* A step decides once, or takes one machine to another version, or does    *)
(* neither.                                                                *)
LEMMA OneThingAStep ==
    ASSUME Types, [Next]_vars
    PROVE  \/ MachinesStay /\ (decided' = decided \/ \E w \in Voters : DecidesAs(w))
           \/ \E w \in Voters : Restarts(w)
           \/ /\ decided' = decided /\ psm' = psm
              /\ \E a \in Acceptors : createAcceptor(a)
  <1> USE Parties DEF requestorVars, proposerVars, connectionVars, historyVars
  <1>1. ASSUME NEW w \in Voters, NEW p \in Proposals, Proposes(w, p), psm[w].state # "WON",
               w \in watching \/ w = Requestor, asm' = asm
        PROVE  MachinesStay /\ (decided' = decided \/ DecidesAs(w))
    BY <1>1 DEF Proposes, Only, MachinesStay, DecidesAs, Wins
  <1>2. CASE UNCHANGED <<psm, asm, decided>>
    BY <1>2 DEF MachinesStay
  <1>3. CASE proposeChange
    <2>1. /\ psm[Requestor].state # "WON" /\ asm' = asm
          /\ \E c \in Proposals : Proposes(Requestor, c)
      BY <1>3, ProposeChangeEffect DEF proposeChange, missesAcceptor
    <2> QED
      BY <1>1, <2>1
  <1>4. ASSUME NEW p \in Proposers, startRecovery(p)
        PROVE  MachinesStay /\ (decided' = decided \/ DecidesAs(p))
    <2>1. /\ psm[p].state # "WON" /\ asm' = asm /\ p \in watching
          /\ \E d \in Proposals : Proposes(p, d)
      BY <1>4, StartRecoveryEffect DEF startRecovery
    <2> QED
      BY <1>1, <2>1
  <1>5. CASE finishChange
    BY <1>5, FinishChangeEffect DEF finishChange, Restarts
  <1>6. ASSUME NEW p \in Proposers, createProposer(p) PROVE Restarts(p)
    BY <1>6, CreateProposerEffect DEF createProposer, Restarts
  <1>7. ASSUME NEW p \in Proposers, checkTimeout(p)
        PROVE  MachinesStay /\ decided' = decided
    BY <1>7, CheckTimeoutEffect DEF checkTimeout, Only, SameProposal, MachinesStay
  <1>8. ASSUME NEW p \in Proposers, sendCommitment(p)
        PROVE  MachinesStay /\ decided' = decided
    BY <1>8, SendCommitmentEffect DEF sendCommitment, Ends, Only, SameProposal, MachinesStay
  <1>9. ASSUME NEW m \in answers, requestorReads(m)
        PROVE  MachinesStay /\ (decided' = decided \/ DecidesAs(Requestor))
    <2>1. asm' = asm
      BY <1>9 DEF requestorReads
    <2> QED
      BY <1>9, <2>1, RequestorReadsEffect, AnswerRead
  <1>10. ASSUME NEW p \in Proposers, NEW m \in answers, proposerReads(p, m)
         PROVE  \/ MachinesStay /\ (decided' = decided \/ DecidesAs(p))
                \/ Restarts(p)
    <2>1. asm' = asm
      BY <1>10 DEF proposerReads
    <2>2. CASE ReadsAck(p, m) \/ (Ends(p) /\ decided' = decided)
      BY <2>1, <2>2, AnswerRead
    <2>3. CASE m.outcome.type = "ACCEPTORCHANGE" /\ Only(p) /\ decided' = decided
      BY <1>10, <2>1, <2>3 DEF Restarts
    <2> QED
      BY <1>10, <2>2, <2>3, ProposerReadsEffect
  <1>11. ASSUME NEW m \in votes, handleVote(m) PROVE MachinesStay /\ decided' = decided
    <2>1. decided' = decided
      BY <1>11 DEF handleVote
    <2>2. \A w \in Voters : psm'[w].version = psm[w].version /\ psm'[w].list = psm[w].list
      BY <1>11, Voted
    <2>3. ASSUME NEW a \in Acceptors PROVE asm'[a].version = asm[a].version
      <3>1. \/ asm' = asm
            \/ asm' = [asm EXCEPT ![m.to].state = "PHASE2"]
        BY <1>11, Voted
      <3>2. asm \in [Acceptors -> AcceptorMachines]
        BY DEF Types
      <3> QED
        BY ONLY <2>3, <3>1, <3>2 DEF AcceptorMachines
    <2> QED
      BY <2>1, <2>2, <2>3 DEF MachinesStay
  <1>12. ASSUME NEW m \in commits, handleCommitment(m) PROVE MachinesStay /\ decided' = decided
    <2>1. psm' = psm /\ decided' = decided
      BY <1>12 DEF handleCommitment
    <2>2. \A a \in Acceptors : asm'[a].version = asm[a].version
      BY <1>12, CommitmentRead
    <2> QED
      BY <2>1, <2>2 DEF MachinesStay
  <1>13. ASSUME NEW a \in Acceptors, createAcceptor(a) PROVE decided' = decided /\ psm' = psm
    BY <1>13 DEF createAcceptor
  <1>14. CASE \/ stop \/ changeAcceptor \/ requestProposer
              \/ \E x \in Acceptors \cup Proposers : tell(x)
              \/ \E a \in Acceptors : loseAcceptor(a)
              \/ \E p \in Proposers : loseProposer(p)
              \/ UNCHANGED vars
    BY <1>2, <1>14 DEF stop, changeAcceptor, requestProposer, tell, loseAcceptor, loseProposer, vars
  <1> QED
    BY <1>3, <1>4, <1>5, <1>6, <1>7, <1>8, <1>9, <1>10, <1>11, <1>12, <1>13, <1>14, TwoKinds
       DEF RequestorStep, OtherStep

ChainLayers == SafetyLayers /\ SeatInv

(* The instance counts as the module that makes it does.                   *)
LEMMA SameCardinality == \A S : Chain!Cardinality(S) = Cardinality(S)
  BY Zenon DEF Chain!Cardinality, Cardinality

(* The mapping, program by program.                                        *)
LEMMA Mapped ==
    /\ \A w \in Voters : VersionOf[w] = psm[w].version /\ ListOf[w] = psm[w].list
    /\ \A a \in Acceptors : VersionOf[a] = asm[a].version
  BY PartiesAssumption DEF VersionOf, ListOf

(* What a voter decides is made in its version and by itself.              *)
OwnDecisions ==
    \A w \in Voters : psm[w].state = "WON" =>
       /\ psm[w].proposal \in decided
       /\ psm[w].proposal.by = w /\ psm[w].proposal.version = psm[w].version
       /\ psm[w].proposal.type = "ACCEPTORCHANGE" <=> w = Requestor

LEMMA DecisionsAreOwn ==
    ASSUME ChainLayers
    PROVE  OwnDecisions
  <1> SUFFICES ASSUME NEW w \in Voters, psm[w].state = "WON"
               PROVE  /\ psm[w].proposal \in decided
                      /\ psm[w].proposal.by = w /\ psm[w].proposal.version = psm[w].version
                      /\ psm[w].proposal.type = "ACCEPTORCHANGE" <=> w = Requestor
    BY DEF OwnDecisions
  <1>1. psm[w].proposal \in decided
    BY DEF ChainLayers, SafetyLayers, Layers, KnownInv
  <1>2. CASE w = Requestor
    <2>1. psm[w].proposal = AcceptorChange(psm[w].version, psm[w].proposal.list)
      BY <1>2 DEF ChainLayers, SafetyLayers, Layers, RequestorInv, machine
    <2> QED
      BY <1>1, <1>2, <2>1 DEF AcceptorChange
  <1>3. CASE w \in Proposers
    <2>1. psm[w].proposal.type = "RECOVERY" /\ psm[w].proposal.version = psm[w].version
      BY <1>3 DEF ChainLayers, SafetyLayers, Layers, KnownInv
    <2>2. psm[w].proposal.by = w
      BY <1>3 DEF ChainLayers, SeatInv
    <2> QED
      BY <1>1, <1>3, <2>1, <2>2, Parties
  <1> QED
    BY <1>2, <1>3 DEF Voters

(* A decision is a new end of the chain.                                   *)
LEMMA DecideRefines ==
    ASSUME ChainLayers, ChainLayers', ChainInv, ChainInv', MachinesStay,
           NEW w \in Voters, DecidesAs(w),
           psm'[w].proposal \notin decided,
           psm'[w].proposal \in decided',
           psm'[w].proposal.by = w, psm'[w].proposal.version = psm'[w].version,
           psm'[w].proposal.type = "ACCEPTORCHANGE" <=> w = Requestor
    PROVE  Chain!Next
  <1> DEFINE d == psm'[w].proposal
  <1>0. /\ d.version \in Nat /\ d.version >= 1
        /\ \A e \in decided : e \in decided' /\ e.version \in Nat /\ e.version >= 1
        /\ \A e \in decided : e.type = "RECOVERY" \/ e.type = "ACCEPTORCHANGE"
    <2>1. \A e \in decided' : e.version \in Nat /\ e.version >= 1
      BY Fields DEF ChainLayers, SafetyLayers, Layers, Types, VersionInv
    <2>2. \A e \in decided : e.type = "RECOVERY" \/ e.type = "ACCEPTORCHANGE"
      BY DEF ChainLayers, SafetyLayers, Layers, KnownInv
    <2> QED
      BY <2>1, <2>2 DEF DecidesAs
  <1>1. \A e \in decided', f \in decided' : e.version = f.version => e = f
    BY DEF ChainLayers, SafetyLayers, OneDecisionPerVersion
  <1>2. ASSUME NEW e \in decided PROVE e.version < d.version
    <2>1. e.version # d.version
      BY <1>0, <1>1
    <2>2. CASE e.version > d.version
      <3>1. d.version \in 1 .. e.version - 1
        BY <1>0, <2>2
      <3>2. PICK c \in decided : c.version = d.version
        BY <3>1 DEF ChainInv, IsChange
      <3> QED
        BY <1>0, <1>1, <3>2
    <2> QED
      BY <1>0, <2>1, <2>2
  <1>3. \A u \in 1 .. d.version - 1 :
           \E c \in decided : c.type = "ACCEPTORCHANGE" /\ c.version = u
    <2> SUFFICES ASSUME NEW u \in 1 .. d.version - 1
                 PROVE  \E c \in decided : c.type = "ACCEPTORCHANGE" /\ c.version = u
      OBVIOUS
    <2>1. PICK c \in decided' : c.type = "ACCEPTORCHANGE" /\ c.version = u
      BY DEF ChainInv, IsChange
    <2>2. c # d
      BY <1>0, <2>1
    <2> QED
      BY <2>1, <2>2 DEF DecidesAs
  <1>4. ASSUME NEW e \in decided PROVE e.type = "ACCEPTORCHANGE"
    <2>1. e.version \in 1 .. d.version - 1
      BY <1>0, <1>2
    <2>2. PICK c \in decided : c.type = "ACCEPTORCHANGE" /\ c.version = e.version
      BY <1>3, <2>1
    <2> QED
      BY <1>0, <1>1, <2>2
  <1>5. UNCHANGED <<VersionOf, ListOf>>
    BY DEF MachinesStay, VersionOf, ListOf
  <1>6. VersionOf[w] = d.version
    BY Mapped DEF MachinesStay
  <1>7. Chain!Decide(d)
    BY <1>2, <1>3, <1>4, <1>5, <1>6 DEF Chain!Decide, Chain!IsChange, DecidesAs
  <1> QED
    BY <1>7 DEF Chain!Next

(* A voter starts with acceptors of the change that began its version.     *)
LEMMA StartRefines ==
    ASSUME ChainLayers, NEW w \in Voters, Only(w), UNCHANGED <<asm, decided>>,
           NEW d \in decided, NEW k \in SUBSET Acceptors, Reset(w, d.version + 1, k),
           psm[w].version <= d.version + 1,
           d.type = "ACCEPTORCHANGE" => k \subseteq d.list /\ Cardinality(d.list \ k) <= MaxLost,
           w = Requestor => d.type = "ACCEPTORCHANGE" /\ k = d.list
    PROVE  Chain!Next
  <1>1. VersionOf' = [VersionOf EXCEPT ![w] = d.version + 1]
    BY Parties DEF Only, Reset, VersionOf
  <1>2. ListOf' = [ListOf EXCEPT ![w] = k]
    BY DEF Only, Reset, ListOf
  <1>3. VersionOf[w] <= d.version + 1
    BY Mapped
  <1>4. \E l \in SUBSET Acceptors :
           /\ d.type = "ACCEPTORCHANGE" =>
                 l \subseteq d.list /\ Chain!Cardinality(d.list \ l) <= MaxLost
           /\ w = Requestor => l = d.list
           /\ ListOf' = [ListOf EXCEPT ![w] = l]
    BY <1>2, SameCardinality
  <1>5. Chain!Start(w, d)
    BY <1>1, <1>3, <1>4 DEF Chain!Start, Chain!IsChange
  <1> QED
    BY <1>5 DEF Chain!Next

LEMMA RestartRefines ==
    ASSUME ChainLayers, NEW w \in Voters, Restarts(w)
    PROVE  Chain!Next
  <1>0. /\ Types /\ Layers /\ Only(w) /\ UNCHANGED <<asm, decided>> /\ currentversion \in Nat
        /\ \A x \in Voters : psm[x].version \in Nat
        /\ \A d \in decided : d.version \in Nat /\ d.list \subseteq Acceptors
    BY Fields DEF ChainLayers, SafetyLayers, Layers, Types, Restarts
  <1>a. \A k \in SUBSET Acceptors : Cardinality(k \ k) <= MaxLost
    <2> SUFFICES ASSUME NEW k \in SUBSET Acceptors PROVE Cardinality(k \ k) <= MaxLost
      OBVIOUS
    <2>1. k \ k = {}
      OBVIOUS
    <2> QED
      BY <2>1, FS_EmptySet, ExpectedAssumption
  <1>1. CASE w = Requestor /\ finishChange
    <2> DEFINE d == psm[w].proposal
    <2>1. psm[w].state = "WON" /\ currentversion = psm[w].version
      BY <1>1 DEF finishChange
    <2>2. d \in decided /\ d.version = currentversion /\ d.type = "ACCEPTORCHANGE"
      BY <1>1, <2>1, DecisionsAreOwn DEF OwnDecisions
    <2>3. Reset(w, d.version + 1, d.list)
      BY <1>0, <1>1, <2>2, FinishChangeEffect
    <2>4. psm[w].version <= d.version + 1 /\ d.list \in SUBSET Acceptors
      BY <1>0, <2>1, <2>2
    <2> HIDE DEF d
    <2> QED
      BY <1>0, <1>a, <2>2, <2>3, <2>4, StartRefines
  <1>2. CASE w \in Proposers /\ createProposer(w)
    <2>1. PICK r \in Proposals : Takes(w, r) /\ Reset(w, r.version + 1, r.list)
      BY <1>0, <1>2, CreateProposerEffect
    <2>2. /\ r.version \in Nat /\ r.list \in SUBSET Acceptors
          /\ 1 \in DOMAIN requests[w] /\ requests[w][1] = r
      BY <2>1, Fields, Taken
    <2>3. /\ psm[w].version <= r.version + 1
          /\ r.version >= 1 /\ r.version <= currentversion
      BY <1>0, <1>2, <2>2 DEF Layers, RequestInv, VersionInv
    <2>4. IsTold(r.version, r.list) /\ r.version \in 1 .. currentversion
      BY <1>0, <1>2, <2>2, <2>3 DEF IsTold
    <2>5. Suits(r.version, r.list) \/ Ended(r.version)
      BY <2>2, <2>4 DEF ChainLayers, SafetyLayers, ListInv
    <2>6. PICK d \in decided :
             /\ d.version = r.version
             /\ \/ d.type = "RECOVERY"
                \/ r.list \subseteq d.list /\ Cardinality(d.list \ r.list) <= MaxLost
      BY <2>5 DEF Suits, IsChange, Ended
    <2>7. w # Requestor
      BY <1>2, Parties
    <2>8. d.type = "ACCEPTORCHANGE" =>
             r.list \subseteq d.list /\ Cardinality(d.list \ r.list) <= MaxLost
      BY <2>6
    <2>9. Reset(w, d.version + 1, r.list) /\ psm[w].version <= d.version + 1
      BY <2>1, <2>3, <2>6
    <2> QED
      BY <1>0, <2>2, <2>7, <2>8, <2>9, StartRefines
  <1>3. ASSUME NEW m \in answers, w \in Proposers, proposerReads(w, m),
               m.outcome.type = "ACCEPTORCHANGE"
        PROVE  Chain!Next
    <2> DEFINE d == m.outcome
    <2>1. d # Ack /\ d \in Proposals /\ w # Requestor
      BY <1>0, <1>3, Constructors, Fields, Parties DEF Types
    <2>2. d \in decided
      BY <1>0, <2>1 DEF Layers, KnownInv
    <2>3. m.to = w /\ Reset(w, d.version + 1, d.list)
      BY <1>0, <1>3, <2>1, Constructors, ProposerReadsEffect DEF ReadsAck
    <2>4. d.version >= psm[w].version
      BY <1>0, <2>1, <2>3 DEF Layers, VersionInv
    <2>5. psm[w].version <= d.version + 1 /\ d.list \in SUBSET Acceptors
      BY <1>0, <2>2, <2>4
    <2> HIDE DEF d
    <2> QED
      BY <1>0, <1>a, <2>1, <2>2, <2>3, <2>5, StartRefines
  <1> QED
    BY <1>1, <1>2, <1>3 DEF Restarts

(* An acceptor goes on to a later version, of a change that chose it.      *)
LEMMA JoinRefines ==
    ASSUME ChainLayers, NEW a \in Acceptors, createAcceptor(a), UNCHANGED <<psm, decided>>
    PROVE  Chain!Next
  <1>0. Types /\ Layers /\ a \notin Voters
    BY Parties, PartiesAssumption DEF ChainLayers, SafetyLayers, Layers
  <1>1. PICK r \in Proposals : /\ Takes(a, r)
                               /\ \A b \in Acceptors : b # a => asm'[b] = asm[b]
                               /\ asm'[a].version = r.version + 1
    BY <1>0, CreateAcceptorEffect
  <1>2. 1 \in DOMAIN requests[a] /\ requests[a][1] = r
    BY <1>1, Taken
  <1>3. r \in decided /\ r.type = "ACCEPTORCHANGE"
    BY <1>0, <1>2 DEF Layers, KnownInv
  <1>4. a \in r.list
    BY <1>2 DEF ChainLayers, SeatInv
  <1>5. r.version >= asm[a].version
    BY <1>0, <1>2 DEF Layers, RequestInv
  <1>6. r.version \in Nat /\ asm[a].version \in Nat
    BY <1>0, Fields DEF Types
  <1>7. VersionOf' = [VersionOf EXCEPT ![a] = r.version + 1]
    BY <1>0, <1>1 DEF VersionOf
  <1>8. ListOf' = ListOf
    BY DEF ListOf
  <1>9. VersionOf[a] < r.version + 1
    BY <1>5, <1>6, Mapped
  <1>10. Chain!Join(a, r)
    BY <1>3, <1>4, <1>7, <1>8, <1>9 DEF Chain!Join, Chain!IsChange
  <1> QED
    BY <1>3, <1>10 DEF Chain!Next

LEMMA ChainStepRefines ==
    ASSUME ChainLayers, ChainLayers', ChainInv, ChainInv', OwnDecisions', [Next]_vars
    PROVE  [Chain!Next]_(Chain!vars)
  <1>1. CASE MachinesStay /\ decided' = decided
    <2>1. UNCHANGED <<decided, VersionOf, ListOf>>
      BY <1>1 DEF MachinesStay, VersionOf, ListOf
    <2> QED
      BY <2>1 DEF Chain!vars
  <1>2. ASSUME NEW w \in Voters, MachinesStay, DecidesAs(w)
        PROVE  [Chain!Next]_(Chain!vars)
    <2> DEFINE d == psm'[w].proposal
    <2>1. CASE d \in decided
      <3>1. decided' = decided
        BY <1>2, <2>1 DEF DecidesAs
      <3> QED
        BY <1>1, <1>2, <3>1
    <2>2. CASE d \notin decided
      <3>1. psm'[w].state = "WON"
        BY <1>2 DEF DecidesAs, Wins
      <3>2. /\ d \in decided' /\ d.by = w /\ d.version = psm'[w].version
            /\ d.type = "ACCEPTORCHANGE" <=> w = Requestor
        BY <3>1 DEF OwnDecisions
      <3>3. Chain!Next
        BY <1>2, <2>2, <3>2, DecideRefines
      <3> QED
        BY <3>3
    <2> QED
      BY <2>1, <2>2
  <1> QED
    BY <1>1, <1>2, OneThingAStep, RestartRefines, JoinRefines
    DEF ChainLayers, SafetyLayers, Layers

LEMMA ChainInitRefines == Init => Chain!Init
  <1> SUFFICES ASSUME Init PROVE Chain!Init
    OBVIOUS
  <1>1. ASSUME NEW w \in Voters
        PROVE  psm[w].version = (IF w = Requestor THEN 1 ELSE 0) /\ psm[w].list = {}
    BY DEF Init, Machine
  <1>2. \A a \in Acceptors : asm[a].version = 0 /\ a # Requestor
    BY PartiesAssumption DEF Init, Voters
  <1>3. VersionOf = [x \in Acceptors \cup Voters |-> IF x = Requestor THEN 1 ELSE 0]
    BY <1>1, <1>2 DEF VersionOf
  <1>4. ListOf = [w \in Voters |-> {}]
    BY <1>1 DEF ListOf
  <1>5. decided = {}
    BY DEF Init
  <1> QED
    BY <1>3, <1>4, <1>5 DEF Chain!Init

(* The machines of all programs, through all versions, make one chain of    *)
(* decisions, if each version has two acceptors or more and loses at most   *)
(* one of them at a time: whoever is in a version was taken there by the    *)
(* decision before it, counts acceptors of that decision, and decides only  *)
(* in the first version that has not ended.                                 *)
THEOREM VersionsFormChain ==
    ASSUME MaxLost <= 1, ExpectedAcceptors >= 2
    PROVE  Spec => ImplementsChain
  <1>1. Init => ChainLayers
    BY SafetyInit, SeatInit DEF ChainLayers
  <1>2. ChainLayers /\ [Next]_vars => ChainLayers'
    BY SafetyStep, SeatStep DEF ChainLayers, SafetyLayers
  <1>3. ChainLayers => ChainInv /\ OwnDecisions
    BY DecisionsChain, DecisionsAreOwn DEF ChainLayers
  <1>4. ChainLayers /\ ChainLayers' /\ [Next]_vars => [Chain!Next]_(Chain!vars)
    <2>1. (ChainLayers => ChainInv /\ OwnDecisions)'
      BY <1>3, PTL
    <2> QED
      BY <1>3, <2>1, ChainStepRefines
  <1> QED
    BY <1>1, <1>2, <1>4, ChainInitRefines, PTL DEF Spec, ImplementsChain, Chain!Spec
=============================================================================
