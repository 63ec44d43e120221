---------------------------- MODULE ReconfigInv ----------------------------
(***************************************************************************)
(* The inductive invariant of Reconfig, in the order in which its parts    *)
(* are proved: each part is inductive given those before it.               *)
(***************************************************************************)
EXTENDS Reconfig

machine == psm[Requestor]

(* The requestor knows where it is: its version, its machine's version and  *)
(* the acceptors it hears agree with what it is doing.                      *)
RequestorInv ==
    /\ machine.version >= 1
    /\ changing <=> machine.state # "INITIAL"
    /\ machine.state \in {"INITIAL", "VOTING"} => currentversion = machine.version - 1
    /\ machine.state = "WON" => currentversion \in {machine.version - 1, machine.version}
    /\ machine.state = "WON" /\ currentversion = machine.version =>
          heard = machine.proposal.list
    /\ telling # {} => machine.state = "WON" /\ currentversion = machine.version
    /\ machine.state \notin {"VOTING", "WON"} =>
          (\A m \in votes : m.from # Requestor) /\ (\A m \in answers : m.to # Requestor)
    /\ machine.state # "WON" \/ currentversion = machine.version - 1 =>
          heard \subseteq machine.list /\ Cardinality(machine.list \ heard) <= MaxLost
    /\ machine.version = 1 =>
          machine.list = {} /\ (machine.state # "WON" => needchange /\ machine.state = "INITIAL")
    /\ machine.state \in {"VOTING", "WON"} =>
          /\ machine.proposal = AcceptorChange(machine.version, machine.proposal.list)
          /\ Cardinality(machine.proposal.list) = ExpectedAcceptors

(* Only what won is told of or committed.                                   *)
KnownInv ==
    /\ \A p \in Proposers : psm[p].state \in {"VOTING", "WON"} =>
          psm[p].proposal.type = "RECOVERY" /\ psm[p].proposal.version = psm[p].version
    /\ \A w \in Voters : psm[w].state = "WON" => psm[w].proposal \in decided
    /\ \A d \in decided :
          \/ d.type = "RECOVERY"
          \/ /\ d.type = "ACCEPTORCHANGE"
             /\ d = AcceptorChange(d.version, d.list)
             /\ Cardinality(d.list) = ExpectedAcceptors
    /\ \A a \in Acceptors : \A i \in DOMAIN requests[a] :
          requests[a][i] \in decided /\ requests[a][i].type = "ACCEPTORCHANGE"
    /\ \A m \in commits : m.proposal \in decided
    /\ \A a \in Acceptors : \/ asm[a].lastcommit \in decided
                            \/ asm[a].version = 0 /\ asm[a].state = "PHASE1"
    /\ \A m \in answers : m.outcome = Ack \/ m.outcome \in decided
    /\ \A p \in watching : psm[p].version >= 1
    /\ \A m \in votes : m.proposal.version >= 1

(* What is on a voter's connections is about the proposal it makes now,     *)
(* and what it counts was accepted.                                         *)
ConnectionInv ==
    /\ \A m \in votes : m.from # Nobody =>
          /\ m.proposal = psm[m.from].proposal
          /\ m.proposal.version = psm[m.from].version
          /\ m.to \in psm[m.from].list
    /\ \A w \in Voters :
          /\ psm[w].connected \subseteq psm[w].list /\ psm[w].acks \subseteq psm[w].list
          /\ \A a \in psm[w].acks : <<a, psm[w].proposal>> \in accepted
    /\ \A m \in answers : m.outcome = Ack =>
          <<m.from, psm[m.to].proposal>> \in accepted /\ m.from \in psm[m.to].list
    /\ \A p \in watching :
          /\ psm[p].state = "INITIAL"
          /\ (\A m \in votes : m.from # p) /\ (\A m \in answers : m.to # p)

IsChange(d, v) == d.type = "ACCEPTORCHANGE" /\ d.version = v

(* Acceptor changes are decided one version after the other, by the         *)
(* requestor, whose machine holds the list of the last one.                 *)
ChangeInv ==
    /\ \A d \in decided : d.type = "ACCEPTORCHANGE" =>
          /\ d.version <= machine.version
          /\ d.version = machine.version => machine.state = "WON" /\ machine.proposal = d
    /\ \A u \in 1 .. machine.version - 1 : \E c \in decided : IsChange(c, u)
    /\ \A c, d \in decided : IsChange(c, d.version) /\ IsChange(d, c.version) => c = d
    /\ machine.version > 1 =>
          \E c \in decided : IsChange(c, machine.version - 1) /\ c.list = machine.list

(* A version ended by a recovery. *)
Ended(v) == \E d \in decided : d.type = "RECOVERY" /\ d.version = v

AcceptorVersions(a) ==
    /\ asm[a].version <= currentversion + 1
    /\ asm[a].lastcommit.type = "ACCEPTORCHANGE" => asm[a].lastcommit.version <= currentversion
    /\ asm[a].state = "PHASE3" => asm[a].lastcommit.version = asm[a].version

(* Nobody is more than one version ahead of the requestor, and an acceptor  *)
(* change is known to others only when the requestor carries it out.        *)
VersionInv ==
    /\ \A w \in Voters : psm[w].version <= currentversion + 1
    /\ \A a \in Acceptors : AcceptorVersions(a)
    /\ \A d \in decided : d.version >= 1 /\ d.version <= currentversion + 1
    /\ \A d \in decided : d.type = "RECOVERY" => d.version >= 2
    /\ \A p \in Proposers :
          p \in watching \/ psm[p].state \in {"VOTING", "WON"} => psm[p].version >= 2
    /\ \A x \in Acceptors \cup Proposers : \A i \in DOMAIN requests[x] :
          requests[x][i].version >= 1 /\ requests[x][i].version <= currentversion
    /\ \A m \in commits : m.proposal.type = "ACCEPTORCHANGE" => m.proposal.version <= currentversion
    /\ \A m \in answers : m.outcome # Ack =>
          /\ m.outcome.type = "ACCEPTORCHANGE" => m.outcome.version <= currentversion
          /\ m.outcome.version >= psm[m.to].version
    /\ machine.state = "PHASE3" => currentversion = machine.version /\ Ended(machine.version)

Rising(s) == \A i, j \in DOMAIN s : i < j => s[i].version < s[j].version

(* The requests of a program are for later and later versions, and for none *)
(* before its machine's.                                                    *)
RequestInv ==
    /\ \A x \in Acceptors \cup Proposers : Rising(requests[x])
    /\ \A x \in telling : \A i \in DOMAIN requests[x] : requests[x][i].version < currentversion
    /\ \A a \in Acceptors : \A i \in DOMAIN requests[a] :
          requests[a][i].version >= asm[a].version
    /\ \A a \in telling \cap Acceptors : asm[a].version <= currentversion
    /\ \A p \in Proposers : \A i \in DOMAIN requests[p] :
          requests[p][i].version + 1 >= psm[p].version
    /\ \A p \in unused \cap Proposers :
          requests[p] = <<>> /\ p \notin proposers /\ p \notin telling

(* An acceptor accepts one proposal a version, and only in a version that   *)
(* an acceptor change began.                                                *)
AcceptedInv ==
    /\ \A e \in accepted :
          /\ e[2].version >= 1 /\ e[2].version <= asm[e[1]].version
          /\ e[2].version = asm[e[1]].version => asm[e[1]].state # "PHASE1"
          /\ \E c \in decided : IsChange(c, e[2].version - 1)
    /\ \A e, f \in accepted : e[1] = f[1] /\ e[2].version = f[2].version => e = f
    /\ \A a \in Acceptors : asm[a].version > 0 =>
          \E c \in decided : IsChange(c, asm[a].version - 1)

(* Proposers are told a list of acceptors for the version after u, by a     *)
(* request or by a commitment.                                              *)
IsTold(u, k) ==
    \E p \in Proposers :
       \/ psm[p].version = u + 1 /\ psm[p].list = k
       \/ \E i \in DOMAIN requests[p] : requests[p][i].version = u /\ requests[p][i].list = k

(* A list that may be told: the committed one, or that without acceptors    *)
(* the requestor no longer hears.  As it hears fewer and fewer of them      *)
(* while a version lasts, such lists are nested.                            *)
Suits(u, k) ==
    \E c \in decided :
       /\ IsChange(c, u)
       /\ k \subseteq c.list /\ Cardinality(c.list \ k) <= MaxLost
       /\ u = currentversion => heard \subseteq k

Nested(k, l) == k \subseteq l \/ l \subseteq k

ListInv ==
    \A u \in 1 .. currentversion : \A k \in SUBSET Acceptors : IsTold(u, k) =>
       /\ Suits(u, k) \/ Ended(u)
       /\ \A l \in SUBSET Acceptors : IsTold(u, l) => Nested(k, l) \/ Ended(u)

(* As long as not all acceptors of a version are lost at a time.            *)
NonemptyInv ==
    \A u \in 1 .. currentversion : \A k \in SUBSET Acceptors : IsTold(u, k) => k # {}

(* Who decided: a majority of a list that nests with every one that any     *)
(* other voter of the version was told.                                     *)
Backed(d) ==
    \E l, Q \in SUBSET Acceptors :
       /\ Suits(d.version - 1, l)
       /\ Q \subseteq l /\ 2 * Cardinality(Q) > Cardinality(l)
       /\ \A a \in Q : <<a, d>> \in accepted
       /\ \A k \in SUBSET Acceptors : IsTold(d.version - 1, k) => Nested(k, l)

BackedInv == \A d \in decided : d.version > 1 => Backed(d)

(* The last version the requestor's change of acceptors ended.              *)
LastChange == IF machine.state = "PHASE3" THEN currentversion - 1 ELSE currentversion

(* Each acceptor of a version has been told of it or will be, before any    *)
(* proposer is, and each proposer that is heard, of the last one.           *)
ToldInv ==
    /\ \A c \in decided : c.type = "ACCEPTORCHANGE" /\ c.version <= currentversion =>
          \A a \in c.list : \/ a \in telling /\ c.version = currentversion
                            \/ asm[a].version > c.version
                            \/ \E i \in DOMAIN requests[a] : requests[a][i].version >= c.version
    /\ telling \cap Acceptors # {} =>
          /\ \A p \in watching : psm[p].version <= currentversion
          /\ \A m \in votes : m.proposal.version <= currentversion
          /\ \A p \in Proposers : \A i \in DOMAIN requests[p] :
                requests[p][i].version < currentversion
    /\ \A m \in votes :
          /\ m.proposal.version <= currentversion + 1
          /\ \/ Ended(m.proposal.version - 1)
             \/ \E c \in decided : IsChange(c, m.proposal.version - 1) /\ m.to \in c.list
    /\ \A p \in proposers :
          \/ psm[p].version > LastChange
          \/ p \in telling
          \/ \E i \in DOMAIN requests[p] : requests[p][i].version >= LastChange
    /\ \A p \in superseded \cap proposers : p \in telling \/ requests[p] # <<>>

(* Acceptors are told of lists they are in, and a proposer recovers itself. *)
SeatInv ==
    /\ telling \cap Acceptors \subseteq heard
    /\ \A a \in Acceptors : \A i \in DOMAIN requests[a] : a \in requests[a][i].list
    /\ \A p \in Proposers : psm[p].state \in {"VOTING", "WON"} => psm[p].proposal.by = p

(* Each version before one that ended was ended by an acceptor change.      *)
ChainInv ==
    \A e \in decided : \A u \in 1 .. e.version - 1 : \E c \in decided : IsChange(c, u)

(* A proposer that takes part in a vote was told of its version and will    *)
(* only be told of later ones, which an acceptor change began; only its     *)
(* first request may have come after a recovery.                            *)
Votes(p) ==
    \/ p \in watching \/ psm[p].state # "INITIAL"
    \/ \E m \in votes : m.from = p
    \/ \E m \in answers : m.to = p

KeptInv ==
    \A p \in Proposers :
        /\ p \in unused => psm[p].version = 0 /\ ~Votes(p)
        /\ Votes(p) =>
              /\ p \in telling => psm[p].version <= currentversion
              /\ \A i \in DOMAIN requests[p] : requests[p][i].version >= psm[p].version
        /\ \A i \in DOMAIN requests[p] : i > 1 \/ psm[p].version > 0 =>
              \E c \in decided : IsChange(c, requests[p][i].version)
        /\ psm[p].state = "PHASE3" =>
              \E d \in decided : d.type = "RECOVERY" /\ d.version >= psm[p].version
=============================================================================
