--------------------------- MODULE VersionChain ---------------------------
(***************************************************************************)
(* What the voting versions of a service promise, without requests, votes  *)
(* and machines.  Decisions form a chain: each ends the version after the  *)
(* last one, and a recovery is the end of the chain.  A program is in a     *)
(* version only after the decision that began it; a voter measures its     *)
(* majority by the acceptors of that decision, of which it may miss some,  *)
(* and an acceptor starts once in a version, one that chose it.            *)
(*                                                                         *)
(* Reconfig implements this specification as long as each version has two  *)
(* acceptors or more and at most one of them is lost at a time.            *)
(***************************************************************************)
EXTENDS Integers, FiniteSets

CONSTANTS
    Acceptors, Voters,
    Requestor,   \* the voter that decides who accepts
    MaxLost      \* how many acceptors of a version its voters may miss

VARIABLES
    decided,     \* the decisions: of a type, a version, a list of acceptors and by a voter
    version,     \* version[x]: the version program x votes or accepts in
    list         \* list[w]: the acceptors voter w counts

vars == <<decided, version, list>>

IsChange(d) == d.type = "ACCEPTORCHANGE"

Init ==
    /\ decided = {}
    /\ version = [x \in Acceptors \cup Voters |-> IF x = Requestor THEN 1 ELSE 0]
    /\ list = [w \in Voters |-> {}]

(* A voter ends its version, which must be the first that has not ended. *)
Decide(d) ==
    /\ d.by \in Voters /\ d.version = version[d.by]
    /\ IsChange(d) <=> d.by = Requestor
    /\ \A e \in decided : IsChange(e) /\ e.version < d.version
    /\ \A u \in 1 .. d.version - 1 : \E e \in decided : e.version = u
    /\ decided' = decided \cup {d}
    /\ UNCHANGED <<version, list>>

(* A voter starts anew in the version after d, with acceptors of d. *)
Start(w, d) ==
    /\ version[w] <= d.version + 1
    /\ version' = [version EXCEPT ![w] = d.version + 1]
    /\ w = Requestor => IsChange(d)
    /\ \E k \in SUBSET Acceptors :
          /\ IsChange(d) => k \subseteq d.list /\ Cardinality(d.list \ k) <= MaxLost
          /\ w = Requestor => k = d.list
          /\ list' = [list EXCEPT ![w] = k]
    /\ UNCHANGED decided

(* An acceptor forgets what it accepted only to go on to a later version. *)
Join(a, d) ==
    /\ version[a] < d.version + 1
    /\ IsChange(d) /\ a \in d.list
    /\ version' = [version EXCEPT ![a] = d.version + 1]
    /\ UNCHANGED <<decided, list>>

Next ==
    \/ \E d \in decided' : Decide(d)
    \/ \E d \in decided, w \in Voters : Start(w, d)
    \/ \E d \in decided, a \in Acceptors : Join(a, d)

Spec == Init /\ [][Next]_vars
=============================================================================
