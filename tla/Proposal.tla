---------------------------- MODULE Proposal ----------------------------
(***************************************************************************)
(* The proposals that QpidR's voters vote on (include/paxos.h, class       *)
(* Proposal and its three subclasses) and the order the acceptors keep     *)
(* between them (paxosproposal.cpp).                                       *)
(*                                                                         *)
(* An IP address and a port are numbers: strcmp orders addresses as the    *)
(* numbers are ordered.  A recovery proposal's score is an unsigned that   *)
(* the code converts to int when it compares proposals of different types; *)
(* HalfRange is 2^31 there, a small number for TLC.                        *)
(***************************************************************************)
EXTENDS Integers, Sequences

CONSTANT HalfRange

ASSUME HalfRangeAssumption == HalfRange \in Nat \ {0}

NoProposal == [type |-> "NOPROPOSAL", newversion |-> 0]

RecoveryProposal(version, fail, backup) ==
    [type |-> "RECOVERYPROPOSAL", newversion |-> version,
     failip |-> fail.ip, failport |-> fail.port,
     backupip |-> backup.ip, backupport |-> backup.port, score |-> backup.score]

AcceptorChangeProposal(version, newlist) ==
    [type |-> "ACCEPTORCHANGEPROPOSAL", newversion |-> version, acceptor |-> newlist]

-----------------------------------------------------------------------------
(* The unsigned score read as an int. *)
AsInt(u) == IF u < HalfRange THEN u ELSE u - 2 * HalfRange

getValue(p) ==
    CASE p.type = "NOPROPOSAL"             -> -2
      [] p.type = "ACCEPTORCHANGEPROPOSAL" -> -1
      [] p.type = "RECOVERYPROPOSAL"       -> AsInt(p.score)

(* The fields of a proposal in the order compare() examines them: each one  *)
(* decides only when all the earlier ones are equal.  The acceptor list is  *)
(* compared position by position, so the order of its elements matters.     *)
ComparedFields(p) ==
    CASE p.type = "NOPROPOSAL"             -> <<>>
      [] p.type = "ACCEPTORCHANGEPROPOSAL" -> <<Len(p.acceptor)>> \o p.acceptor
      [] p.type = "RECOVERYPROPOSAL"       ->
           <<p.score, p.backupip, p.failip, p.backupport, p.failport>>

(* s exceeds t at the first position where they differ.  Sequences of       *)
(* different lengths differ at their first element here, the length.        *)
FirstDifferenceExceeds(s, t) ==
    \E i \in DOMAIN s \cap DOMAIN t :
        /\ s[i] > t[i]
        /\ \A j \in 1 .. i - 1 : s[j] = t[j]

(* A comparison that lets any larger field decide. *)
AnyFieldExceeds(s, t) == \E i \in DOMAIN s \cap DOMAIN t : s[i] > t[i]

compareWithoutPriority(p, q) ==
    IF p.type # q.type
    THEN IF getValue(p) > getValue(q) THEN 1 ELSE -1
    ELSE IF ComparedFields(p) = ComparedFields(q) THEN 0
         ELSE IF AnyFieldExceeds(ComparedFields(p), ComparedFields(q)) THEN 1 ELSE -1

(* The three compare() methods: the sign of their result. *)
compare(p, q) ==
    IF p.type # q.type
    THEN IF getValue(p) > getValue(q) THEN 1 ELSE -1
    ELSE IF ComparedFields(p) = ComparedFields(q) THEN 0
         ELSE IF FirstDifferenceExceeds(ComparedFields(p), ComparedFields(q)) THEN 1 ELSE -1
=============================================================================
