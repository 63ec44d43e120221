-------------------------- MODULE MCPaxosVote --------------------------
(***************************************************************************)
(* Small instances of PaxosVote for TLC.                                   *)
(***************************************************************************)
EXTENDS PaxosVoteInv, TLC

CONSTANTS p1, p2, p3, r1, a1, a2, a3

NoOne == {}
OneProposer == {p1}
TwoProposers == {p1, p2}
ThreeProposers == {p1, p2, p3}
OneRequestor == {r1}
ProposerAndRequestor == {p1, r1}
OneAcceptor == {a1}
OtherAcceptor == {a2}
TwoAcceptors == {a1, a2}
ThreeAcceptors == {a1, a2, a3}

Broker == [ip |-> 10, port |-> 5672]
NewList == <<31, 32, 33>>

(* proposer.cpp takes backups from a list; namelist.cpp scores each 100. *)
BackupAt(n) == [ip |-> n, port |-> 5672, score |-> 100]
SameBackup == [p \in Proposers |-> {BackupAt(21)}]
AnyOfTwoBackups == [p \in Proposers |-> {BackupAt(21), BackupAt(22)}]
DifferentBackups ==
    [p \in Proposers |-> {CASE p = p1 -> BackupAt(21)
                            [] p = p2 -> BackupAt(22)
                            [] p = p3 -> BackupAt(23)}]

(* Each type of proposal, two values of every field, acceptor lists of      *)
(* different lengths and orders, and the largest score an int still holds.  *)
Brokers == [ip : {1, 2}, port : {1, 2}]
Scored(s) == [ip : {1, 2}, port : {1}, score : s]
EveryKind ==
    {NoProposal}
    \cup {RecoveryProposal(2, f, b) : f \in Brokers, b \in Scored({0, HalfRange - 1})}
    \cup {AcceptorChangeProposal(2, l) : l \in {<<>>, <<1>>, <<1, 2>>, <<2, 1>>, <<2, 2>>}}

(* Acceptors that may and may not forget differ; the other sets a cfg gives *)
(* hold all acceptors or none, and all proposers or none.  Not for a cfg    *)
(* with DifferentBackups.                                                   *)
Symmetry ==
    Permutations(Proposers) \cup Permutations(ForgetfulAcceptors)
        \cup Permutations(Acceptors \ ForgetfulAcceptors)
=============================================================================
