-------------------------- MODULE MCRecoveryFlow --------------------------
(***************************************************************************)
(* Small instances of RecoveryFlow for TLC.                                *)
(***************************************************************************)
EXTENDS RecoveryFlow, TLC

CONSTANTS p1, p2, w1, b1, b2

NoOne == {}
OneProposer == {p1}
TwoProposers == {p1, p2}
OneWait == {w1}
OneBackup == {b1}
TwoBackups == {b1, b2}
=============================================================================
