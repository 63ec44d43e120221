----------------------- MODULE MCRecoveryManager -----------------------
(***************************************************************************)
(* A small instance of RecoveryManager for TLC: a watched broker f whose   *)
(* backup is b, with a link and a bridge to d, whose backup is n.          *)
(***************************************************************************)
EXTENDS RecoveryManagerInv, TLC

CONSTANTS f, b, d, n, e, q, x

BackupValue == f :> b @@ b :> n @@ d :> n @@ n :> b
FourBrokers == {f, b, d, n}
OneBroker == {f}
DestinationsBackup == {n}
AllButFailing == {b, n}
NoName == {}
ThreeNames == {e, q, x}

link == object(f, "link", <<d>>)
bridge == object(f, "bridge", <<d, x>>)
wired == {object(f, "exchange", <<e>>),
          object(f, "queue", <<q>>),
          object(f, "binding", <<e, q>>),
          link, bridge}
atTheStart == wired \ {bridge}
onlyBridge == {bridge}
=============================================================================
