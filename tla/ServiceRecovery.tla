------------------------- MODULE ServiceRecovery -------------------------
(***************************************************************************)
(* What QpidR promises of a service whose broker fails, without programs,  *)
(* votes or messages: one backup is chosen, the objects of the broker are  *)
(* copied to it, and only then do the links into the broker follow, each   *)
(* of them once and to that backup.  That a backup is chosen does not mean *)
(* that the broker failed: its heartbeats may have been late.  Links do    *)
(* not follow unless its host looks dead.  RecoveryFlow implements this.   *)
(***************************************************************************)
CONSTANTS
    Links,
    Backups,
    Old          \* where the links lead at first

VARIABLES
    failed,      \* does the broker's host look dead to those who try it?
    chosen,      \* the backup, once there is one
    moved,       \* were the broker's objects copied to it?
    leadsTo      \* leadsTo[w]: the broker link w leads to

vars == <<failed, chosen, moved, leadsTo>>

Init ==
    /\ failed = FALSE
    /\ chosen = {}
    /\ moved = FALSE
    /\ leadsTo = [w \in Links |-> Old]

Fail ==
    /\ ~failed
    /\ failed' = TRUE
    /\ UNCHANGED <<chosen, moved, leadsTo>>

Choose(b) ==
    /\ chosen = {}
    /\ chosen' = {b}
    /\ UNCHANGED <<failed, moved, leadsTo>>

Move ==
    /\ chosen # {}
    /\ ~moved
    /\ moved' = TRUE
    /\ UNCHANGED <<failed, chosen, leadsTo>>

Follow(w, b) ==
    /\ failed /\ moved
    /\ b \in chosen
    /\ leadsTo[w] = Old
    /\ leadsTo' = [leadsTo EXCEPT ![w] = b]
    /\ UNCHANGED <<failed, chosen, moved>>

Next ==
    \/ Fail \/ Move
    \/ \E b \in Backups : Choose(b)
    \/ \E w \in Links, b \in Backups : Follow(w, b)

Spec == Init /\ [][Next]_vars
=============================================================================
