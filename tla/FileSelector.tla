-------------------------- MODULE FileSelector --------------------------
(***************************************************************************)
(* The select loop all QpidR programs are built around                     *)
(* (common/fileselector.cpp): a table of registered descriptors, in the    *)
(* order in which the ready ones are served, as a sequence.  What select   *)
(* does to the timeout is modelled where the loop is, in Monitor.          *)
(***************************************************************************)
EXTENDS Integers, Sequences

Registered(t) == {t[i] : i \in DOMAIN t}
EachOnce(t) == \A i, j \in DOMAIN t : t[i] = t[j] => i = j

(* A descriptor is entered once, at the end. *)
registerFD(t, fd) == IF fd \in Registered(t) THEN t ELSE Append(t, fd)

(* The last descriptor takes the place of the one that leaves. *)
unregisterFD(t, fd) ==
    IF fd \notin Registered(t) THEN t
    ELSE LET gone == CHOOSE i \in DOMAIN t : t[i] = fd
         IN  [j \in 1 .. Len(t) - 1 |-> IF j = gone THEN t[Len(t)] ELSE t[j]]

(* getReadReadyFD answers with the first registered descriptor that is      *)
(* readable.                                                                *)
FirstReady(t, ready, fd) ==
    \E i \in DOMAIN t :
        /\ t[i] = fd
        /\ fd \in ready
        /\ \A j \in 1 .. i - 1 : t[j] \notin ready
=============================================================================
