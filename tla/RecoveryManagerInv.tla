----------------------- MODULE RecoveryManagerInv -----------------------
(***************************************************************************)
(* The inductive invariant of RecoveryManager: which thread runs while the *)
(* main loop does what, and how far a copy is.                             *)
(***************************************************************************)
EXTENDS RecoveryManager

RealJobs == [src : Brokers, old : Brokers]

(* A thread runs exactly while the main loop waits for it. *)
ThreadInv ==
    /\ adder.at # "none" <=> main = "addBroker"
    /\ copier.at # "none" <=> main = "copyObjects"
    /\ adder.at # "none" => adder.broker \in Brokers
    /\ copier.at # "none" => copier.from \in Brokers /\ copier.to \in Brokers

(* The broker that a thread adds is not in bavec before it is entered.      *)
AdderInv ==
    /\ adder.at = "connect" => ~ isAdded(adder.broker)
    /\ adder.at \in {"read", "done"} => isAdded(adder.broker)
    /\ main = "addBroker" /\ next = "reroute" => job \in RealJobs /\ adder.broker = job.src
    /\ main \in {"reroute", "bridges"} => job \in RealJobs

(* The copy goes through the types in their order. *)
AllOf(type) == copier.todo \subseteq {o \in copier.snapshot : o.type = type}
OrderInv ==
    \/ copier.types = CopyOrder /\ copier.todo = {}
    \/ copier.types = <<"queue", "binding", "link">> /\ AllOf("exchange")
    \/ copier.types = <<"binding", "link">> /\ AllOf("queue")
    \/ copier.types = <<"link">> /\ AllOf("binding")
    \/ copier.types = <<>> /\ AllOf("link")

(* What of the snapshot has still to be copied. *)
pending(o) ==
    \/ o \in copier.todo \cup copier.link
    \/ \E i \in 1 .. Len(copier.types) : copier.types[i] = o.type
    \/ o.type = "bridge" /\ copier.at # "done"

CopyInv ==
    /\ copier.at # "none" => copier.snapshot = {o \in mirror : o.broker = copier.from}
    /\ copier.at \in {"connect", "broker"} => copier.todo = {} /\ copier.link = {}
    /\ copier.at = "copy" =>
          /\ OrderInv
          /\ copier.link \subseteq {o \in copier.snapshot : o.type = "link"}
          /\ copier.link # {} => copier.types = <<>>
    /\ copier.at \in {"bridges", "done"} =>
          copier.types = <<>> /\ copier.todo = {} /\ copier.link = {}
    /\ copier.at \in {"copy", "bridges", "done"} /\ copier.to \in up =>
          \A o \in copier.snapshot :
              references(o) \subseteq copier.snapshot /\ ~ pending(o) =>
                  moved(o, copier.to) \in content

(* What RecoveryManagerProofs proves to be inductive: every broker is       *)
(* entered at most once and only by the thread that the main loop waits for,*)
(* and whatever a copy has passed is at the backup.                         *)
RecoveryInvariant ==
    TypeOK /\ ThreadInv /\ AdderInv /\ OneEntryPerBroker /\ SourceIsAdded /\ CopyInv
=============================================================================
