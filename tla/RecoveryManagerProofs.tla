--------------------- MODULE RecoveryManagerProofs ---------------------
(***************************************************************************)
(* Proofs about RecoveryManager: types, that a broker is entered once,     *)
(* that a rerouting finds its source, and that a copy is complete.         *)
(***************************************************************************)
EXTENDS RecoveryManagerInv, SequenceTheorems, TLAPS

(* An object is what its three fields say. *)
LEMMA ObjectFields ==
    ASSUME NEW o \in AllObjects
    PROVE  /\ o = object(o.broker, o.type, o.key)
           /\ o.broker \in Brokers /\ o.type \in Types
           /\ o.type \in {"exchange", "queue"} => \E m \in Names : o.key = <<m>>
           /\ o.type = "binding" => o.key \in Names \X Names
           /\ o.type = "link" => \E d \in Brokers : o.key = <<d>>
           /\ o.type = "bridge" => o.key \in Brokers \X Names
  BY DEF AllObjects, object, Types

(* The same object at another broker. *)
LEMMA MovedObject ==
    ASSUME NEW o \in AllObjects, NEW b \in Brokers
    PROVE  /\ moved(o, b) \in AllObjects
           /\ moved(o, b) = object(b, o.type, o.key)
           /\ moved(o, b).broker = b /\ moved(o, b).type = o.type /\ moved(o, b).key = o.key
  BY DEF AllObjects, object, moved

(* A link and a bridge to any destination. *)
LEMMA LinkIsObject ==
    ASSUME NEW b \in Brokers, NEW d \in Brokers
    PROVE  object(b, "link", <<d>>) \in AllObjects
  BY DEF AllObjects, object

(* So is a bridge over it. *)
LEMMA BridgeIsObject ==
    ASSUME NEW b \in Brokers, NEW d \in Brokers, NEW m \in Names
    PROVE  object(b, "bridge", <<d, m>>) \in AllObjects
  BY DEF AllObjects, object

(* What an object refers to is at the same broker, and moves with it. *)
LEMMA References ==
    ASSUME NEW o \in AllObjects
    PROVE  \A r \in references(o) :
              /\ r \in AllObjects /\ r.broker = o.broker
              /\ o.type = "binding" => r.type \in {"exchange", "queue"}
              /\ o.type = "bridge" => r.type = "link"
  <1>1. CASE o.type = "binding"
    <2>1. o.broker \in Brokers /\ o.key[1] \in Names /\ o.key[2] \in Names
      BY <1>1, ObjectFields
    <2>2. references(o) = {object(o.broker, "exchange", <<o.key[1]>>),
                           object(o.broker, "queue", <<o.key[2]>>)}
      BY <1>1 DEF references
    <2> QED
      BY <1>1, <2>1, <2>2 DEF AllObjects, object
  <1>2. CASE o.type = "bridge"
    <2>1. o.broker \in Brokers /\ o.key[1] \in Brokers
      BY <1>2, ObjectFields
    <2>2. references(o) = {object(o.broker, "link", <<o.key[1]>>)}
      BY <1>2 DEF references
    <2> QED
      BY <1>2, <2>1, <2>2 DEF AllObjects, object
  <1>3. CASE o.type \notin {"binding", "bridge"}
    BY <1>3 DEF references
  <1> QED
    BY <1>1, <1>2, <1>3

(* Moving an object and taking its references commute. *)
LEMMA MovedReferences ==
    ASSUME NEW o \in AllObjects, NEW b \in Brokers
    PROVE  references(moved(o, b)) = {moved(r, b) : r \in references(o)}
  <1>1. moved(o, b).broker = b /\ moved(o, b).type = o.type /\ moved(o, b).key = o.key
    BY MovedObject
  <1>2. \A t, k : moved(object(o.broker, t, k), b) = object(b, t, k)
    BY DEF moved, object
  <1>3. CASE o.type = "binding"
    BY <1>1, <1>2, <1>3 DEF references
  <1>4. CASE o.type = "bridge"
    BY <1>1, <1>2, <1>4 DEF references
  <1>5. CASE o.type \notin {"binding", "bridge"}
    BY <1>1, <1>5 DEF references
  <1> QED
    BY <1>3, <1>4, <1>5
-----------------------------------------------------------------------------
(* Types *)

(* What a broker creates are objects. *)
LEMMA CreateTypes ==
    ASSUME content \subseteq AllObjects, operational \subseteq {l \in content : l.type = "link"},
           NEW new \in SUBSET AllObjects, create(new)
    PROVE  content' \subseteq AllObjects /\ operational' \subseteq {l \in content' : l.type = "link"}
  BY DEF create, created

(* The bridges that copyBridges makes are objects. *)
LEMMA CopyBridgesTypes ==
    ASSUME content \subseteq AllObjects, operational \subseteq {l \in content : l.type = "link"},
           NEW known \in SUBSET AllObjects, NEW src \in Brokers, NEW newsrc \in Brokers,
           NEW D \in SUBSET Brokers, NEW dest \in [D -> Brokers],
           copyBridges(known, src, newsrc, dest)
    PROVE  content' \subseteq AllObjects /\ operational' \subseteq {l \in content' : l.type = "link"}
  <1> DEFINE old == {m \in known : /\ m.type = "bridge" /\ m.broker = src
                                   /\ references(m) \subseteq known
                                   /\ m.key[1] \in DOMAIN dest}
             new == {object(newsrc, "bridge", <<dest[o.key[1]], o.key[2]>>) : o \in old}
  <1>1. ASSUME NEW o \in old
        PROVE  object(newsrc, "bridge", <<dest[o.key[1]], o.key[2]>>) \in AllObjects
    <2>1. o.key \in Brokers \X Names
      BY ObjectFields
    <2>2. dest[o.key[1]] \in Brokers /\ o.key[2] \in Names
      BY <2>1
    <2> QED
      BY <2>2, BridgeIsObject
  <1>2. new \in SUBSET AllObjects
    BY <1>1
  <1>3. create(new)
    BY DEF copyBridges
  <1> HIDE DEF new
  <1> QED
    BY <1>2, <1>3, CreateTypes

(* Events written to the pipe and read from it. *)
LEMMA SendTypes ==
    ASSUME pipe \in Seq(Events), Len(pipe) < PipeSize, NEW e \in Events, pipe' = Append(pipe, e)
    PROVE  pipe' \in Seq(Events) /\ Len(pipe') <= PipeSize
  BY PipeAssumption

(* deleteBroker removes the only entry of a broker, if there is one. *)
LEMMA DeleteTypes ==
    ASSUME bavec \in Seq(Brokers), OneEntryPerBroker, NEW b, deleteBroker(b)
    PROVE  bavec' \in Seq(Brokers) /\ OneEntryPerBroker'
  <1>1. CASE isAdded(b)
    <2> DEFINE i == getBrokerIndexByAddress(b)
    <2>1. PICK k \in 1 .. Len(bavec) : bavec[k] = b
      BY <1>1 DEF isAdded
    <2>2. \A j \in 1 .. (k - 1) : bavec[j] # b
      BY <2>1 DEF OneEntryPerBroker
    <2>3. i \in 1 .. Len(bavec)
      BY <2>1, <2>2 DEF getBrokerIndexByAddress
    <2>4. bavec' = SubSeq(bavec, 1, i - 1) \o SubSeq(bavec, i + 1, Len(bavec))
      BY <1>1 DEF deleteBroker
    <2> HIDE DEF i
    <2> DEFINE p == SubSeq(bavec, 1, i - 1)
               q == SubSeq(bavec, i + 1, Len(bavec))
    <2>6. /\ p \in Seq(Brokers) /\ Len(p) = i - 1
          /\ \A j \in 1 .. (i - 1) : p[j] = bavec[j]
      BY <2>3
    <2>7. /\ q \in Seq(Brokers) /\ Len(q) = Len(bavec) - i
          /\ \A j \in 1 .. (Len(bavec) - i) : q[j] = bavec[i + j]
      BY <2>3
    <2>8. bavec' = p \o q
      BY <2>4
    <2> HIDE DEF p, q
    <2>9. bavec' \in Seq(Brokers) /\ Len(bavec') = Len(bavec) - 1
      <3>1. bavec' \in Seq(Brokers) /\ Len(bavec') = Len(p) + Len(q)
        BY <2>6, <2>7, <2>8, ConcatProperties
      <3>2. Len(bavec) \in Nat
        OBVIOUS
      <3> QED
        BY <2>3, <2>6, <2>7, <3>1, <3>2
    <2>10. ASSUME NEW j \in 1 .. Len(bavec')
           PROVE  bavec'[j] = bavec[IF j < i THEN j ELSE j + 1]
      <3>1. CASE j < i
        <4>1. bavec'[j] = p[j]
          BY <3>1, <2>3, <2>6, <2>7, <2>8
        <4> QED
          BY <3>1, <4>1, <2>3, <2>6
      <3>2. CASE ~ (j < i)
        <4>1. bavec'[j] = q[j - (i - 1)]
          BY <3>2, <2>3, <2>6, <2>7, <2>8, <2>9
        <4>2. j - (i - 1) \in 1 .. (Len(bavec) - i) /\ i + (j - (i - 1)) = j + 1
          BY <3>2, <2>3, <2>9
        <4> QED
          BY <3>2, <4>1, <4>2, <2>7
      <3> QED
        BY <3>1, <3>2
    <2> QED
      BY <2>3, <2>9, <2>10 DEF OneEntryPerBroker
  <1>2. CASE ~ isAdded(b)
    <2>1. bavec' = bavec
      BY <1>2 DEF deleteBroker
    <2> QED
      BY <2>1 DEF OneEntryPerBroker
  <1> QED
    BY <1>1, <1>2

(* The states of the threads. *)
LEMMA AdderTypes ==
    /\ NoAdder \in Adders
    /\ \A b \in Brokers : [NoAdder EXCEPT !.at = "connect", !.broker = b] \in Adders
    /\ \A a \in Adders : [a EXCEPT !.at = "done"] \in Adders
    /\ \A a \in Adders, s \in SUBSET AllObjects : [a EXCEPT !.batch = s] \in Adders
    /\ \A a \in Adders, t \in Seq(Types), s \in SUBSET AllObjects :
           /\ [a EXCEPT !.at = "read", !.types = t] \in Adders
           /\ [a EXCEPT !.types = t, !.batch = s] \in Adders
  <1>1. <<>> \in Seq(Types)
    OBVIOUS
  <1> QED
    BY <1>1 DEF Adders, NoAdder

(* The same for what the steps of the copy do to its thread. *)
LEMMA CopierTypes ==
    /\ NoCopier \in Copiers
    /\ \A from \in Brokers, to \in Brokers, s \in SUBSET AllObjects :
           [NoCopier EXCEPT !.at = "connect", !.from = from, !.to = to, !.snapshot = s] \in Copiers
    /\ \A c \in Copiers : \A at \in {"broker", "bridges", "done", "failed"} :
           [c EXCEPT !.at = at] \in Copiers
    /\ \A c \in Copiers, t \in Seq(Types) : [c EXCEPT !.at = "copy", !.types = t] \in Copiers
    /\ \A c \in Copiers, s \in SUBSET AllObjects, t \in Seq(Types) :
           /\ [c EXCEPT !.types = t, !.todo = s] \in Copiers
           /\ [c EXCEPT !.todo = s] \in Copiers
           /\ [c EXCEPT !.link = s] \in Copiers
    /\ \A c \in Copiers, s, l \in SUBSET AllObjects :
           [c EXCEPT !.todo = s, !.link = l] \in Copiers
  <1>1. <<>> \in Seq(Types)
    OBVIOUS
  <1> QED
    BY <1>1 DEF Copiers, NoCopier

(* The program starts with empty lists, the brokers with their objects. *)
LEMMA InitTypes == Init => TypeOK
  <1> SUFFICES ASSUME Init PROVE TypeOK
    OBVIOUS
  <1> USE DEF Init
  <1>1. pipe \in Seq(Events) /\ Len(pipe) <= PipeSize /\ bavec \in Seq(Brokers)
    <2>1. \A S : <<>> \in Seq(S)
      OBVIOUS
    <2> QED
      BY <2>1, PipeAssumption
  <1>2. content \subseteq AllObjects /\ operational \subseteq {l \in content : l.type = "link"}
    BY ObjectsAssumption
  <1>3. adder \in Adders /\ copier \in Copiers
    BY AdderTypes, CopierTypes
  <1> QED
    BY <1>1, <1>2, <1>3 DEF TypeOK, Jobs

(* Every step keeps the types; that a job is real and a thread has its     *)
(* brokers comes from the rest of the invariant.                           *)
LEMMA TypeStep ==
    ASSUME TypeOK, ThreadInv, AdderInv, OneEntryPerBroker, [Next]_vars
    PROVE  TypeOK'
  <1> USE DEF TypeOK, brokers, qmf, program, links
  <1>1. ASSUME NEW o \in Objects, clientCreates(o) PROVE TypeOK'
    BY <1>1, ObjectsAssumption DEF clientCreates
  <1>2. ASSUME NEW b \in Brokers, brokerFails(b) PROVE TypeOK'
    BY <1>2 DEF brokerFails
  <1>3. ASSUME NEW o \in content, objectProps(o) PROVE TypeOK'
    <2>1. OBJECTPROPERTY(o) \in Events
      BY DEF OBJECTPROPERTY, Events
    <2> QED
      BY <1>3, <2>1, SendTypes DEF objectProps, sendEventPtr
  <1>4. ASSUME NEW o \in operational, event(o) PROVE TypeOK'
    <2>1. o \in AllObjects
      OBVIOUS
    <2>2. CASE o.broker \in sessions
      <3>1. o.key[1] \in Brokers
        BY <2>1, ObjectFields
      <3>2. LINKDOWN(o.broker, o.key[1]) \in Events
        BY <3>1, <2>1, <2>2 DEF LINKDOWN, Events
      <3> QED
        BY <1>4, <2>2, <3>2, SendTypes DEF event, sendEventPtr
    <2>3. CASE o.broker \notin sessions
      BY <1>4, <2>3 DEF event
    <2> QED
      BY <2>2, <2>3
  <1>5. ASSUME NEW b \in Brokers, brokerDisconnected(b) PROVE TypeOK'
    <2>1. BROKERDISCONNECTION(b) \in Events
      BY DEF BROKERDISCONNECTION, Events
    <2> QED
      BY <1>5, <2>1, SendTypes DEF brokerDisconnected, sendEventPtr
  <1>6. CASE connectBroker
    <2>1. adder.broker \in Brokers
      BY <1>6 DEF connectBroker, ThreadInv
    <2>2. <<"link", "exchange", "queue", "binding", "bridge">> \in Seq(Types)
      BY DEF Types
    <2>3. adder' \in Adders
      BY <1>6, <2>2, AdderTypes DEF connectBroker
    <2>4. bavec' \in Seq(Brokers)
      BY <1>6, <2>1 DEF connectBroker
    <2> QED
      BY <1>6, <2>1, <2>3, <2>4 DEF connectBroker
  <1>7. CASE getObjects
    <2>1. CASE adder.types = <<>>
      BY <1>7, <2>1, AdderTypes DEF getObjects
    <2>2. CASE adder.types # <<>>
      <3>1. adder.types \in Seq(Types)
        BY DEF Adders
      <3>2. Tail(adder.types) \in Seq(Types) /\ objectsOfType(adder.types) \in SUBSET AllObjects
        BY <2>2, <3>1 DEF objectsOfType
      <3>3. adder' \in Adders
        BY <1>7, <2>2, <3>2, AdderTypes DEF getObjects
      <3> QED
        BY <1>7, <3>3 DEF getObjects
    <2> QED
      BY <2>1, <2>2
  <1>8. ASSUME NEW o \in adder.batch, addObjectProps(o) PROVE TypeOK'
    <2>1. adder.batch \in SUBSET AllObjects
      BY DEF Adders
    <2>2. OBJECTPROPERTY(o) \in Events
      BY <2>1 DEF OBJECTPROPERTY, Events
    <2>3. adder' \in Adders
      BY <1>8, <2>1, AdderTypes DEF addObjectProps
    <2> QED
      BY <1>8, <2>2, <2>3, SendTypes DEF addObjectProps, sendEventPtr
  <1>9. CASE joinAdder
    BY <1>9, AdderTypes DEF joinAdder
  <1>10. CASE connectBackup
    BY <1>10, CopierTypes DEF connectBackup
  <1>11. CASE getBackupBroker
    <2>1. CopyOrder \in Seq(Types)
      BY DEF CopyOrder, Types
    <2> QED
      BY <1>11, <2>1, CopierTypes DEF getBackupBroker
  <1>12. CASE nextType
    <2>1. CASE copier.types = <<>>
      BY <1>12, <2>1, CopierTypes DEF nextType
    <2>2. CASE copier.types # <<>>
      <3>1. copier.types \in Seq(Types) /\ copier.snapshot \in SUBSET AllObjects
        BY DEF Copiers
      <3>2. /\ Tail(copier.types) \in Seq(Types)
            /\ {o \in copier.snapshot : o.type = Head(copier.types)} \in SUBSET AllObjects
        BY <2>2, <3>1
      <3>3. copier' \in Copiers
        BY <1>12, <2>2, <3>2, CopierTypes DEF nextType
      <3> QED
        BY <1>12, <3>3 DEF nextType
    <2> QED
      BY <2>1, <2>2
  <1>13. ASSUME NEW o \in copier.todo, copyObject(o) PROVE TypeOK'
    <2>1. copier.to \in Brokers /\ copier.todo \in SUBSET AllObjects
      BY <1>13 DEF copyObject, ThreadInv, Copiers
    <2>2. (IF references(o) \subseteq copier.snapshot THEN {moved(o, copier.to)} ELSE {})
            \in SUBSET AllObjects
      BY <2>1, MovedObject
    <2>3. content' \subseteq AllObjects /\ operational' \subseteq {l \in content' : l.type = "link"}
      BY <1>13, <2>2, CreateTypes DEF copyObject
    <2>4. copier' \in Copiers
      <3>1. copier.todo \ {o} \in SUBSET AllObjects /\ copier.types \in Seq(Types)
        BY <2>1 DEF Copiers
      <3> QED
        BY <1>13, <3>1, CopierTypes DEF copyObject
    <2> QED
      BY <1>13, <2>3, <2>4 DEF copyObject
  <1>14. ASSUME NEW o \in copier.todo, probeLink(o) PROVE TypeOK'
    <2>0. copier.todo \in SUBSET AllObjects
      BY DEF Copiers
    <2>1. copier.to \in Brokers /\ o.key[1] \in Brokers
      BY <1>14, <2>0, ObjectFields DEF probeLink, ThreadInv
    <2>2. LINKDOWN(copier.to, o.key[1]) \in Events
      BY <2>1 DEF LINKDOWN, Events
    <2>3. pipe' \in Seq(Events) /\ Len(pipe') <= PipeSize
      <3>1. CASE o.key[1] \in up
        BY <1>14, <3>1 DEF probeLink
      <3>2. CASE o.key[1] \notin up
        <4>1. pipe' = Append(pipe, LINKDOWN(copier.to, o.key[1])) /\ Len(pipe) < PipeSize
          BY <1>14, <3>2 DEF probeLink, sendLinkDownEvent
        <4> QED
          BY <4>1, <2>2, SendTypes
      <3> QED
        BY <3>1, <3>2
    <2>4. copier' \in Copiers
      BY <1>14, <2>0, CopierTypes DEF probeLink
    <2> QED
      BY <1>14, <2>3, <2>4 DEF probeLink
  <1>15. CASE copyLink
    <2>1. copier.to \in Brokers
      BY <1>15 DEF copyLink, ThreadInv
    <2>0. copier.link \in SUBSET AllObjects
      BY DEF Copiers
    <2>2. {moved(o, copier.to) : o \in copier.link} \in SUBSET AllObjects
      BY <2>0, <2>1, MovedObject
    <2>3. content' \subseteq AllObjects /\ operational' \subseteq {l \in content' : l.type = "link"}
      BY <1>15, <2>2, CreateTypes DEF copyLink
    <2> QED
      <3>1. {} \in SUBSET AllObjects /\ copier.types \in Seq(Types)
        BY DEF Copiers
      <3>2. copier' \in Copiers
        BY <1>15, <3>1, CopierTypes DEF copyLink
      <3> QED
        BY <1>15, <2>3, <3>2 DEF copyLink
  <1>16. CASE copyAllBridges
    <2>1. copier.from \in Brokers /\ copier.to \in Brokers
      BY <1>16 DEF copyAllBridges, ThreadInv
    <2> DEFINE dest == [b \in Brokers |-> b]
    <2>0. dest \in [Brokers -> Brokers] /\ copier.snapshot \in SUBSET AllObjects
      BY DEF Copiers
    <2>3. copyBridges(copier.snapshot, copier.from, copier.to, dest)
      BY <1>16 DEF copyAllBridges
    <2> HIDE DEF dest
    <2>2. content' \subseteq AllObjects /\ operational' \subseteq {l \in content' : l.type = "link"}
      BY <2>0, <2>1, <2>3, CopyBridgesTypes
    <2> QED
      BY <1>16, <2>2, CopierTypes DEF copyAllBridges
  <1>17. CASE joinCopier
    BY <1>17, CopierTypes DEF joinCopier
  <1>18. CASE rerouteEnds
    BY <1>18 DEF rerouteEnds, Jobs
  <1>19. CASE copyToNewDest
    <2>1. job.src \in Brokers /\ Backup[job.old] \in Brokers
      BY <1>19, BackupAssumption DEF copyToNewDest, AdderInv, RealJobs
    <2>2. CASE job.src \in up
      <3>1. {object(job.src, "link", <<Backup[job.old]>>)} \in SUBSET AllObjects
        BY <2>1, LinkIsObject
      <3>2. content' \subseteq AllObjects /\ operational' \subseteq {l \in content' : l.type = "link"}
        BY <1>19, <2>2, <3>1, CreateTypes DEF copyToNewDest
      <3> QED
        BY <1>19, <2>2, <3>2 DEF copyToNewDest
    <2>3. CASE job.src \notin up
      BY <1>19, <2>3 DEF copyToNewDest
    <2> QED
      BY <2>2, <2>3
  <1>20. CASE rerouteBridges
    <2>1. job.src \in Brokers /\ job.old \in Brokers
      BY <1>20 DEF rerouteBridges, AdderInv, RealJobs
    <2>2. toNewDest(job.old) \in [{job.old} -> Brokers]
      BY <2>1, BackupAssumption DEF toNewDest
    <2>3. content' \subseteq AllObjects /\ operational' \subseteq {l \in content' : l.type = "link"}
      <3>1. copyBridges(mirror, job.src, job.src, toNewDest(job.old)) /\ mirror \in SUBSET AllObjects
        BY <1>20 DEF rerouteBridges
      <3>2. {job.old} \in SUBSET Brokers
        BY <2>1
      <3> QED
        BY <2>1, <2>2, <3>1, <3>2, CopyBridgesTypes
    <2> QED
      BY <1>20, <2>3 DEF rerouteBridges, Jobs
  <1>21. ASSUME NEW b \in Brokers, participateRequest(b) PROVE TypeOK'
    BY <1>21, AdderTypes DEF participateRequest, addBroker, joinThread
  <1>22. ASSUME NEW b \in Brokers, startRecovery(b) PROVE TypeOK'
    <2>1. bavec' \in Seq(Brokers)
      BY <1>22, DeleteTypes DEF startRecovery
    <2> QED
      BY <1>22, <2>1 DEF startRecovery
  <1>23. ASSUME NEW b \in Brokers, handleCommit(b) PROVE TypeOK'
    <2>1. CASE copyObjects(b, Backup[b])
      <3>1. Backup[b] \in Brokers /\ {o \in mirror : o.broker = b} \in SUBSET AllObjects
        BY BackupAssumption
      <3>2. copier' \in Copiers
        BY <2>1, <3>1, CopierTypes DEF copyObjects
      <3> QED
        BY <1>23, <2>1, <3>2 DEF handleCommit, copyObjects
    <2>2. CASE UNCHANGED <<main, copier>>
      BY <1>23, <2>2 DEF handleCommit
    <2> QED
      BY <1>23, <2>1, <2>2 DEF handleCommit
  <1>24. CASE handleEvent
    <2>1. pipe' \in Seq(Events) /\ Len(pipe') <= PipeSize /\ Head(pipe) \in Events
      <3>1. pipe # <<>> /\ pipe' = Tail(pipe)
        BY <1>24 DEF handleEvent
      <3>2. Head(pipe) \in Events /\ Tail(pipe) \in Seq(Events) /\ Len(Tail(pipe)) = Len(pipe) - 1
        BY <3>1, HeadTailProperties
      <3>3. Len(pipe) \in Nat
        OBVIOUS
      <3> QED
        BY <3>1, <3>2, <3>3, PipeAssumption
    <2>2. CASE Head(pipe).type = "OBJECTPROPERTY" /\ handleObjectProperty(Head(pipe).object)
      <3>1. Head(pipe).object \in AllObjects
        BY <2>1, <2>2 DEF Events
      <3>2. Head(pipe).object.type = "link" => Head(pipe).object.key[1] \in Brokers
        BY <3>1, ObjectFields
      <3> QED
        BY <1>24, <2>1, <2>2, <3>1, <3>2 DEF handleEvent, handleObjectProperty, addObjectInfo
    <2>3. CASE Head(pipe).type = "LINKDOWN" /\ handleLinkDown(Head(pipe).src, Head(pipe).dst)
      <3>1. Head(pipe).src \in Brokers /\ Head(pipe).dst \in Brokers
        BY <2>1, <2>3 DEF Events
      <3> QED
        BY <1>24, <2>1, <2>3, <3>1 DEF handleEvent, handleLinkDown
    <2>4. CASE /\ Head(pipe).type = "BROKERDISCONNECTION" /\ deleteBroker(Head(pipe).broker)
               /\ UNCHANGED <<mirror, links>>
      <3>1. bavec' \in Seq(Brokers)
        BY <2>4, DeleteTypes
      <3> QED
        BY <1>24, <2>1, <2>4, <3>1 DEF handleEvent
    <2> QED
      BY <1>24, <2>2, <2>3, <2>4 DEF handleEvent
  <1>25. ASSUME NEW l \in listening, readAddressChange(l[1], l[2]) PROVE TypeOK'
    <2>1. l[1] \in Brokers /\ l[2] \in Brokers
      OBVIOUS
    <2> QED
      <3>1. CASE l[1] \in up
        <4>1. addBroker(l[1], "reroute") /\ job' = [src |-> l[1], old |-> l[2]]
          BY <1>25, <3>1 DEF readAddressChange
        <4>2. /\ main' \in {"addBroker", "reroute"} /\ next' \in {"select", "reroute"}
              /\ adder' \in Adders
          BY <4>1, <2>1, AdderTypes DEF addBroker, joinThread
        <4> QED
          BY <1>25, <2>1, <4>1, <4>2 DEF readAddressChange, Jobs
      <3>2. CASE l[1] \notin up
        BY <1>25, <3>2 DEF readAddressChange
      <3> QED
        BY <3>1, <3>2
  <1>26. CASE UNCHANGED vars
    BY <1>26 DEF vars
  <1> QED
    BY <1>1, <1>2, <1>3, <1>4, <1>5, <1>6, <1>7, <1>8, <1>9, <1>10, <1>11, <1>12, <1>13,
       <1>14, <1>15, <1>16, <1>17, <1>18, <1>19, <1>20, <1>21, <1>22, <1>23, <1>24, <1>25, <1>26
       DEF Next, environment, sessionThreads, addBrokerThread, copyObjectsThread, mainLoop
-----------------------------------------------------------------------------
(* The threads *)

(* A thread is started when the main loop begins to wait for it, and the    *)
(* main loop goes on when the thread has ended.                             *)
LEMMA ThreadStep ==
    ASSUME TypeOK, ThreadInv, [Next]_vars
    PROVE  ThreadInv'
  <1>0. adder \in Adders /\ copier \in Copiers
    BY DEF TypeOK
  <1> USE <1>0 DEF ThreadInv, brokers, qmf, program, links
  <1>1. ASSUME NEW o \in Objects, clientCreates(o) PROVE ThreadInv'
    BY <1>1 DEF clientCreates
  <1>2. ASSUME NEW b \in Brokers, brokerFails(b) PROVE ThreadInv'
    BY <1>2 DEF brokerFails
  <1>3. ASSUME NEW o \in content, objectProps(o) PROVE ThreadInv'
    BY <1>3 DEF objectProps
  <1>4. ASSUME NEW o \in operational, event(o) PROVE ThreadInv'
    BY <1>4 DEF event
  <1>5. ASSUME NEW b \in Brokers, brokerDisconnected(b) PROVE ThreadInv'
    BY <1>5 DEF brokerDisconnected
  <1>6. CASE connectBroker
    BY <1>6 DEF connectBroker, Adders
  <1>7. CASE getObjects
    BY <1>7 DEF getObjects, Adders
  <1>8. ASSUME NEW o \in adder.batch, addObjectProps(o) PROVE ThreadInv'
    BY <1>8 DEF addObjectProps, Adders
  <1>9. CASE joinAdder
    BY <1>9 DEF joinAdder, NoAdder, TypeOK
  <1>10. CASE connectBackup
    BY <1>10 DEF connectBackup, Copiers
  <1>11. CASE getBackupBroker
    BY <1>11 DEF getBackupBroker, Copiers
  <1>12. CASE nextType
    BY <1>12 DEF nextType, Copiers
  <1>13. ASSUME NEW o \in copier.todo, copyObject(o) PROVE ThreadInv'
    BY <1>13 DEF copyObject, Copiers
  <1>14. ASSUME NEW o \in copier.todo, probeLink(o) PROVE ThreadInv'
    BY <1>14 DEF probeLink, Copiers
  <1>15. CASE copyLink
    BY <1>15 DEF copyLink, Copiers
  <1>16. CASE copyAllBridges
    BY <1>16 DEF copyAllBridges, Copiers
  <1>17. CASE joinCopier
    BY <1>17 DEF joinCopier, NoCopier
  <1>18. CASE rerouteEnds
    BY <1>18 DEF rerouteEnds
  <1>19. CASE copyToNewDest
    BY <1>19 DEF copyToNewDest
  <1>20. CASE rerouteBridges
    BY <1>20 DEF rerouteBridges
  <1>21. ASSUME NEW b \in Brokers, participateRequest(b) PROVE ThreadInv'
    BY <1>21 DEF participateRequest, addBroker, joinThread, NoAdder
  <1>22. ASSUME NEW b \in Brokers, startRecovery(b) PROVE ThreadInv'
    BY <1>22 DEF startRecovery
  <1>23. ASSUME NEW b \in Brokers, handleCommit(b) PROVE ThreadInv'
    BY <1>23, BackupAssumption DEF handleCommit, copyObjects, NoCopier
  <1>24. CASE handleEvent
    BY <1>24 DEF handleEvent
  <1>25. ASSUME NEW l \in listening, readAddressChange(l[1], l[2]) PROVE ThreadInv'
    <2>1. l[1] \in Brokers
      BY DEF TypeOK
    <2> QED
      BY <1>25, <2>1 DEF readAddressChange, addBroker, joinThread, NoAdder
  <1>26. CASE UNCHANGED vars
    BY <1>26 DEF vars
  <1> QED
    BY <1>1, <1>2, <1>3, <1>4, <1>5, <1>6, <1>7, <1>8, <1>9, <1>10, <1>11, <1>12, <1>13,
       <1>14, <1>15, <1>16, <1>17, <1>18, <1>19, <1>20, <1>21, <1>22, <1>23, <1>24, <1>25, <1>26
       DEF Next, environment, sessionThreads, addBrokerThread, copyObjectsThread, mainLoop

(* A broker is entered by the thread that was started for it, while the     *)
(* main loop waits: bavec changes under nobody's hands.                     *)
LEMMA AdderStep ==
    ASSUME TypeOK, ThreadInv, AdderInv, OneEntryPerBroker, SourceIsAdded, [Next]_vars
    PROVE  AdderInv' /\ OneEntryPerBroker' /\ SourceIsAdded'
  <1> DEFINE Goal == AdderInv /\ OneEntryPerBroker /\ SourceIsAdded
  <1> SUFFICES Goal'
    OBVIOUS
  <1>0. adder \in Adders /\ copier \in Copiers /\ bavec \in Seq(Brokers)
    BY DEF TypeOK
  <1>u. ASSUME UNCHANGED <<main, next, job, bavec, adder>> PROVE Goal'
    BY <1>u DEF AdderInv, OneEntryPerBroker, SourceIsAdded, isAdded
  <1> HIDE DEF Goal
  <1> USE <1>0 DEF brokers, qmf, program, links
  <1>1. ASSUME NEW o \in Objects, clientCreates(o) PROVE Goal'
    BY <1>1, <1>u DEF clientCreates
  <1>2. ASSUME NEW b \in Brokers, brokerFails(b) PROVE Goal'
    BY <1>2, <1>u DEF brokerFails
  <1>3. ASSUME NEW o \in content, objectProps(o) PROVE Goal'
    BY <1>3, <1>u DEF objectProps
  <1>4. ASSUME NEW o \in operational, event(o) PROVE Goal'
    BY <1>4, <1>u DEF event
  <1>5. ASSUME NEW b \in Brokers, brokerDisconnected(b) PROVE Goal'
    BY <1>5, <1>u DEF brokerDisconnected
  <1>6. CASE connectBroker
    <2>1. /\ adder.broker \in Brokers /\ ~ isAdded(adder.broker) /\ main = "addBroker"
          /\ bavec' = Append(bavec, adder.broker)
          /\ adder'.at = "read" /\ adder'.broker = adder.broker
          /\ UNCHANGED <<main, next, job>>
      BY <1>6 DEF connectBroker, ThreadInv, AdderInv, Adders
    <2>2. /\ Len(bavec') = Len(bavec) + 1 /\ Len(bavec) \in Nat
          /\ bavec'[Len(bavec) + 1] = adder.broker
          /\ \A i \in 1 .. Len(bavec) : bavec'[i] = bavec[i]
      BY <2>1, AppendProperties
    <2>3. \A i \in 1 .. Len(bavec) : bavec[i] # adder.broker
      BY <2>1 DEF isAdded
    <2>4. OneEntryPerBroker'
      BY <2>2, <2>3 DEF OneEntryPerBroker
    <2>5. isAdded(adder.broker)'
      BY <2>1, <2>2 DEF isAdded
    <2> QED
      BY <2>1, <2>4, <2>5 DEF Goal, AdderInv, SourceIsAdded
  <1>7. CASE getObjects
    <2>1. /\ adder.at = "read" /\ adder'.at \in {"read", "done"} /\ adder'.broker = adder.broker
          /\ UNCHANGED <<main, next, job, bavec>>
      BY <1>7 DEF getObjects, Adders
    <2> QED
      BY <2>1 DEF Goal, AdderInv, OneEntryPerBroker, SourceIsAdded, isAdded
  <1>8. ASSUME NEW o \in adder.batch, addObjectProps(o) PROVE Goal'
    <2>1. /\ adder'.at = adder.at /\ adder'.broker = adder.broker
          /\ UNCHANGED <<main, next, job, bavec>>
      BY <1>8 DEF addObjectProps, Adders
    <2> QED
      BY <2>1 DEF Goal, AdderInv, OneEntryPerBroker, SourceIsAdded, isAdded
  <1>9. CASE joinAdder
    <2>1. /\ main = "addBroker" /\ adder.at = "done" /\ main' = next /\ adder'.at = "none"
          /\ UNCHANGED <<next, job, bavec>>
      BY <1>9 DEF joinAdder, NoAdder
    <2> QED
      BY <2>1 DEF Goal, AdderInv, OneEntryPerBroker, SourceIsAdded, isAdded, TypeOK
  <1>10. CASE connectBackup
    BY <1>10, <1>u DEF connectBackup
  <1>11. CASE getBackupBroker
    BY <1>11, <1>u DEF getBackupBroker
  <1>12. CASE nextType
    BY <1>12, <1>u DEF nextType
  <1>13. ASSUME NEW o \in copier.todo, copyObject(o) PROVE Goal'
    BY <1>13, <1>u DEF copyObject
  <1>14. ASSUME NEW o \in copier.todo, probeLink(o) PROVE Goal'
    BY <1>14, <1>u DEF probeLink
  <1>15. CASE copyLink
    BY <1>15, <1>u DEF copyLink
  <1>16. CASE copyAllBridges
    BY <1>16, <1>u DEF copyAllBridges
  <1>s. ASSUME main' \in {"select", "copyObjects", "crashed"}, UNCHANGED <<bavec, adder>>,
               main # "addBroker"
        PROVE  Goal'
    <2>1. adder.at = "none"
      BY <1>s DEF ThreadInv, Adders
    <2> QED
      BY <1>s, <2>1 DEF Goal, AdderInv, OneEntryPerBroker, SourceIsAdded, isAdded
  <1>17. CASE joinCopier
    BY <1>17, <1>s DEF joinCopier
  <1>18. CASE rerouteEnds
    BY <1>18, <1>s DEF rerouteEnds
  <1>19. CASE copyToNewDest
    <2>1. CASE job.src \in up
      <3>1. main = "reroute" /\ main' = "bridges" /\ UNCHANGED <<next, job, bavec, adder>>
        BY <1>19, <2>1 DEF copyToNewDest
      <3> QED
        BY <3>1 DEF Goal, AdderInv, OneEntryPerBroker, SourceIsAdded, isAdded
    <2>2. CASE job.src \notin up
      BY <1>19, <2>2, <1>s DEF copyToNewDest
    <2> QED
      BY <2>1, <2>2
  <1>20. CASE rerouteBridges
    BY <1>20, <1>s DEF rerouteBridges
  <1>21. ASSUME NEW b \in Brokers, participateRequest(b) PROVE Goal'
    <2>1. CASE toBeAdded(b)
      <3>1. /\ main' = "addBroker" /\ next' = "select" /\ adder'.at = "connect"
            /\ adder'.broker = b /\ UNCHANGED <<job, bavec>>
        BY <1>21, <2>1 DEF participateRequest, addBroker, joinThread, NoAdder
      <3> QED
        BY <2>1, <3>1 DEF Goal, AdderInv, OneEntryPerBroker, SourceIsAdded, isAdded, toBeAdded
    <2>2. CASE ~ toBeAdded(b)
      BY <1>21, <2>2, <1>s DEF participateRequest, addBroker
    <2> QED
      BY <2>1, <2>2
  <1>d. ASSUME NEW b, deleteBroker(b), main = "select", UNCHANGED <<main, next, job, adder>>
        PROVE  Goal'
    <2>1. OneEntryPerBroker'
      BY <1>d, DeleteTypes
    <2>2. adder.at = "none"
      BY <1>d DEF ThreadInv, Adders
    <2> QED
      BY <1>d, <2>1, <2>2 DEF Goal, AdderInv, SourceIsAdded
  <1>22. ASSUME NEW b \in Brokers, startRecovery(b) PROVE Goal'
    BY <1>22, <1>d DEF startRecovery
  <1>23. ASSUME NEW b \in Brokers, handleCommit(b) PROVE Goal'
    BY <1>23, <1>s DEF handleCommit, copyObjects
  <1>24. CASE handleEvent
    <2>1. main = "select" /\ UNCHANGED <<main, next, job, adder>>
      BY <1>24 DEF handleEvent
    <2>2. UNCHANGED bavec \/ deleteBroker(Head(pipe).broker)
      BY <1>24 DEF handleEvent, handleObjectProperty, handleLinkDown
    <2> QED
      BY <2>1, <2>2, <1>u, <1>d
  <1>25. ASSUME NEW l \in listening, readAddressChange(l[1], l[2]) PROVE Goal'
    <2>1. l[1] \in Brokers /\ l[2] \in Brokers /\ UNCHANGED bavec /\ main = "select"
      BY <1>25 DEF readAddressChange, TypeOK
    <2>2. CASE l[1] \notin up
      BY <1>25, <2>1, <2>2, <1>u DEF readAddressChange
    <2>3. CASE l[1] \in up
      <3>1. addBroker(l[1], "reroute") /\ job' = [src |-> l[1], old |-> l[2]]
        BY <1>25, <2>3 DEF readAddressChange
      <3>2. job' \in RealJobs /\ job'.src = l[1]
        BY <3>1, <2>1 DEF RealJobs
      <3>3. CASE toBeAdded(l[1])
        <4>1. /\ main' = "addBroker" /\ adder'.at = "connect" /\ adder'.broker = l[1]
          BY <3>1, <3>3 DEF addBroker, joinThread, NoAdder
        <4> QED
          BY <2>1, <3>2, <3>3, <4>1
             DEF Goal, AdderInv, OneEntryPerBroker, SourceIsAdded, isAdded, toBeAdded
      <3>4. CASE ~ toBeAdded(l[1])
        <4>1. main' = "reroute" /\ UNCHANGED <<next, adder>> /\ adder.at = "none"
          BY <2>1, <3>1, <3>4 DEF addBroker, ThreadInv, Adders
        <4> QED
          BY <2>1, <3>2, <3>4, <4>1
             DEF Goal, AdderInv, OneEntryPerBroker, SourceIsAdded, isAdded, toBeAdded
      <3> QED
        BY <3>3, <3>4
    <2> QED
      BY <2>2, <2>3
  <1>26. CASE UNCHANGED vars
    BY <1>26, <1>u DEF vars
  <1> QED
    BY <1>1, <1>2, <1>3, <1>4, <1>5, <1>6, <1>7, <1>8, <1>9, <1>10, <1>11, <1>12, <1>13,
       <1>14, <1>15, <1>16, <1>17, <1>18, <1>19, <1>20, <1>21, <1>22, <1>23, <1>24, <1>25, <1>26
       DEF Next, environment, sessionThreads, addBrokerThread, copyObjectsThread, mainLoop
-----------------------------------------------------------------------------
(* The copy *)

(* Brokers do not come back and objects stay. *)
LEMMA Monotonic ==
    ASSUME TypeOK, [Next]_vars
    PROVE  up' \subseteq up /\ content \subseteq content'
  <1> USE DEF brokers, qmf, program, links, create
  <1>1. ASSUME environment PROVE up' \subseteq up /\ content \subseteq content'
    BY <1>1 DEF environment, clientCreates, brokerFails, participateRequest, startRecovery,
                handleCommit
  <1>2. ASSUME sessionThreads PROVE up' \subseteq up /\ content \subseteq content'
    BY <1>2 DEF sessionThreads, objectProps, event, brokerDisconnected
  <1>3. ASSUME addBrokerThread PROVE up' \subseteq up /\ content \subseteq content'
    BY <1>3 DEF addBrokerThread, connectBroker, getObjects, addObjectProps
  <1>4. ASSUME copyObjectsThread PROVE up' \subseteq up /\ content \subseteq content'
    BY <1>4 DEF copyObjectsThread, connectBackup, getBackupBroker, nextType, copyLink,
                copyAllBridges, copyBridges, copyObject, probeLink
  <1>5. ASSUME mainLoop PROVE up' \subseteq up /\ content \subseteq content'
    BY <1>5 DEF mainLoop, joinAdder, joinCopier, rerouteEnds, copyToNewDest, rerouteBridges,
                copyBridges, handleEvent, readAddressChange
  <1> QED
    BY <1>1, <1>2, <1>3, <1>4, <1>5 DEF Next, vars

(* What the copy has passed is at the backup, with what it refers to: the   *)
(* types come in the order of their references.                             *)
LEMMA CopyStep ==
    ASSUME TypeOK, ThreadInv, CopyInv, [Next]_vars
    PROVE  CopyInv'
  <1> SUFFICES CopyInv'
    OBVIOUS
  <1>0. /\ copier \in Copiers /\ mirror \subseteq AllObjects
        /\ copier.snapshot \subseteq AllObjects /\ copier.todo \subseteq AllObjects
        /\ copier.types \in Seq(Types)
    BY DEF TypeOK, Copiers
  <1>m. up' \subseteq up /\ content \subseteq content'
    BY Monotonic
  <1>u. ASSUME UNCHANGED <<copier, mirror>> PROVE CopyInv'
    BY <1>u, <1>m DEF CopyInv, OrderInv, AllOf, pending
  <1>n. ASSUME copier'.at = "none" PROVE CopyInv'
    BY <1>n DEF CopyInv
  (* The steps of the copier keep what it copies. *)
  <1>c. ASSUME copier.at # "none", mirror' = mirror, copier'.from = copier.from,
               copier'.snapshot = copier.snapshot
        PROVE  (copier.at # "none" => copier.snapshot = {o \in mirror : o.broker = copier.from})'
    BY <1>c DEF CopyInv
  <1> USE DEF brokers, qmf, program, links
  <1>1. ASSUME environment PROVE CopyInv'
    <2>1. ASSUME NEW b \in Brokers, handleCommit(b) PROVE CopyInv'
      <3>1. CASE copyObjects(b, Backup[b])
        <4>1. copier' = [NoCopier EXCEPT !.at = "connect", !.from = b, !.to = Backup[b],
                                         !.snapshot = {o \in mirror : o.broker = b}]
          BY <3>1 DEF copyObjects
        <4>2. mirror' = mirror
          BY <2>1 DEF handleCommit
        <4> QED
          BY <4>1, <4>2 DEF NoCopier, CopyInv
      <3>2. CASE UNCHANGED <<main, copier>>
        BY <2>1, <3>2, <1>u DEF handleCommit
      <3> QED
        BY <2>1, <3>1, <3>2 DEF handleCommit
    <2> QED
      BY <1>1, <2>1, <1>u
         DEF environment, clientCreates, brokerFails, participateRequest, startRecovery
  <1>2. ASSUME sessionThreads PROVE CopyInv'
    BY <1>2, <1>u DEF sessionThreads, objectProps, event, brokerDisconnected
  <1>3. ASSUME addBrokerThread PROVE CopyInv'
    BY <1>3, <1>u DEF addBrokerThread, connectBroker, getObjects, addObjectProps
  <1>5. ASSUME mainLoop PROVE CopyInv'
    <2>1. CASE joinCopier
      BY <2>1, <1>n DEF joinCopier, NoCopier
    <2>2. CASE handleEvent
      <3>1. copier.at = "none" /\ copier' = copier
        BY <2>2 DEF handleEvent, ThreadInv
      <3> QED
        BY <3>1, <1>n
    <2> QED
      BY <1>5, <2>1, <2>2, <1>u
         DEF mainLoop, joinAdder, rerouteEnds, copyToNewDest, rerouteBridges, readAddressChange
  <1>6. CASE connectBackup
    <2>1. /\ copier.at = "connect" /\ mirror' = mirror
          /\ copier' = [copier EXCEPT !.at = "broker"]
      BY <1>6 DEF connectBackup
    <2>2. /\ copier'.at = "broker" /\ copier'.from = copier.from
          /\ copier'.snapshot = copier.snapshot
          /\ copier'.todo = copier.todo /\ copier'.link = copier.link
      BY <2>1, <1>0 DEF Copiers
    <2> QED
      BY <2>1, <2>2, <1>c DEF CopyInv
  <1>7. CASE getBackupBroker
    <2>1. copier.at = "broker" /\ mirror' = mirror /\ copier.todo = {} /\ copier.link = {}
      BY <1>7 DEF getBackupBroker, CopyInv
    <2>2. /\ copier'.from = copier.from /\ copier'.snapshot = copier.snapshot
          /\ copier'.todo = {} /\ copier'.link = {}
          /\ \/ copier'.at = "failed"
             \/ copier'.at = "copy" /\ copier'.types = CopyOrder
      BY <1>7, <2>1, <1>0 DEF getBackupBroker, Copiers
    <2>3. CASE copier'.at = "failed"
      BY <2>1, <2>2, <2>3, <1>c DEF CopyInv
    <2>4. CASE copier'.at = "copy" /\ copier'.types = CopyOrder
      <3>1. ASSUME NEW o \in copier.snapshot PROVE pending(o)'
        <4>1. o.type \in Types
          BY <1>0, ObjectFields
        <4>2. CASE o.type = "bridge"
          BY <4>2, <2>4 DEF pending
        <4>3. CASE o.type # "bridge"
          <5>1. \E i \in 1 .. 4 : CopyOrder[i] = o.type
            BY <4>1, <4>3 DEF CopyOrder, Types
          <5>2. Len(CopyOrder) = 4
            BY DEF CopyOrder
          <5> QED
            BY <5>1, <5>2, <2>4 DEF pending
        <4> QED
          BY <4>2, <4>3
      <3>2. OrderInv'
        BY <2>2, <2>4 DEF OrderInv, CopyOrder
      <3> QED
        BY <2>1, <2>2, <2>4, <3>1, <3>2, <1>c DEF CopyInv
    <2> QED
      BY <2>2, <2>3, <2>4
  <1>8. CASE nextType
    <2>1. /\ copier.at = "copy" /\ copier.todo = {} /\ copier.link = {} /\ mirror' = mirror
          /\ OrderInv
      BY <1>8 DEF nextType, CopyInv
    <2>2. CASE copier.types = <<>>
      <3>1. /\ copier'.at = "bridges" /\ copier'.types = <<>> /\ copier'.todo = {}
            /\ copier'.link = {} /\ copier'.from = copier.from /\ copier'.to = copier.to
            /\ copier'.snapshot = copier.snapshot
        BY <1>8, <2>1, <2>2, <1>0 DEF nextType, Copiers
      <3>2. \A o : ~ pending(o)' => ~ pending(o)
        BY <2>1, <2>2, <3>1 DEF pending
      <3> QED
        BY <2>1, <3>1, <3>2, <1>c, <1>m DEF CopyInv
    <2>3. CASE copier.types # <<>>
      <3>1. /\ copier'.at = "copy" /\ copier'.types = Tail(copier.types)
            /\ copier'.todo = {o \in copier.snapshot : o.type = Head(copier.types)}
            /\ copier'.link = {} /\ copier'.from = copier.from /\ copier'.to = copier.to
            /\ copier'.snapshot = copier.snapshot
        BY <1>8, <2>1, <2>3, <1>0 DEF nextType, Copiers
      <3>2. OrderInv'
        <4>1. CASE copier.types = CopyOrder
          <5>1. /\ Head(copier.types) = "exchange"
                /\ Tail(copier.types) = <<"queue", "binding", "link">>
            BY <4>1 DEF CopyOrder
          <5> QED
            BY <3>1, <5>1 DEF OrderInv, AllOf
        <4>2. CASE copier.types = <<"queue", "binding", "link">>
          <5>1. Head(copier.types) = "queue" /\ Tail(copier.types) = <<"binding", "link">>
            BY <4>2
          <5> QED
            BY <3>1, <5>1 DEF OrderInv, AllOf
        <4>3. CASE copier.types = <<"binding", "link">>
          <5>1. Head(copier.types) = "binding" /\ Tail(copier.types) = <<"link">>
            BY <4>3
          <5> QED
            BY <3>1, <5>1 DEF OrderInv, AllOf
        <4>4. CASE copier.types = <<"link">>
          <5>1. Head(copier.types) = "link" /\ Tail(copier.types) = <<>>
            BY <4>4
          <5> QED
            BY <3>1, <5>1 DEF OrderInv, AllOf
        <4> QED
          BY <2>1, <2>3, <4>1, <4>2, <4>3, <4>4 DEF OrderInv
      <3>3. ASSUME NEW o \in copier.snapshot, pending(o) PROVE pending(o)'
        <4>1. CASE o.type = "bridge"
          BY <4>1, <3>1 DEF pending
        <4>2. CASE o.type # "bridge"
          <5>1. PICK i \in 1 .. Len(copier.types) : copier.types[i] = o.type
            BY <2>1, <3>3, <4>2 DEF pending
          <5>2. CASE i = 1
            BY <5>1, <5>2, <3>1 DEF pending
          <5>3. CASE i # 1
            <6>1. /\ i - 1 \in 1 .. Len(Tail(copier.types))
                  /\ Tail(copier.types)[i - 1] = copier.types[i]
              BY <5>1, <5>3, <2>3, <1>0
            <6> QED
              BY <6>1, <5>1, <3>1 DEF pending
          <5> QED
            BY <5>2, <5>3
        <4> QED
          BY <4>1, <4>2
      <3> QED
        BY <2>1, <3>1, <3>2, <3>3, <1>c, <1>m DEF CopyInv
    <2> QED
      BY <2>2, <2>3
  <1>9. ASSUME NEW o \in copier.todo, copyObject(o) PROVE CopyInv'
    <2>1. /\ copier.at = "copy" /\ o.type # "link" /\ mirror' = mirror /\ up' = up
          /\ create(IF references(o) \subseteq copier.snapshot THEN {moved(o, copier.to)} ELSE {})
          /\ OrderInv
      BY <1>9 DEF copyObject, CopyInv
    <2>2. /\ copier'.at = "copy" /\ copier'.types = copier.types
          /\ copier'.todo = copier.todo \ {o} /\ copier'.link = copier.link
          /\ copier'.from = copier.from /\ copier'.to = copier.to
          /\ copier'.snapshot = copier.snapshot
      BY <1>9, <2>1, <1>0 DEF copyObject, Copiers
    <2>3. OrderInv /\ copier.to \in Brokers
      BY <2>1, <1>9 DEF CopyInv, ThreadInv
    <2>4. OrderInv'
      BY <2>2, <2>3 DEF OrderInv, AllOf
    <2>5. ASSUME references(o) \subseteq copier.snapshot, copier.to \in up
          PROVE  moved(o, copier.to) \in content'
      <3>1. moved(o, copier.to).broker = copier.to
        BY <1>0, <2>3, MovedObject
      <3>2. ASSUME NEW r \in references(o) PROVE moved(r, copier.to) \in content
        <4>1. o.type = "binding"
          BY <2>3, <2>5 DEF OrderInv, AllOf, references
        <4>2. r \in copier.snapshot /\ r.type \in {"exchange", "queue"}
          BY <1>0, <2>5, <4>1, References
        <4>3. copier.types = <<"link">> /\ AllOf("binding")
          BY <2>3, <4>1 DEF OrderInv, AllOf
        <4>4. copier.link = {}
          BY <2>1, <4>3 DEF CopyInv
        <4>5. ~ pending(r)
          <5>1. r \notin copier.todo
            BY <4>2, <4>3 DEF AllOf
          <5>2. Len(copier.types) = 1 /\ copier.types[1] = "link"
            BY <4>3
          <5> QED
            BY <4>2, <4>4, <5>1, <5>2 DEF pending
        <4>6. references(r) \subseteq copier.snapshot
          BY <4>2 DEF references
        <4> QED
          BY <2>1, <2>5, <4>2, <4>5, <4>6 DEF CopyInv
      <3>3. references(moved(o, copier.to)) \subseteq content
        BY <1>0, <2>3, <3>2, MovedReferences
      <3> QED
        BY <2>1, <2>5, <3>1, <3>3 DEF create, created
    <2>6. ASSUME NEW r \in copier.snapshot, ~ pending(r)' PROVE r = o \/ ~ pending(r)
      BY <2>1, <2>2, <2>6 DEF pending
    <2>7. copier.link \subseteq {r \in copier.snapshot : r.type = "link"}
          /\ (copier.link # {} => copier.types = <<>>)
      BY <2>1 DEF CopyInv
    <2> QED
      BY <2>1, <2>2, <2>4, <2>5, <2>6, <2>7, <1>c, <1>m DEF CopyInv
  <1>10. ASSUME NEW o \in copier.todo, probeLink(o) PROVE CopyInv'
    <2>1. copier.at = "copy" /\ o.type = "link" /\ copier.link = {} /\ mirror' = mirror /\ OrderInv
      BY <1>10 DEF probeLink, CopyInv
    <2>2. /\ copier'.at = "copy" /\ copier'.types = copier.types
          /\ copier'.todo = copier.todo \ {o} /\ copier'.link = {o}
          /\ copier'.from = copier.from /\ copier'.to = copier.to
          /\ copier'.snapshot = copier.snapshot
      BY <1>10, <2>1, <1>0 DEF probeLink, Copiers
    <2>3. copier.types = <<>> /\ o \in copier.snapshot
      BY <2>1 DEF OrderInv, AllOf
    <2>4. OrderInv'
      BY <2>1, <2>2 DEF OrderInv, AllOf
    <2>5. \A r : pending(r) => pending(r)'
      BY <2>1, <2>2 DEF pending
    <2> QED
      BY <2>1, <2>2, <2>3, <2>4, <2>5, <1>c, <1>m DEF CopyInv
  <1>11. CASE copyLink
    <2>1. /\ copier.at = "copy" /\ copier.link # {} /\ mirror' = mirror /\ up' = up
          /\ create({moved(o, copier.to) : o \in copier.link})
      BY <1>11 DEF copyLink
    <2>2. /\ copier'.at = "copy" /\ copier'.types = copier.types
          /\ copier'.todo = copier.todo /\ copier'.link = {}
          /\ copier'.from = copier.from /\ copier'.to = copier.to
          /\ copier'.snapshot = copier.snapshot
      BY <1>11, <2>1, <1>0 DEF copyLink, Copiers
    <2>3. /\ OrderInv /\ copier.to \in Brokers
          /\ copier.link \subseteq {r \in copier.snapshot : r.type = "link"}
      BY <2>1 DEF CopyInv, ThreadInv
    <2>4. OrderInv'
      BY <2>2, <2>3 DEF OrderInv, AllOf
    <2>5. ASSUME NEW r \in copier.link, copier.to \in up PROVE moved(r, copier.to) \in content'
      <3>1. moved(r, copier.to).broker = copier.to /\ moved(r, copier.to).type = "link"
        BY <1>0, <2>3, MovedObject
      <3>2. references(moved(r, copier.to)) \subseteq content
        BY <3>1 DEF references
      <3> QED
        BY <2>1, <2>5, <3>1, <3>2 DEF create, created
    <2>6. ASSUME NEW r, ~ pending(r)' PROVE r \in copier.link \/ ~ pending(r)
      BY <2>1, <2>2, <2>6 DEF pending
    <2> QED
      BY <2>1, <2>2, <2>4, <2>5, <2>6, <1>c, <1>m DEF CopyInv
  <1>12. CASE copyAllBridges
    <2> DEFINE dest == [b \in Brokers |-> b]
    <2>1. /\ copier.at = "bridges" /\ mirror' = mirror /\ up' = up
          /\ copyBridges(copier.snapshot, copier.from, copier.to, dest)
          /\ copier.types = <<>> /\ copier.todo = {} /\ copier.link = {}
          /\ copier.snapshot = {o \in mirror : o.broker = copier.from}
          /\ copier.to \in Brokers
      BY <1>12 DEF copyAllBridges, CopyInv, ThreadInv
    <2>2. /\ copier'.at = "done" /\ copier'.types = <<>>
          /\ copier'.todo = {} /\ copier'.link = {}
          /\ copier'.from = copier.from /\ copier'.to = copier.to
          /\ copier'.snapshot = copier.snapshot
      BY <1>12, <2>1, <1>0 DEF copyAllBridges, Copiers
    <2>3. ASSUME NEW r \in copier.snapshot, references(r) \subseteq copier.snapshot,
                 r.type = "bridge", copier.to \in up
          PROVE  moved(r, copier.to) \in content'
      <3>1. r.key \in Brokers \X Names /\ r \in AllObjects /\ r.broker = copier.from
        BY <1>0, <2>1, <2>3, ObjectFields
      <3>2. dest[r.key[1]] = r.key[1] /\ r.key[1] \in DOMAIN dest /\ r.key = <<r.key[1], r.key[2]>>
        BY <3>1
      <3>3. moved(r, copier.to) = object(copier.to, "bridge", <<dest[r.key[1]], r.key[2]>>)
        BY <3>1, <3>2, <2>1, <2>3, MovedObject
      <3>4. moved(r, copier.to).broker = copier.to
        BY <3>1, <2>1, MovedObject
      <3>5. ASSUME NEW k \in references(r) PROVE moved(k, copier.to) \in content
        <4>1. k \in copier.snapshot /\ k.type = "link"
          BY <3>1, <2>3, References
        <4>2. references(k) = {} /\ ~ pending(k)
          BY <4>1, <2>1 DEF references, pending
        <4> QED
          BY <4>1, <4>2, <2>1, <2>3 DEF CopyInv
      <3>6. references(moved(r, copier.to)) \subseteq content
        BY <3>1, <3>5, <2>1, MovedReferences
      <3>7. moved(r, copier.to) \in {object(copier.to, "bridge", <<dest[o.key[1]], o.key[2]>>) :
               o \in {m \in copier.snapshot : /\ m.type = "bridge" /\ m.broker = copier.from
                                              /\ references(m) \subseteq copier.snapshot
                                              /\ m.key[1] \in DOMAIN dest}}
        BY <2>3, <3>1, <3>2, <3>3
      <3> HIDE DEF dest
      <3> QED
        BY <2>1, <2>3, <3>4, <3>6, <3>7 DEF copyBridges, create, created
    <2>4. ASSUME NEW r, ~ pending(r)' PROVE r.type = "bridge" \/ ~ pending(r)
      BY <2>1, <2>2, <2>4 DEF pending
    <2> QED
      BY <2>1, <2>2, <2>3, <2>4, <1>c, <1>m DEF CopyInv
  <1> QED
    BY <1>1, <1>2, <1>3, <1>5, <1>6, <1>7, <1>8, <1>9, <1>10, <1>11, <1>12, <1>u
       DEF Next, vars, copyObjectsThread
-----------------------------------------------------------------------------
(* The invariant holds at the start, when no thread runs. *)
LEMMA RecoveryInit == Init => RecoveryInvariant
  <1> SUFFICES ASSUME Init PROVE RecoveryInvariant
    OBVIOUS
  <1>1. /\ main = "select" /\ Len(bavec) = 0
        /\ adder.at = "none" /\ copier.at = "none"
    BY DEF Init, NoAdder, NoCopier
  <1> QED
    BY <1>1, InitTypes
       DEF RecoveryInvariant, ThreadInv, AdderInv, OneEntryPerBroker, SourceIsAdded, CopyInv

(* Every step keeps it. *)
LEMMA RecoveryStep == RecoveryInvariant /\ [Next]_vars => RecoveryInvariant'
  BY TypeStep, ThreadStep, AdderStep, CopyStep DEF RecoveryInvariant

(* The invariant holds in every behaviour, whatever brokers fail and however*)
(* the threads, the sessions and the main loop interleave.                  *)
THEOREM RecoveryInductive == Spec => []RecoveryInvariant
  BY RecoveryInit, RecoveryStep, PTL DEF Spec

(* A broker is in bavec at most once: addBroker looks for it in the main    *)
(* loop and its thread enters it, and the main loop waits in between.       *)
THEOREM EnteredOnce == Spec => []OneEntryPerBroker
  <1>1. RecoveryInvariant => OneEntryPerBroker
    BY DEF RecoveryInvariant
  <1> QED
    BY <1>1, RecoveryInductive, PTL

(* reroute finds its source in bavec when it looks for it after addBroker.  *)
THEOREM RerouteFindsSource == Spec => []SourceIsAdded
  <1>1. RecoveryInvariant => SourceIsAdded
    BY DEF RecoveryInvariant
  <1> QED
    BY <1>1, RecoveryInductive, PTL

(* A copy that ends with its backup alive is complete: whatever the mirror  *)
(* has of the failed broker, with what it refers to, is at the backup.      *)
THEOREM CopyComplete == Spec => []CopyIsComplete
  <1>1. RecoveryInvariant => CopyIsComplete
    <2> SUFFICES ASSUME RecoveryInvariant, copier.at = "done", copier.to \in up,
                        NEW o \in mirror, o.broker = copier.from, references(o) \subseteq mirror
                 PROVE  moved(o, copier.to) \in content
      BY DEF CopyIsComplete
    <2>1. /\ copier.snapshot = {m \in mirror : m.broker = copier.from}
          /\ copier.types = <<>> /\ copier.todo = {} /\ copier.link = {}
          /\ mirror \subseteq AllObjects
      BY DEF RecoveryInvariant, CopyInv, TypeOK
    <2>2. references(o) \subseteq copier.snapshot
      BY <2>1, References
    <2>3. ~ pending(o)
      BY <2>1 DEF pending
    <2> QED
      BY <2>1, <2>2, <2>3 DEF RecoveryInvariant, CopyInv
  <1> QED
    BY <1>1, RecoveryInductive, PTL
=============================================================================
