------------------------- MODULE DeviceManagerProofs -------------------------
(***************************************************************************)
(* Theorems about DeviceManager, for any number of robots, endpoints,      *)
(* applications and ids, and whatever the robots answer.                   *)
(***************************************************************************)
EXTENDS DeviceManagerRobots, DeviceManagerApps

-----------------------------------------------------------------------------
(* The theorems. *)

\* Nothing is locked, registered or queued at first.
LEMMA InitInv == Init => IInv
<1>. SUFFICES ASSUME Init PROVE IInv
  OBVIOUS
<1>1. TypeOK
  BY EmptySeq DEF Init, TypeOK, Status
<1>2. StrandsLive
  BY DEF Init, StrandsLive
<1>3. RequestsKnown
  BY EmptySeq DEF Init, RequestsKnown
<1>4. UuidOrigin /\ Settled /\ RegistryTrue /\ LockEntries
  BY ConstantsOK DEF Init, UuidOrigin, Settled, RegistryTrue, LockEntries, LockEntry, Random
<1>. QED
  BY <1>1, <1>2, <1>3, <1>4 DEF IInv

\* Every step keeps the invariant.
LEMMA NextInv == IInv /\ [Next]_vars => IInv'
<1>. SUFFICES ASSUME IInv, [Next]_vars PROVE IInv'
  OBVIOUS
<1>1. CASE UNCHANGED vars
  <2>1. UNCHANGED <<nodeVars, locked, strand, requests, hung>> /\ conn' = conn
    BY <1>1 DEF vars, appVars
  <2>2. conn' \in [Apps -> {"none", "accepted", "open", "closing", "gone"}]
    BY <2>1 DEF IInv, TypeOK
  <2>3. Monitoring \subseteq Monitoring'
    BY <2>1 DEF Monitoring
  <2>. QED
    BY <2>1, <2>2, <2>3, ConnectionsInv
<1>2. ASSUME NEW n \in Nodes, ~hung,
             NodePresent(n) \/ OnDeviceInfoUuid(n) \/ OnDescriptionReceived(n) \/ OnNameOrFirmware(n)
      PROVE  IInv'
  BY <1>2, NodePresentInv, OnDeviceInfoUuidInv, OnDescriptionReceivedInv, OnNameOrFirmwareInv
<1>3. ASSUME NEW e \in Endpoints, HealthCheck(e) \/ EndpointDestroyed(e)
      PROVE  IInv'
  <2>1. link' \in [Endpoints -> {"up", "upgrading", "silent", "cancelled", "down"}]
    BY <1>3 DEF HealthCheck, EndpointDestroyed, IInv, TypeOK
  <2>2. \E S \in SUBSET Nodes : Disconnect(S)
    BY <1>3 DEF HealthCheck, EndpointDestroyed, IInv, TypeOK
  <2>. QED
    BY <2>1, <2>2, DisconnectInv
<1>4. ASSUME NEW a \in Apps, ClientStep(a) \/ Destroyed(a)
      PROVE  IInv'
  BY <1>4, ConnectInv, ReceiveInv, ConnectionLostInv, DestroyedInv DEF ClientStep
<1>5. ASSUME NEW a \in Apps, RunTask(a)
      PROVE  IInv'
  BY <1>5, NodeChangedInv, SendFullNodeListInv, LockNodeInv, UnlockNodeInv, UpgradeNodeFirmwareInv
     DEF RunTask
<1>. QED
  BY <1>1, <1>2, <1>3, <1>4, <1>5 DEF Next, RobotStep

\* IInv is an invariant of the device manager.
THEOREM Invariance == Spec => []IInv
  BY InitInv, NextInv, PTL DEF Spec

\* Type correctness: in particular a strand only ever holds well-formed tasks
\* and the registry only maps ids to nodes, however handlers interleave.
THEOREM TypeCorrect == Spec => []TypeOK
<1>1. IInv => TypeOK
  BY DEF IInv
<1>. QED
  BY <1>1, Invariance, PTL

\* An application never holds an entry of m_locked_nodes for a node it does not
\* own: lock, unlock, late uuid answers, duplicates and disconnections included.
THEOREM LocksOwned == Spec => []LocksAreOwned
<1>1. IInv => LocksAreOwned
  BY DEF IInv, LockEntries, LockEntry, LocksAreOwned
<1>. QED
  BY <1>1, Invariance, PTL

\* Two applications never both pass the get_locked_node test for one robot,
\* whatever the number of applications and robots.
THEOREM SoleOwnership == Spec => []MutualExclusion
<1>1. IInv => MutualExclusion
  BY DEF IInv, LockEntries, LockEntry, MutualExclusion
<1>. QED
  BY <1>1, Invariance, PTL

-----------------------------------------------------------------------------
(* Ownership. *)

\* m_connected_app is cleared by the owner's unlock request or destructor only,
\* and never changes hands directly: no robot event and no other client can
\* take a robot from the application that owns it.
THEOREM OwnerReleases == Spec => ReleasedByOwner
<1>. DEFINE Rule == \A n \in Nodes : (owner[n] # NoApp /\ owner'[n] # owner[n]) =>
            /\ owner'[n] = NoApp
            /\ \/ conn[owner[n]] = "closing" /\ conn'[owner[n]] = "gone"
               \/ /\ Next1(owner[n], {"unlock"})
                  /\ LET id == Head(strand[owner[n]]).id IN
                     locked[owner[n]][id] = n /\ locked'[owner[n]][id] = NoNode
<1>1. IInv /\ [Next]_vars => [Rule]_vars
  <2>. SUFFICES ASSUME IInv, Next PROVE Rule
    OBVIOUS
  <2>1. CASE owner' = owner
    BY <2>1
  <2>2. ASSUME NEW a \in Apps, LockNode(a)
        PROVE  Rule
    <3>1. owner' = owner \/ \E n \in Nodes \cup {NoNode} : n # NoNode /\ owner[n] = NoApp
                                                     /\ owner' = [owner EXCEPT ![n] = a]
      <4>1. strand[a] # <<>> /\ Head(strand[a]).op = "lock"
        BY <2>2, Zenon DEF LockNode, Next1
      <4>2. Head(strand[a]) \in Task
        BY <4>1, HeadTailProperties DEF IInv, TypeOK
      <4>3. Head(strand[a]).id \in Ids
        BY <4>1, <4>2 DEF Task, Request, Change
      <4>. QED
        BY <2>2, <4>3, Zenon DEF LockNode, Lockable, IInv, TypeOK
    <3>. QED
      BY <3>1 DEF IInv, TypeOK
  <2>3. ASSUME NEW a \in Apps, UnlockNode(a)
        PROVE  Rule
    <3>. DEFINE id == Head(strand[a]).id
    <3>1. /\ strand[a] # <<>> /\ Head(strand[a]).op = "unlock"
          /\ Written(a, id, NoNode)
          /\ \/ owner' = owner
             \/ /\ locked[a][id] # NoNode /\ owner[locked[a][id]] = a
                /\ owner' = [owner EXCEPT ![locked[a][id]] = NoApp]
      BY <2>3, Zenon DEF UnlockNode, Next1, Forget, Written
    <3>2. Head(strand[a]) \in Task
      BY <3>1, HeadTailProperties DEF IInv, TypeOK
    <3>3. id \in Ids
      BY <3>1, <3>2 DEF Task, Request, Change
    <3>4. locked[a][id] \in Nodes \cup {NoNode} /\ locked'[a][id] = NoNode
      <4>1. locked'[a][id] = NoNode
        BY <3>1, <3>3, EntryWritten DEF IInv
      <4>2. locked[a][id] \in Nodes \cup {NoNode}
        BY <3>3, EntryType DEF IInv
      <4>. QED
        BY <4>1, <4>2
    <3>5. \A n \in Nodes : owner'[n] # owner[n] =>
            n = locked[a][id] /\ owner[n] = a /\ owner'[n] = NoApp
      BY <3>1, <3>4 DEF IInv, TypeOK
    <3>. QED
      BY <3>1, <3>4, <3>5, Zenon DEF Next1
  <2>4. ASSUME NEW a \in Apps, Destroyed(a)
        PROVE  Rule
    <3>1. conn[a] = "closing" /\ conn'[a] = "gone"
      BY <2>4 DEF Destroyed, IInv, TypeOK
    <3>2. \A n \in Nodes : owner'[n] # owner[n] => owner[n] = a /\ owner'[n] = NoApp
      BY <2>4 DEF Destroyed, Mine, Existing
    <3>. QED
      BY <3>1, <3>2
  <2>5. ASSUME NEW a \in Apps,
               \/ ClientStep(a)
               \/ NodeChanged(a) \/ SendFullNodeList(a) \/ UpgradeNodeFirmware(a)
        PROVE  owner' = owner
    BY <2>5, Zenon DEF ClientStep, Connect, Receive, ConnectionLost, NodeChanged, SendFullNodeList,
       UpgradeNodeFirmware, nodeVars
  <2>6. RobotStep => owner' = owner
    BY DEF RobotStep, NodePresent, OnDeviceInfoUuid, OnDescriptionReceived, OnNameOrFirmware,
       HealthCheck, EndpointDestroyed, Disconnect
  <2>. HIDE DEF Rule
  <2>. QED
    BY <2>1, <2>2, <2>3, <2>4, <2>5, <2>6 DEF Next, RunTask
<1>. QED
  BY <1>1, Invariance, PTL DEF Spec, ReleasedByOwner

\* Erasing an entry of m_locked_nodes gives up the one robot it led to.
LEMMA ForgetReleases ==
    ASSUME IInv, NEW a \in Apps, NEW id \in Ids, Written(a, id, NoNode)
    PROVE  \E S \in SUBSET Nodes : Locks!Release(a, S)
<1>. USE DEF IInv
<1>. DEFINE S == {locked[a][id]} \cap Nodes
<1>1. \A b \in Apps, x \in Ids : locked'[b][x] = IF b = a /\ x = id THEN NoNode ELSE locked[b][x]
  BY EntryWritten
<1>2. \A x \in Ids \ {id} : locked[a][x] # NoNode => locked[a][x] \notin S
  BY EntryIs
<1>3. \A x \in Ids : locked[a][x] \in Nodes \cup {NoNode}
  BY EntryType
<1>4. ASSUME NEW b \in Apps
      PROVE  Holds'[b] = IF b = a THEN Holds[b] \ S ELSE Holds[b]
  <2>1. CASE b = a
    BY <1>1, <1>2, <1>3, <2>1, ConstantsOK DEF Holds
  <2>2. CASE b # a
    BY <1>1, <2>2 DEF Holds
  <2>. QED
    BY <2>1, <2>2
<1>5. Holds' = [Holds EXCEPT ![a] = @ \ S]
  BY <1>4 DEF Holds
<1>. QED
  BY <1>5 DEF Locks!Release

\* A granted lock takes a robot that nobody holds, or changes nothing.
LEMMA LockAcquires ==
    ASSUME IInv, NEW a \in Apps, NEW id \in Ids, NEW n \in Nodes,
           strand[a] # <<>>, Head(strand[a]).op = "lock", Head(strand[a]).id = id,
           registry[id] = n, owner[n] \in {NoApp, a}, Written(a, id, n)
    PROVE  Holds' = Holds \/ \E S \in SUBSET Nodes : Locks!Acquire(a, n, S)
<1>. USE DEF IInv
<1>1. \A y \in Ids \ {id} : locked[a][y] # n
  <2>1. ASSUME NEW y \in Ids \ {id}, locked[a][y] = n
        PROVE  FALSE
    <3>1. uuid[n] = id
      BY ConstantsOK DEF RegistryTrue
    <3>2. Pending(strand[a], y, id)
      BY <2>1, <3>1, EntryIs, ConstantsOK
    <3>3. strand[a] \in Seq(Task)
      BY DEF TypeOK
    <3>. QED
      BY <3>2, <3>3, HeadPending
  <2>. QED
    BY <2>1
<1>2. CASE locked[a][id] = n
  <2>1. locked' = locked
    BY <1>2 DEF Written, TypeOK
  <2>. QED
    BY <2>1 DEF Holds
<1>3. CASE locked[a][id] # n
  <2>. DEFINE S == {locked[a][id]} \cap Nodes
  <2>1. \A b \in Apps, x \in Ids : locked'[b][x] = IF b = a /\ x = id THEN n ELSE locked[b][x]
    BY EntryWritten
  <2>2. \A x \in Ids \ {id} : locked[a][x] # NoNode => locked[a][x] \notin S
    BY EntryIs
  <2>3. \A x \in Ids : locked[a][x] \in Nodes \cup {NoNode}
    BY EntryType
  <2>4. ASSUME NEW b \in Apps
        PROVE  Holds'[b] = IF b = a THEN (Holds[b] \ S) \cup {n} ELSE Holds[b]
    <3>1. CASE b = a
      BY <2>1, <2>2, <2>3, <3>1, ConstantsOK DEF Holds
    <3>2. CASE b # a
      BY <2>1, <3>2 DEF Holds
    <3>. QED
      BY <3>1, <3>2
  <2>5. Holds' = [Holds EXCEPT ![a] = (@ \ S) \cup {n}]
    <3>. HIDE DEF S
    <3>1. Holds = [b \in Apps |-> Holds[b]] /\ Holds' = [b \in Apps |-> Holds'[b]]
      BY DEF Holds
    <3>. QED
      BY <2>4, <3>1
  <2>6. \A b \in Apps : n \notin Holds[b]
    <3>1. \A b \in Apps, x \in Ids : locked[b][x] = n => b = a
      BY EntryIs, ConstantsOK
    <3>. QED
      BY <1>1, <1>3, <3>1 DEF Holds
  <2>. QED
    BY <2>5, <2>6 DEF Locks!Acquire, Locks!Free
<1>. QED
  BY <1>2, <1>3

\* The tables of all applications implement one lock per robot (RobotLocks):
\* initially nothing is held, and every handler acquires one free robot,
\* releases some of one application's, or leaves all tables as they are.
THEOREM ImplementsLocks == Spec => LocksSpec
<1>1. Init => Locks!Init
  BY DEF Init, Locks!Init, Holds
<1>2. IInv /\ [Next]_vars => [Locks!Next]_Holds
  <2>. SUFFICES ASSUME IInv, [Next]_vars PROVE Locks!Next \/ Holds' = Holds
    OBVIOUS
  <2>1. CASE locked' = locked
    BY <2>1 DEF Holds
  <2>2. ASSUME NEW a \in Apps, NEW id \in Ids, Written(a, id, NoNode)
        PROVE  Locks!Next
    BY <2>2, ForgetReleases DEF Locks!Next
  <2>3. ASSUME NEW a \in Apps, LockNode(a)
        PROVE  Locks!Next \/ Holds' = Holds
    <3>. DEFINE id == Head(strand[a]).id
                n  == registry[id]
    <3>1. strand[a] # <<>> /\ Head(strand[a]).op = "lock"
      BY <2>3 DEF LockNode, Next1
    <3>2. Head(strand[a]) \in Task
      BY <3>1, HeadTailProperties DEF IInv, TypeOK
    <3>3. id \in Ids
      BY <3>1, <3>2 DEF Task, Request, Change
    <3>4. n \in Nodes \cup {NoNode}
      BY <3>3 DEF IInv, TypeOK
    <3>5. \/ locked' = locked
          \/ Written(a, id, NoNode)
          \/ n # NoNode /\ owner[n] \in {NoApp, a} /\ Written(a, id, n)
      BY <2>3, Zenon DEF LockNode, Lockable, Forget, Written
    <3>6. CASE n # NoNode /\ owner[n] \in {NoApp, a} /\ Written(a, id, n)
      <4>1. n \in Nodes
        BY <3>4, <3>6
      <4>2. Holds' = Holds \/ \E S \in SUBSET Nodes : Locks!Acquire(a, n, S)
        BY <3>1, <3>3, <3>6, <4>1, LockAcquires
      <4>. QED
        BY <4>1, <4>2 DEF Locks!Next
    <3>. QED
      BY <2>1, <2>2, <3>3, <3>5, <3>6
  <2>4. ASSUME NEW a \in Apps, UnlockNode(a)
        PROVE  Locks!Next
    <3>1. /\ strand[a] # <<>> /\ Head(strand[a]).op = "unlock"
          /\ Written(a, Head(strand[a]).id, NoNode)
      BY <2>4, Zenon DEF UnlockNode, Next1, Forget, Written
    <3>2. Head(strand[a]) \in Task
      BY <3>1, HeadTailProperties DEF IInv, TypeOK
    <3>3. Head(strand[a]).id \in Ids
      BY <3>1, <3>2 DEF Task, Request, Change
    <3>. QED
      BY <2>2, <3>1, <3>3
  <2>5. ASSUME NEW a \in Apps, NodeChanged(a)
        PROVE  Locks!Next \/ Holds' = Holds
    <3>1. /\ strand[a] # <<>> /\ Head(strand[a]).op = "changed"
          /\ \/ locked' = locked
             \/ Written(a, Head(strand[a]).id, NoNode)
      BY <2>5 DEF NodeChanged, Next1, Gone, Forget, Written
    <3>2. Head(strand[a]) \in Task
      BY <3>1, HeadTailProperties DEF IInv, TypeOK
    <3>3. Head(strand[a]).id \in Ids
      BY <3>1, <3>2 DEF Task, Request, Change
    <3>. QED
      BY <2>1, <2>2, <3>1, <3>3
  <2>6. ASSUME NEW a \in Apps, Destroyed(a)
        PROVE  Locks!Next
    <3>1. locked' = [locked EXCEPT ![a] = [id \in Ids |-> NoNode]]
      BY <2>6 DEF Destroyed
    <3>2. Holds' = [Holds EXCEPT ![a] = @ \ Nodes]
      <4>1. \A b \in Apps \ {a} : Holds'[b] = Holds[b]
        BY <3>1 DEF Holds, IInv, TypeOK
      <4>2. Holds'[a] = {} /\ Holds[a] \subseteq Nodes
        BY <3>1 DEF Holds, IInv, TypeOK
      <4>. QED
        BY <4>1, <4>2 DEF Holds
    <3>. QED
      BY <3>2 DEF Locks!Next, Locks!Release
  <2>7. ASSUME NEW a \in Apps,
               ClientStep(a) \/ SendFullNodeList(a) \/ UpgradeNodeFirmware(a)
        PROVE  locked' = locked
    BY <2>7, Zenon DEF ClientStep, Connect, Receive, ConnectionLost, SendFullNodeList, UpgradeNodeFirmware
  <2>8. RobotStep => locked' = locked
    BY DEF RobotStep, NodePresent, OnDeviceInfoUuid, OnDescriptionReceived, OnNameOrFirmware,
       HealthCheck, EndpointDestroyed, Disconnect
  <2>9. UNCHANGED vars => locked' = locked
    BY DEF vars, appVars
  <2>. QED
    BY <2>1, <2>3, <2>4, <2>5, <2>6, <2>7, <2>8, <2>9 DEF Next, RunTask
<1>. QED
  BY <1>1, <1>2, Invariance, PTL DEF Spec, LocksSpec, Locks!Spec

-----------------------------------------------------------------------------
(* The registry. *)

\* A uuid answer keeps the registry coherent: if the uuid was another attached
\* node's, that node is the only one remove_node can find, or nothing returns.
LEMMA OnDeviceInfoUuidCoherent ==
    ASSUME IInv, RegistryCoherent, NoTwins, ~hung, NEW n \in Nodes, OnDeviceInfoUuid(n)
    PROVE  RegistryCoherent'
<1>. USE DEF IInv
<1>1. n \in attached /\ Stored[n] # Silent
  BY DEF OnDeviceInfoUuid
<1>2. PICK id \in UuidAfter(n) :
        LET left   == Drop(registry, {n})
            old    == left[id]
            rivals == {m \in attached : old # NoNode /\ EndpointOf[m] = EndpointOf[old]}
        IN
        /\ uuid' = [uuid EXCEPT ![n] = id]
        /\ \/ /\ rivals = {} \/ old \notin Held
              /\ attached' = attached
           \/ \E first \in rivals : uuid'[first] = id /\ attached' = attached \ {first}
           \/ hung'
        /\ registry' = [left EXCEPT ![id] = IF hung' THEN NoNode ELSE n]
  BY DEF OnDeviceInfoUuid, RemoveNode
<1>3. /\ id \in Ids
      /\ id = uuid[n] \/ id \in Fresh \/ (id = Stored[n] /\ id \notin Random)
  BY <1>1, <1>2, UuidAfterIs
<1>4. registry' = [x \in Ids |-> IF x = id THEN (IF hung' THEN NoNode ELSE n)
                                 ELSE IF registry[x] = n THEN NoNode ELSE registry[x]]
  BY <1>2, <1>3 DEF Drop
<1>5. \A m \in Nodes : uuid'[m] = IF m = n THEN id ELSE uuid[m]
  BY <1>2 DEF TypeOK
<1>6. \A x \in Ids : registry'[x] # NoNode => uuid'[registry'[x]] = x
  BY <1>3, <1>4, <1>5, ConstantsOK DEF RegistryTrue, TypeOK
<1>7. attached' \subseteq attached \/ hung'
  BY <1>2, Zenon
<1>8. ASSUME ~hung', NEW m \in attached'
      PROVE  registry'[uuid'[m]] = m
  <2>1. m \in attached /\ m \in Nodes
    BY <1>7, <1>8 DEF TypeOK
  <2>2. CASE m = n
    BY <1>3, <1>4, <1>5, <1>8, <2>2, Zenon
  <2>3. CASE m # n
    <3>1. uuid'[m] = uuid[m] /\ registry[uuid[m]] = m /\ uuid[m] \in Ids
      <4>1. uuid'[m] = uuid[m] /\ registry[uuid[m]] = m
        BY <1>5, <2>1, <2>3 DEF RegistryCoherent
      <4>2. uuid[m] # Nil /\ uuid[m] \in Ids \cup {Nil}
        BY <2>1 DEF UuidOrigin, TypeOK
      <4>. QED
        BY <4>1, <4>2
    <3>2. ASSUME uuid[m] = id
          PROVE  FALSE
      <4>1. registry[uuid[n]] = n
        BY <1>1 DEF RegistryCoherent
      <4>2. id \notin Fresh
        BY <2>1, <3>2, ConstantsOK DEF UuidOrigin, Fresh, Random
      <4>3. id = Stored[n] /\ id \notin Random /\ id # uuid[n]
        BY <1>3, <2>3, <3>1, <3>2, <4>1, <4>2
      <4>4. Stored[m] = id
        BY <1>3, <2>1, <3>2, <4>3, ConstantsOK DEF UuidOrigin, TypeOK
      <4>5. Drop(registry, {n})[id] = m /\ m # NoNode /\ m \in Held
        BY <1>3, <2>1, <2>3, <3>1, <3>2, ConstantsOK DEF Drop, Held
      <4>6. PICK first \in attached :
              EndpointOf[first] = EndpointOf[m] /\ uuid'[first] = id /\ attached' = attached \ {first}
        BY <1>2, <1>8, <2>1, <4>5
      <4>7. first = m
        <5>1. CASE first = n
          BY <1>1, <1>3, <2>1, <2>3, <4>3, <4>4, <4>6, <5>1 DEF NoTwins
        <5>2. CASE first # n
          BY <1>5, <3>1, <3>2, <4>6, <5>2 DEF RegistryCoherent, TypeOK
        <5>. QED
          BY <5>1, <5>2
      <4>. QED
        BY <1>8, <4>6, <4>7
    <3>. QED
      BY <1>4, <2>3, <3>1, <3>2
  <2>. QED
    BY <2>2, <2>3
<1>. QED
  BY <1>6, <1>8 DEF RegistryCoherent

\* As long as no robot is attached twice to one endpoint, node_from_id and find
\* agree: an attached node is registered under its uuid and no entry is stale,
\* unless remove_node has failed to return.
THEOREM RegistryAgrees == Spec /\ []NoTwins => []RegistryCoherent
<1>1. Init => RegistryCoherent
  BY DEF Init, RegistryCoherent
<1>2. IInv /\ RegistryCoherent /\ NoTwins /\ [Next]_vars => RegistryCoherent'
  <2>. SUFFICES ASSUME IInv, RegistryCoherent, NoTwins, [Next]_vars
                PROVE  RegistryCoherent'
    OBVIOUS
  <2>1. CASE UNCHANGED <<registry, uuid, attached, hung>>
    BY <2>1 DEF RegistryCoherent
  <2>2. ASSUME NEW n \in Nodes, NodePresent(n)
        PROVE  RegistryCoherent'
    <3>1. PICK id \in Fresh :
            /\ uuid' = [uuid EXCEPT ![n] = id]
            /\ registry' = [registry EXCEPT ![id] = n]
      BY <2>2 DEF NodePresent
    <3>2. uuid[n] = Nil /\ attached' = attached \cup {n} /\ hung' = hung
      BY <2>2 DEF NodePresent
    <3>3. id \in Ids /\ \A m \in Nodes : uuid[m] # id
      BY ConstantsOK DEF Fresh, Random, IInv, UuidOrigin
    <3>4. \A m \in attached : uuid[m] \in Ids /\ m # n
      BY <3>2 DEF IInv, UuidOrigin, TypeOK
    <3>5. attached \subseteq Nodes /\ uuid \in [Nodes -> Ids \cup {Nil}]
            /\ registry \in [Ids -> Nodes \cup {NoNode}]
      BY DEF IInv, TypeOK
    <3>. QED
      BY <3>1, <3>2, <3>3, <3>4, <3>5, ConstantsOK DEF RegistryCoherent
  <2>3. ASSUME NEW n \in Nodes, ~hung, OnDeviceInfoUuid(n)
        PROVE  RegistryCoherent'
    BY <2>3, OnDeviceInfoUuidCoherent
  <2>4. ASSUME NEW S \in SUBSET Nodes, Disconnect(S)
        PROVE  RegistryCoherent'
    <3>1. registry' = Drop(registry, S) /\ attached' = attached \ S /\ UNCHANGED <<uuid, hung>>
      BY <2>4 DEF Disconnect
    <3>2. registry' = [x \in Ids |-> IF registry[x] \in S THEN NoNode ELSE registry[x]]
      BY <3>1 DEF Drop
    <3>3. \A m \in attached : uuid[m] \in Ids
      BY DEF IInv, UuidOrigin, TypeOK
    <3>. QED
      BY <3>1, <3>2, <3>3 DEF RegistryCoherent
  <2>5. ASSUME NEW e \in Endpoints, HealthCheck(e) \/ EndpointDestroyed(e)
        PROVE  \E S \in SUBSET Nodes : Disconnect(S)
    BY <2>5 DEF HealthCheck, EndpointDestroyed, IInv, TypeOK
  <2>6. ASSUME NEW n \in Nodes, OnDescriptionReceived(n) \/ OnNameOrFirmware(n)
        PROVE  UNCHANGED <<registry, uuid, attached, hung>>
    BY <2>6 DEF OnDescriptionReceived, OnNameOrFirmware
  <2>7. ASSUME NEW a \in Apps, ClientStep(a) \/ RunTask(a) \/ Destroyed(a)
        PROVE  UNCHANGED <<registry, uuid, attached, hung>>
    BY <2>7, Zenon DEF ClientStep, Connect, Receive, ConnectionLost, RunTask, NodeChanged, SendFullNodeList,
       LockNode, UnlockNode, UpgradeNodeFirmware, Destroyed, nodeVars
  <2>8. UNCHANGED vars => UNCHANGED <<registry, uuid, attached, hung>>
    BY DEF vars, nodeVars
  <2>. QED
    BY <2>1, <2>2, <2>3, <2>4, <2>5, <2>6, <2>7, <2>8 DEF Next, RobotStep
<1>. QED
  BY <1>1, <1>2, Invariance, PTL DEF Spec

=============================================================================
