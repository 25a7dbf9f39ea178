-------------------------- MODULE DeviceManagerApps --------------------------
(***************************************************************************)
(* What applications cause keeps the inductive invariant: connections,     *)
(* requests and the tasks of their strands.                                *)
(***************************************************************************)
EXTENDS DeviceManagerInvariant

\* A step that changes nothing but which applications are connected, and stops
\* serving none of them, keeps the invariant.
LEMMA ConnectionsInv ==
    ASSUME IInv, UNCHANGED <<nodeVars, locked, strand, requests, hung>>,
           conn' \in [Apps -> {"none", "accepted", "open", "closing", "gone"}],
           Monitoring \subseteq Monitoring'
    PROVE  IInv'
<1>. USE DEF IInv
<1>1. /\ UNCHANGED <<uuid, status, owner, attached, registry, minted, link, replies, refreshed>>
      /\ Random' = Random
  BY DEF nodeVars, Random
<1>2. TypeOK'
  BY <1>1 DEF TypeOK
<1>3. StrandsLive'
  BY DEF StrandsLive
<1>4. RequestsKnown'
  BY <1>1 DEF RequestsKnown, Fresh
<1>5. UuidOrigin' /\ Settled' /\ RegistryTrue'
  BY <1>1 DEF UuidOrigin, Settled, RegistryTrue
<1>6. LockEntries'
  BY <1>1, EntryIs, EntriesKept
<1>. QED
  BY <1>2, <1>3, <1>4, <1>5, <1>6

\* Accepting a connection keeps the invariant.
LEMMA ConnectInv ==
    ASSUME IInv, NEW a \in Apps, Connect(a)
    PROVE  IInv'
<1>1. conn \in [Apps -> {"none", "accepted", "open", "closing", "gone"}]
  BY DEF IInv, TypeOK
<1>2. /\ conn[a] = "none" /\ conn' = [conn EXCEPT ![a] = "accepted"]
      /\ UNCHANGED <<nodeVars, locked, strand, requests, hung>>
  BY DEF Connect
<1>3. Monitoring \subseteq Monitoring'
  BY <1>1, <1>2 DEF Monitoring
<1>. QED
  BY <1>1, <1>2, <1>3, ConnectionsInv

\* Losing a connection keeps the invariant.
LEMMA ConnectionLostInv ==
    ASSUME IInv, NEW a \in Apps, ConnectionLost(a)
    PROVE  IInv'
<1>1. conn \in [Apps -> {"none", "accepted", "open", "closing", "gone"}]
  BY DEF IInv, TypeOK
<1>2. /\ conn' = [conn EXCEPT ![a] = "closing"]
      /\ UNCHANGED <<nodeVars, locked, strand, requests, hung>>
  BY DEF ConnectionLost
<1>3. Monitoring \subseteq Monitoring'
  BY <1>1, <1>2 DEF Monitoring
<1>. QED
  BY <1>1, <1>2, <1>3, ConnectionsInv

\* Receiving a request keeps the invariant: it goes behind what is queued.
LEMMA ReceiveInv ==
    ASSUME IInv, NEW a \in Apps, NEW r \in Asked, Receive(a, r)
    PROVE  IInv'
<1>. USE DEF IInv
<1>1. /\ conn[a] \in {"accepted", "open"}
      /\ r.id \notin Fresh
      /\ requests' = requests \/ requests' = [requests EXCEPT ![a] = @ + 1]
      /\ strand' = [strand EXCEPT ![a] = Append(@, r)]
      /\ UNCHANGED <<nodeVars, conn, locked, hung>>
  BY DEF Receive
<1>2. r \in Task
  BY AskedOK DEF Task
<1>3. /\ strand'[a] \in Seq(Task)
      /\ Len(strand[a]) \in Nat /\ Len(strand'[a]) = Len(strand[a]) + 1
      /\ \A i \in 1..Len(strand[a]) : strand'[a][i] = strand[a][i]
      /\ strand'[a][Len(strand'[a])] = r
  <2>1. strand[a] \in Seq(Task) /\ strand'[a] = Append(strand[a], r)
    BY <1>1 DEF TypeOK
  <2>. QED
    BY <1>2, <2>1, AppendProperties, LenProperties
<1>4. \A b \in Apps \ {a} : strand'[b] = strand[b]
  BY <1>1 DEF TypeOK
<1>5. TypeOK'
  <2>1. strand' \in [Apps -> Seq(Task)] /\ requests' \in [Apps -> Nat]
    BY <1>1, <1>2, <1>3 DEF TypeOK
  <2>. QED
    BY <1>1, <2>1 DEF TypeOK, nodeVars, Random
<1>6. StrandsLive'
  BY <1>1, <1>4 DEF StrandsLive, Monitoring
<1>7. RequestsKnown'
  BY <1>1, <1>3, <1>4 DEF RequestsKnown, Fresh, nodeVars
<1>8. UuidOrigin' /\ Settled' /\ RegistryTrue'
  BY <1>1 DEF UuidOrigin, Settled, RegistryTrue, Random, nodeVars
<1>9. LockEntries'
  <2>1. ASSUME NEW id, NEW u, Pending(strand[a], id, u)
        PROVE  Pending(strand'[a], id, u)
    <3>1. PICK i \in 1..Len(strand[a]) :
            /\ strand[a][i].op = "changed" /\ strand[a][i].id = id
            /\ strand[a][i].status = "disconnected"
            /\ \A j \in 1..(i - 1) : strand[a][j].op # "changed" => strand[a][j].id # u
      BY <2>1 DEF Pending
    <3>2. i \in 1..Len(strand'[a]) /\ strand'[a][i] = strand[a][i]
      BY <1>3
    <3>3. \A j \in 1..(i - 1) : strand'[a][j] = strand[a][j]
      BY <1>3
    <3>4. \A j \in 1..(i - 1) : strand'[a][j].op # "changed" => strand'[a][j].id # u
      BY <3>1, <3>3
    <3>. QED
      BY <3>1, <3>2, <3>4 DEF Pending
  <2>2. ASSUME NEW b \in Apps, NEW x \in Ids, locked[b][x] # NoNode, uuid[locked[b][x]] # x
        PROVE  Pending(strand'[b], x, uuid[locked[b][x]])
    <3>1. Pending(strand[b], x, uuid[locked[b][x]])
      BY <2>2, EntryIs
    <3>2. CASE b = a
      BY <2>1, <3>1, <3>2
    <3>3. CASE b # a
      BY <1>4, <3>1, <3>3
    <3>. QED
      BY <3>2, <3>3
  <2>3. UNCHANGED <<locked, owner, uuid>> /\ Monitoring' = Monitoring
    BY <1>1 DEF Monitoring, nodeVars
  <2>. QED
    BY <2>2, <2>3, EntriesKept
<1>. QED
  BY <1>5, <1>6, <1>7, <1>8, <1>9

\* Destroying an application keeps the invariant: what it unlocks nobody else
\* had, and it forgets all its entries.
LEMMA DestroyedInv ==
    ASSUME IInv, NEW a \in Apps, Destroyed(a)
    PROVE  IInv'
<1>. USE DEF IInv
<1>1. /\ conn[a] = "closing" /\ strand[a] = <<>>
      /\ conn' = [conn EXCEPT ![a] = "gone"]
      /\ locked' = [locked EXCEPT ![a] = [id \in Ids |-> NoNode]]
      /\ UNCHANGED <<uuid, attached, registry, minted, link, replies, refreshed,
                     requests, hung>>
  BY DEF Destroyed
<1>2. PICK mine \in SUBSET Nodes :
        /\ \A n \in mine : owner[n] = a
        /\ owner' = [n \in Nodes |-> IF n \in mine THEN NoApp ELSE owner[n]]
        /\ status' = [n \in Nodes |-> IF n \in mine THEN "available" ELSE status[n]]
        /\ \E changes \in Signals(registry, mine, All("available")) :
            strand' = [Notify(strand, changes) EXCEPT ![a] = <<>>]
  <2>1. PICK alive \in Existing :
        LET mine == Mine(a, alive) IN
        /\ owner' = [n \in Nodes |-> IF n \in mine THEN NoApp ELSE owner[n]]
        /\ status' = [n \in Nodes |-> IF n \in mine THEN "available" ELSE status[n]]
        /\ \E changes \in Signals(registry, mine, All("available")) :
            strand' = [Notify(strand, changes) EXCEPT ![a] = <<>>]
    BY DEF Destroyed
  <2>. DEFINE mine == Mine(a, alive)
  <2>2. mine \in SUBSET Nodes /\ \A n \in mine : owner[n] = a
    BY DEF Existing, Mine
  <2>. QED
    BY <2>1, <2>2
<1>3. PICK changes \in Seq(Change) : strand' = [Notify(strand, changes) EXCEPT ![a] = <<>>]
  <2>1. PICK changes \in Signals(registry, mine, All("available")) :
        strand' = [Notify(strand, changes) EXCEPT ![a] = <<>>]
    BY <1>2
  <2>2. All("available") \in [Nodes -> Status]
    BY AllType DEF Status
  <2>3. changes \in Seq(Change)
    BY <2>2, SignalsType
  <2>. QED
    BY <2>1, <2>3
<1>4. /\ strand'[a] = <<>>
      /\ \A b \in Apps \ {a} : strand'[b] = Notify(strand, changes)[b]
      /\ DOMAIN strand' = Apps /\ strand' = [b \in Apps |-> strand'[b]]
  BY <1>3 DEF Notify
<1>5. \A b \in Apps \ {a} : Grown(strand[b], strand'[b])
  BY <1>3, <1>4, NotifyGrows DEF TypeOK
<1>6. strand' \in [Apps -> Seq(Task)]
  <2>1. strand'[a] \in Seq(Task)
    BY <1>4, EmptySeq
  <2>2. \A b \in Apps \ {a} : strand'[b] \in Seq(Task)
    BY <1>5, GrownType DEF TypeOK
  <2>. QED
    BY <1>4, <2>1, <2>2
<1>7. TypeOK'
  <2>1. /\ status' \in [Nodes -> Status] /\ owner' \in [Nodes -> Apps \cup {NoApp}]
        /\ locked' \in [Apps -> [Ids -> Nodes \cup {NoNode}]]
        /\ Random' = Random
    BY <1>1, <1>2 DEF TypeOK, Status, Random
  <2>. QED
    BY <1>1, <1>6, <2>1 DEF TypeOK
<1>8. StrandsLive'
  BY <1>1, <1>4 DEF StrandsLive, Notify, Monitoring, TypeOK
<1>9. RequestsKnown'
  <2>. SUFFICES ASSUME NEW b \in Apps, NEW i \in 1..Len(strand'[b]), strand'[b][i].op # "changed"
                PROVE  strand'[b][i].id \notin Fresh
    BY <1>1 DEF RequestsKnown, Fresh, Random
  <2>1. b # a
    BY <1>4
  <2>2. i \in 1..Len(strand[b]) /\ strand'[b][i] = strand[b][i]
    BY <1>5, <2>1, GrownElements DEF TypeOK
  <2>. QED
    BY <2>2 DEF RequestsKnown
<1>10. Settled'
  <2>1. \A n \in mine : owner[n] # NoApp
    BY <1>2, ConstantsOK
  <2>. QED
    BY <1>1, <1>2, <2>1 DEF Settled
<1>11. UuidOrigin' /\ RegistryTrue'
  BY <1>1 DEF UuidOrigin, RegistryTrue, Random
<1>12. LockEntries'
  <2>. SUFFICES ASSUME NEW b \in Apps, NEW x \in Ids PROVE LockEntry(b, x)'
    BY DEF LockEntries
  <2>. SUFFICES ASSUME locked'[b][x] # NoNode
                PROVE  LET n == locked'[b][x] IN
                       /\ owner'[n] = b
                       /\ b \in Monitoring'
                       /\ \A other \in Ids : locked'[b][other] = n => other = x
                       /\ uuid'[n] # x => Pending(strand'[b], x, uuid'[n])
    BY DEF LockEntry
  <2>1. b # a /\ locked'[b] = locked[b]
    BY <1>1 DEF TypeOK
  <2>2. /\ locked[b][x] \in Nodes /\ owner[locked[b][x]] = b /\ b \in Monitoring
        /\ \A other \in Ids : locked[b][other] = locked[b][x] => other = x
        /\ uuid[locked[b][x]] # x => Pending(strand[b], x, uuid[locked[b][x]])
    BY <2>1, EntryIs
  <2>3. owner'[locked[b][x]] = b /\ b \in Monitoring'
    <3>1. owner'[locked[b][x]] = b
      BY <1>2, <2>1, <2>2
    <3>2. conn'[b] = conn[b]
      BY <1>1, <2>1 DEF TypeOK
    <3>. QED
      BY <2>2, <3>1, <3>2 DEF Monitoring
  <2>4. strand[b] \in Seq(Task) /\ Grown(strand[b], strand'[b])
    BY <1>5, <2>1 DEF TypeOK
  <2>. QED
    BY <1>1, <2>1, <2>2, <2>3, <2>4, GrownPending
<1>. QED
  BY <1>7, <1>8, <1>9, <1>10, <1>11, <1>12

\* Passing a change on keeps the invariant: an entry is erased together with
\* the disconnection it was waiting for.
LEMMA NodeChangedInv ==
    ASSUME IInv, NEW a \in Apps, NodeChanged(a)
    PROVE  IInv'
<1>. USE DEF IInv
<1>. DEFINE t == Head(strand[a])
<1>1. /\ strand[a] # <<>> /\ t.op = "changed"
      /\ locked' = IF t.status = "disconnected" THEN [locked EXCEPT ![a][t.id] = NoNode] ELSE locked
      /\ strand' = Popped(a)
      /\ UNCHANGED <<nodeVars, conn, requests, hung>>
  BY DEF NodeChanged, Next1, Gone, Forget
<1>2. Monitoring' = Monitoring /\ Fresh' \subseteq Fresh /\ Random' = Random
  BY <1>1 DEF Monitoring, Fresh, Random, nodeVars
<1>3. /\ strand' \in [Apps -> Seq(Task)]
      /\ Grown(Tail(strand[a]), strand'[a])
      /\ \A b \in Apps \ {a} : Grown(strand[b], strand'[b])
      /\ StrandsLive'
      /\ RequestsKnown'
  BY <1>1, <1>2, PopsStrands
<1>4. /\ locked' \in [Apps -> [Ids -> Nodes \cup {NoNode}]]
      /\ \A b \in Apps, x \in Ids :
            locked'[b][x] = IF b = a /\ x = t.id /\ t.status = "disconnected" THEN NoNode
                            ELSE locked[b][x]
  <2>1. t \in Task
    BY <1>1, HeadTailProperties DEF TypeOK
  <2>2. t.id \in Ids
    BY <1>1, <2>1 DEF Task, Request, Change
  <2>. HIDE DEF t
  <2>3. CASE t.status = "disconnected"
    <3>1. Written(a, t.id, NoNode)
      BY <1>1, <2>3 DEF Written
    <3>. QED
      BY <2>2, <2>3, <3>1, EntryWritten
  <2>4. CASE t.status # "disconnected"
    BY <1>1, <2>4 DEF TypeOK
  <2>. QED
    BY <2>3, <2>4
<1>5. TypeOK'
  BY <1>1, <1>2, <1>3, <1>4 DEF TypeOK, nodeVars
<1>6. UuidOrigin' /\ Settled' /\ RegistryTrue'
  BY <1>1 DEF UuidOrigin, Settled, RegistryTrue, Random, nodeVars
<1>7. LockEntries'
  <2>. SUFFICES ASSUME NEW b \in Apps, NEW x \in Ids PROVE LockEntry(b, x)'
    BY DEF LockEntries
  <2>. SUFFICES ASSUME locked'[b][x] # NoNode
                PROVE  LET n == locked'[b][x] IN
                       /\ owner'[n] = b
                       /\ b \in Monitoring'
                       /\ \A other \in Ids : locked'[b][other] = n => other = x
                       /\ uuid'[n] # x => Pending(strand'[b], x, uuid'[n])
    BY DEF LockEntry
  <2>1. /\ locked'[b][x] = locked[b][x]
        /\ \A other \in Ids : locked'[b][other] \in {locked[b][other], NoNode}
        /\ b = a => t.id # x \/ t.status # "disconnected"
    BY <1>4
  <2>2. UNCHANGED <<uuid, owner>>
    BY <1>1 DEF nodeVars
  <2>3. uuid[locked[b][x]] # x => Pending(strand'[b], x, uuid'[locked[b][x]])
    BY <1>1, <1>3, <2>1, <2>2, PopsLockEntry
  <2>4. /\ owner[locked[b][x]] = b /\ b \in Monitoring
        /\ \A other \in Ids : locked[b][other] = locked[b][x] => other = x
    BY <2>1, EntryIs
  <2>. QED
    BY <1>2, <2>1, <2>2, <2>3, <2>4
<1>. QED
  BY <1>3, <1>5, <1>6, <1>7

\* Listing the nodes keeps the invariant.
LEMMA SendFullNodeListInv ==
    ASSUME IInv, NEW a \in Apps, SendFullNodeList(a)
    PROVE  IInv'
<1>. USE DEF IInv
<1>1. /\ strand[a] # <<>> /\ Head(strand[a]).op # "changed"
      /\ conn' = [conn EXCEPT ![a] = IF @ = "accepted" THEN "open" ELSE @]
      /\ strand' = Popped(a)
      /\ UNCHANGED <<nodeVars, locked, requests, hung>>
  BY DEF SendFullNodeList, Next1
<1>2. Monitoring' = Monitoring /\ Fresh' \subseteq Fresh /\ Random' = Random
  BY <1>1 DEF Monitoring, Fresh, Random, nodeVars, TypeOK
<1>3. /\ strand' \in [Apps -> Seq(Task)]
      /\ Grown(Tail(strand[a]), strand'[a])
      /\ \A b \in Apps \ {a} : Grown(strand[b], strand'[b])
      /\ StrandsLive'
      /\ RequestsKnown'
  BY <1>1, <1>2, PopsStrands
<1>4. TypeOK'
  <2>1. conn' \in [Apps -> {"none", "accepted", "open", "closing", "gone"}]
    BY <1>1 DEF TypeOK
  <2>. QED
    BY <1>1, <1>2, <1>3, <2>1 DEF TypeOK, nodeVars
<1>5. UuidOrigin' /\ Settled' /\ RegistryTrue'
  BY <1>1 DEF UuidOrigin, Settled, RegistryTrue, Random, nodeVars
<1>6. LockEntries'
  <2>1. UNCHANGED <<uuid, owner, locked>>
    BY <1>1 DEF nodeVars
  <2>2. \A b \in Apps, x \in Ids : (locked[b][x] # NoNode /\ uuid[locked[b][x]] # x) =>
            Pending(strand'[b], x, uuid[locked[b][x]])
    BY <1>1, <1>3, <2>1, PopsLockEntry
  <2>. QED
    BY <1>2, <2>1, <2>2, EntriesKept
<1>. QED
  BY <1>3, <1>4, <1>5, <1>6

\* An upgrade keeps the invariant: it touches neither locks nor uuids.
LEMMA UpgradeNodeFirmwareInv ==
    ASSUME IInv, NEW a \in Apps, UpgradeNodeFirmware(a)
    PROVE  IInv'
<1>. USE DEF IInv
<1>. DEFINE n == registry[Head(strand[a]).id]
<1>1. /\ strand[a] # <<>> /\ Head(strand[a]).op = "upgrade"
      /\ UNCHANGED <<uuid, owner, attached, registry, minted, replies, refreshed,
                     conn, locked, requests, hung>>
  BY Zenon DEF UpgradeNodeFirmware, Next1
<1>2. \/ strand' = Popped(a) /\ UNCHANGED <<status, link>>
      \/ /\ n # NoNode
         /\ status' = [status EXCEPT ![n] = "upgrading"]
         /\ link' = [link EXCEPT ![EndpointOf[n]] = IF @ = "up" THEN "upgrading" ELSE @]
         /\ strand' = Notify(Popped(a), StatusChange(registry, n, "upgrading"))
  BY Zenon DEF UpgradeNodeFirmware
<1>3. n \in Nodes \cup {NoNode}
  <2>1. Head(strand[a]) \in Task
    BY <1>1, HeadTailProperties DEF TypeOK
  <2>2. Head(strand[a]).id \in Ids
    BY <1>1, <2>1 DEF Task, Request, Change
  <2>. QED
    BY <2>2 DEF TypeOK
<1>4. Monitoring' = Monitoring /\ Fresh' \subseteq Fresh /\ Random' = Random
  BY <1>1 DEF Monitoring, Fresh, Random
<1>5. strand' = Popped(a) \/ PostsOn(Popped(a))
  <2>1. n # NoNode => StatusChange(registry, n, "upgrading") \in Seq(Change)
    BY <1>3, StatusChangeType DEF Status
  <2>. QED
    BY <1>2, <2>1, Zenon DEF PostsOn
<1>6. /\ strand' \in [Apps -> Seq(Task)]
      /\ Grown(Tail(strand[a]), strand'[a])
      /\ \A b \in Apps \ {a} : Grown(strand[b], strand'[b])
      /\ StrandsLive'
      /\ RequestsKnown'
  BY <1>1, <1>4, <1>5, PopsStrands
<1>7. /\ status' \in [Nodes -> Status]
      /\ link' \in [Endpoints -> {"up", "upgrading", "silent", "cancelled", "down"}]
      /\ \A m \in Nodes : status'[m] = "available" => status[m] = "available"
  <2>. HIDE DEF n
  <2>1. status \in [Nodes -> Status] /\ link \in [Endpoints -> {"up", "upgrading", "silent", "cancelled", "down"}]
    BY DEF TypeOK
  <2>. HIDE DEF IInv
  <2>2. status' = status \/ status' = [status EXCEPT ![n] = "upgrading"]
    BY <1>2
  <2>3. link' = link \/ link' = [link EXCEPT ![EndpointOf[n]] = IF @ = "up" THEN "upgrading" ELSE @]
    BY <1>2
  <2>4. status' \in [Nodes -> Status] /\ \A m \in Nodes : status'[m] = "available" => status[m] = "available"
    BY <2>1, <2>2 DEF Status
  <2>5. link' \in [Endpoints -> {"up", "upgrading", "silent", "cancelled", "down"}]
    BY <2>1, <2>3
  <2>. QED
    BY <2>4, <2>5
<1>8. TypeOK'
  BY <1>1, <1>4, <1>6, <1>7 DEF TypeOK
<1>9. UuidOrigin' /\ RegistryTrue' /\ Settled'
  BY <1>1, <1>7 DEF UuidOrigin, RegistryTrue, Settled, Random
<1>10. LockEntries'
  <2>1. \A b \in Apps, x \in Ids : (locked[b][x] # NoNode /\ uuid[locked[b][x]] # x) =>
            Pending(strand'[b], x, uuid[locked[b][x]])
    BY <1>1, <1>6, PopsLockEntry
  <2>. QED
    BY <1>1, <1>4, <2>1, EntriesKept
<1>. QED
  BY <1>6, <1>8, <1>9, <1>10

\* LockNode keeps the invariant.
LEMMA LockNodeInv ==
    ASSUME IInv, NEW a \in Apps, LockNode(a)
    PROVE  IInv'
<1>. USE DEF IInv
<1>. DEFINE id == Head(strand[a]).id
            n  == registry[id]
<1>1. /\ strand[a] # <<>> /\ Head(strand[a]).op = "lock"
      /\ UNCHANGED <<uuid, attached, registry, minted, link, replies, refreshed,
                     conn, requests, hung>>
  BY Zenon DEF LockNode, Next1
<1>2. id \in Ids /\ n \in Nodes \cup {NoNode}
  <2>1. Head(strand[a]) \in Task
    BY <1>1, HeadTailProperties DEF TypeOK
  <2>2. id \in Ids
    BY <1>1, <2>1 DEF Task, Request, Change
  <2>. QED
    BY <2>2 DEF TypeOK
<1>3. Monitoring' = Monitoring /\ Fresh' \subseteq Fresh /\ Random' = Random
  BY <1>1 DEF Monitoring, Fresh, Random
<1>4. \/ strand' = Popped(a) /\ UNCHANGED <<status, owner, locked>>
      \/ /\ n # NoNode /\ owner[n] = a
         /\ locked' = [locked EXCEPT ![a][id] = n]
         /\ strand' = Popped(a) /\ UNCHANGED <<status, owner>>
      \/ /\ locked' = [locked EXCEPT ![a][id] = NoNode]
         /\ strand' = Popped(a) /\ UNCHANGED <<status, owner>>
      \/ /\ n # NoNode /\ owner[n] = NoApp /\ status[n] = "available"
         /\ locked' = [locked EXCEPT ![a][id] = n]
         /\ owner' = [owner EXCEPT ![n] = a]
         /\ status' = [status EXCEPT ![n] = "busy"]
         /\ strand' = Notify(Popped(a), StatusChange(registry, n, "busy"))
  BY Zenon DEF LockNode, Lockable, Forget
<1>. HIDE DEF id, n
<1>5. strand' = Popped(a) \/ PostsOn(Popped(a))
  <2>1. n # NoNode => StatusChange(registry, n, "busy") \in Seq(Change)
    BY <1>2, StatusChangeType DEF Status
  <2>. QED
    BY <1>4, <2>1 DEF PostsOn
<1>6. /\ strand' \in [Apps -> Seq(Task)]
      /\ Grown(Tail(strand[a]), strand'[a])
      /\ \A b \in Apps \ {a} : Grown(strand[b], strand'[b])
      /\ StrandsLive'
      /\ RequestsKnown'
  BY <1>1, <1>3, <1>5, PopsStrands
<1>7. TypeOK'
  <2>1. locked' \in [Apps -> [Ids -> Nodes \cup {NoNode}]]
    <3>1. locked' = locked \/ Written(a, id, n) \/ Written(a, id, NoNode)
      BY <1>4 DEF Written
    <3>2. ASSUME NEW v \in Nodes \cup {NoNode}, Written(a, id, v)
          PROVE  locked' \in [Apps -> [Ids -> Nodes \cup {NoNode}]]
      BY <1>2, <3>2, EntryWritten
    <3>3. locked \in [Apps -> [Ids -> Nodes \cup {NoNode}]]
      BY DEF TypeOK
    <3>. QED
      BY <1>2, <3>1, <3>2, <3>3
  <2>2. status' \in [Nodes -> Status] /\ owner' \in [Nodes -> Apps \cup {NoApp}]
    <3>1. \/ UNCHANGED <<status, owner>>
          \/ /\ n \in Nodes
             /\ status' = [status EXCEPT ![n] = "busy"] /\ owner' = [owner EXCEPT ![n] = a]
      BY <1>2, <1>4
    <3>2. status \in [Nodes -> Status] /\ owner \in [Nodes -> Apps \cup {NoApp}]
      BY DEF TypeOK
    <3>. HIDE DEF IInv
    <3>. QED
      BY <3>1, <3>2 DEF Status
  <2>. QED
    BY <1>1, <1>3, <1>6, <2>1, <2>2 DEF TypeOK
<1>8. UuidOrigin' /\ RegistryTrue'
  BY <1>1 DEF UuidOrigin, RegistryTrue, Random
<1>9. Settled'
  <2>1. \A m \in Nodes : (status'[m] = "available" \/ owner'[m] # NoApp) =>
            (status[m] = "available" \/ owner[m] # NoApp)
    BY <1>2, <1>4 DEF TypeOK
  <2>. QED
    BY <1>1, <2>1 DEF Settled
<1>10. LockEntries'
  <2>1. CASE UNCHANGED <<owner, locked>>
    <3>1. \A b \in Apps, x \in Ids : (locked[b][x] # NoNode /\ uuid[locked[b][x]] # x) =>
              Pending(strand'[b], x, uuid[locked[b][x]])
      BY <1>1, <1>6, <2>1, PopsLockEntry
    <3>. QED
      BY <1>1, <1>3, <2>1, <3>1, EntriesKept
  <2>2. CASE /\ n # NoNode /\ owner[n] \in {NoApp, a} /\ Written(a, id, n)
             /\ \A m \in Nodes : owner'[m] = IF m = n THEN a ELSE owner[m]
    <3>1. n \in Nodes /\ Head(strand[a]).id = id /\ registry[id] = n
      BY <1>2, <2>2 DEF id, n
    <3>. QED
      BY <1>1, <1>2, <1>6, <2>2, <3>1, LockGrantedEntries
  <2>3. CASE Written(a, id, NoNode) /\ owner' = owner
    BY <1>1, <1>2, <1>6, <2>3, EntryDroppedEntries
  <2>4. \/ UNCHANGED <<owner, locked>>
        \/ n # NoNode /\ owner[n] = a /\ Written(a, id, n) /\ owner' = owner
        \/ Written(a, id, NoNode) /\ owner' = owner
        \/ /\ n # NoNode /\ owner[n] = NoApp /\ Written(a, id, n)
           /\ owner' = [owner EXCEPT ![n] = a]
    BY <1>4 DEF Written
  <2>5. owner' = [owner EXCEPT ![n] = a] =>
            \A m \in Nodes : owner'[m] = IF m = n THEN a ELSE owner[m]
    BY DEF TypeOK
  <2>. QED
    BY <2>1, <2>2, <2>3, <2>4, <2>5
<1>. QED
  BY <1>6, <1>7, <1>8, <1>9, <1>10

\* UnlockNode keeps the invariant.
LEMMA UnlockNodeInv ==
    ASSUME IInv, NEW a \in Apps, UnlockNode(a)
    PROVE  IInv'
<1>. USE DEF IInv
<1>. DEFINE id == Head(strand[a]).id
            n  == locked[a][id]
<1>1. /\ strand[a] # <<>> /\ Head(strand[a]).op = "unlock"
      /\ Written(a, id, NoNode)
      /\ UNCHANGED <<uuid, attached, registry, minted, link, replies, refreshed,
                     conn, requests, hung>>
  BY Zenon DEF UnlockNode, Next1, Forget, Written
<1>2. id \in Ids /\ n \in Nodes \cup {NoNode}
  <2>1. Head(strand[a]) \in Task
    BY <1>1, HeadTailProperties DEF TypeOK
  <2>2. id \in Ids
    BY <1>1, <2>1, Zenon DEF Task, Request, Change
  <2>. HIDE DEF id
  <2>. QED
    BY <2>2, EntryType
<1>3. Monitoring' = Monitoring /\ Fresh' \subseteq Fresh /\ Random' = Random
  BY <1>1 DEF Monitoring, Fresh, Random
<1>4. \/ strand' = Popped(a) /\ UNCHANGED <<status, owner>>
      \/ /\ n # NoNode /\ owner[n] = a
         /\ owner' = [owner EXCEPT ![n] = NoApp]
         /\ status' = [status EXCEPT ![n] = "available"]
         /\ strand' = Notify(Popped(a), StatusChange(registry, n, "available"))
  BY Zenon DEF UnlockNode
<1>. HIDE DEF id, n
<1>5. strand' = Popped(a) \/ PostsOn(Popped(a))
  <2>1. n # NoNode => StatusChange(registry, n, "available") \in Seq(Change)
    BY <1>2, StatusChangeType DEF Status
  <2>. QED
    BY <1>4, <2>1 DEF PostsOn
<1>6. /\ strand' \in [Apps -> Seq(Task)]
      /\ Grown(Tail(strand[a]), strand'[a])
      /\ \A b \in Apps \ {a} : Grown(strand[b], strand'[b])
      /\ StrandsLive'
      /\ RequestsKnown'
  BY <1>1, <1>3, <1>5, PopsStrands
<1>7. TypeOK'
  <2>1. /\ status' \in [Nodes -> Status]
        /\ owner' \in [Nodes -> Apps \cup {NoApp}]
        /\ locked' \in [Apps -> [Ids -> Nodes \cup {NoNode}]]
    <3>1. locked' \in [Apps -> [Ids -> Nodes \cup {NoNode}]]
      BY <1>1, <1>2, EntryWritten
    <3>2. status' \in [Nodes -> Status] /\ owner' \in [Nodes -> Apps \cup {NoApp}]
      BY <1>2, <1>4 DEF TypeOK, Status
    <3>. QED
      BY <3>1, <3>2
  <2>. QED
    BY <1>1, <1>3, <1>6, <2>1 DEF TypeOK
<1>8. UuidOrigin' /\ RegistryTrue'
  BY <1>1 DEF UuidOrigin, RegistryTrue, Random
<1>9. Settled'
  <2>1. \A m \in Nodes : (status'[m] = "available" \/ owner'[m] # NoApp) =>
            (status[m] = "available" \/ owner[m] # NoApp)
    BY <1>2, <1>4, ConstantsOK DEF TypeOK
  <2>. QED
    BY <1>1, <2>1 DEF Settled
<1>10. LockEntries'
  <2>1. \A m \in Nodes : m = locked[a][id] \/ owner'[m] = owner[m]
    BY <1>4 DEF n, TypeOK
  <2>. QED
    BY <1>1, <1>2, <1>6, <2>1, EntryDroppedEntries, Zenon
<1>. QED
  BY <1>6, <1>7, <1>8, <1>9, <1>10

=============================================================================
