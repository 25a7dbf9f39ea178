------------------------- MODULE DeviceManagerRobots -------------------------
(***************************************************************************)
(* What robots and endpoints cause keeps the inductive invariant: a node   *)
(* that appears, its answers, the health check, the loss of an endpoint.   *)
(***************************************************************************)
EXTENDS DeviceManagerInvariant

\* What a robot may be called after an answer, and what is then known of it.
LEMMA UuidAfterIs ==
    ASSUME IInv, NEW n \in attached, Stored[n] # Silent, NEW id \in UuidAfter(n)
    PROVE  /\ id \in Ids
           /\ Stored[n] \in Ids => id = Stored[n]
           /\ id = uuid[n] \/ id \in Fresh \/ (id = Stored[n] /\ id \notin Random)
<1>1. n \in Nodes /\ uuid[n] \in Ids
  BY DEF IInv, TypeOK, UuidOrigin
<1>. QED
  BY <1>1, ConstantsOK DEF UuidAfter, Fresh, Random

\* OnDeviceInfoUuid keeps the invariant. The uuid of a locked robot changes only
\* to one drawn just now, so no request about it is queued yet, and the entry
\* under the old uuid has its disconnection on the strand.
LEMMA OnDeviceInfoUuidInv ==
    ASSUME IInv, ~hung, NEW n \in Nodes, OnDeviceInfoUuid(n)
    PROVE  IInv'
<1>. USE DEF IInv
<1>1. n \in attached /\ Stored[n] # Silent
  BY DEF OnDeviceInfoUuid
<1>2. PICK id \in UuidAfter(n) :
        LET left   == Drop(registry, {n})
            old    == left[id]
            rivals == {m \in attached : old # NoNode /\ EndpointOf[m] = EndpointOf[old]}
        IN
        /\ uuid' = [uuid EXCEPT ![n] = id]
        /\ minted' = minted \cup ({id} \cap Random)
        /\ \/ /\ rivals = {} \/ old \notin Held
              /\ status' = [status EXCEPT ![n] = "available"]
              /\ UNCHANGED <<attached, hung>>
           \/ /\ \E first \in rivals :
                    /\ RemoveNode(first, id)
                    /\ attached' = attached \ {first}
                    /\ status' = [status EXCEPT ![first] = "disconnected", ![n] = "available"]
              /\ UNCHANGED hung
           \/ /\ \E first \in rivals : ~RemoveNode(first, id)
              /\ hung' = TRUE
              /\ UNCHANGED <<attached, status>>
        /\ registry' = [left EXCEPT ![id] = IF hung' THEN NoNode ELSE n]
        /\ \E again \in Regroup(n, id) :
            strand' = Notify(strand, Bye(n) \o IF hung' THEN <<>>
                                               ELSE again \o <<Changed(n, id, "available")>>)
  BY DEF OnDeviceInfoUuid
<1>3. /\ replies' = [replies EXCEPT ![n] = @ + 1]
      /\ link' = AfterRead(EndpointOf[n])
      /\ UNCHANGED <<owner, refreshed, conn, locked, requests>>
  BY DEF OnDeviceInfoUuid
<1>4. /\ id \in Ids /\ id # Nil
      /\ Stored[n] \in Ids => id = Stored[n]
      /\ id = uuid[n] \/ id \in Fresh \/ (id = Stored[n] /\ id \notin Random)
  BY <1>1, <1>2, UuidAfterIs, ConstantsOK
<1>5. /\ attached' \subseteq attached
      /\ hung' \in BOOLEAN
      /\ status' \in [Nodes -> Status]
      /\ \A m \in Nodes \ {n} : status'[m] = "available" => status[m] = "available"
  <2>1. CASE attached' = attached /\ hung' = hung /\ status' = [status EXCEPT ![n] = "available"]
    BY <2>1 DEF TypeOK, Status
  <2>2. CASE /\ hung' = hung
             /\ \E first \in attached :
                    /\ attached' = attached \ {first}
                    /\ status' = [status EXCEPT ![first] = "disconnected", ![n] = "available"]
    BY <2>2 DEF TypeOK, Status
  <2>3. CASE hung' = TRUE /\ UNCHANGED <<attached, status>>
    BY <2>3 DEF TypeOK, Status
  <2>. QED
    BY <1>2, <2>1, <2>2, <2>3
<1>. PICK again \in Regroup(n, id) :
        strand' = Notify(strand, Bye(n) \o IF hung' THEN <<>>
                                           ELSE again \o <<Changed(n, id, "available")>>)
  BY <1>2
<1>. DEFINE last == <<Changed(n, id, "available")>>
            more == IF hung' THEN <<>> ELSE again \o last
            tell == Bye(n) \o more
<1>6. tell \in Seq(Change) /\ (IdsOf(registry, n) # {} => tell # <<>> /\ tell[1] = Bye(n)[1])
  <2>1. Changed(n, id, "available") \in Change
    BY <1>4 DEF Changed, Change, Status
  <2>2. more \in Seq(Change) /\ Len(more) \in Nat
    <3>1. again \in Seq(Change)
      <4>1. CASE again = <<>>
        BY <4>1, EmptySeq
      <4>2. CASE again # <<>>
        <5>. DEFINE there == {m \in attached' : EndpointOf[m] = EndpointOf[n] /\ status[m] # "connected"}
        <5>1. again \in Signals(registry', there, status)
          BY <4>2 DEF Regroup
        <5>2. there \in SUBSET Nodes /\ status \in [Nodes -> Status]
          BY <1>5 DEF TypeOK
        <5>. HIDE DEF there
        <5>. QED
          BY <5>1, <5>2, SignalsType
      <4>. QED
        BY <4>1, <4>2
    <3>2. last \in Seq(Change)
      BY <2>1
    <3>. HIDE DEF last
    <3>3. again \o last \in Seq(Change)
      BY <3>1, <3>2, ConcatProperties
    <3>. QED
      BY <3>3, EmptySeq, LenProperties
  <2>3. Bye(n) \in Seq(Change)
    BY StatusChangeType DEF Status, Bye
  <2>4. IdsOf(registry, n) # {} => Len(Bye(n)) = 1
    BY DEF StatusChange, Bye
  <2>. HIDE DEF more
  <2>5. /\ Bye(n) \o more \in Seq(Change)
        /\ Len(Bye(n)) = 1 => (Bye(n) \o more)[1] = Bye(n)[1] /\ Bye(n) \o more # <<>>
    BY <2>2, <2>3, ConcatProperties
  <2>. QED
    BY <2>4, <2>5
<1>7. PostsOn(strand)
  BY <1>2, <1>6 DEF PostsOn
<1>8. Fresh' \subseteq Fresh
  BY <1>2 DEF Fresh
<1>9. /\ strand' \in [Apps -> Seq(Task)]
      /\ \A a \in Apps : Grown(strand[a], strand'[a])
      /\ StrandsLive'
      /\ RequestsKnown'
  BY <1>3, <1>7, <1>8, PostsStrands
<1>10. registry' = [x \in Ids |-> IF x = id THEN (IF hung' THEN NoNode ELSE n)
                                  ELSE IF registry[x] = n THEN NoNode ELSE registry[x]]
  BY <1>2, <1>4 DEF Drop
<1>11. TypeOK'
  <2>1. minted' \subseteq Random'
    BY <1>2 DEF TypeOK, Random
  <2>2. link' \in [Endpoints -> {"up", "upgrading", "silent", "cancelled", "down"}]
    BY <1>3 DEF AfterRead, TypeOK
  <2>3. registry' \in [Ids -> Nodes \cup {NoNode}]
    BY <1>10 DEF TypeOK
  <2>4. replies' \in [Nodes -> Nat] /\ uuid' \in [Nodes -> Ids \cup {Nil}]
    <3>1. replies \in [Nodes -> Nat] /\ uuid \in [Nodes -> Ids \cup {Nil}]
      BY DEF TypeOK
    <3>2. replies' \in [Nodes -> Nat]
      BY <1>3, <3>1
    <3>3. uuid' \in [Nodes -> Ids \cup {Nil}]
      BY <1>2, <1>4, <3>1
    <3>. QED
      BY <3>2, <3>3
  <2>5. attached' \subseteq Nodes
    BY <1>5 DEF TypeOK
  <2>. QED
    BY <1>3, <1>5, <1>9, <2>1, <2>2, <2>3, <2>4, <2>5 DEF TypeOK
<1>12. \A m \in Nodes : uuid'[m] = IF m = n THEN id ELSE uuid[m]
  BY <1>2 DEF TypeOK
<1>13. Settled'
  BY <1>3, <1>4, <1>5, <1>12 DEF Settled, TypeOK
<1>14. id \in Fresh => \A m \in Nodes : uuid[m] # id
  BY ConstantsOK DEF UuidOrigin, Fresh, Random
<1>15. UuidOrigin'
  <2>1. Random' = Random
    BY DEF Random
  <2>2. \A m \in Nodes : uuid'[m] \in minted' \cup {Stored[m], Nil}
    BY <1>2, <1>4, <1>12 DEF UuidOrigin, Fresh
  <2>3. \A m \in attached' : uuid'[m] # Nil
    BY <1>4, <1>5, <1>12 DEF UuidOrigin, TypeOK
  <2>4. ASSUME NEW l \in Nodes, NEW m \in Nodes, uuid'[l] = uuid'[m], uuid'[m] \in Random
        PROVE  l = m
    BY <1>4, <1>12, <1>14, <2>4 DEF UuidOrigin
  <2>. QED
    BY <2>1, <2>2, <2>3, <2>4 DEF UuidOrigin
<1>16. RegistryTrue'
  <2>1. \A x \in Ids : registry'[x] # NoNode => uuid'[registry'[x]] = x
    BY <1>4, <1>10, <1>12, ConstantsOK DEF RegistryTrue, TypeOK
  <2>2. ASSUME ~hung', NEW m \in attached', uuid'[m] \in Random
        PROVE  registry'[uuid'[m]] = m
    <3>1. CASE m = n
      BY <1>4, <1>10, <1>12, <2>2, <3>1
    <3>2. CASE m # n
      <4>1. m \in Nodes /\ uuid'[m] = uuid[m] /\ registry[uuid[m]] = m
        BY <1>5, <1>12, <2>2, <3>2 DEF RegistryTrue, TypeOK
      <4>2. uuid[m] # id
        BY <1>4, <1>14, <2>2, <3>2, <4>1 DEF UuidOrigin
      <4>3. uuid[m] \in Ids
        BY <2>2, <4>1 DEF Random
      <4>. QED
        BY <1>10, <3>2, <4>1, <4>2, <4>3
    <3>. QED
      BY <3>1, <3>2
  <2>3. Random' = Random
    BY DEF Random
  <2>. QED
    BY <2>1, <2>2, <2>3 DEF RegistryTrue
<1>17. LockEntries'
  <2>. SUFFICES ASSUME NEW a \in Apps, NEW x \in Ids PROVE LockEntry(a, x)'
    BY DEF LockEntries
  <2>. SUFFICES ASSUME locked[a][x] # NoNode
                PROVE  LET m == locked[a][x] IN
                       /\ owner[m] = a
                       /\ a \in Monitoring'
                       /\ \A other \in Ids : locked[a][other] = m => other = x
                       /\ uuid'[m] # x => Pending(strand'[a], x, uuid'[m])
    BY <1>3 DEF LockEntry
  <2>. DEFINE m == locked[a][x]
  <2>1. /\ m \in Nodes /\ owner[m] = a /\ a \in Monitoring
        /\ \A other \in Ids : locked[a][other] = m => other = x
        /\ uuid[m] # x => Pending(strand[a], x, uuid[m])
    BY EntryIs
  <2>2. a \in Monitoring'
    BY <1>3, <2>1 DEF Monitoring
  <2>3. ASSUME uuid'[m] # x
        PROVE  Pending(strand'[a], x, uuid'[m])
    <3>1. CASE uuid'[m] = uuid[m]
      BY <1>9, <2>1, <2>3, <3>1, GrownPending DEF TypeOK
    <3>2. CASE uuid'[m] # uuid[m]
      <4>1. m = n /\ uuid'[m] = id /\ id # uuid[n]
        BY <1>12, <2>1, <3>2
      <4>2. owner[n] # NoApp
        BY <2>1, <4>1, ConstantsOK
      <4>3. Stored[n] \notin Ids /\ id \in Fresh
        BY <1>4, <4>1, <4>2 DEF Settled
      <4>4. \A i \in 1..Len(strand[a]) : strand[a][i].op # "changed" => strand[a][i].id # id
        BY <4>3 DEF RequestsKnown
      <4>5. CASE uuid[n] = x
        <5>1. uuid[n] \in Random
          BY <4>3, <4>5, ConstantsOK DEF UuidOrigin, TypeOK
        <5>2. registry[x] = n
          BY <1>1, <4>5, <5>1 DEF RegistryTrue
        <5>3. Bye(n)[1].id = x /\ Bye(n)[1].status = "disconnected"
          <6>1. IdsOf(registry, n) # {} /\ \A y \in IdsOf(registry, n) : y = x
            BY <4>5, <5>2, ConstantsOK DEF IdsOf, RegistryTrue
          <6>2. (CHOOSE y \in IdsOf(registry, n) : TRUE) = x
            BY <6>1
          <6>. QED
            BY <6>1, <6>2 DEF StatusChange, Changed, Bye
        <5>4. tell # <<>> /\ tell[1] = Bye(n)[1]
          BY <1>6, <5>2 DEF IdsOf
        <5>5. strand'[a] = strand[a] \o tell
          BY <1>2, <2>1, Zenon DEF Notify
        <5>6. strand[a] \in Seq(Task)
          BY DEF TypeOK
        <5>. HIDE DEF tell
        <5>. QED
          BY <1>6, <4>1, <4>4, <5>3, <5>4, <5>5, <5>6, PostedPending
      <4>6. CASE uuid[n] # x
        <5>1. Pending(strand[a], x, uuid[n])
          BY <2>1, <4>1, <4>6
        <5>2. Pending(strand[a], x, id)
          BY <4>4, <5>1 DEF Pending
        <5>. QED
          BY <1>9, <4>1, <5>2, GrownPending DEF TypeOK
      <4>. QED
        BY <4>5, <4>6
    <3>. QED
      BY <3>1, <3>2
  <2>. QED
    BY <2>1, <2>2, <2>3, Zenon
<1>. QED
  BY <1>9, <1>11, <1>13, <1>15, <1>16, <1>17

\* NodePresent keeps the invariant: the new node has a uuid nobody has seen.
LEMMA NodePresentInv ==
    ASSUME IInv, NEW n \in Nodes, NodePresent(n)
    PROVE  IInv'
<1>. USE DEF IInv
<1>1. PICK id \in Fresh :
        /\ uuid' = [uuid EXCEPT ![n] = id]
        /\ minted' = minted \cup {id}
        /\ registry' = [registry EXCEPT ![id] = n]
        /\ strand' = Notify(strand, <<Changed(n, id, "connected")>>)
  BY DEF NodePresent
<1>2. /\ uuid[n] = Nil
      /\ status' = [status EXCEPT ![n] = "connected"]
      /\ attached' = attached \cup {n}
      /\ UNCHANGED <<owner, link, replies, refreshed, conn, locked, requests, hung>>
  BY DEF NodePresent
<1>3. id \in Ids /\ id \in Random /\ id \notin minted /\ id # Nil
  BY <1>1, ConstantsOK DEF Fresh, Random
<1>4. PostsOn(strand)
  <2>1. Changed(n, id, "connected") \in Change
    BY <1>3 DEF Changed, Change, Status
  <2>2. <<Changed(n, id, "connected")>> \in Seq(Change)
    BY <2>1
  <2>. QED
    BY <1>1, <2>2 DEF PostsOn
<1>5. Fresh' \subseteq Fresh
  BY <1>1 DEF Fresh
<1>6. /\ strand' \in [Apps -> Seq(Task)]
      /\ \A a \in Apps : Grown(strand[a], strand'[a])
      /\ StrandsLive'
      /\ RequestsKnown'
  BY <1>2, <1>4, <1>5, PostsStrands
<1>7. TypeOK'
  BY <1>1, <1>2, <1>3, <1>6 DEF TypeOK, Status
<1>8. \A m \in Nodes : uuid[m] # id
  BY <1>3 DEF UuidOrigin, Random
<1>9. owner[n] = NoApp
  BY <1>2 DEF Settled
<1>10. Settled'
  BY <1>1, <1>2, <1>9 DEF Settled, TypeOK
<1>11. UuidOrigin'
  <2>1. \A m \in Nodes : uuid'[m] = IF m = n THEN id ELSE uuid[m]
    BY <1>1 DEF TypeOK
  <2>2. Random' = Random
    BY DEF Random
  <2>3. \A m \in Nodes : uuid'[m] \in minted' \cup {Stored[m], Nil}
    <3>1. \A m \in Nodes : uuid[m] \in minted \cup {Stored[m], Nil}
      BY DEF UuidOrigin
    <3>2. minted \subseteq minted' /\ id \in minted'
      BY <1>1
    <3>. HIDE DEF IInv
    <3>. QED
      BY <2>1, <3>1, <3>2
  <2>4. \A m \in attached' : uuid'[m] # Nil
    BY <1>2, <1>3, <2>1 DEF UuidOrigin, TypeOK
  <2>5. \A l, m \in Nodes : uuid'[l] = uuid'[m] /\ uuid'[m] \in Random => l = m
    BY <1>8, <2>1 DEF UuidOrigin
  <2>. QED
    BY <2>2, <2>3, <2>4, <2>5 DEF UuidOrigin
<1>12. RegistryTrue'
  BY <1>1, <1>2, <1>3, <1>8, ConstantsOK DEF RegistryTrue, TypeOK
<1>13. LockEntries'
  <2>. SUFFICES ASSUME NEW a \in Apps, NEW x \in Ids PROVE LockEntry(a, x)'
    BY DEF LockEntries
  <2>. SUFFICES ASSUME locked[a][x] # NoNode
                PROVE  LET m == locked[a][x] IN
                       /\ owner[m] = a
                       /\ a \in Monitoring'
                       /\ \A other \in Ids : locked[a][other] = m => other = x
                       /\ uuid'[m] # x => Pending(strand'[a], x, uuid'[m])
    BY <1>2 DEF LockEntry
  <2>. DEFINE m == locked[a][x]
  <2>1. /\ m \in Nodes /\ owner[m] = a /\ a \in Monitoring
        /\ \A other \in Ids : locked[a][other] = m => other = x
        /\ uuid[m] # x => Pending(strand[a], x, uuid[m])
    BY EntryIs
  <2>2. m # n
    BY <1>9, <2>1, ConstantsOK
  <2>. HIDE DEF m
  <2>3. uuid'[m] = uuid[m]
    BY <1>1, <2>1, <2>2 DEF TypeOK
  <2>4. strand[a] \in Seq(Task) /\ Grown(strand[a], strand'[a])
    BY <1>6 DEF TypeOK
  <2>5. uuid'[m] # x => Pending(strand'[a], x, uuid'[m])
    BY <2>1, <2>3, <2>4, GrownPending
  <2>6. a \in Monitoring'
    BY <1>2, <2>1 DEF Monitoring
  <2>. QED
    BY <2>1, <2>5, <2>6 DEF m
<1>. QED
  BY <1>6, <1>7, <1>10, <1>11, <1>12, <1>13

\* on_description_received keeps the invariant: such a robot keeps its uuid.
LEMMA OnDescriptionReceivedInv ==
    ASSUME IInv, NEW n \in Nodes, OnDescriptionReceived(n)
    PROVE  IInv'
<1>. USE DEF IInv
<1>1. /\ n \in attached /\ Stored[n] = Silent
      /\ replies' = [replies EXCEPT ![n] = @ + 1]
      /\ status' = [status EXCEPT ![n] = "available"]
      /\ strand' = Notify(strand, StatusChange(registry, n, "available"))
      /\ link' = AfterRead(EndpointOf[n])
      /\ UNCHANGED <<uuid, owner, attached, registry, minted, refreshed,
                     conn, locked, requests, hung>>
  BY DEF OnDescriptionReceived
<1>2. PostsOn(strand) /\ Fresh' \subseteq Fresh
  BY <1>1, StatusChangeType DEF PostsOn, Status, Fresh
<1>3. /\ strand' \in [Apps -> Seq(Task)]
      /\ \A a \in Apps : Grown(strand[a], strand'[a])
      /\ StrandsLive'
      /\ RequestsKnown'
  BY <1>1, <1>2, PostsStrands
<1>4. TypeOK'
  <2>1. link' \in [Endpoints -> {"up", "upgrading", "silent", "cancelled", "down"}]
    BY <1>1 DEF AfterRead, TypeOK
  <2>2. replies' \in [Nodes -> Nat] /\ status' \in [Nodes -> Status]
    BY <1>1 DEF TypeOK, Status
  <2>3. Random' = Random
    BY DEF Random
  <2>. QED
    BY <1>1, <1>3, <2>1, <2>2, <2>3 DEF TypeOK
<1>5. UuidOrigin' /\ RegistryTrue'
  BY <1>1, Zenon DEF UuidOrigin, RegistryTrue, Random
<1>6. Settled'
  BY <1>1, ConstantsOK DEF Settled, UuidOrigin, TypeOK
<1>7. LockEntries'
  BY <1>1, <1>3, PostsLockEntries, Zenon
<1>. QED
  BY <1>3, <1>4, <1>5, <1>6, <1>7

\* Reading a name or a version keeps the invariant: the status is told again.
LEMMA OnNameOrFirmwareInv ==
    ASSUME IInv, NEW n \in Nodes, OnNameOrFirmware(n)
    PROVE  IInv'
<1>. USE DEF IInv
<1>1. /\ refreshed' = refreshed \cup {n}
      /\ strand' = Notify(strand, IF status[n] = "connected" THEN <<>>
                                  ELSE StatusChange(registry, n, status[n]))
      /\ link' = AfterRead(EndpointOf[n])
      /\ UNCHANGED <<status, uuid, owner, attached, registry, minted, replies,
                     conn, locked, requests, hung>>
  BY DEF OnNameOrFirmware
<1>2. PostsOn(strand) /\ Fresh' \subseteq Fresh
  <2>1. status[n] \in Status
    BY DEF TypeOK
  <2>. QED
    BY <1>1, <2>1, StatusChangeType, EmptySeq DEF PostsOn, Fresh
<1>3. /\ strand' \in [Apps -> Seq(Task)]
      /\ \A a \in Apps : Grown(strand[a], strand'[a])
      /\ StrandsLive'
      /\ RequestsKnown'
  BY <1>1, <1>2, PostsStrands
<1>4. TypeOK'
  <2>1. link' \in [Endpoints -> {"up", "upgrading", "silent", "cancelled", "down"}]
    BY <1>1 DEF AfterRead, TypeOK
  <2>2. Random' = Random /\ refreshed' \subseteq Nodes
    BY <1>1 DEF Random, TypeOK
  <2>. QED
    BY <1>1, <1>3, <2>1, <2>2 DEF TypeOK
<1>5. UuidOrigin' /\ RegistryTrue' /\ Settled'
  BY <1>1, Zenon DEF UuidOrigin, RegistryTrue, Random, Settled
<1>6. LockEntries'
  BY <1>1, <1>3, PostsLockEntries, Zenon
<1>. QED
  BY <1>3, <1>4, <1>5, <1>6

\* Disconnecting robots keeps the invariant, whatever becomes of the endpoint.
LEMMA DisconnectInv ==
    ASSUME IInv, NEW S \in SUBSET Nodes, Disconnect(S),
           link' \in [Endpoints -> {"up", "upgrading", "silent", "cancelled", "down"}]
    PROVE  IInv'
<1>. USE DEF IInv
<1>1. PICK changes \in Signals(registry, S, All("disconnected")) : strand' = Notify(strand, changes)
  BY DEF Disconnect
<1>2. /\ status' = [n \in Nodes |-> IF n \in S THEN "disconnected" ELSE status[n]]
      /\ registry' = Drop(registry, S)
      /\ attached' = attached \ S
      /\ UNCHANGED <<uuid, owner, minted, replies, refreshed, conn, locked, requests, hung>>
  BY DEF Disconnect
<1>3. PostsOn(strand) /\ Fresh' \subseteq Fresh
  <2>1. All("disconnected") \in [Nodes -> Status]
    BY AllType DEF Status
  <2>2. changes \in Seq(Change)
    BY <2>1, SignalsType
  <2>. QED
    BY <1>1, <1>2, <2>2 DEF PostsOn, Fresh
<1>4. /\ strand' \in [Apps -> Seq(Task)]
      /\ \A a \in Apps : Grown(strand[a], strand'[a])
      /\ StrandsLive'
      /\ RequestsKnown'
  BY <1>2, <1>3, PostsStrands
<1>5. TypeOK'
  <2>1. Random' = Random
    BY DEF Random
  <2>2. status' \in [Nodes -> Status] /\ registry' \in [Ids -> Nodes \cup {NoNode}]
    BY <1>2 DEF TypeOK, Status, Drop
  <2>. QED
    BY <1>2, <1>4, <2>1, <2>2 DEF TypeOK
<1>6. UuidOrigin' /\ Settled'
  BY <1>2, Zenon DEF UuidOrigin, Random, Settled
<1>7. RegistryTrue'
  BY <1>2 DEF RegistryTrue, Random, Drop, TypeOK
<1>8. LockEntries'
  BY <1>2, <1>4, PostsLockEntries
<1>. QED
  BY <1>4, <1>5, <1>6, <1>7, <1>8

=============================================================================
