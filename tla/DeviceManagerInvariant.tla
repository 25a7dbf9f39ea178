----------------------- MODULE DeviceManagerInvariant -----------------------
(***************************************************************************)
(* The inductive invariant of DeviceManager, and the lemmas about lock     *)
(* entries and strands on which the proofs about the handlers rest.        *)
(***************************************************************************)
EXTENDS DeviceManager, FiniteSetTheorems, SequenceTheorems, TLAPS

-----------------------------------------------------------------------------
(* The inductive invariant. *)

\* A strand on which the disconnection of id is still to be passed on, with no
\* request about u in front of it.
Pending(q, id, u) ==
    \E i \in 1..Len(q) :
        /\ q[i].op = "changed" /\ q[i].id = id /\ q[i].status = "disconnected"
        /\ \A j \in 1..(i - 1) : q[j].op # "changed" => q[j].id # u

\* Tasks are queued only for applications that are still told about nodes.
StrandsLive == \A a \in Apps : strand[a] # <<>> => a \in Monitoring

\* A client only knows the ids it has been told.
RequestsKnown ==
    \A a \in Apps : \A i \in 1..Len(strand[a]) :
        strand[a][i].op # "changed" => strand[a][i].id \notin Fresh

\* Where a uuid comes from, and that random ones are not drawn twice.
UuidOrigin ==
    /\ \A n \in Nodes : uuid[n] \in minted \cup {Stored[n], Nil}
    /\ \A n \in attached : uuid[n] # Nil
    /\ \A m, n \in Nodes : uuid[m] = uuid[n] /\ uuid[n] \in Random => m = n

\* A robot that can be locked has said who it is, and sticks to it.
Settled ==
    \A n \in Nodes : (status[n] = "available" \/ owner[n] # NoApp) =>
        /\ uuid[n] # Nil
        /\ Stored[n] \in Ids => uuid[n] = Stored[n]

RegistryTrue ==
    /\ \A id \in Ids : registry[id] # NoNode => uuid[registry[id]] = id
    /\ hung \/ \A n \in attached : uuid[n] \in Random => registry[uuid[n]] = n

\* An entry of m_locked_nodes is the owner's, is the only one for its node, and
\* is filed under the uuid of the node or about to be erased.
LockEntry(a, id) ==
    locked[a][id] # NoNode =>
        LET n == locked[a][id] IN
        /\ owner[n] = a
        /\ a \in Monitoring
        /\ \A other \in Ids : locked[a][other] = n => other = id
        /\ uuid[n] # id => Pending(strand[a], id, uuid[n])

LockEntries == \A a \in Apps, id \in Ids : LockEntry(a, id)

IInv ==
    /\ TypeOK
    /\ StrandsLive
    /\ RequestsKnown
    /\ UuidOrigin
    /\ Settled
    /\ RegistryTrue
    /\ LockEntries

-----------------------------------------------------------------------------
(* Lock entries. *)

\* What is known of one entry.
LEMMA EntryIs ==
    ASSUME TypeOK, LockEntries, NEW a \in Apps, NEW id \in Ids, locked[a][id] # NoNode
    PROVE  /\ locked[a][id] \in Nodes
           /\ owner[locked[a][id]] = a
           /\ a \in Monitoring
           /\ \A other \in Ids : locked[a][other] = locked[a][id] => other = id
           /\ uuid[locked[a][id]] # id => Pending(strand[a], id, uuid[locked[a][id]])
<1>1. locked[a][id] \in Nodes
  BY DEF TypeOK
<1>2. LockEntry(a, id)
  BY DEF LockEntries
<1>. QED
  BY <1>1, <1>2 DEF LockEntry

\* Entries that nobody touches stay good as long as their owners are served and
\* the disconnections they wait for stay queued.
LEMMA EntriesKept ==
    ASSUME LockEntries, UNCHANGED <<locked, owner, uuid>>, Monitoring \subseteq Monitoring',
           \A b \in Apps, x \in Ids : (locked[b][x] # NoNode /\ uuid[locked[b][x]] # x) =>
               Pending(strand'[b], x, uuid[locked[b][x]])
    PROVE  LockEntries'
<1>. SUFFICES ASSUME NEW b \in Apps, NEW x \in Ids PROVE LockEntry(b, x)'
  BY DEF LockEntries
<1>1. LockEntry(b, x)
  BY DEF LockEntries
<1>. QED
  BY <1>1 DEF LockEntry

\* An entry is empty or leads to a node.
LEMMA EntryType ==
    ASSUME TypeOK, NEW a \in Apps, NEW id \in Ids
    PROVE  locked[a][id] \in Nodes \cup {NoNode}
  BY DEF TypeOK

\* The step writes one entry.
Written(a, id, v) == locked' = [locked EXCEPT ![a][id] = v]

\* Writing one entry changes that entry only.
LEMMA EntryWritten ==
    ASSUME TypeOK, NEW a \in Apps, NEW id \in Ids, NEW v \in Nodes \cup {NoNode},
           Written(a, id, v)
    PROVE  /\ locked' \in [Apps -> [Ids -> Nodes \cup {NoNode}]]
           /\ \A b \in Apps, x \in Ids :
                 locked'[b][x] = IF b = a /\ x = id THEN v ELSE locked[b][x]
<1>1. locked \in [Apps -> [Ids -> Nodes \cup {NoNode}]]
  BY DEF TypeOK
<1>2. [locked[a] EXCEPT ![id] = v] \in [Ids -> Nodes \cup {NoNode}]
  BY <1>1
<1>3. locked' = [locked EXCEPT ![a] = [locked[a] EXCEPT ![id] = v]]
  BY <1>1 DEF Written
<1>. QED
  BY <1>1, <1>2, <1>3

-----------------------------------------------------------------------------
(* Strands. *)

\* The strand q after some changes have been posted on it.
Grown(q, r) == \E s \in Seq(Change) : r = q \o s

\* Posting changes on a strand gives a strand.
LEMMA GrownType ==
    ASSUME NEW q \in Seq(Task), NEW r, Grown(q, r)
    PROVE  r \in Seq(Task)
<1>1. PICK s \in Seq(Change) : r = q \o s
  BY DEF Grown
<1>2. s \in Seq(Task)
  BY SeqMonotonic DEF Task
<1>. QED
  BY <1>1, <1>2, ConcatProperties

\* What is posted comes behind what is there, and holds no request.
LEMMA GrownElements ==
    ASSUME NEW q \in Seq(Task), NEW r, Grown(q, r)
    PROVE  /\ Len(r) \in Nat /\ Len(q) \in Nat /\ Len(q) <= Len(r)
           /\ \A i \in 1..Len(q) : r[i] = q[i]
           /\ \A i \in 1..Len(r) : i > Len(q) => r[i].op = "changed"
<1>1. PICK s \in Seq(Change) : r = q \o s
  BY DEF Grown
<1>2. s \in Seq(Task)
  BY SeqMonotonic DEF Task
<1>3. /\ Len(r) = Len(q) + Len(s)
      /\ \A i \in 1..Len(r) : r[i] = IF i <= Len(q) THEN q[i] ELSE s[i - Len(q)]
  BY <1>1, <1>2, ConcatProperties
<1>4. Len(q) \in Nat /\ Len(s) \in Nat
  BY LenProperties
<1>5. \A i \in 1..Len(s) : s[i].op = "changed"
  <2>1. \A i \in 1..Len(s) : s[i] \in Change
    BY ElementOfSeq
  <2>. QED
    BY <2>1 DEF Change
<1>. QED
  BY <1>3, <1>4, <1>5

\* A disconnection that is on its way stays so when more is posted.
LEMMA GrownPending ==
    ASSUME NEW q \in Seq(Task), NEW r, Grown(q, r), NEW id, NEW u, Pending(q, id, u)
    PROVE  Pending(r, id, u)
  BY GrownElements DEF Pending

\* m_node_status_changed_signal posts changes and nothing else.
LEMMA NotifyGrows ==
    ASSUME NEW q \in [Apps -> Seq(Task)], NEW s \in Seq(Change), NEW a \in Apps
    PROVE  Grown(q[a], Notify(q, s)[a])
<1>1. <<>> \in Seq(Change) /\ q[a] \o <<>> = q[a]
  BY EmptySeq, ConcatEmptySeq
<1>. QED
  BY <1>1 DEF Notify, Grown

\* One signalled change is a change.
LEMMA StatusChangeType ==
    ASSUME NEW reg, NEW n \in Nodes, NEW s \in Status
    PROVE  /\ StatusChange(reg, n, s) \in Seq(Change)
           /\ IdsOf(reg, n) # {} => StatusChange(reg, n, s)[1] \in Change
<1>1. CASE IdsOf(reg, n) = {}
  BY <1>1, EmptySeq DEF StatusChange
<1>2. CASE IdsOf(reg, n) # {}
  <2>1. (CHOOSE id \in IdsOf(reg, n) : TRUE) \in Ids
    BY <1>2 DEF IdsOf
  <2>. DEFINE c == Changed(n, CHOOSE id \in IdsOf(reg, n) : TRUE, s)
  <2>2. c \in Change
    BY <2>1 DEF Changed, Change
  <2>3. <<c>> \in Seq(Change) /\ <<c>>[1] = c
    BY <2>2
  <2>. QED
    BY <1>2, <2>2, <2>3 DEF StatusChange
<1>. QED
  BY <1>1, <1>2

\* The changes of a whole set of nodes, in any order, are a list of changes.
LEMMA SignalsType ==
    ASSUME NEW reg, NEW S \in SUBSET Nodes, NEW st \in [Nodes -> Status],
           NEW changes \in Signals(reg, S, st)
    PROVE  changes \in Seq(Change)
<1>. DEFINE T == {n \in S : IdsOf(reg, n) # {}}
<1>1. PICK order \in Orders(T) :
        changes = [i \in DOMAIN order |-> StatusChange(reg, order[i], st[order[i]])[1]]
  BY DEF Signals
<1>2. IsFiniteSet(T) /\ Cardinality(T) \in Nat
  BY ConstantsOK, FS_Subset, FS_CardinalityType
<1>3. order \in [1..Cardinality(T) -> T]
  BY <1>1 DEF Orders
<1>4. \A i \in 1..Cardinality(T) : StatusChange(reg, order[i], st[order[i]])[1] \in Change
  BY <1>3, StatusChangeType
<1>5. changes \in [1..Cardinality(T) -> Change]
  BY <1>1, <1>3, <1>4
<1>. HIDE DEF T
<1>. QED
  BY <1>2, <1>5, IsASeq

\* A step that posts changes to the applications, from the strands q.
PostsOn(q) == \E s \in Seq(Change) : strand' = Notify(q, s)

\* Posting keeps what is known of strands.
LEMMA PostsStrands ==
    ASSUME TypeOK, StrandsLive, RequestsKnown, PostsOn(strand), conn' = conn, Fresh' \subseteq Fresh
    PROVE  /\ strand' \in [Apps -> Seq(Task)]
           /\ \A a \in Apps : Grown(strand[a], strand'[a])
           /\ StrandsLive'
           /\ RequestsKnown'
<1>1. PICK s \in Seq(Change) : strand' = Notify(strand, s)
  BY DEF PostsOn
<1>2. \A a \in Apps : Grown(strand[a], strand'[a])
  BY <1>1, NotifyGrows DEF TypeOK
<1>3. strand' \in [Apps -> Seq(Task)]
  <2>1. \A a \in Apps : strand'[a] \in Seq(Task)
    BY <1>2, GrownType DEF TypeOK
  <2>. QED
    BY <1>1, <2>1 DEF Notify
<1>4. StrandsLive'
  BY <1>1 DEF StrandsLive, Notify, Monitoring
<1>5. RequestsKnown'
  <2>. SUFFICES ASSUME NEW a \in Apps, NEW i \in 1..Len(strand'[a]), strand'[a][i].op # "changed"
                PROVE  strand'[a][i].id \notin Fresh'
    BY DEF RequestsKnown
  <2>1. i \in 1..Len(strand[a]) /\ strand'[a][i] = strand[a][i]
    BY <1>2, GrownElements DEF TypeOK
  <2>. QED
    BY <2>1 DEF RequestsKnown
<1>. QED
  BY <1>2, <1>3, <1>4, <1>5

\* Running the first task of a strand keeps what is known of strands.
LEMMA PopsStrands ==
    ASSUME TypeOK, StrandsLive, RequestsKnown, NEW a \in Apps, strand[a] # <<>>,
           strand' = Popped(a) \/ PostsOn(Popped(a)),
           Monitoring' = Monitoring, Fresh' \subseteq Fresh
    PROVE  /\ strand' \in [Apps -> Seq(Task)]
           /\ Grown(Tail(strand[a]), strand'[a])
           /\ \A b \in Apps \ {a} : Grown(strand[b], strand'[b])
           /\ StrandsLive'
           /\ RequestsKnown'
<1>1. /\ Popped(a) \in [Apps -> Seq(Task)]
      /\ Popped(a)[a] = Tail(strand[a])
      /\ \A b \in Apps \ {a} : Popped(a)[b] = strand[b]
  <2>1. Tail(strand[a]) \in Seq(Task)
    BY HeadTailProperties DEF TypeOK
  <2>. QED
    BY <2>1 DEF Popped, TypeOK
<1>2. \A b \in Apps : Grown(Popped(a)[b], strand'[b])
  <2>1. CASE strand' = Popped(a)
    <3>1. \A b \in Apps : strand'[b] = Popped(a)[b] \o <<>>
      BY <1>1, <2>1, ConcatEmptySeq
    <3>. QED
      BY <3>1, EmptySeq DEF Grown
  <2>2. CASE PostsOn(Popped(a))
    BY <1>1, <2>2, NotifyGrows DEF PostsOn
  <2>. QED
    BY <2>1, <2>2
<1>3. strand' \in [Apps -> Seq(Task)]
  <2>1. \A b \in Apps : strand'[b] \in Seq(Task)
    BY <1>1, <1>2, GrownType
  <2>. QED
    BY <1>1, <2>1 DEF PostsOn, Notify
<1>4. StrandsLive'
  BY <1>1 DEF StrandsLive, PostsOn, Notify
<1>5. RequestsKnown'
  <2>. SUFFICES ASSUME NEW b \in Apps, NEW i \in 1..Len(strand'[b]), strand'[b][i].op # "changed"
                PROVE  strand'[b][i].id \notin Fresh'
    BY DEF RequestsKnown
  <2>1. i \in 1..Len(Popped(a)[b]) /\ strand'[b][i] = Popped(a)[b][i]
    BY <1>1, <1>2, GrownElements
  <2>2. \E j \in 1..Len(strand[b]) : strand'[b][i] = strand[b][j]
    <3>1. CASE b = a
      <4>1. /\ Len(Tail(strand[a])) = Len(strand[a]) - 1
            /\ \A k \in 1..Len(Tail(strand[a])) : Tail(strand[a])[k] = strand[a][k + 1]
        BY HeadTailProperties DEF TypeOK
      <4>2. Len(strand[a]) \in Nat
        BY LenProperties DEF TypeOK
      <4>3. i \in 1..Len(Tail(strand[a])) /\ strand'[b][i] = Tail(strand[a])[i]
        BY <1>1, <2>1, <3>1
      <4>4. i + 1 \in 1..Len(strand[a]) /\ Tail(strand[a])[i] = strand[a][i + 1]
        BY <4>1, <4>2, <4>3
      <4>. QED
        BY <3>1, <4>3, <4>4
    <3>2. CASE b # a
      BY <1>1, <2>1, <3>2
    <3>. QED
      BY <3>1, <3>2
  <2>. QED
    BY <2>2 DEF RequestsKnown
<1>. QED
  BY <1>1, <1>2, <1>3, <1>4, <1>5

\* A disconnection that is not the first task is still there when that has run.
LEMMA TailPending ==
    ASSUME NEW q \in Seq(Task), q # <<>>, NEW id, NEW u, Pending(q, id, u),
           Head(q).op = "changed" => Head(q).id # id \/ Head(q).status # "disconnected"
    PROVE  Pending(Tail(q), id, u)
<1>1. PICK i \in 1..Len(q) :
        /\ q[i].op = "changed" /\ q[i].id = id /\ q[i].status = "disconnected"
        /\ \A j \in 1..(i - 1) : q[j].op # "changed" => q[j].id # u
  BY DEF Pending
<1>2. /\ Len(Tail(q)) = Len(q) - 1
      /\ \A k \in 1..Len(Tail(q)) : Tail(q)[k] = q[k + 1]
      /\ Head(q) = q[1]
      /\ Len(q) \in Nat
  BY HeadTailProperties, LenProperties
<1>3. i # 1
  BY <1>1, <1>2
<1>4. i - 1 \in 1..Len(Tail(q)) /\ Tail(q)[i - 1] = q[i]
  BY <1>2, <1>3
<1>5. \A j \in 1..((i - 1) - 1) : Tail(q)[j] = q[j + 1] /\ j + 1 \in 1..(i - 1)
  BY <1>2, <1>3
<1>. QED
  BY <1>1, <1>4, <1>5 DEF Pending

\* The first task is no request about u while a disconnection is pending.
LEMMA HeadPending ==
    ASSUME NEW q \in Seq(Task), q # <<>>, NEW id, NEW u, Pending(q, id, u), Head(q).op # "changed"
    PROVE  Head(q).id # u
<1>1. PICK i \in 1..Len(q) :
        /\ q[i].op = "changed" /\ q[i].id = id /\ q[i].status = "disconnected"
        /\ \A j \in 1..(i - 1) : q[j].op # "changed" => q[j].id # u
  BY DEF Pending
<1>2. Head(q) = q[1] /\ Len(q) \in Nat
  BY HeadTailProperties, LenProperties
<1>3. 1 \in 1..(i - 1)
  BY <1>1, <1>2
<1>. QED
  BY <1>1, <1>2, <1>3

\* A disconnection that has just been posted behind requests about other ids.
LEMMA PostedPending ==
    ASSUME NEW q \in Seq(Task), NEW s \in Seq(Change), s # <<>>, NEW id, NEW u,
           s[1].id = id, s[1].status = "disconnected",
           \A i \in 1..Len(q) : q[i].op # "changed" => q[i].id # u
    PROVE  Pending(q \o s, id, u)
<1>1. s \in Seq(Task) /\ Len(s) \in Nat /\ Len(s) > 0 /\ Len(q) \in Nat
  <2>1. s \in Seq(Task)
    BY SeqMonotonic DEF Task
  <2>. QED
    BY <2>1, EmptySeq, LenProperties
<1>2. /\ Len(q \o s) = Len(q) + Len(s)
      /\ \A i \in 1..Len(q \o s) : (q \o s)[i] = IF i <= Len(q) THEN q[i] ELSE s[i - Len(q)]
  BY <1>1, ConcatProperties
<1>3. s[1].op = "changed"
  <2>1. s[1] \in Change
    BY <1>1, ElementOfSeq
  <2>. QED
    BY <2>1 DEF Change
<1>. DEFINE i == Len(q) + 1
<1>4. i \in 1..Len(q \o s) /\ (q \o s)[i] = s[1]
  BY <1>1, <1>2
<1>5. \A j \in 1..(i - 1) : (q \o s)[j] = q[j] /\ j \in 1..Len(q)
  BY <1>1, <1>2
<1>. QED
  BY <1>3, <1>4, <1>5 DEF Pending

-----------------------------------------------------------------------------
(* Steps that keep the lock entries. *)

\* A step that only posts changes, and leaves locks and uuids alone, keeps the
\* lock entries.
LEMMA PostsLockEntries ==
    ASSUME TypeOK, LockEntries, \A a \in Apps : Grown(strand[a], strand'[a]),
           UNCHANGED <<conn, locked, owner, uuid>>
    PROVE  LockEntries'
<1>1. \A b \in Apps : strand[b] \in Seq(Task)
  BY DEF TypeOK
<1>2. \A b \in Apps, x \in Ids : (locked[b][x] # NoNode /\ uuid[locked[b][x]] # x) =>
        Pending(strand'[b], x, uuid[locked[b][x]])
  BY <1>1, EntryIs, GrownPending
<1>3. Monitoring' = Monitoring
  BY DEF Monitoring
<1>. QED
  BY <1>2, <1>3, EntriesKept

\* One status for all nodes.
LEMMA AllType == \A s \in Status : All(s) \in [Nodes -> Status]
  BY DEF All

\* What becomes of one lock entry when the first task of a strand has run.
LEMMA PopsLockEntry ==
    ASSUME IInv, NEW a \in Apps, strand[a] # <<>>, UNCHANGED uuid,
           Grown(Tail(strand[a]), strand'[a]),
           \A b \in Apps \ {a} : Grown(strand[b], strand'[b]),
           NEW b \in Apps, NEW id \in Ids, locked[b][id] # NoNode, uuid[locked[b][id]] # id,
           (b = a /\ Head(strand[a]).op = "changed") =>
                Head(strand[a]).id # id \/ Head(strand[a]).status # "disconnected"
    PROVE  Pending(strand'[b], id, uuid'[locked[b][id]])
<1>1. Pending(strand[b], id, uuid[locked[b][id]])
  BY EntryIs DEF IInv
<1>2. strand[b] \in Seq(Task)
  BY DEF IInv, TypeOK
<1>3. CASE b = a
  <2>1. Pending(Tail(strand[a]), id, uuid[locked[b][id]])
    BY <1>1, <1>2, <1>3, TailPending
  <2>2. Tail(strand[a]) \in Seq(Task)
    BY <1>2, <1>3, HeadTailProperties
  <2>. QED
    BY <1>3, <2>1, <2>2, GrownPending
<1>4. CASE b # a
  BY <1>1, <1>2, <1>4, GrownPending
<1>. QED
  BY <1>3, <1>4

\* A lock that is granted, or already held, keeps the lock entries: while an
\* older entry for the node waits to be erased, no request about the node's
\* present uuid can be the first task.
LEMMA LockGrantedEntries ==
    ASSUME IInv, NEW a \in Apps, NEW id \in Ids, NEW n \in Nodes,
           strand[a] # <<>>, Head(strand[a]).op = "lock", Head(strand[a]).id = id,
           registry[id] = n, owner[n] \in {NoApp, a},
           Written(a, id, n),
           \A m \in Nodes : owner'[m] = IF m = n THEN a ELSE owner[m],
           UNCHANGED <<uuid, conn>>,
           Grown(Tail(strand[a]), strand'[a]),
           \A b \in Apps \ {a} : Grown(strand[b], strand'[b])
    PROVE  LockEntries'
<1>. USE DEF IInv
<1>1. uuid[n] = id /\ a \in Monitoring /\ Monitoring' = Monitoring
  BY ConstantsOK DEF RegistryTrue, StrandsLive, Monitoring
<1>2. \A y \in Ids \ {id} : locked[a][y] # n
  <2>1. ASSUME NEW y \in Ids \ {id}, locked[a][y] = n
        PROVE  FALSE
    <3>1. Pending(strand[a], y, id)
      <4>1. TypeOK /\ LockEntries /\ locked[a][y] # NoNode
        BY <2>1, ConstantsOK
      <4>. HIDE DEF IInv
      <4>2. uuid[locked[a][y]] # y => Pending(strand[a], y, uuid[locked[a][y]])
        BY <4>1, EntryIs
      <4>. QED
        BY <1>1, <2>1, <4>2
    <3>2. strand[a] \in Seq(Task)
      BY DEF TypeOK
    <3>. QED
      BY <3>1, <3>2, HeadPending
  <2>. QED
    BY <2>1
<1>. SUFFICES ASSUME NEW b \in Apps, NEW x \in Ids PROVE LockEntry(b, x)'
  BY DEF LockEntries
<1>. SUFFICES ASSUME locked'[b][x] # NoNode
              PROVE  LET m == locked'[b][x] IN
                     /\ owner'[m] = b
                     /\ b \in Monitoring'
                     /\ \A other \in Ids : locked'[b][other] = m => other = x
                     /\ uuid'[m] # x => Pending(strand'[b], x, uuid'[m])
  BY DEF LockEntry
<1>0. \A c \in Apps, y \in Ids : locked'[c][y] = IF c = a /\ y = id THEN n ELSE locked[c][y]
  BY EntryWritten
<1>3. CASE b = a /\ x = id
  <2>1. locked'[b][x] = n /\ \A y \in Ids \ {id} : locked'[a][y] = locked[a][y]
    BY <1>0, <1>3
  <2>. QED
    BY <1>1, <1>2, <1>3, <2>1
<1>4. CASE b # a \/ x # id
  <2>1. locked'[b][x] = locked[b][x]
    BY <1>0, <1>4
  <2>2. /\ locked[b][x] \in Nodes /\ owner[locked[b][x]] = b /\ b \in Monitoring
        /\ \A other \in Ids : locked[b][other] = locked[b][x] => other = x
    BY <2>1, EntryIs
  <2>3. locked[b][x] # n
    BY <1>2, <1>4, <2>1, <2>2, ConstantsOK
  <2>4. owner'[locked[b][x]] = b
    BY <2>2, <2>3
  <2>5. \A other \in Ids : locked'[b][other] = locked[b][x] => other = x
    BY <1>0, <2>2, <2>3
  <2>6. uuid[locked[b][x]] # x => Pending(strand'[b], x, uuid'[locked[b][x]])
    BY <2>1, PopsLockEntry
  <2>. QED
    BY <1>1, <2>1, <2>2, <2>4, <2>5, <2>6
<1>. QED
  BY <1>3, <1>4

\* Dropping one entry, and the ownership that goes with it if it was used to
\* unlock, keeps the lock entries.
LEMMA EntryDroppedEntries ==
    ASSUME IInv, NEW a \in Apps, NEW id \in Ids,
           strand[a] # <<>>, Head(strand[a]).op # "changed",
           Written(a, id, NoNode),
           \A m \in Nodes : m = locked[a][id] \/ owner'[m] = owner[m],
           UNCHANGED <<uuid, conn>>,
           Grown(Tail(strand[a]), strand'[a]),
           \A b \in Apps \ {a} : Grown(strand[b], strand'[b])
    PROVE  LockEntries'
<1>. USE DEF IInv
<1>. SUFFICES ASSUME NEW b \in Apps, NEW x \in Ids PROVE LockEntry(b, x)'
  BY DEF LockEntries
<1>. SUFFICES ASSUME locked'[b][x] # NoNode
              PROVE  LET m == locked'[b][x] IN
                     /\ owner'[m] = b
                     /\ b \in Monitoring'
                     /\ \A other \in Ids : locked'[b][other] = m => other = x
                     /\ uuid'[m] # x => Pending(strand'[b], x, uuid'[m])
  BY DEF LockEntry
<1>0. \A c \in Apps, y \in Ids :
        locked'[c][y] = IF c = a /\ y = id THEN NoNode ELSE locked[c][y]
  BY EntryWritten
<1>1. /\ locked'[b][x] = locked[b][x]
      /\ b # a \/ x # id
      /\ \A other \in Ids : locked'[b][other] \in {locked[b][other], NoNode}
  BY <1>0
<1>2. /\ locked[b][x] \in Nodes /\ owner[locked[b][x]] = b /\ b \in Monitoring
      /\ \A other \in Ids : locked[b][other] = locked[b][x] => other = x
  BY <1>1, EntryIs
<1>3. locked[b][x] # locked[a][id]
  <2>1. locked[a][id] # NoNode => owner[locked[a][id]] = a
    BY EntryIs
  <2>. QED
    BY <1>1, <1>2, <2>1
<1>4. uuid[locked[b][x]] # x => Pending(strand'[b], x, uuid'[locked[b][x]])
  BY <1>1, PopsLockEntry
<1>. QED
  BY <1>1, <1>2, <1>3, <1>4 DEF Monitoring

=============================================================================
