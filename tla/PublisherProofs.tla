--------------------------- MODULE PublisherProofs --------------------------
(***************************************************************************)
(* Why what the broker keeps ends up equal to the registry, for any number   *)
(* of devices, changes, lost sessions and restarts of Home Assistant: as      *)
(* long as a topic is wrong, something that will set it right is under way.   *)
(* Receivers show the others' labels, too; for these the last table that was  *)
(* handled is compared with the registry it was made of (SourcesInv).        *)
(***************************************************************************)
EXTENDS Publisher, InventoryProofs, SequenceTheorems

Entities == Common \cup {NumberChannel, SensorChannel, SelectSource}

Topics == {"avail", "name", "channel", "ip", "role", "source", "options", "device", "configs"}

\* What is kept of one adapter.
Kept(r) == /\ DOMAIN r = Topics
           /\ r = [t \in Topics |-> r[t]]
           /\ r.avail \in {None, "online", "offline"}
           /\ r.channel \in Channels \cup {None}
           /\ r.ip \in IPs \cup {None}
           /\ r.role \in Roles \cup {None}
           /\ r.configs \subseteq Entities

\* r is right about the adapter a of m: its availability, what is announced of
\* it, its state.
AvailRight(r, a) == r.avail = IF a.online THEN "online" ELSE "offline"

FaceRight(r, m, a) == /\ r.name = ShownName(a, m)
                      /\ r.configs = EntitiesFor(a.role)
                      /\ r.device = <<ShownName(a, m), a.hw>>

ValuesRight(r, a) == /\ r.role = a.role
                     /\ a.channel # None => r.channel = a.channel
                     /\ a.ip # None => r.ip = a.ip

\* The entities of a role, once those of others are gone.
LEMMA EntitiesOf ==
  ASSUME NEW role, NEW C, C \subseteq Entities
  PROVE  /\ EntitiesFor(role) \subseteq Entities
         /\ (C \ StaleTopics(role)) \cup EntitiesFor(role) = EntitiesFor(role)
         /\ role = "receiver" => SelectSource \in EntitiesFor(role)
<1>1. EntitiesFor(role) \subseteq Entities /\ Common \subseteq EntitiesFor(role)
  BY DEF EntitiesFor, Entities
<1>2. C \subseteq Common \cup {NumberChannel, SensorChannel, SelectSource}
  BY DEF Entities
<1>3. role = "receiver" => SelectSource \in EntitiesFor(role)
  BY DEF EntitiesFor
<1> QED  BY <1>1, <1>2, <1>3 DEF StaleTopics

\* Announcing leaves the entities of the role and no others.
LEMMA DiscoveryEffect ==
  ASSUME NEW r, Kept(r), NEW m, NEW a \in Adapter, NEW table,
         NEW s, s = WithDiscovery(r, m, a, table)
  PROVE  /\ Kept(s)
         /\ s.configs = EntitiesFor(a.role) /\ s.device = AdapterDevice(m, a)
         /\ s.avail = r.avail /\ s.role = r.role /\ s.channel = r.channel /\ s.ip = r.ip
<1>1. (r.configs \ StaleTopics(a.role)) \cup EntitiesFor(a.role) = EntitiesFor(a.role)
      /\ EntitiesFor(a.role) \subseteq Entities
  BY EntitiesOf DEF Kept
<1> DEFINE r1 == [r EXCEPT !.configs = @ \ StaleTopics(a.role)]
<1>2. /\ DOMAIN r1 = Topics /\ r1 = [t \in Topics |-> r1[t]]
      /\ r1.configs = r.configs \ StaleTopics(a.role)
      /\ r1.avail = r.avail /\ r1.role = r.role /\ r1.channel = r.channel /\ r1.ip = r.ip
  BY DEF Kept, Topics
<1>3. s = AdapterMessages(r1, m, a, table)
  BY DEF WithDiscovery
<1> HIDE DEF r1
<1>4. /\ DOMAIN s = Topics /\ s = [t \in Topics |-> s[t]]
      /\ s.configs = r1.configs \cup EntitiesFor(a.role)
      /\ s.device = AdapterDevice(m, a)
      /\ s.avail = r1.avail /\ s.role = r1.role /\ s.channel = r1.channel /\ s.ip = r1.ip
  BY <1>2, <1>3 DEF AdapterMessages, Topics
<1>5. s.configs = EntitiesFor(a.role)
  BY <1>1, <1>2, <1>4
<1> QED  BY <1>1, <1>2, <1>4, <1>5 DEF Kept

\* Availability touches nothing else.
LEMMA AvailEffect ==
  ASSUME NEW r, Kept(r), NEW m, NEW a \in Adapter, NEW s, s = WithAvailability(r, a)
  PROVE  /\ Kept(s) /\ AvailRight(s, a)
         /\ s.name = r.name /\ s.configs = r.configs /\ s.device = r.device
         /\ s.role = r.role /\ s.channel = r.channel /\ s.ip = r.ip
<1>1. s = [r EXCEPT !.avail = IF a.online THEN "online" ELSE "offline"]
  BY DEF WithAvailability
<1>2. /\ DOMAIN s = Topics /\ s = [t \in Topics |-> s[t]]
      /\ s.avail = IF a.online THEN "online" ELSE "offline"
      /\ s.name = r.name /\ s.configs = r.configs /\ s.device = r.device
      /\ s.role = r.role /\ s.channel = r.channel /\ s.ip = r.ip
  BY <1>1 DEF Kept, Topics
<1> QED  BY <1>2 DEF Kept, AvailRight

\* A name touches nothing else.
LEMMA NameEffect ==
  ASSUME NEW r, Kept(r), NEW m, NEW a \in Adapter, NEW s, s = WithName(r, m, a)
  PROVE  /\ Kept(s) /\ s.name = ShownName(a, m)
         /\ s.avail = r.avail /\ s.configs = r.configs /\ s.device = r.device
         /\ s.role = r.role /\ s.channel = r.channel /\ s.ip = r.ip
<1>1. s = [r EXCEPT !.name = ShownName(a, m)]
  BY DEF WithName
<1>2. /\ DOMAIN s = Topics /\ s = [t \in Topics |-> s[t]]
      /\ s.name = ShownName(a, m)
      /\ s.avail = r.avail /\ s.configs = r.configs /\ s.device = r.device
      /\ s.role = r.role /\ s.channel = r.channel /\ s.ip = r.ip
  BY <1>1 DEF Kept, Topics
<1> QED  BY <1>2 DEF Kept

\* State sets the values right and touches nothing else.
LEMMA StateEffect ==
  ASSUME NEW r, Kept(r), NEW a \in Adapter, NEW table, NEW s, s = WithState(r, a, table)
  PROVE  /\ Kept(s) /\ ValuesRight(s, a)
         /\ s.avail = r.avail
         /\ s.name = r.name /\ s.configs = r.configs /\ s.device = r.device
<1>1. s = [r EXCEPT !.channel = IF a.channel # None THEN a.channel ELSE @,
                    !.ip = IF a.ip # None THEN a.ip ELSE @,
                    !.role = a.role,
                    !.source = IF a.role = "receiver" THEN SourceOn(table, a.channel) ELSE @]
  BY DEF WithState
<1>2. /\ DOMAIN s = Topics /\ s = [t \in Topics |-> s[t]]
      /\ s.channel = IF a.channel # None THEN a.channel ELSE r.channel
      /\ s.ip = IF a.ip # None THEN a.ip ELSE r.ip
      /\ s.role = a.role /\ s.avail = r.avail
      /\ s.name = r.name /\ s.configs = r.configs /\ s.device = r.device
  BY <1>1 DEF Kept, Topics
<1>3. /\ a.channel \in Channels \cup {None} /\ a.ip \in IPs \cup {None} /\ a.role \in Roles
  BY DEF Adapter
<1> QED  BY <1>2, <1>3 DEF Kept, ValuesRight

\* Sending a receiver its sources spoils nothing that was right.
LEMMA SourceEffect ==
  ASSUME NEW r, Kept(r), NEW m, NEW a \in Adapter, a.role = "receiver", NEW table,
         NEW s, s = WithSource(r, m, a, table)
  PROVE  /\ Kept(s) /\ (FaceRight(r, m, a) => FaceRight(s, m, a))
         /\ s.avail = r.avail /\ s.role = r.role /\ s.channel = r.channel /\ s.ip = r.ip
<1>1. s = [r EXCEPT !.configs = @ \cup {SelectSource}, !.options = Options(table),
                    !.source = SourceOn(table, a.channel), !.device = AdapterDevice(m, a)]
  BY DEF WithSource
<1>2. /\ DOMAIN s = Topics /\ s = [t \in Topics |-> s[t]]
      /\ s.configs = r.configs \cup {SelectSource}
      /\ s.device = <<ShownName(a, m), a.hw>> /\ s.name = r.name
      /\ s.avail = r.avail /\ s.role = r.role /\ s.channel = r.channel /\ s.ip = r.ip
  BY <1>1 DEF Kept, Topics, AdapterDevice
<1>3. SelectSource \in EntitiesFor(a.role) /\ SelectSource \in Entities
  BY EntitiesOf DEF Entities, Kept
<1>4. Kept(s)
  BY <1>2, <1>3 DEF Kept
<1>5. FaceRight(r, m, a) => FaceRight(s, m, a)
  BY <1>2, <1>3 DEF FaceRight
<1> QED  BY <1>2, <1>4, <1>5

\* All messages of an adapter set everything right.
LEMMA AllEffect ==
  ASSUME NEW r, Kept(r), NEW m, NEW a \in Adapter, NEW table,
         NEW s, s = WithState(WithName(WithAvailability(WithDiscovery(r, m, a, table), a), m, a),
                              a, table)
  PROVE  Kept(s) /\ AvailRight(s, a) /\ FaceRight(s, m, a) /\ ValuesRight(s, a)
<1> DEFINE r0 == WithDiscovery(r, m, a, table)
           r1 == WithAvailability(r0, a)
           r2 == WithName(r1, m, a)
<1>1. /\ Kept(r0) /\ r0.configs = EntitiesFor(a.role) /\ r0.device = AdapterDevice(m, a)
  BY DiscoveryEffect
<1>2. s = WithState(r2, a, table)
  OBVIOUS
<1> HIDE DEF r0
<1>3. Kept(r1) /\ AvailRight(r1, a) /\ r1.configs = r0.configs /\ r1.device = r0.device
  BY <1>1, AvailEffect
<1> HIDE DEF r1
<1>4. /\ Kept(r2) /\ r2.name = ShownName(a, m) /\ r2.avail = r1.avail
      /\ r2.configs = r1.configs /\ r2.device = r1.device
  BY <1>3, NameEffect
<1> HIDE DEF r2
<1>5. /\ Kept(s) /\ ValuesRight(s, a) /\ s.avail = r2.avail
      /\ s.name = r2.name /\ s.configs = r2.configs /\ s.device = r2.device
  BY <1>2, <1>4, StateEffect
<1> QED  BY <1>1, <1>3, <1>4, <1>5 DEF AvailRight, FaceRight, AdapterDevice

-----------------------------------------------------------------------------
(* Updates and their operations.                                             *)

AdapterOps == [op : {"announce", "avail", "name", "state"}, mac : Macs, a : Adapter]
OtherOps == [op : {"counts", "refresh", "receivers", "hello", "all", "allCounts"}]
Ops == AdapterOps \cup OtherOps
Updates == [about : SUBSET Macs, ops : Seq(Ops), id : Nat]

\* The operations an update is made of, of one adapter or of all.
LEMMA OpsTyped ==
  /\ \A m \in Macs, a \in Adapter, op \in {"announce", "avail", "name", "state"} :
       On(op, m, a) \in AdapterOps /\ On(op, m, a) \in Ops
  /\ \A op \in {"counts", "refresh", "receivers", "hello", "all", "allCounts"} :
       Op(op) \in OtherOps /\ Op(op) \in Ops /\ Op(op).op = op
  /\ \A o \in AdapterOps : o \notin OtherOps
  /\ \A o \in OtherOps : o = Op(o.op)
  BY DEF AdapterOps, OtherOps, Ops, On, Op

\* An operation that is there on a condition.
LEMMA WhenRange ==
  ASSUME NEW c \in BOOLEAN, NEW o \in Ops
  PROVE  /\ When(c, o) \in Seq(Ops) /\ Range(When(c, o)) = IF c THEN {o} ELSE {}
         /\ (c => When(c, o) # <<>>)
  BY DEF When, Range

\* Two operations in a row.
LEMMA PairRange ==
  ASSUME NEW o \in Ops, NEW p \in Ops
  PROVE  <<o, p>> \in Seq(Ops) /\ Range(<<o, p>>) = {o, p}
<1> DEFINE s == <<o, p>>
<1>1. s \in Seq(Ops) /\ Len(s) = 2 /\ s[1] = o /\ s[2] = p
  OBVIOUS
<1>2. Range(s) = {s[i] : i \in 1..2}
  BY <1>1, RangeEquality
<1>3. 1..2 = {1, 2}
  OBVIOUS
<1> HIDE DEF s
<1>4. Range(s) = {o, p}
  BY <1>1, <1>2, <1>3
<1> QED  BY <1>1, <1>4 DEF s

\* The first operation and the rest.
LEMMA TailRange ==
  ASSUME NEW s \in Seq(Ops), s # <<>>
  PROVE  /\ Head(s) \in Ops /\ Tail(s) \in Seq(Ops)
         /\ Range(s) = {Head(s)} \cup Range(Tail(s))
<1>1. /\ Head(s) \in Ops /\ Tail(s) \in Seq(Ops)
      /\ Len(Tail(s)) = Len(s) - 1 /\ Len(s) \in Nat \ {0} /\ Head(s) = s[1]
      /\ \A i \in 1..(Len(s) - 1) : Tail(s)[i] = s[i + 1]
  BY HeadTailProperties
<1>2. Range(s) = {s[i] : i \in 1..Len(s)}
  BY RangeEquality
<1>3. Range(Tail(s)) = {Tail(s)[i] : i \in 1..(Len(s) - 1)}
  BY <1>1, RangeEquality
<1>4. ASSUME NEW i \in 1..Len(s) PROVE s[i] \in {Head(s)} \cup Range(Tail(s))
  <2>1. CASE i = 1
    BY <1>1, <2>1
  <2>2. CASE i # 1
    <3>1. i - 1 \in 1..(Len(s) - 1) /\ Tail(s)[i - 1] = s[i]
      BY <1>1, <2>2
    <3> QED  BY <1>3, <3>1
  <2> QED  BY <2>1, <2>2
<1>5. ASSUME NEW i \in 1..(Len(s) - 1) PROVE Tail(s)[i] \in Range(s)
  <2>1. i + 1 \in 1..Len(s) /\ Tail(s)[i] = s[i + 1]
    BY <1>1
  <2> QED  BY <1>2, <2>1
<1>6. Head(s) \in Range(s)
  BY <1>1, <1>2
<1> QED  BY <1>1, <1>2, <1>3, <1>4, <1>5, <1>6

\* The lock is released after the last operation.
LEMMA DoneEffect ==
  ASSUME work \in Updates, work.ops # <<>>, Done
  PROVE  /\ work' \in Updates /\ (work' = Idle \/ (work'.ops # <<>> /\ work'.about = work.about))
         /\ Range(work'.ops) = Range(Tail(work.ops))
<1> DEFINE rest == Tail(work.ops)
<1>1. /\ work.ops \in Seq(Ops) /\ rest \in Seq(Ops)
      /\ Len(rest) = Len(work.ops) - 1 /\ Len(work.ops) \in Nat \ {0}
  BY HeadTailProperties DEF Updates
<1>0. work' = IF Len(work.ops) = 1 THEN Idle ELSE [work EXCEPT !.ops = rest]
  BY DEF Done
<1>a. \A s \in Seq(Ops) : s = <<>> <=> Len(s) = 0
  BY EmptySeq
<1> SUFFICES /\ work' \in Updates /\ (work' = Idle \/ (work'.ops # <<>> /\ work'.about = work.about))
             /\ Range(work'.ops) = Range(rest)
  OBVIOUS
<1> HIDE DEF rest
<1>2. CASE Len(work.ops) = 1
  <2>0. work' = Idle
    BY <1>0, <1>2
  <2>1. rest = <<>>
    BY <1>1, <1>2, <1>a
  <2>2. Idle.ops = <<>> /\ Idle.about = {} /\ <<>> \in Seq(Ops)
    BY DEF Idle
  <2>3. Idle \in Updates
    BY <2>2 DEF Idle, Updates
  <2> QED  BY <2>0, <2>1, <2>2, <2>3
<1>3. CASE Len(work.ops) # 1
  <2>0. work' = [work EXCEPT !.ops = rest]
    BY <1>0, <1>3
  <2>a. Len(rest) # 0
    BY <1>1, <1>3
  <2>1. rest # <<>>
    BY <2>a, <1>1, <1>a, Zenon
  <2>2. work' \in Updates /\ work'.ops = rest /\ work'.about = work.about
    BY <1>1, <2>0 DEF Updates
  <2> QED  BY <2>1, <2>2
<1> QED  BY <1>2, <1>3

\* What an observation has to say.
LEMMA ObservationRange ==
  ASSUME NEW reg \in [Macs -> Adapter], NEW o, o.mac \in Macs, o.displaced \in Macs \cup {None},
         o.created \in BOOLEAN, o.cameOnline \in BOOLEAN, o.stateChanged \in BOOLEAN,
         o.roleChanged \in BOOLEAN, o.metadataChanged \in BOOLEAN,
         NEW s, s = ObservationOps(o, reg)
  PROVE  /\ s \in Seq(Ops)
         /\ \A p \in Range(s) :
              \/ /\ p \in AdapterOps /\ p.mac = o.mac /\ p.a = reg[o.mac]
                 /\ Changed(o) \/ o.roleChanged
              \/ p \in AdapterOps /\ p.mac = o.displaced /\ p.a = reg[o.displaced]
              \/ p \in {Op("counts"), Op("refresh")}
         /\ o.displaced # None => On("avail", o.displaced, reg[o.displaced]) \in Range(s)
         /\ o.created \/ o.metadataChanged => On("announce", o.mac, reg[o.mac]) \in Range(s)
         /\ o.cameOnline => On("avail", o.mac, reg[o.mac]) \in Range(s)
         /\ o.created \/ o.stateChanged \/ o.roleChanged =>
              On("state", o.mac, reg[o.mac]) \in Range(s)
         /\ o.cameOnline \/ o.displaced # None => Op("counts") \in Range(s)
         /\ RefreshNeeded(o, reg[o.mac]) => Op("refresh") \in Range(s)
<1> DEFINE m == o.mac
           a == reg[m]
           d == o.displaced
           s1 == IF d = None THEN <<>> ELSE DisplacedOps(d, reg[d])
           s2 == When(o.created \/ o.metadataChanged, On("announce", m, a))
           s3 == When(o.cameOnline, On("avail", m, a))
           s4 == When(o.created \/ o.stateChanged \/ o.roleChanged, On("state", m, a))
           s5 == When(o.cameOnline \/ d # None, Op("counts"))
           s6 == When(RefreshNeeded(o, a), Op("refresh"))
<1>1. s = s1 \o s2 \o s3 \o s4 \o s5 \o s6
  BY DEF ObservationOps
<1>2. a \in Adapter /\ (d # None => reg[d] \in Adapter) /\ m \in Macs
  OBVIOUS
<1>3. /\ On("announce", m, a) \in Ops /\ On("avail", m, a) \in Ops /\ On("state", m, a) \in Ops
      /\ Op("counts") \in Ops /\ Op("refresh") \in Ops
      /\ d # None => On("avail", d, reg[d]) \in Ops
  BY <1>2, OpsTyped
<1>4. s1 \in Seq(Ops) /\ Range(s1) = IF d = None THEN {} ELSE {On("avail", d, reg[d])}
  <2>1. CASE d = None
    BY <2>1, EmptySeq DEF Range
  <2>2. CASE d # None
    <3>1. s1 = When(TRUE, On("avail", d, reg[d]))
      BY <2>2 DEF DisplacedOps
    <3> QED  BY <1>3, <2>2, <3>1, WhenRange
  <2> QED  BY <2>1, <2>2
<1>5. /\ s2 \in Seq(Ops)
      /\ Range(s2) = IF o.created \/ o.metadataChanged THEN {On("announce", m, a)} ELSE {}
  BY <1>3, WhenRange
<1>6. s3 \in Seq(Ops) /\ Range(s3) = IF o.cameOnline THEN {On("avail", m, a)} ELSE {}
  BY <1>3, WhenRange
<1>7. /\ s4 \in Seq(Ops)
      /\ Range(s4) = IF o.created \/ o.stateChanged \/ o.roleChanged THEN {On("state", m, a)} ELSE {}
  BY <1>3, WhenRange
<1>8. /\ s5 \in Seq(Ops)
      /\ Range(s5) = IF o.cameOnline \/ d # None THEN {Op("counts")} ELSE {}
  BY <1>3, WhenRange
<1>9. /\ s6 \in Seq(Ops) /\ Range(s6) \subseteq {Op("refresh")}
      /\ RefreshNeeded(o, a) => Op("refresh") \in Range(s6)
  <2>1. RefreshNeeded(o, a) \in BOOLEAN
    BY DEF RefreshNeeded
  <2>2. s6 \in Seq(Ops) /\ Range(s6) = IF RefreshNeeded(o, a) THEN {Op("refresh")} ELSE {}
    BY <1>3, <2>1, WhenRange
  <2> HIDE DEF s6
  <2> QED  BY <2>2
<1> HIDE DEF s1, s2, s3, s4, s5, s6
<1>10. /\ s \in Seq(Ops)
       /\ Range(s) = Range(s1) \cup Range(s2) \cup Range(s3) \cup Range(s4) \cup Range(s5)
                       \cup Range(s6)
  <2>0. ASSUME NEW t \in Seq(Ops), NEW u \in Seq(Ops)
        PROVE  t \o u \in Seq(Ops) /\ Range(t \o u) = Range(t) \cup Range(u)
    <3>1. t \o u \in Seq(Ops)
      OBVIOUS
    <3>2. Range(t \o u) = Range(t) \cup Range(u)
      BY RangeConcatenation
    <3> QED  BY <3>1, <3>2
  <2> DEFINE t2 == s1 \o s2
             t3 == t2 \o s3
             t4 == t3 \o s4
             t5 == t4 \o s5
  <2>1. t2 \in Seq(Ops) /\ Range(t2) = Range(s1) \cup Range(s2)
    BY <1>4, <1>5, <2>0
  <2>2. t3 \in Seq(Ops) /\ Range(t3) = Range(t2) \cup Range(s3)
    BY <1>6, <2>0, <2>1
  <2>3. t4 \in Seq(Ops) /\ Range(t4) = Range(t3) \cup Range(s4)
    BY <1>7, <2>0, <2>2
  <2>4. t5 \in Seq(Ops) /\ Range(t5) = Range(t4) \cup Range(s5)
    BY <1>8, <2>0, <2>3
  <2>5. t5 \o s6 \in Seq(Ops) /\ Range(t5 \o s6) = Range(t5) \cup Range(s6)
    BY <1>9, <2>0, <2>4
  <2>6. s = t5 \o s6
    BY <1>1
  <2> HIDE DEF t2, t3, t4, t5
  <2> QED  BY <2>1, <2>2, <2>3, <2>4, <2>5, <2>6
<1>11. ASSUME NEW op \in {"announce", "avail", "state"}, NEW x \in Macs
       PROVE  /\ On(op, x, reg[x]) \in AdapterOps
              /\ On(op, x, reg[x]).mac = x /\ On(op, x, reg[x]).a = reg[x]
  BY OpsTyped DEF On
<1>12. \A p \in Range(s) :
         \/ p \in AdapterOps /\ p.mac = m /\ p.a = reg[m] /\ (Changed(o) \/ o.roleChanged)
         \/ p \in AdapterOps /\ p.mac = d /\ p.a = reg[d]
         \/ p \in {Op("counts"), Op("refresh")}
  BY <1>2, <1>4, <1>5, <1>6, <1>7, <1>8, <1>9, <1>10, <1>11 DEF Changed
<1> QED  BY <1>4, <1>5, <1>6, <1>7, <1>8, <1>9, <1>10, <1>12

-----------------------------------------------------------------------------
(* The invariant.                                                            *)

PubTypes ==
  /\ phase \in {"connect", "new", "loaded", "run"} /\ session \in BOOLEAN
  /\ adapters \in [Macs -> Adapter]
  /\ \A m \in Macs : adapters[m].online => adapters[m].known
  /\ disturbances \in 0..MaxDisturbances /\ changes \in 0..MaxChanges
  /\ pending \subseteq Updates /\ \A u \in pending : u.ops # <<>>
  /\ work \in Updates /\ (work = Idle \/ work.ops # <<>>)
  /\ retained = [m \in Macs |-> retained[m]] /\ \A m \in Macs : Kept(retained[m])
  /\ DOMAIN controller = {"avail", "counts"}
  /\ controller.avail \in {None, "online", "offline"}

UnderWay == pending \cup {work}

Coming(op) == \E u \in UnderWay : Op(op) \in Range(u.ops)

Awaits(op, m) == \E u \in UnderWay : \E o \in Range(u.ops) :
                   o \in AdapterOps /\ o.op = op /\ o.mac = m

\* The copies under way are of the adapters the update is about, and current
\* unless two updates of one are under way or Hydrate overtook it; everything
\* is about none.
CopiesCurrent ==
  \A u \in UnderWay : \A o \in Range(u.ops) :
    /\ o \in AdapterOps => /\ o.mac \in u.about
                           /\ o.mac \notin mixed => o.a = adapters[o.mac]
    /\ o = Op("all") => u.about = {}

Live == phase = "run" /\ session

\* Whatever is wrong about m will be set right.
Mending(m) == /\ Awaits("avail", m) \/ AvailRight(retained[m], adapters[m])
              /\ Awaits("announce", m) \/ FaceRight(retained[m], m, adapters[m])
              /\ Awaits("state", m) \/ ValuesRight(retained[m], adapters[m])

AdaptersMending == Live => Coming("all") \/ \A m \in Known(adapters) \ mixed : Mending(m)

\* The same of the controller: counts may be passed over only if they were sent.
ControllerMending ==
  Live => /\ Coming("hello") \/ controller.avail = "online"
          /\ Coming("allCounts") \/ controller.counts = lastCounts
          /\ Coming("allCounts") \/ Coming("counts") \/ lastCounts = Counts

PublisherInv == PubTypes /\ CopiesCurrent /\ AdaptersMending /\ ControllerMending

\* An idle publisher holds no operations.
LEMMA IdleTyped ==
  Idle \in Updates /\ Range(Idle.ops) = {} /\ Idle.about = {} /\ Idle.ops = <<>>
<1>1. Idle.ops = <<>> /\ Idle.about = {} /\ <<>> \in Seq(Ops)
  BY DEF Idle
<1>2. Idle \in Updates
  BY <1>1 DEF Idle, Updates
<1>3. Range(<<>>) = {}
  BY DEF Range
<1> QED  BY <1>1, <1>2, <1>3

\* Publishing everything is three operations about no adapter in particular.
LEMMA EverythingTyped ==
  /\ Everything \in Updates /\ Everything.ops # <<>> /\ Everything.about = {}
  /\ Range(Everything.ops) = {Op("hello"), Op("all"), Op("allCounts")}
<1> DEFINE h == <<Op("hello")>>
           a == <<Op("all")>>
           c == <<Op("allCounts")>>
<1>1. Op("hello") \in Ops /\ Op("all") \in Ops /\ Op("allCounts") \in Ops
  BY OpsTyped
<1>2. /\ h \in Seq(Ops) /\ a \in Seq(Ops) /\ c \in Seq(Ops)
      /\ Range(h) = {Op("hello")} /\ Range(a) = {Op("all")} /\ Range(c) = {Op("allCounts")}
  BY <1>1 DEF Range
<1>3. EverythingOps \in Seq(Ops) /\ Len(EverythingOps) = 3
  BY <1>1 DEF EverythingOps
<1>4. /\ EverythingOps[1] = Op("hello") /\ EverythingOps[2] = Op("all")
      /\ EverythingOps[3] = Op("allCounts")
  BY DEF EverythingOps
<1>5. Range(EverythingOps) = {EverythingOps[i] : i \in 1..3}
  BY <1>3, RangeEquality
<1>6. 1..3 = {1, 2, 3}
  OBVIOUS
<1>7. Range(EverythingOps) = {Op("hello"), Op("all"), Op("allCounts")}
  BY <1>4, <1>5, <1>6
<1>8. EverythingOps # <<>>
  BY <1>3
<1>9. Everything.ops = EverythingOps /\ Everything.about = {} /\ Everything \in Updates
  BY <1>3 DEF Everything, Update, Updates
<1> QED  BY <1>7, <1>8, <1>9

\* Nothing is promised before there is a session.
LEMMA PublisherInitInv == PublisherInit => PublisherInv
<1> SUFFICES ASSUME PublisherInit PROVE PublisherInv
  OBVIOUS
<1>1. \A m \in Macs : Kept(retained[m])
  <2>1. SensorChannel \in Entities
    BY DEF Entities
  <2> QED  BY <2>1 DEF PublisherInit, Nothing, Kept, Topics
<1>2. Absent \in Adapter /\ ~Absent.online
  BY DEF Absent, Adapter, Roles
<1>3. adapters \in [Macs -> Adapter] /\ \A m \in Macs : ~adapters[m].online
  BY <1>2 DEF PublisherInit, Init
<1>a. /\ DOMAIN controller = {"avail", "counts"} /\ controller.avail = None
      /\ retained = [m \in Macs |-> retained[m]]
  BY DEF PublisherInit
<1>b. 0 \in 0..MaxDisturbances /\ 0 \in 0..MaxChanges
  BY PublisherType
<1>4. PubTypes
  BY <1>1, <1>3, <1>a, <1>b, IdleTyped DEF PublisherInit, PubTypes
<1>5. UnderWay = {Idle} /\ phase # "run"
  BY DEF PublisherInit, UnderWay
<1>6. CopiesCurrent /\ AdaptersMending /\ ControllerMending
  BY <1>5, IdleTyped DEF CopiesCurrent, AdaptersMending, ControllerMending, Live
<1> QED  BY <1>4, <1>6 DEF PublisherInv

\* Publishing everything will set everything right.
LEMMA EverythingComes ==
  ASSUME PublisherInv, pending' = pending \cup {Everything},
         UNCHANGED <<vars, changes, work, lastCounts, retained, controller, mixed>>,
         phase' \in {"connect", "new", "loaded", "run"}, session' \in BOOLEAN,
         phase = "run" => phase' = "run", disturbances' \in 0..MaxDisturbances
  PROVE  PublisherInv'
<1>1. PubTypes'
  BY EverythingTyped DEF PublisherInv, PubTypes, vars
<1>2. UnderWay' = UnderWay \cup {Everything}
  BY DEF UnderWay
<1>3. \A o \in Range(Everything.ops) : o \notin AdapterOps
  BY EverythingTyped, OpsTyped
<1>4. CopiesCurrent'
  BY <1>2, <1>3, EverythingTyped DEF PublisherInv, CopiesCurrent, vars
<1>5. Coming("hello")' /\ Coming("all")' /\ Coming("allCounts")'
  BY <1>2, EverythingTyped DEF Coming
<1> QED  BY <1>1, <1>4, <1>5 DEF PublisherInv, AdaptersMending, ControllerMending

\* Without a session, or before the poll loop, nothing is promised.
LEMMA NotLive ==
  ASSUME PublisherInv, ~Live', PubTypes', UNCHANGED <<adapters, pending, work, mixed>>
  PROVE  PublisherInv'
<1>1. CopiesCurrent'
  BY DEF PublisherInv, CopiesCurrent, UnderWay
<1> QED  BY <1>1 DEF PublisherInv, AdaptersMending, ControllerMending

\* The session and the start of the controller.
LEMMA SessionPreserves ==
  ASSUME PublisherInv,
         SessionUp \/ SessionDrop \/ NewController \/ LoadInventory \/ Await \/ HomeAssistantOnline
  PROVE  PublisherInv'
<1>0. PubTypes
  BY DEF PublisherInv
<1>1. CASE SessionUp
  <2>1. CASE phase = "connect"
    BY <1>0, <1>1, <2>1, NotLive DEF SessionUp, PubTypes, Live, vars
  <2>2. CASE phase # "connect"
    BY <1>0, <1>1, <2>2, EverythingComes DEF SessionUp, PubTypes
  <2> QED  BY <2>1, <2>2
<1>2. CASE SessionDrop
  <2>1. /\ DOMAIN controller' = {"avail", "counts"} /\ controller'.avail = "offline"
    BY <1>0, <1>2 DEF SessionDrop, PubTypes
  <2>2. disturbances' \in 0..MaxDisturbances
    BY <1>0, <1>2, PublisherType DEF SessionDrop, PubTypes
  <2>3. PubTypes'
    BY <1>0, <1>2, <2>1, <2>2 DEF SessionDrop, PubTypes, vars
  <2> QED  BY <1>2, <2>3, NotLive DEF SessionDrop, Live, vars
<1>3. CASE NewController
  <2>1. PubTypes'
    BY <1>0, <1>3 DEF NewController, PubTypes, vars
  <2> QED  BY <1>3, <2>1, NotLive DEF NewController, Live, vars
<1>4. CASE LoadInventory
  <2>1. PICK rows \in Inventories : adapters' = Hydrate(adapters, rows)
    BY <1>4 DEF LoadInventory, Load
  <2>2. rows \in [Macs -> Adapter]
    BY InventoriesType
  <2>3. /\ adapters' \in [Macs -> Adapter]
        /\ \A x \in Macs : adapters'[x].online => adapters'[x] = adapters[x]
    BY <1>0, <2>1, <2>2, HydrateEffect DEF PubTypes
  <2>4. /\ UnderWay' = UnderWay /\ ~Live'
        /\ mixed' = mixed \cup {x \in Macs : Busy(x) /\ adapters'[x] # adapters[x]}
    BY <1>4 DEF LoadInventory, UnderWay, Live
  <2>5. PubTypes'
    BY <1>0, <1>4, <2>3 DEF LoadInventory, PubTypes
  <2>6. ASSUME NEW u \in UnderWay, NEW o \in Range(u.ops)
        PROVE  /\ o \in AdapterOps => /\ o.mac \in u.about
                                      /\ o.mac \notin mixed' => o.a = adapters'[o.mac]
               /\ o = Op("all") => u.about = {}
    <3>1. /\ o \in AdapterOps => /\ o.mac \in u.about
                                 /\ o.mac \notin mixed => o.a = adapters[o.mac]
          /\ o = Op("all") => u.about = {}
      BY DEF PublisherInv, CopiesCurrent
    <3>2. o \in AdapterOps => o.mac \in Macs /\ Busy(o.mac)
      BY <3>1 DEF AdapterOps, Busy, UnderWay
    <3> QED  BY <2>4, <3>1, <3>2
  <2>7. CopiesCurrent'
    BY <2>4, <2>6 DEF CopiesCurrent
  <2> QED  BY <2>4, <2>5, <2>7 DEF PublisherInv, AdaptersMending, ControllerMending
<1>5. CASE Await
  <2>1. CASE session
    BY <1>0, <1>5, <2>1, EverythingComes DEF Await, AwaitConnection, PubTypes
  <2>2. CASE ~session
    <3>1. PubTypes' /\ ~Live' /\ pending' = pending
      BY <1>0, <1>5, <2>2 DEF Await, AwaitConnection, PubTypes, Live, vars
    <3> QED  BY <1>5, <3>1, NotLive DEF Await, vars
  <2> QED  BY <2>1, <2>2
<1>6. CASE HomeAssistantOnline
  <2>1. disturbances' \in 0..MaxDisturbances
    BY <1>0, <1>6, PublisherType DEF HomeAssistantOnline, PubTypes
  <2> QED  BY <1>0, <1>6, <2>1, EverythingComes DEF HomeAssistantOnline, PubTypes
<1> QED  BY <1>1, <1>2, <1>3, <1>4, <1>5, <1>6

\* An operation of the kind on x's adapter is among ops.
Says(ops, op, x) == \E o \in Range(ops) : o \in AdapterOps /\ o.op = op /\ o.mac = x

\* An update leaves the registry.
LEMMA LeavePreserves ==
  ASSUME PublisherInv, NEW about \in SUBSET Macs, NEW ops \in Seq(Ops), ops # <<>>,
         Leave(about, ops),
         adapters' \in [Macs -> Adapter],
         \A x \in Macs : adapters'[x].online => adapters'[x].known,
         \A x \in Macs \ about : adapters'[x] = adapters[x],
         \A o \in Range(ops) : /\ o \in AdapterOps => o.mac \in about /\ o.a = adapters'[o.mac]
                               /\ o # Op("all"),
         \A x \in about :
           /\ Says(ops, "avail", x) \/ (adapters[x].known /\ adapters'[x].online = adapters[x].online)
           /\ \/ Says(ops, "announce", x)
              \/ /\ adapters[x].known /\ adapters'[x].role = adapters[x].role
                 /\ adapters'[x].name = adapters[x].name /\ adapters'[x].hw = adapters[x].hw
           /\ \/ Says(ops, "state", x)
              \/ /\ adapters[x].known /\ adapters'[x].role = adapters[x].role
                 /\ adapters'[x].channel = adapters[x].channel /\ adapters'[x].ip = adapters[x].ip,
         Op("counts") \in Range(ops) \/ Counts' = Counts
  PROVE  PublisherInv'
<1>0. PubTypes /\ CopiesCurrent
  BY DEF PublisherInv
<1> DEFINE u0 == Update(about, ops, changes)
<1>1. /\ pending' = pending \cup {u0} /\ work' = work /\ phase' = phase
      /\ session' = session /\ mixed' = mixed \cup {m \in about : Busy(m)}
      /\ changes < MaxChanges /\ changes' = changes + 1
      /\ UNCHANGED <<disturbances, lastCounts, lastSources, retained, controller>>
  BY DEF Leave
<1>2. u0 \in Updates /\ u0.ops = ops /\ u0.about = about
  BY <1>0 DEF PubTypes, Update, Updates
<1>3. UnderWay' = UnderWay \cup {u0}
  BY <1>1 DEF UnderWay
<1> HIDE DEF u0
<1>4. PubTypes'
  <2>1. changes' \in 0..MaxChanges
    BY <1>0, <1>1, PublisherType DEF PubTypes
  <2> QED  BY <1>0, <1>1, <1>2, <2>1 DEF PubTypes
<1>5. CopiesCurrent'
  <2>1. ASSUME NEW u \in UnderWay, NEW o \in Range(u.ops), o \in AdapterOps
        PROVE  o.mac \in u.about /\ (o.mac \notin mixed' => o.a = adapters'[o.mac])
    <3>1. o.mac \in u.about /\ o.mac \in Macs /\ (o.mac \notin mixed => o.a = adapters[o.mac])
      BY <1>0, <2>1 DEF CopiesCurrent, AdapterOps
    <3>2. o.mac \in about => o.mac \in mixed'
      BY <1>1, <2>1, <3>1 DEF Busy, UnderWay
    <3> QED  BY <1>1, <3>1, <3>2
  <2>2. \A u \in UnderWay : \A o \in Range(u.ops) : o = Op("all") => u.about = {}
    BY <1>0 DEF CopiesCurrent
  <2> QED  BY <1>1, <1>2, <1>3, <2>1, <2>2 DEF CopiesCurrent
<1>6. /\ \A op : Coming(op) => Coming(op)'
      /\ \A op, x : Awaits(op, x) => Awaits(op, x)'
      /\ \A op, x : Says(ops, op, x) => Awaits(op, x)'
      /\ Op("counts") \in Range(ops) => Coming("counts")'
  BY <1>2, <1>3 DEF Coming, Awaits, Says
<1>7. ASSUME NEW x \in Known(adapters') \ mixed', \A y \in Known(adapters) \ mixed : Mending(y)
      PROVE  Mending(x)'
  <2>1. x \in Macs /\ x \notin mixed
    BY <1>1 DEF Known
  <2>2. CASE x \notin about
    <3>1. adapters'[x] = adapters[x] /\ Mending(x)
      BY <1>7, <2>1, <2>2 DEF Known
    <3> QED  BY <1>1, <1>6, <3>1 DEF Mending
  <2>3. CASE x \in about
    <3>1. Awaits("avail", x)' \/ AvailRight(retained'[x], adapters'[x])
      BY <1>1, <1>6, <1>7, <2>1, <2>3 DEF Mending, Known, AvailRight
    <3>2. Awaits("announce", x)' \/ FaceRight(retained'[x], x, adapters'[x])
      BY <1>1, <1>6, <1>7, <2>1, <2>3 DEF Mending, Known, FaceRight, ShownName
    <3>3. Awaits("state", x)' \/ ValuesRight(retained'[x], adapters'[x])
      BY <1>1, <1>6, <1>7, <2>1, <2>3 DEF Mending, Known, ValuesRight
    <3> QED  BY <3>1, <3>2, <3>3 DEF Mending
  <2> QED  BY <2>2, <2>3
<1>8. AdaptersMending'
  BY <1>1, <1>6, <1>7 DEF PublisherInv, AdaptersMending, Live
<1>9. ControllerMending'
  BY <1>1, <1>6 DEF PublisherInv, ControllerMending, Live
<1> QED  BY <1>4, <1>5, <1>8, <1>9 DEF PublisherInv

\* What the source table shows of the adapter a of x, and whether it shows the
\* same of b.
Offered(a) == a.known /\ a.role = "transmitter" /\ a.channel # None

SameSource(a, b, x) ==
  /\ Offered(a) <=> Offered(b)
  /\ Offered(a) => ShownName(a, x) = ShownName(b, x) /\ a.channel = b.channel

\* An update carries what changed: the adapters as they are now, everything
\* that may look different of them, the counts, and a look at the table.
Carries(about, ops) ==
  /\ about \in SUBSET Macs /\ ops \in Seq(Ops) /\ ops # <<>>
  /\ adapters' \in [Macs -> Adapter]
  /\ \A x \in Macs : adapters'[x].online => adapters'[x].known
  /\ \A x \in Macs \ about : adapters'[x] = adapters[x]
  /\ \A o \in Range(ops) : \/ o \in AdapterOps /\ o.mac \in about /\ o.a = adapters'[o.mac]
                           \/ o \in {Op("counts"), Op("refresh")}
  /\ \A x \in about :
       /\ Says(ops, "avail", x) \/ (adapters[x].known /\ adapters'[x].online = adapters[x].online)
       /\ \/ Says(ops, "announce", x)
          \/ /\ adapters[x].known /\ adapters'[x].role = adapters[x].role
             /\ adapters'[x].name = adapters[x].name /\ adapters'[x].hw = adapters[x].hw
       /\ \/ Says(ops, "state", x)
          \/ /\ adapters[x].known /\ adapters'[x].role = adapters[x].role
             /\ adapters'[x].channel = adapters[x].channel /\ adapters'[x].ip = adapters[x].ip
       /\ Op("refresh") \in Range(ops) \/ SameSource(adapters[x], adapters'[x], x)
  /\ Op("counts") \in Range(ops) \/ Counts' = Counts

\* A change of the registry whose update carries what it changed keeps the
\* invariant.
LEMMA CarriedPreserves ==
  ASSUME PublisherInv, NEW about, NEW ops, Leave(about, ops), Carries(about, ops)
  PROVE  PublisherInv'
<1>1. /\ Op("counts") \notin AdapterOps /\ Op("refresh") \notin AdapterOps
      /\ Op("all") \notin AdapterOps /\ Op("counts") # Op("all") /\ Op("refresh") # Op("all")
  BY OpsTyped DEF Op
<1>2. \A o \in Range(ops) : /\ o \in AdapterOps => o.mac \in about /\ o.a = adapters'[o.mac]
                            /\ o # Op("all")
  BY <1>1 DEF Carries
<1> QED  BY <1>2, LeavePreserves DEF Carries

\* Counts depend on who is known and who is online.
LEMMA CountsSame ==
  ASSUME \A x \in Macs : /\ adapters'[x].known = adapters[x].known
                         /\ adapters'[x].online = adapters[x].online
  PROVE  Counts' = Counts
<1>1. Known(adapters') = Known(adapters)
  BY DEF Known
<1>2. {m \in Known(adapters') : adapters'[m].online} = {m \in Known(adapters) : adapters[m].online}
  BY <1>1 DEF Known
<1> QED  BY <1>1, <1>2 DEF Counts

\* One operation alone.
LEMMA OneOp ==
  ASSUME NEW o \in Ops
  PROVE  <<o>> \in Seq(Ops) /\ Range(<<o>>) = {o} /\ <<o>> # <<>>
  BY DEF Range

\* A sweep or a command gave a device up.
LEMMA TimeOutCarries ==
  ASSUME PublisherInv, NEW m \in Macs, TimeOut(m)
  PROVE  \E about, ops : Leave(about, ops) /\ Carries(about, ops)
<1>0. adapters \in [Macs -> Adapter] /\ \A x \in Macs : adapters[x].online => adapters[x].known
  BY DEF PublisherInv, PubTypes
<1>1. adapters' = [adapters EXCEPT ![m].online = FALSE] /\ adapters[m].known
  BY <1>0 DEF TimeOut, MarkOffline
<1>2. adapters[m] \in Adapter
  BY <1>0
<1>3. /\ [adapters[m] EXCEPT !.online = FALSE] \in Adapter
      /\ adapters'[m] = [adapters[m] EXCEPT !.online = FALSE]
      /\ \A x \in Macs \ {m} : adapters'[x] = adapters[x]
  BY <1>0, <1>1, <1>2 DEF Adapter
<1>4. /\ adapters' \in [Macs -> Adapter]
      /\ \A x \in Macs : adapters'[x].online => adapters'[x].known
  <2>1. adapters' \in [Macs -> Adapter]
    BY <1>0, <1>1, <1>3
  <2>2. ~adapters'[m].online
    BY <1>2, <1>3 DEF Adapter
  <2> QED  BY <1>0, <1>3, <2>1, <2>2
<1>5. PICK ops : ops = OfflineOps(m, adapters'[m])
  OBVIOUS
<1>6. Leave({m}, ops)
  BY <1>5 DEF TimeOut
<1> DEFINE o == On("avail", m, adapters'[m])
<1>7. /\ o \in AdapterOps /\ o \in Ops /\ Op("counts") \in Ops /\ Op("counts") \notin AdapterOps
      /\ o.op = "avail" /\ o.mac = m /\ o.a = adapters'[m]
      /\ o # Op("all") /\ Op("counts") # Op("all")
  <2>1. adapters'[m] \in Adapter
    BY <1>4
  <2>2. o \in AdapterOps /\ o \in Ops /\ Op("counts") \in OtherOps /\ Op("counts") \in Ops
    BY <2>1, OpsTyped
  <2> QED  BY <2>2, OpsTyped DEF On, Op
<1>8. ops = <<o, Op("counts")>>
  BY <1>5 DEF OfflineOps
<1> HIDE DEF o
<1>9. ops \in Seq(Ops) /\ Range(ops) = {o, Op("counts")} /\ ops # <<>>
  BY <1>7, <1>8, PairRange
<1>10. /\ adapters'[m].role = adapters[m].role /\ adapters'[m].name = adapters[m].name
       /\ adapters'[m].hw = adapters[m].hw /\ adapters'[m].channel = adapters[m].channel
       /\ adapters'[m].ip = adapters[m].ip
  BY <1>2, <1>3 DEF Adapter
<1>11. Says(ops, "avail", m)
  BY <1>7, <1>9 DEF Says
<1>h. /\ {m} \in SUBSET Macs
      /\ \A x \in Macs \ {m} : adapters'[x] = adapters[x]
      /\ \A p \in Range(ops) : \/ p \in AdapterOps /\ p.mac \in {m} /\ p.a = adapters'[p.mac]
                               \/ p \in {Op("counts"), Op("refresh")}
  BY <1>3, <1>7, <1>9
<1>i. \A x \in {m} :
        /\ Says(ops, "avail", x) \/ (adapters[x].known /\ adapters'[x].online = adapters[x].online)
        /\ \/ Says(ops, "announce", x)
           \/ /\ adapters[x].known /\ adapters'[x].role = adapters[x].role
              /\ adapters'[x].name = adapters[x].name /\ adapters'[x].hw = adapters[x].hw
        /\ \/ Says(ops, "state", x)
           \/ /\ adapters[x].known /\ adapters'[x].role = adapters[x].role
              /\ adapters'[x].channel = adapters[x].channel /\ adapters'[x].ip = adapters[x].ip
  BY <1>1, <1>10, <1>11
<1>12. SameSource(adapters[m], adapters'[m], m)
  BY <1>2, <1>3, <1>10 DEF SameSource, Offered, ShownName, Adapter
<1>13. Op("counts") \in Range(ops)
  BY <1>9
<1>14. Carries({m}, ops)
  BY <1>4, <1>9, <1>12, <1>13, <1>h, <1>i DEF Carries
<1> QED  BY <1>6, <1>14

\* A name given or cleared.
LEMMA NameCarries ==
  ASSUME PublisherInv, NEW m \in Macs, NEW name \in Names \cup {None}, NameCommand(m, name)
  PROVE  \E about, ops : Leave(about, ops) /\ Carries(about, ops)
<1>0. adapters \in [Macs -> Adapter] /\ \A x \in Macs : adapters[x].online => adapters[x].known
  BY DEF PublisherInv, PubTypes
<1>1. adapters' = [adapters EXCEPT ![m].name = name] /\ adapters[m].known
  BY <1>0 DEF NameCommand, SetName
<1>2. adapters[m] \in Adapter
  BY <1>0
<1>3. /\ [adapters[m] EXCEPT !.name = name] \in Adapter
      /\ adapters'[m] = [adapters[m] EXCEPT !.name = name]
      /\ \A x \in Macs \ {m} : adapters'[x] = adapters[x]
  BY <1>0, <1>1, <1>2 DEF Adapter
<1>4. /\ adapters'[m].role = adapters[m].role /\ adapters'[m].online = adapters[m].online
      /\ adapters'[m].known = adapters[m].known /\ adapters'[m].channel = adapters[m].channel
      /\ adapters'[m].ip = adapters[m].ip
  BY <1>2, <1>3 DEF Adapter
<1>5. /\ adapters' \in [Macs -> Adapter]
      /\ \A x \in Macs : adapters'[x].online => adapters'[x].known
      /\ \A x \in Macs : /\ adapters'[x].known = adapters[x].known
                         /\ adapters'[x].online = adapters[x].online
  <2>1. adapters' \in [Macs -> Adapter]
    BY <1>0, <1>1, <1>3
  <2> QED  BY <1>0, <1>3, <1>4, <2>1
<1>6. PICK ops : ops = RenamedOps(m, adapters'[m])
  OBVIOUS
<1>7. Leave({m}, ops)
  BY <1>6 DEF NameCommand
<1> DEFINE o == On("announce", m, adapters'[m])
           first == <<o>>
           refresh == When(adapters'[m].role = "transmitter", Op("refresh"))
<1>8. /\ o \in AdapterOps /\ o \in Ops /\ Op("refresh") \in Ops /\ Op("refresh") \notin AdapterOps
      /\ o.op = "announce" /\ o.mac = m /\ o.a = adapters'[m]
      /\ o # Op("all") /\ Op("refresh") # Op("all")
  <2>1. adapters'[m] \in Adapter
    BY <1>5
  <2>2. o \in AdapterOps /\ o \in Ops /\ Op("refresh") \in OtherOps /\ Op("refresh") \in Ops
    BY <2>1, OpsTyped
  <2> QED  BY <2>2, OpsTyped DEF On, Op
<1>9. ops = first \o refresh
  BY <1>6 DEF RenamedOps
<1>10. /\ first \in Seq(Ops) /\ Range(first) = {o}
       /\ refresh \in Seq(Ops) /\ Range(refresh) \subseteq {Op("refresh")}
       /\ adapters'[m].role = "transmitter" => Op("refresh") \in Range(refresh)
  <2>1. (adapters'[m].role = "transmitter") \in BOOLEAN
    OBVIOUS
  <2>2. /\ refresh \in Seq(Ops) /\ Range(refresh) \subseteq {Op("refresh")}
        /\ adapters'[m].role = "transmitter" => Op("refresh") \in Range(refresh)
    BY <1>8, <2>1, WhenRange
  <2> HIDE DEF o, refresh
  <2>3. first \in Seq(Ops) /\ Range(first) = {o}
    BY <1>8, OneOp
  <2> QED  BY <2>2, <2>3
<1> HIDE DEF o, refresh, first
<1>11. ops \in Seq(Ops)
  BY <1>9, <1>10, ConcatProperties
<1>12. Range(ops) = Range(first) \cup Range(refresh)
  BY <1>9, <1>10, RangeConcatenation
<1>13. ops # <<>>
  <2>1. o \in Range(ops)
    BY <1>10, <1>12
  <2>2. Range(<<>>) = {}
    BY DEF Range
  <2> QED  BY <2>1, <2>2
<1>14. Says(ops, "announce", m)
  BY <1>8, <1>10, <1>12 DEF Says
<1>15. Counts' = Counts
  BY <1>5, CountsSame
<1>h. /\ {m} \in SUBSET Macs
      /\ \A x \in Macs \ {m} : adapters'[x] = adapters[x]
      /\ \A p \in Range(ops) : \/ p \in AdapterOps /\ p.mac \in {m} /\ p.a = adapters'[p.mac]
                               \/ p \in {Op("counts"), Op("refresh")}
  BY <1>3, <1>8, <1>10, <1>12
<1>i. \A x \in {m} :
        /\ Says(ops, "avail", x) \/ (adapters[x].known /\ adapters'[x].online = adapters[x].online)
        /\ \/ Says(ops, "announce", x)
           \/ /\ adapters[x].known /\ adapters'[x].role = adapters[x].role
              /\ adapters'[x].name = adapters[x].name /\ adapters'[x].hw = adapters[x].hw
        /\ \/ Says(ops, "state", x)
           \/ /\ adapters[x].known /\ adapters'[x].role = adapters[x].role
              /\ adapters'[x].channel = adapters[x].channel /\ adapters'[x].ip = adapters[x].ip
  BY <1>1, <1>4, <1>14
<1>16. Op("refresh") \in Range(ops) \/ SameSource(adapters[m], adapters'[m], m)
  BY <1>4, <1>10, <1>12 DEF SameSource, Offered
<1>17. Carries({m}, ops)
  BY <1>5, <1>11, <1>13, <1>15, <1>16, <1>h, <1>i DEF Carries
<1> QED  BY <1>7, <1>17

\* Updates that change nothing of the registry.
LEMMA NoChangeCarries ==
  ASSUME PublisherInv, ScanFinished \/ \E m \in Macs : RejectName(m)
  PROVE  \E about, ops : Leave(about, ops) /\ Carries(about, ops)
<1>0. adapters \in [Macs -> Adapter] /\ \A x \in Macs : adapters[x].online => adapters[x].known
  BY DEF PublisherInv, PubTypes
<1>1. CASE ScanFinished
  <2>1. Leave({}, <<Op("counts")>>) /\ adapters' = adapters
    BY <1>1 DEF ScanFinished
  <2>2. /\ Op("counts") \in Ops /\ Op("counts") \notin AdapterOps /\ Op("counts") # Op("all")
    BY OpsTyped DEF Op
  <2>3. /\ <<Op("counts")>> \in Seq(Ops) /\ Range(<<Op("counts")>>) = {Op("counts")}
        /\ <<Op("counts")>> # <<>>
    BY <2>2, OneOp
  <2>4. /\ {} \in SUBSET Macs
        /\ \A x \in Macs \ {} : adapters'[x] = adapters[x]
        /\ \A p \in Range(<<Op("counts")>>) : p \in {Op("counts"), Op("refresh")}
    BY <2>1, <2>2, <2>3
  <2>5. /\ adapters' \in [Macs -> Adapter]
        /\ \A x \in Macs : adapters'[x].online => adapters'[x].known
    BY <1>0, <2>1
  <2>6. Op("counts") \in Range(<<Op("counts")>>)
    BY <2>3
  <2>7. PICK ops : ops = <<Op("counts")>>
    OBVIOUS
  <2>8. Carries({}, ops)
    BY <2>3, <2>4, <2>5, <2>6, <2>7 DEF Carries
  <2> QED  BY <2>1, <2>7, <2>8
<1>2. ASSUME NEW m \in Macs, RejectName(m)
      PROVE  \E about, ops : Leave(about, ops) /\ Carries(about, ops)
  <2> DEFINE o == On("name", m, adapters[m])
  <2>1. adapters[m].known /\ Leave({m}, <<o>>) /\ adapters' = adapters
    BY <1>2 DEF RejectName
  <2>2. o \in Ops /\ o \in AdapterOps /\ o.mac = m /\ o.a = adapters[m]
    <3>1. adapters[m] \in Adapter
      BY <1>0
    <3> QED  BY <3>1, OpsTyped DEF On, Op
  <2> HIDE DEF o
  <2>3. <<o>> \in Seq(Ops) /\ Range(<<o>>) = {o} /\ <<o>> # <<>>
    BY <2>2, OneOp
  <2>4. PICK ops : ops = <<o>>
    OBVIOUS
  <2>5. Counts' = Counts
    BY <2>1, CountsSame
  <2>6. /\ adapters' \in [Macs -> Adapter]
        /\ \A x \in Macs : adapters'[x].online => adapters'[x].known
    BY <1>0, <2>1
  <2>7. ops \in Seq(Ops) /\ ops # <<>> /\ Leave({m}, ops) /\ Range(ops) = {o}
    BY <2>1, <2>3, <2>4
  <2>h. /\ {m} \in SUBSET Macs
        /\ \A x \in Macs \ {m} : adapters'[x] = adapters[x]
        /\ \A p \in Range(ops) : p \in AdapterOps /\ p.mac \in {m} /\ p.a = adapters'[p.mac]
    BY <2>1, <2>2, <2>7
  <2>i. \A x \in {m} :
          /\ Says(ops, "avail", x) \/ (adapters[x].known /\ adapters'[x].online = adapters[x].online)
          /\ \/ Says(ops, "announce", x)
             \/ /\ adapters[x].known /\ adapters'[x].role = adapters[x].role
                /\ adapters'[x].name = adapters[x].name /\ adapters'[x].hw = adapters[x].hw
          /\ \/ Says(ops, "state", x)
             \/ /\ adapters[x].known /\ adapters'[x].role = adapters[x].role
                /\ adapters'[x].channel = adapters[x].channel /\ adapters'[x].ip = adapters[x].ip
    BY <2>1
  <2>8. SameSource(adapters[m], adapters'[m], m)
    BY <2>1 DEF SameSource
  <2>9. Carries({m}, ops)
    BY <2>5, <2>6, <2>7, <2>8, <2>h, <2>i DEF Carries
  <2> QED  BY <2>7, <2>9
<1> QED  BY <1>1, <1>2

\* An answer: what it changed of the device and of one it displaced is said.
LEMMA ObserveCarries ==
  ASSUME PublisherInv, NEW ip \in IPs, NEW info \in DeviceInfo, ObserveDevice(ip, info)
  PROVE  \E about, ops : Leave(about, ops) /\ Carries(about, ops)
<1>0. adapters \in [Macs -> Adapter] /\ \A x \in Macs : adapters[x].online => adapters[x].known
  BY DEF PublisherInv, PubTypes
<1>1. PICK m : m = Normalize[info.lanMAC]
  OBVIOUS
<1>2. PICK d \in Displacements(adapters, ip, m) :
        LET o == ObservationOf(adapters, ip, info, d)
        IN  /\ m # None
            /\ adapters' = RecordObservation(adapters, ip, info, d)
            /\ ObservationOps(o, adapters') # <<>>
            /\ Leave(Observes(o), ObservationOps(o, adapters'))
  BY <1>1 DEF ObserveDevice
<1>3. PICK o : o = ObservationOf(adapters, ip, info, d)
  OBVIOUS
<1>4. PICK ops : ops = ObservationOps(o, adapters')
  OBVIOUS
<1>5. PICK about : about = Observes(o)
  OBVIOUS
<1>6. /\ m \in Macs
      /\ adapters'[m] = [known |-> TRUE, role |-> Classify(info.hw), ip |-> ip,
                         name |-> adapters[m].name, hw |-> info.hw,
                         channel |-> info.channel, online |-> TRUE]
  BY <1>0, <1>1, <1>2, RecordOwn
<1>7. adapters' \in [Macs -> Adapter]
  BY <1>0, <1>2, RecordType
<1>8. d \in Macs \cup {None} /\ d # m /\ (d # None => adapters[d].online /\ adapters[d].known)
  BY <1>6, NoneIsFresh DEF Displacements, OnlineAt
<1>9. \A x \in Macs \ {m} :
        adapters'[x] = IF x = d THEN [adapters[x] EXCEPT !.online = FALSE] ELSE adapters[x]
  BY <1>1, <1>2, <1>6 DEF RecordObservation
<1>10. d # None => /\ adapters'[d].known = adapters[d].known /\ ~adapters'[d].online
                   /\ adapters'[d].role = adapters[d].role /\ adapters'[d].name = adapters[d].name
                   /\ adapters'[d].hw = adapters[d].hw /\ adapters'[d].ip = adapters[d].ip
                   /\ adapters'[d].channel = adapters[d].channel
  <2> SUFFICES ASSUME d # None
               PROVE  /\ adapters'[d].known = adapters[d].known /\ ~adapters'[d].online
                      /\ adapters'[d].role = adapters[d].role /\ adapters'[d].name = adapters[d].name
                      /\ adapters'[d].hw = adapters[d].hw /\ adapters'[d].ip = adapters[d].ip
                      /\ adapters'[d].channel = adapters[d].channel
    OBVIOUS
  <2>1. adapters[d] \in Adapter /\ adapters'[d] = [adapters[d] EXCEPT !.online = FALSE]
    BY <1>0, <1>8, <1>9
  <2> QED  BY <2>1 DEF Adapter
<1>a. /\ adapters'[m].known /\ adapters'[m].online /\ adapters'[m].role = Classify(info.hw)
      /\ adapters'[m].ip = ip /\ adapters'[m].name = adapters[m].name
      /\ adapters'[m].hw = info.hw /\ adapters'[m].channel = info.channel
  BY <1>6
<1>b. \A x \in Macs \ {m, d} : adapters'[x] = adapters[x]
  BY <1>9
<1>11. \A x \in Macs : adapters'[x].online => adapters'[x].known
  <2> SUFFICES ASSUME NEW x \in Macs, adapters'[x].online PROVE adapters'[x].known
    OBVIOUS
  <2>1. CASE x = m
    BY <1>a, <2>1
  <2>2. CASE x = d
    BY <1>10, <2>2, NoneIsFresh
  <2>3. CASE x \notin {m, d}
    BY <1>0, <1>b, <2>3
  <2> QED  BY <2>1, <2>2, <2>3
<1>12. /\ o.mac = m /\ o.displaced = d
       /\ o.created = ~adapters[m].known /\ o.cameOnline = ~adapters[m].online
       /\ o.stateChanged = (adapters[m].ip # ip \/ adapters[m].channel # info.channel)
       /\ o.roleChanged = (adapters[m].known /\ adapters[m].role # Classify(info.hw))
       /\ o.metadataChanged = (\/ ~adapters[m].known \/ adapters[m].role # Classify(info.hw)
                               \/ adapters[m].hw # info.hw)
  BY <1>1, <1>3 DEF ObservationOf
<1>13. adapters[m].known \in BOOLEAN /\ adapters[m].online \in BOOLEAN
  BY <1>0, <1>6 DEF Adapter
<1>14. /\ o.created \in BOOLEAN /\ o.cameOnline \in BOOLEAN /\ o.stateChanged \in BOOLEAN
       /\ o.roleChanged \in BOOLEAN /\ o.metadataChanged \in BOOLEAN
       /\ o.mac \in Macs /\ o.displaced \in Macs \cup {None}
  BY <1>6, <1>8, <1>12, <1>13
<1>15. PICK reg \in [Macs -> Adapter] : reg = adapters'
  BY <1>7
<1>16. /\ ops \in Seq(Ops)
       /\ \A p \in Range(ops) :
            \/ p \in AdapterOps /\ p.mac = m /\ p.a = reg[m] /\ (Changed(o) \/ o.roleChanged)
            \/ p \in AdapterOps /\ p.mac = d /\ p.a = reg[d]
            \/ p \in {Op("counts"), Op("refresh")}
       /\ d # None => On("avail", d, reg[d]) \in Range(ops)
       /\ o.created \/ o.metadataChanged => On("announce", m, reg[m]) \in Range(ops)
       /\ o.cameOnline => On("avail", m, reg[m]) \in Range(ops)
       /\ o.created \/ o.stateChanged \/ o.roleChanged => On("state", m, reg[m]) \in Range(ops)
       /\ o.cameOnline \/ d # None => Op("counts") \in Range(ops)
       /\ RefreshNeeded(o, reg[m]) => Op("refresh") \in Range(ops)
  <2>1. ops = ObservationOps(o, reg)
    BY <1>4, <1>15
  <2> QED  BY <1>12, <1>14, <2>1, ObservationRange
<1>17. ASSUME NEW op \in {"announce", "avail", "state"}, NEW x \in Macs,
              On(op, x, reg[x]) \in Range(ops)
       PROVE  Says(ops, op, x)
  <2>1. On(op, x, reg[x]) \in AdapterOps
    BY OpsTyped
  <2>2. On(op, x, reg[x]).op = op /\ On(op, x, reg[x]).mac = x
    BY DEF On
  <2> QED  BY <1>17, <2>1, <2>2 DEF Says
<1>18. ops # <<>> /\ Leave(about, ops)
  BY <1>2, <1>3, <1>4, <1>5
<1>c. /\ about = (IF Changed(o) THEN {m} ELSE {}) \cup ({d} \ {None})
      /\ o.roleChanged => Changed(o)
  BY <1>5, <1>12 DEF Observes, Changed
<1>19. ~Changed(o) => adapters'[m] = adapters[m]
  <2> SUFFICES ASSUME ~Changed(o) PROVE adapters'[m] = adapters[m]
    OBVIOUS
  <2>1. /\ adapters[m].known /\ adapters[m].online /\ adapters[m].ip = ip
        /\ adapters[m].channel = info.channel /\ adapters[m].hw = info.hw
        /\ adapters[m].role = Classify(info.hw)
    BY <1>12, <1>13 DEF Changed
  <2>2. adapters[m] \in Adapter
    BY <1>0, <1>6
  <2>3. adapters[m] = [known |-> adapters[m].known, role |-> adapters[m].role,
                       ip |-> adapters[m].ip, name |-> adapters[m].name,
                       hw |-> adapters[m].hw, channel |-> adapters[m].channel,
                       online |-> adapters[m].online]
    BY <2>2 DEF Adapter
  <2>4. adapters[m].known = TRUE /\ adapters[m].online = TRUE
    BY <1>13, <2>1
  <2> QED  BY <1>6, <2>1, <2>3, <2>4
<1>20. /\ about \in SUBSET Macs
       /\ \A x \in Macs \ about : adapters'[x] = adapters[x]
  <2>1. \A x \in Macs \ about : x # d /\ (x = m => ~Changed(o))
    BY <1>c, NoneIsFresh
  <2> QED  BY <1>6, <1>8, <1>19, <1>b, <1>c, <2>1
<1>21. \A p \in Range(ops) : \/ p \in AdapterOps /\ p.mac \in about /\ p.a = adapters'[p.mac]
                             \/ p \in {Op("counts"), Op("refresh")}
  <2>1. \A p \in AdapterOps : p.mac \in Macs
    BY DEF AdapterOps
  <2> QED  BY <1>15, <1>16, <1>c, <2>1, NoneIsFresh
<1>22. ASSUME NEW x \in about
       PROVE  /\ \/ Says(ops, "avail", x)
                 \/ adapters[x].known /\ adapters'[x].online = adapters[x].online
              /\ \/ Says(ops, "announce", x)
                 \/ /\ adapters[x].known /\ adapters'[x].role = adapters[x].role
                    /\ adapters'[x].name = adapters[x].name /\ adapters'[x].hw = adapters[x].hw
              /\ \/ Says(ops, "state", x)
                 \/ /\ adapters[x].known /\ adapters'[x].role = adapters[x].role
                    /\ adapters'[x].channel = adapters[x].channel /\ adapters'[x].ip = adapters[x].ip
  <2>1. CASE x = d
    <3>1. d \in Macs /\ d # None
      BY <1>8, <1>c, <2>1, <1>22, NoneIsFresh
    <3>2. Says(ops, "avail", d)
      BY <1>16, <1>17, <3>1
    <3> QED  BY <1>8, <1>10, <2>1, <3>1, <3>2
  <2>2. CASE x = m
    <3>1. Says(ops, "avail", m) \/ (adapters[m].known /\ adapters'[m].online = adapters[m].online)
      <4>1. CASE o.cameOnline
        BY <1>6, <1>16, <1>17, <4>1
      <4>2. CASE ~o.cameOnline
        <5>1. adapters[m].online
          BY <1>12, <1>13, <4>2
        <5> QED  BY <1>0, <1>6, <1>a, <1>13, <5>1
      <4> QED  BY <4>1, <4>2
    <3>2. \/ Says(ops, "announce", m)
          \/ /\ adapters[m].known /\ adapters'[m].role = adapters[m].role
             /\ adapters'[m].name = adapters[m].name /\ adapters'[m].hw = adapters[m].hw
      BY <1>6, <1>12, <1>16, <1>17
    <3>3. \/ Says(ops, "state", m)
          \/ /\ adapters[m].known /\ adapters'[m].role = adapters[m].role
             /\ adapters'[m].channel = adapters[m].channel /\ adapters'[m].ip = adapters[m].ip
      <4>1. CASE o.created \/ o.stateChanged \/ o.roleChanged
        BY <1>6, <1>16, <1>17, <4>1
      <4>2. CASE ~(o.created \/ o.stateChanged \/ o.roleChanged)
        <5>1. /\ adapters[m].known /\ adapters[m].ip = ip /\ adapters[m].channel = info.channel
              /\ adapters[m].role = Classify(info.hw)
          BY <1>12, <1>13, <4>2
        <5> QED  BY <1>a, <5>1
      <4> QED  BY <4>1, <4>2
    <3> QED  BY <2>2, <3>1, <3>2, <3>3
  <2> QED  BY <1>c, <1>22, <2>1, <2>2
<1>23. Op("counts") \in Range(ops) \/ Counts' = Counts
  <2> SUFFICES ASSUME ~o.cameOnline, d = None PROVE Counts' = Counts
    BY <1>14, <1>16
  <2>1. adapters[m].online /\ adapters[m].known
    BY <1>0, <1>6, <1>12, <1>13
  <2>2. \A x \in Macs : /\ adapters'[x].known = adapters[x].known
                        /\ adapters'[x].online = adapters[x].online
    <3> SUFFICES ASSUME NEW x \in Macs
                 PROVE  /\ adapters'[x].known = adapters[x].known
                        /\ adapters'[x].online = adapters[x].online
      OBVIOUS
    <3>1. CASE x = m
      <4>1. adapters'[m].known \in BOOLEAN /\ adapters'[m].online \in BOOLEAN
        BY <1>6, <1>7 DEF Adapter
      <4> QED  BY <1>13, <1>a, <2>1, <3>1, <4>1
    <3>2. CASE x # m
      BY <1>b, <3>2, NoneIsFresh
    <3> QED  BY <3>1, <3>2
  <2> QED  BY <2>2, CountsSame
<1>24. ASSUME NEW x \in about
       PROVE  Op("refresh") \in Range(ops) \/ SameSource(adapters[x], adapters'[x], x)
  <2>1. CASE x = d
    <3>1. d # None
      BY <1>8, <1>c, <1>24, <2>1
    <3> QED  BY <1>10, <2>1, <3>1 DEF SameSource, Offered, ShownName
  <2>2. CASE x = m
    <3>1. CASE RefreshNeeded(o, reg[m])
      BY <1>16, <3>1
    <3>2. CASE ~RefreshNeeded(o, reg[m])
      <4>1. reg[m].role = Classify(info.hw) /\ reg[m].role # "transmitter" /\ ~o.roleChanged
        BY <1>a, <1>15, <3>2 DEF RefreshNeeded
      <4>2. ~Offered(adapters[m]) /\ ~Offered(adapters'[m])
        BY <1>12, <1>15, <4>1 DEF Offered
      <4> QED  BY <2>2, <4>2 DEF SameSource
    <3> QED  BY <3>1, <3>2
  <2> QED  BY <1>c, <1>24, <2>1, <2>2
<1>25. Carries(about, ops)
  BY <1>7, <1>11, <1>16, <1>18, <1>20, <1>21, <1>22, <1>23, <1>24 DEF Carries
<1> QED  BY <1>18, <1>25

\* The lock is taken.
LEMMA LockPreserves ==
  ASSUME PublisherInv, NEW u \in pending, Lock(u)
  PROVE  PublisherInv'
<1>0. PubTypes /\ CopiesCurrent
  BY DEF PublisherInv
<1>1. /\ work = Idle /\ work' = u /\ pending' = pending \ {u}
      /\ UNCHANGED <<adapters, phase, session, disturbances, changes, lastCounts, retained,
                     controller, mixed>>
  BY DEF Lock, vars
<1>2. UnderWay' = pending /\ UnderWay = pending \cup {Idle}
  BY <1>1 DEF UnderWay
<1>3. PubTypes'
  BY <1>0, <1>1 DEF PubTypes
<1>4. CopiesCurrent'
  BY <1>0, <1>1, <1>2 DEF CopiesCurrent
<1>5. /\ \A op : Coming(op)' <=> Coming(op)
      /\ \A op, x : Awaits(op, x)' <=> Awaits(op, x)
  BY <1>2, IdleTyped DEF Coming, Awaits
<1>6. Counts' = Counts
  BY <1>1, CountsSame
<1>7. AdaptersMending' /\ ControllerMending'
  BY <1>1, <1>5, <1>6 DEF PublisherInv, AdaptersMending, ControllerMending, Mending, Live
<1> QED  BY <1>3, <1>4, <1>7 DEF PublisherInv

\* What performing the first operation leaves under way.
LEMMA PerformFrame ==
  ASSUME PublisherInv, Perform, NEW op, op = Head(work.ops)
  PROVE  /\ work \in Updates /\ work.ops # <<>> /\ op \in Ops /\ op \in Range(work.ops)
         /\ UNCHANGED <<adapters, phase, session, disturbances, changes, pending>>
         /\ work' \in Updates /\ (work' = Idle \/ (work'.ops # <<>> /\ work'.about = work.about))
         /\ \A p \in Range(work.ops) : p # op => p \in Range(work'.ops)
         /\ \A p \in Range(work'.ops) : p \in Range(work.ops) \/ p = Op("receivers")
<1>0. PubTypes
  BY DEF PublisherInv
<1>1. work \in Updates /\ work # Idle /\ work.ops # <<>> /\ work.ops \in Seq(Ops)
  BY <1>0 DEF Perform, PubTypes, Updates
<1>2. UNCHANGED <<adapters, phase, session, disturbances, changes, pending>>
  BY DEF Perform, vars
<1>3. /\ op \in Ops /\ Tail(work.ops) \in Seq(Ops)
      /\ Range(work.ops) = {op} \cup Range(Tail(work.ops))
  BY <1>1, TailRange
<1>4. CASE Done
  <2>1. /\ work' \in Updates /\ (work' = Idle \/ (work'.ops # <<>> /\ work'.about = work.about))
        /\ Range(work'.ops) = Range(Tail(work.ops))
    BY <1>1, <1>4, DoneEffect
  <2> QED  BY <1>1, <1>2, <1>3, <2>1
<1>5. CASE work' = [work EXCEPT !.ops = <<Op("receivers")>> \o Tail(@)]
  <2> DEFINE first == <<Op("receivers")>>
             rest == Tail(work.ops)
             all == first \o rest
  <2>1. work'.ops = all /\ work'.about = work.about /\ work' = [work EXCEPT !.ops = all]
    BY <1>1, <1>5 DEF Updates
  <2>2. Op("receivers") \in Ops
    BY OpsTyped
  <2>3. first \in Seq(Ops) /\ Range(first) = {Op("receivers")} /\ first # <<>>
    BY <2>2, OneOp
  <2>4. rest \in Seq(Ops) /\ Range(work.ops) = {op} \cup Range(rest)
    BY <1>3
  <2> HIDE DEF first, rest
  <2>5. all \in Seq(Ops)
    BY <2>3, <2>4, ConcatProperties
  <2>6. Range(all) = Range(first) \cup Range(rest)
    BY <2>3, <2>4, RangeConcatenation
  <2> HIDE DEF all
  <2>7. all # <<>>
    <3>1. Range(<<>>) = {}
      BY DEF Range
    <3> QED  BY <2>3, <2>6, <3>1
  <2>8. work' \in Updates
    BY <1>1, <2>1, <2>5 DEF Updates
  <2> QED  BY <1>1, <1>2, <1>3, <2>1, <2>3, <2>4, <2>6, <2>7, <2>8
<1> QED
  BY <1>4, <1>5 DEF Perform, OneAdapter, CountsOp, Refresh, RefreshReceivers, Hello, AllAdapters,
                    AllCounts

\* The promises that remain.
LEMMA PerformKeeps ==
  ASSUME PublisherInv, Perform, NEW op, op = Head(work.ops)
  PROVE  /\ \A s : Coming(s) /\ op # Op(s) => Coming(s)'
         /\ \A s, x : Awaits(s, x) =>
              Awaits(s, x)' \/ (op \in AdapterOps /\ op.op = s /\ op.mac = x)
         /\ op \in AdapterOps => (op.mac \notin mixed => op.a = adapters[op.mac])
         /\ mixed' = mixed => CopiesCurrent'
         /\ op = Op("all") => work.about = {}
<1>0. /\ op \in Range(work.ops) /\ UNCHANGED <<adapters, phase, session, pending>>
      /\ \A p \in Range(work.ops) : p # op => p \in Range(work'.ops)
      /\ \A p \in Range(work'.ops) : p \in Range(work.ops) \/ p = Op("receivers")
      /\ work' = Idle \/ work'.about = work.about
  BY PerformFrame
<1>1. CopiesCurrent /\ work \in UnderWay /\ work' \in UnderWay'
      /\ UnderWay' = pending \cup {work'} /\ UnderWay = pending \cup {work}
  BY <1>0 DEF PublisherInv, UnderWay
<1>2. \A s : Coming(s) /\ op # Op(s) => Coming(s)'
  BY <1>0, <1>1 DEF Coming
<1>3. \A s, x : Awaits(s, x) => Awaits(s, x)' \/ (op \in AdapterOps /\ op.op = s /\ op.mac = x)
  BY <1>0, <1>1 DEF Awaits
<1>4. /\ op \in AdapterOps => (op.mac \notin mixed => op.a = adapters[op.mac])
      /\ op = Op("all") => work.about = {}
  BY <1>0, <1>1 DEF CopiesCurrent
<1>5. ASSUME mixed' = mixed PROVE CopiesCurrent'
  <2>1. Op("receivers") \notin AdapterOps /\ Op("receivers") # Op("all")
    BY OpsTyped DEF Op
  <2>2. \A o \in Range(work'.ops) :
          /\ o \in AdapterOps => /\ o.mac \in work'.about
                                 /\ o.mac \notin mixed' => o.a = adapters'[o.mac]
          /\ o = Op("all") => work'.about = {}
    <3>1. CASE work' = Idle
      BY <3>1, IdleTyped
    <3>2. CASE work'.about = work.about
      BY <1>0, <1>1, <1>5, <2>1, <3>2 DEF CopiesCurrent
    <3> QED  BY <1>0, <3>1, <3>2
  <2> QED  BY <1>0, <1>1, <1>5, <2>1, <2>2 DEF CopiesCurrent
<1> QED  BY <1>2, <1>3, <1>4, <1>5

\* The messages of one operation on one adapter.
OneMessages(op, r, table) ==
  CASE op.op = "announce" -> WithName(WithDiscovery(r, op.mac, op.a, table), op.mac, op.a)
    [] op.op = "avail" -> WithAvailability(r, op.a)
    [] op.op = "name" -> WithName(r, op.mac, op.a)
    [] op.op = "state" -> WithState(r, op.a, table)

\* What one operation about one adapter sets right, and that it spoils nothing.
LEMMA OneEffect ==
  ASSUME NEW op \in AdapterOps, NEW r, Kept(r), NEW table, NEW s, s = OneMessages(op, r, table)
  PROVE  /\ Kept(s)
         /\ op.op = "avail" => AvailRight(s, op.a)
         /\ op.op # "avail" => s.avail = r.avail
         /\ op.op = "announce" \/ FaceRight(r, op.mac, op.a) => FaceRight(s, op.mac, op.a)
         /\ op.op = "state" => ValuesRight(s, op.a)
         /\ op.op # "state" => s.role = r.role /\ s.channel = r.channel /\ s.ip = r.ip
<1>0. op.a \in Adapter /\ op.op \in {"announce", "avail", "name", "state"}
  BY DEF AdapterOps
<1>1. CASE op.op = "announce"
  <2>1. PICK t : t = WithDiscovery(r, op.mac, op.a, table)
    OBVIOUS
  <2>a. s = WithName(WithDiscovery(r, op.mac, op.a, table), op.mac, op.a)
    BY <1>1 DEF OneMessages
  <2>2. s = WithName(t, op.mac, op.a)
    BY <2>1, <2>a
  <2>3. /\ Kept(t) /\ t.configs = EntitiesFor(op.a.role)
        /\ t.device = AdapterDevice(op.mac, op.a)
        /\ t.avail = r.avail /\ t.role = r.role /\ t.channel = r.channel /\ t.ip = r.ip
    <3>1. Kept(t) /\ t.configs = EntitiesFor(op.a.role)
      BY <1>0, <2>1, DiscoveryEffect
    <3>2. t.device = AdapterDevice(op.mac, op.a)
      BY <1>0, <2>1, DiscoveryEffect
    <3>3. t.avail = r.avail /\ t.role = r.role /\ t.channel = r.channel /\ t.ip = r.ip
      BY <1>0, <2>1, DiscoveryEffect
    <3> QED  BY <3>1, <3>2, <3>3
  <2>4. /\ Kept(s) /\ s.name = ShownName(op.a, op.mac)
        /\ s.avail = t.avail /\ s.configs = t.configs /\ s.device = t.device
        /\ s.role = t.role /\ s.channel = t.channel /\ s.ip = t.ip
    BY <1>0, <2>2, <2>3, NameEffect
  <2>5. FaceRight(s, op.mac, op.a)
    BY <2>3, <2>4 DEF FaceRight, AdapterDevice
  <2> QED  BY <1>1, <2>3, <2>4, <2>5
<1>2. CASE op.op = "avail"
  <2>1. s = WithAvailability(r, op.a)
    BY <1>2 DEF OneMessages
  <2>2. /\ Kept(s) /\ AvailRight(s, op.a)
        /\ s.name = r.name /\ s.configs = r.configs /\ s.device = r.device
        /\ s.role = r.role /\ s.channel = r.channel /\ s.ip = r.ip
    BY <1>0, <2>1, AvailEffect
  <2> QED  BY <1>2, <2>2 DEF FaceRight
<1>3. CASE op.op = "name"
  <2>1. s = WithName(r, op.mac, op.a)
    BY <1>3 DEF OneMessages
  <2>2. /\ Kept(s) /\ s.name = ShownName(op.a, op.mac)
        /\ s.avail = r.avail /\ s.configs = r.configs /\ s.device = r.device
        /\ s.role = r.role /\ s.channel = r.channel /\ s.ip = r.ip
    BY <1>0, <2>1, NameEffect
  <2> QED  BY <1>3, <2>2 DEF FaceRight
<1>4. CASE op.op = "state"
  <2>1. s = WithState(r, op.a, table)
    BY <1>4 DEF OneMessages
  <2>2. /\ Kept(s) /\ ValuesRight(s, op.a) /\ s.avail = r.avail
        /\ s.name = r.name /\ s.configs = r.configs /\ s.device = r.device
    BY <1>0, <2>1, StateEffect
  <2> QED  BY <1>4, <2>2 DEF FaceRight
<1> QED  BY <1>0, <1>1, <1>2, <1>3, <1>4

\* A message about one adapter.
LEMMA OnePreserves ==
  ASSUME PublisherInv, Perform, NEW op, op = Head(work.ops),
         op.op \in {"announce", "avail", "name", "state"}, OneAdapter(op)
  PROVE  PublisherInv'
<1>0. /\ PubTypes /\ AdaptersMending /\ ControllerMending
      /\ \A x \in Macs : Kept(retained[x])
      /\ retained = [x \in Macs |-> retained[x]]
  BY DEF PublisherInv, PubTypes
<1>1. /\ op \in Ops /\ UNCHANGED <<adapters, phase, session, disturbances, changes, pending>>
      /\ work' \in Updates /\ (work' = Idle \/ work'.ops # <<>>)
  BY PerformFrame
<1>2. /\ \A s : Coming(s) /\ op # Op(s) => Coming(s)'
      /\ \A s, x : Awaits(s, x) =>
           Awaits(s, x)' \/ (op \in AdapterOps /\ op.op = s /\ op.mac = x)
      /\ op \in AdapterOps => (op.mac \notin mixed => op.a = adapters[op.mac])
      /\ mixed' = mixed => CopiesCurrent'
  BY PerformKeeps
<1>3. op \in AdapterOps /\ op.mac \in Macs /\ op.a \in Adapter
  BY <1>1 DEF Ops, AdapterOps, OtherOps
<1>4. \A s \in {"hello", "all", "allCounts", "counts"} : op # Op(s)
  BY <1>3, OpsTyped
<1>5. UNCHANGED <<lastCounts, lastSources, controller, mixed>>
  BY DEF OneAdapter
<1>6. PICK s : s = OneMessages(op, retained[op.mac], Sources)
  OBVIOUS
<1>7. retained' = IF session THEN [retained EXCEPT ![op.mac] = s] ELSE retained
  BY <1>6 DEF OneAdapter, Publish, OneMessages
<1>8. /\ Kept(s)
      /\ op.op = "avail" => AvailRight(s, op.a)
      /\ op.op # "avail" => s.avail = retained[op.mac].avail
      /\ op.op = "announce" \/ FaceRight(retained[op.mac], op.mac, op.a) =>
           FaceRight(s, op.mac, op.a)
      /\ op.op = "state" => ValuesRight(s, op.a)
      /\ op.op # "state" => /\ s.role = retained[op.mac].role
                            /\ s.channel = retained[op.mac].channel
                            /\ s.ip = retained[op.mac].ip
  BY <1>0, <1>3, <1>6, OneEffect
<1>9. /\ retained' = [x \in Macs |-> retained'[x]]
      /\ \A x \in Macs : retained'[x] = IF session /\ x = op.mac THEN s ELSE retained[x]
  BY <1>0, <1>3, <1>7
<1>10. PubTypes'
  BY <1>0, <1>1, <1>5, <1>8, <1>9 DEF PubTypes
<1>11. CopiesCurrent'
  BY <1>2, <1>5
<1>12. ASSUME session, NEW x \in Macs \ mixed, Mending(x) PROVE Mending(x)'
  <2>1. CASE x # op.mac
    BY <1>1, <1>2, <1>9, <1>12, <2>1 DEF Mending
  <2>2. CASE x = op.mac
    <3>0. op.a = adapters[x] /\ adapters'[x] = adapters[x] /\ retained'[x] = s
      BY <1>1, <1>2, <1>3, <1>9, <1>12, <2>2
    <3>1. Awaits("avail", x)' \/ AvailRight(s, adapters[x])
      BY <1>2, <1>8, <1>12, <2>2, <3>0 DEF Mending, AvailRight
    <3>2. Awaits("announce", x)' \/ FaceRight(s, x, adapters[x])
      BY <1>2, <1>8, <1>12, <2>2, <3>0 DEF Mending
    <3>3. Awaits("state", x)' \/ ValuesRight(s, adapters[x])
      BY <1>2, <1>8, <1>12, <2>2, <3>0 DEF Mending, ValuesRight
    <3> QED  BY <3>0, <3>1, <3>2, <3>3 DEF Mending
  <2> QED  BY <2>1, <2>2
<1>13. AdaptersMending'
  BY <1>0, <1>1, <1>2, <1>4, <1>5, <1>12 DEF AdaptersMending, Live, Known
<1>14. Counts' = Counts
  BY <1>1, CountsSame
<1>15. ControllerMending'
  BY <1>0, <1>1, <1>2, <1>4, <1>5, <1>14 DEF ControllerMending, Live
<1> QED  BY <1>10, <1>11, <1>13, <1>15 DEF PublisherInv

\* An operation that is not about one adapter.
LEMMA OtherOp ==
  ASSUME PublisherInv, Perform, NEW op, op = Head(work.ops),
         NEW k \in {"counts", "refresh", "receivers", "hello", "all", "allCounts"}, op.op = k
  PROVE  /\ op = Op(k)
         /\ UNCHANGED <<adapters, phase, session, disturbances, changes, pending>>
         /\ work' \in Updates /\ (work' = Idle \/ work'.ops # <<>>)
         /\ \A s \in {"hello", "all", "allCounts", "counts"} : Coming(s) /\ s # k => Coming(s)'
         /\ \A s, x : Awaits(s, x) => Awaits(s, x)'
         /\ mixed' = mixed => CopiesCurrent'
         /\ Counts' = Counts
<1>1. /\ op \in Ops /\ UNCHANGED <<adapters, phase, session, disturbances, changes, pending>>
      /\ work' \in Updates /\ (work' = Idle \/ work'.ops # <<>>)
  BY PerformFrame
<1>2. op \notin AdapterOps /\ op = Op(k)
  BY <1>1, OpsTyped DEF Ops, AdapterOps
<1>3. /\ \A s : Coming(s) /\ op # Op(s) => Coming(s)'
      /\ \A s, x : Awaits(s, x) => Awaits(s, x)' \/ (op \in AdapterOps /\ op.op = s /\ op.mac = x)
      /\ mixed' = mixed => CopiesCurrent'
  BY PerformKeeps
<1>4. \A s \in {"hello", "all", "allCounts", "counts"} : s # k => op # Op(s)
  BY <1>2, OpsTyped
<1>5. Counts' = Counts
  BY <1>1, CountsSame
<1> QED  BY <1>1, <1>2, <1>3, <1>4, <1>5

\* Counts, sent or passed over.
LEMMA CountsPreserves ==
  ASSUME PublisherInv, Perform, Head(work.ops).op = "counts", CountsOp
  PROVE  PublisherInv'
<1>0. PubTypes /\ AdaptersMending /\ ControllerMending /\ DOMAIN controller = {"avail", "counts"}
  BY DEF PublisherInv, PubTypes
<1>1. /\ UNCHANGED <<adapters, phase, session, disturbances, changes, pending>>
      /\ work' \in Updates /\ (work' = Idle \/ work'.ops # <<>>)
      /\ \A s \in {"hello", "all", "allCounts", "counts"} : Coming(s) /\ s # "counts" => Coming(s)'
      /\ \A s, x : Awaits(s, x) => Awaits(s, x)'
      /\ mixed' = mixed => CopiesCurrent'
      /\ Counts' = Counts
  BY OtherOp
<1>2. lastCounts' = Counts /\ UNCHANGED <<retained, mixed>>
  BY DEF CountsOp
<1>3. /\ DOMAIN controller' = {"avail", "counts"} /\ controller'.avail = controller.avail
      /\ session => \/ controller'.counts = Counts
                    \/ controller'.counts = controller.counts /\ lastCounts = Counts
  BY <1>0 DEF CountsOp, CountsUnchanged, Tell
<1>4. PubTypes'
  BY <1>0, <1>1, <1>2, <1>3 DEF PubTypes
<1>5. AdaptersMending'
  BY <1>0, <1>1, <1>2 DEF AdaptersMending, Mending, Live
<1>6. ControllerMending'
  BY <1>0, <1>1, <1>2, <1>3 DEF ControllerMending, Live
<1> QED  BY <1>1, <1>2, <1>4, <1>5, <1>6 DEF PublisherInv

\* A look at the table sends nothing by itself.
LEMMA RefreshPreserves ==
  ASSUME PublisherInv, Perform, Head(work.ops).op = "refresh", Refresh
  PROVE  PublisherInv'
<1>0. PubTypes /\ AdaptersMending /\ ControllerMending
  BY DEF PublisherInv
<1>1. /\ UNCHANGED <<adapters, phase, session, disturbances, changes, pending>>
      /\ work' \in Updates /\ (work' = Idle \/ work'.ops # <<>>)
      /\ \A s \in {"hello", "all", "allCounts", "counts"} : Coming(s) /\ s # "refresh" => Coming(s)'
      /\ \A s, x : Awaits(s, x) => Awaits(s, x)'
      /\ mixed' = mixed => CopiesCurrent'
      /\ Counts' = Counts
  BY OtherOp
<1>2. UNCHANGED <<lastCounts, retained, controller, mixed>>
  BY DEF Refresh
<1>3. PubTypes'
  BY <1>0, <1>1, <1>2 DEF PubTypes
<1>4. AdaptersMending'
  BY <1>0, <1>1, <1>2 DEF AdaptersMending, Mending, Live
<1>5. ControllerMending'
  BY <1>0, <1>1, <1>2 DEF ControllerMending, Live
<1> QED  BY <1>1, <1>2, <1>3, <1>4, <1>5 DEF PublisherInv

\* The receivers get the new table; what else is kept of them stays right.
LEMMA ReceiversPreserves ==
  ASSUME PublisherInv, Perform, Head(work.ops).op = "receivers", RefreshReceivers
  PROVE  PublisherInv'
<1>0. /\ PubTypes /\ AdaptersMending /\ ControllerMending
      /\ \A x \in Macs : adapters[x] \in Adapter /\ Kept(retained[x])
      /\ retained = [x \in Macs |-> retained[x]]
  BY DEF PublisherInv, PubTypes
<1>1. /\ UNCHANGED <<adapters, phase, session, disturbances, changes, pending>>
      /\ work' \in Updates /\ (work' = Idle \/ work'.ops # <<>>)
      /\ \A s \in {"hello", "all", "allCounts", "counts"} : Coming(s) /\ s # "receivers" => Coming(s)'
      /\ \A s, x : Awaits(s, x) => Awaits(s, x)'
      /\ mixed' = mixed => CopiesCurrent'
      /\ Counts' = Counts
  BY OtherOp
<1>2. UNCHANGED <<lastCounts, controller, mixed>>
  BY DEF RefreshReceivers
<1>3. retained' = [x \in Macs |-> retained'[x]]
  BY <1>0 DEF RefreshReceivers, Publish
<1>4. ASSUME NEW x \in Macs
      PROVE  \/ retained'[x] = retained[x]
             \/ /\ adapters[x].role = "receiver"
                /\ retained'[x] = WithSource(retained[x], x, adapters[x], lastSources)
  BY DEF RefreshReceivers, Publish
<1>5. ASSUME NEW x \in Macs
      PROVE  /\ Kept(retained'[x])
             /\ FaceRight(retained[x], x, adapters[x]) => FaceRight(retained'[x], x, adapters[x])
             /\ retained'[x].avail = retained[x].avail /\ retained'[x].role = retained[x].role
             /\ retained'[x].channel = retained[x].channel /\ retained'[x].ip = retained[x].ip
  <2>1. CASE retained'[x] = retained[x]
    BY <1>0, <2>1
  <2>2. CASE /\ adapters[x].role = "receiver"
             /\ retained'[x] = WithSource(retained[x], x, adapters[x], lastSources)
    <3> DEFINE r == retained[x]
               s == retained'[x]
               a == adapters[x]
    <3>1. Kept(r) /\ a \in Adapter /\ a.role = "receiver" /\ s = WithSource(r, x, a, lastSources)
      BY <1>0, <2>2
    <3> HIDE DEF r, s, a
    <3>2. Kept(s)
      BY <3>1, SourceEffect
    <3>3. s.avail = r.avail /\ s.role = r.role /\ (FaceRight(r, x, a) => FaceRight(s, x, a))
      BY <3>1, SourceEffect, SMTT(30)
    <3>4. s.channel = r.channel /\ s.ip = r.ip
      BY <3>1, SourceEffect
    <3> QED  BY <3>2, <3>3, <3>4 DEF r, s, a
  <2> QED  BY <1>4, <2>1, <2>2
<1>6. PubTypes'
  BY <1>0, <1>1, <1>2, <1>3, <1>5 DEF PubTypes
<1>7. ASSUME NEW x \in Macs, Mending(x) PROVE Mending(x)'
  BY <1>1, <1>5, <1>7 DEF Mending, AvailRight, ValuesRight
<1>8. AdaptersMending'
  BY <1>0, <1>1, <1>2, <1>7 DEF AdaptersMending, Live, Known
<1>9. ControllerMending'
  BY <1>0, <1>1, <1>2 DEF ControllerMending, Live
<1> QED  BY <1>1, <1>2, <1>6, <1>8, <1>9 DEF PublisherInv

\* The first step of everything.
LEMMA HelloPreserves ==
  ASSUME PublisherInv, Perform, Head(work.ops).op = "hello", Hello
  PROVE  PublisherInv'
<1>0. PubTypes /\ AdaptersMending /\ ControllerMending /\ DOMAIN controller = {"avail", "counts"}
      /\ controller.avail \in {None, "online", "offline"}
  BY DEF PublisherInv, PubTypes
<1>1. /\ UNCHANGED <<adapters, phase, session, disturbances, changes, pending>>
      /\ work' \in Updates /\ (work' = Idle \/ work'.ops # <<>>)
      /\ \A s \in {"hello", "all", "allCounts", "counts"} : Coming(s) /\ s # "hello" => Coming(s)'
      /\ \A s, x : Awaits(s, x) => Awaits(s, x)'
      /\ mixed' = mixed => CopiesCurrent'
      /\ Counts' = Counts
  BY OtherOp
<1>2. UNCHANGED <<lastCounts, retained, mixed>>
  BY DEF Hello
<1>3. /\ DOMAIN controller' = {"avail", "counts"} /\ controller'.counts = controller.counts
      /\ controller'.avail \in {None, "online", "offline"}
      /\ session => controller'.avail = "online"
  BY <1>0 DEF Hello, Tell
<1>4. PubTypes'
  BY <1>0, <1>1, <1>2, <1>3 DEF PubTypes
<1>5. AdaptersMending'
  BY <1>0, <1>1, <1>2 DEF AdaptersMending, Mending, Live
<1>6. ControllerMending'
  BY <1>0, <1>1, <1>2, <1>3 DEF ControllerMending, Live
<1> QED  BY <1>1, <1>2, <1>4, <1>5, <1>6 DEF PublisherInv

\* The last step of everything.
LEMMA AllCountsPreserves ==
  ASSUME PublisherInv, Perform, Head(work.ops).op = "allCounts", AllCounts
  PROVE  PublisherInv'
<1>0. PubTypes /\ AdaptersMending /\ ControllerMending /\ DOMAIN controller = {"avail", "counts"}
  BY DEF PublisherInv, PubTypes
<1>1. /\ UNCHANGED <<adapters, phase, session, disturbances, changes, pending>>
      /\ work' \in Updates /\ (work' = Idle \/ work'.ops # <<>>)
      /\ \A s \in {"hello", "all", "allCounts", "counts"} : Coming(s) /\ s # "allCounts" => Coming(s)'
      /\ \A s, x : Awaits(s, x) => Awaits(s, x)'
      /\ mixed' = mixed => CopiesCurrent'
      /\ Counts' = Counts
  BY OtherOp
<1>2. lastCounts' = Counts /\ UNCHANGED <<retained, mixed>>
  BY DEF AllCounts
<1>3. /\ DOMAIN controller' = {"avail", "counts"} /\ controller'.avail = controller.avail
      /\ session => controller'.counts = Counts
  BY <1>0 DEF AllCounts, Tell
<1>4. PubTypes'
  BY <1>0, <1>1, <1>2, <1>3 DEF PubTypes
<1>5. AdaptersMending'
  BY <1>0, <1>1, <1>2 DEF AdaptersMending, Mending, Live
<1>6. ControllerMending'
  BY <1>0, <1>1, <1>2, <1>3 DEF ControllerMending, Live
<1> QED  BY <1>1, <1>2, <1>4, <1>5, <1>6 DEF PublisherInv

\* Every adapter with everything: what is pending about none of them can no
\* longer overtake it, so mixed shrinks to the adapters of pending updates.
LEMMA AllPreserves ==
  ASSUME PublisherInv, Perform, Head(work.ops).op = "all", AllAdapters
  PROVE  PublisherInv'
<1>0. /\ PubTypes /\ CopiesCurrent /\ AdaptersMending /\ ControllerMending
      /\ \A x \in Macs : adapters[x] \in Adapter /\ Kept(retained[x])
      /\ retained = [x \in Macs |-> retained[x]]
  BY DEF PublisherInv, PubTypes
<1>1. /\ Head(work.ops) = Op("all")
      /\ UNCHANGED <<adapters, phase, session, disturbances, changes, pending>>
      /\ work' \in Updates /\ (work' = Idle \/ work'.ops # <<>>)
      /\ \A s \in {"hello", "all", "allCounts", "counts"} : Coming(s) /\ s # "all" => Coming(s)'
      /\ Counts' = Counts
  BY OtherOp
<1>2. /\ work' = Idle \/ work'.about = work.about
      /\ \A p \in Range(work'.ops) : p \in Range(work.ops) \/ p = Op("receivers")
      /\ work.about = {}
  BY <1>1, PerformFrame, PerformKeeps
<1>3. /\ UNCHANGED <<lastCounts, controller>>
      /\ mixed' = {x \in mixed : \E u \in pending : x \in u.about}
  BY DEF AllAdapters
<1>4. work'.about = {}
  BY <1>2, IdleTyped
<1>5. CopiesCurrent'
  <2>1. Op("receivers") \notin AdapterOps /\ Op("receivers") # Op("all")
    BY OpsTyped DEF Op
  <2>2. ASSUME NEW o \in Range(work'.ops) PROVE o \notin AdapterOps
    <3>1. work \in UnderWay
      BY DEF UnderWay
    <3> QED  BY <1>0, <1>2, <2>1, <3>1 DEF CopiesCurrent
  <2>3. ASSUME NEW u \in pending, NEW o \in Range(u.ops)
        PROVE  /\ o \in AdapterOps => /\ o.mac \in u.about
                                      /\ o.mac \notin mixed' => o.a = adapters[o.mac]
               /\ o = Op("all") => u.about = {}
    <3>1. u \in UnderWay
      BY DEF UnderWay
    <3>2. /\ o \in AdapterOps => /\ o.mac \in u.about
                                 /\ o.mac \notin mixed => o.a = adapters[o.mac]
          /\ o = Op("all") => u.about = {}
      BY <1>0, <3>1 DEF CopiesCurrent
    <3> QED  BY <1>3, <3>2
  <2> QED  BY <1>1, <1>4, <2>2, <2>3 DEF CopiesCurrent, UnderWay
<1>6. retained' = [x \in Macs |-> retained'[x]]
  BY <1>0 DEF AllAdapters, Publish
<1>7. ASSUME NEW x \in Macs
      PROVE  IF session /\ adapters[x].known
               THEN retained'[x] =
                      WithState(WithName(WithAvailability(
                        WithDiscovery(retained[x], x, adapters[x], lastSources),
                        adapters[x]), x, adapters[x]), adapters[x], lastSources)
               ELSE retained'[x] = retained[x]
  BY DEF AllAdapters, Publish
<1>8. ASSUME NEW x \in Macs, session, adapters[x].known
      PROVE  /\ Kept(retained'[x])
             /\ AvailRight(retained'[x], adapters[x])
             /\ FaceRight(retained'[x], x, adapters[x])
             /\ ValuesRight(retained'[x], adapters[x])
  <2> DEFINE r == retained[x]
             s == retained'[x]
             a == adapters[x]
  <2>1. /\ Kept(r) /\ a \in Adapter
        /\ s = WithState(WithName(WithAvailability(WithDiscovery(r, x, a, lastSources), a), x, a),
                         a, lastSources)
    BY <1>0, <1>7, <1>8
  <2> HIDE DEF r, s, a
  <2>2. Kept(s) /\ AvailRight(s, a) /\ FaceRight(s, x, a) /\ ValuesRight(s, a)
    BY <2>1, AllEffect
  <2> QED  BY <2>2 DEF r, s, a
<1>9. \A x \in Macs : Kept(retained'[x])
  BY <1>0, <1>7, <1>8
<1>10. PubTypes'
  BY <1>0, <1>1, <1>3, <1>6, <1>9 DEF PubTypes
<1>11. AdaptersMending'
  BY <1>1, <1>8 DEF AdaptersMending, Mending, Live, Known
<1>12. ControllerMending'
  BY <1>0, <1>1, <1>3 DEF ControllerMending, Live
<1> QED  BY <1>5, <1>10, <1>11, <1>12 DEF PublisherInv

\* Each operation of the update that holds the lock keeps the invariant.
LEMMA PerformPreserves ==
  ASSUME PublisherInv, Perform
  PROVE  PublisherInv'
<1> DEFINE op == Head(work.ops)
<1>1. \/ op.op \in {"announce", "avail", "name", "state"} /\ OneAdapter(op)
      \/ op.op = "counts" /\ CountsOp
      \/ op.op = "refresh" /\ Refresh
      \/ op.op = "receivers" /\ RefreshReceivers
      \/ op.op = "hello" /\ Hello
      \/ op.op = "all" /\ AllAdapters
      \/ op.op = "allCounts" /\ AllCounts
  BY DEF Perform
<1>2. CASE op.op \in {"announce", "avail", "name", "state"} /\ OneAdapter(op)
  BY <1>2, OnePreserves
<1>3. CASE op.op = "counts" /\ CountsOp
  BY <1>3, CountsPreserves
<1>4. CASE op.op = "refresh" /\ Refresh
  BY <1>4, RefreshPreserves
<1>5. CASE op.op = "receivers" /\ RefreshReceivers
  BY <1>5, ReceiversPreserves
<1>6. CASE op.op = "hello" /\ Hello
  BY <1>6, HelloPreserves
<1>7. CASE op.op = "all" /\ AllAdapters
  BY <1>7, AllPreserves
<1>8. CASE op.op = "allCounts" /\ AllCounts
  BY <1>8, AllCountsPreserves
<1> QED  BY <1>1, <1>2, <1>3, <1>4, <1>5, <1>6, <1>7, <1>8

\* Nothing happens.
LEMMA StutterPreserves ==
  ASSUME PublisherInv, UNCHANGED allVars
  PROVE  PublisherInv'
<1>1. UNCHANGED <<adapters, phase, session, disturbances, changes, pending, work, lastCounts,
                  retained, controller, mixed>>
  BY DEF allVars, vars, pubVars
<1>2. Counts' = Counts
  BY <1>1, CountsSame
<1>3. PubTypes' /\ UnderWay' = UnderWay
  BY <1>1 DEF PublisherInv, PubTypes, UnderWay
<1>4. CopiesCurrent'
  BY <1>1, <1>3 DEF PublisherInv, CopiesCurrent
<1>5. /\ \A s : Coming(s)' <=> Coming(s)
      /\ \A s, x : Awaits(s, x)' <=> Awaits(s, x)
  BY <1>3 DEF Coming, Awaits
<1>6. AdaptersMending' /\ ControllerMending'
  BY <1>1, <1>2, <1>5 DEF PublisherInv, AdaptersMending, ControllerMending, Mending, Live
<1> QED  BY <1>3, <1>4, <1>6 DEF PublisherInv

\* Every step keeps the invariant.
LEMMA PublisherStep ==
  ASSUME PublisherInv, [PublisherNext]_allVars
  PROVE  PublisherInv'
<1>1. CASE SessionUp \/ SessionDrop \/ NewController \/ LoadInventory \/ Await
           \/ HomeAssistantOnline
  BY <1>1, SessionPreserves
<1>2. CASE ScanFinished
  BY <1>2, NoChangeCarries, CarriedPreserves
<1>3. ASSUME NEW ip \in IPs, NEW info \in Answers, ObserveDevice(ip, info)
      PROVE  PublisherInv'
  <2>1. info \in DeviceInfo
    BY PublisherType
  <2> QED  BY <1>3, <2>1, ObserveCarries, CarriedPreserves
<1>4. ASSUME NEW m \in Macs, TimeOut(m) PROVE PublisherInv'
  BY <1>4, TimeOutCarries, CarriedPreserves
<1>5. ASSUME NEW m \in Macs, RejectName(m) PROVE PublisherInv'
  BY <1>5, NoChangeCarries, CarriedPreserves
<1>6. ASSUME NEW m \in Macs, NEW name \in Names \cup {None}, NameCommand(m, name)
      PROVE  PublisherInv'
  BY <1>6, NameCarries, CarriedPreserves
<1>7. ASSUME NEW u \in pending, Lock(u) PROVE PublisherInv'
  BY <1>7, LockPreserves
<1>8. CASE Perform
  BY <1>8, PerformPreserves
<1>9. CASE UNCHANGED allVars
  BY <1>9, StutterPreserves
<1> QED
  BY <1>1, <1>2, <1>3, <1>4, <1>5, <1>6, <1>7, <1>8, <1>9 DEF PublisherNext

\* In whatever order updates, the session and Home Assistant come and go, what
\* is wrong on a topic will be set right by something under way: publish.go
\* drops nothing that nobody makes good.
THEOREM PublisherInvariant == PublisherSpec => []PublisherInv
<1>1. PublisherInit => PublisherInv
  BY PublisherInitInv
<1>2. PublisherInv /\ [PublisherNext]_allVars => PublisherInv'
  BY PublisherStep
<1> QED  BY <1>1, <1>2, PTL DEF PublisherSpec

\* Type correctness of the publisher: an update in pending has something to
\* say, and the lock is held only for something left to do.
THEOREM PublisherTyped == PublisherSpec => []PublisherTypeOK
<1>1. ASSUME PublisherInv PROVE PublisherTypeOK
  BY <1>1 DEF PublisherInv, PubTypes, PublisherTypeOK, Updates, Kept
<1> QED  BY <1>1, PublisherInvariant, PTL

\* With nothing under way no promise is left open.
LEMMA SettledIsRight ==
  ASSUME PublisherInv, Settled
  PROVE  /\ \A m \in Known(adapters) \ mixed : /\ AvailRight(retained[m], adapters[m])
                                               /\ FaceRight(retained[m], m, adapters[m])
                                               /\ ValuesRight(retained[m], adapters[m])
         /\ controller.avail = "online" /\ controller.counts = Counts
<1>1. Live /\ UnderWay = {Idle}
  BY DEF Settled, Live, UnderWay
<1>2. /\ \A s : ~Coming(s)
      /\ \A s, x : ~Awaits(s, x)
  BY <1>1, IdleTyped DEF Coming, Awaits
<1> QED  BY <1>1, <1>2 DEF PublisherInv, AdaptersMending, ControllerMending, Mending

\* Once nothing is on its way, Home Assistant shows every device, except those
\* of which two updates were under way together, as the registry has it.
THEOREM StateIsShown == PublisherSpec => []StateShown
<1>1. ASSUME PublisherInv PROVE StateShown
  BY <1>1, SettledIsRight DEF StateShown, AvailRight, FaceRight, ValuesRight, DisplayName
<1> QED  BY <1>1, PublisherInvariant, PTL

\* ... and it has the entities of its role and no others.
THEOREM EntitiesAreShown == PublisherSpec => []EntitiesShown
<1>1. ASSUME PublisherInv PROVE EntitiesShown
  BY <1>1, SettledIsRight DEF EntitiesShown, FaceRight, DisplayName
<1> QED  BY <1>1, PublisherInvariant, PTL

\* ... and the controller is available with the right counts, although counts
\* equal to the last ones are not sent again.
THEOREM ControllerIsShown == PublisherSpec => []ControllerShown
<1>1. ASSUME PublisherInv PROVE ControllerShown
  BY <1>1, SettledIsRight DEF ControllerShown
<1> QED  BY <1>1, PublisherInvariant, PTL

-----------------------------------------------------------------------------
(* The sources the receivers offer: tables of the registry and of its past.  *)

Regs == [Macs -> Adapter]

OfferedIn(reg) == {x \in Macs : Offered(reg[x])}

LabelIn(reg, x) ==
  IF \E n \in OfferedIn(reg) \ {x} : ShownName(reg[n], n) = ShownName(reg[x], x)
    THEN Disambiguated[<<ShownName(reg[x], x), reg[x].channel>>]
    ELSE ShownName(reg[x], x)

TableOf(reg) == {[mac |-> x, label |-> LabelIn(reg, x), channel |-> reg[x].channel] :
                   x \in OfferedIn(reg)}

\* The table of the registry as it is.
LEMMA SourcesNow == Sources = TableOf(adapters)
<1>1. Transmitters = OfferedIn(adapters)
  BY DEF Transmitters, OfferedIn, Offered
<1>2. ASSUME NEW x \in Transmitters PROVE LabelOf(x) = LabelIn(adapters, x)
  BY <1>1 DEF LabelOf, LabelIn, AmbiguousName, DisplayName
<1> QED  BY <1>1, <1>2 DEF Sources, TableOf

\* To count for the same in the table is an equivalence.
LEMMA SameIsEquivalence ==
  /\ \A a, x : SameSource(a, a, x)
  /\ \A a, b, x : SameSource(a, b, x) => SameSource(b, a, x)
  /\ \A a, b, c, x : SameSource(a, b, x) /\ SameSource(b, c, x) => SameSource(a, c, x)
  BY DEF SameSource

\* Registries that count for the same have the same table.
LEMMA SameTable ==
  ASSUME NEW F \in Regs, NEW G \in Regs, \A x \in Macs : SameSource(F[x], G[x], x)
  PROVE  TableOf(F) = TableOf(G)
<1>1. OfferedIn(F) = OfferedIn(G)
  BY DEF OfferedIn, SameSource
<1>2. ASSUME NEW x \in OfferedIn(F)
      PROVE  ShownName(F[x], x) = ShownName(G[x], x) /\ F[x].channel = G[x].channel
  BY DEF OfferedIn, SameSource
<1>3. ASSUME NEW x \in OfferedIn(F) PROVE LabelIn(F, x) = LabelIn(G, x)
  <2>1. \A n \in OfferedIn(F) \ {x} : ShownName(F[n], n) = ShownName(G[n], n)
    BY <1>2
  <2>2. (\E n \in OfferedIn(F) \ {x} : ShownName(F[n], n) = ShownName(F[x], x))
          <=> \E n \in OfferedIn(G) \ {x} : ShownName(G[n], n) = ShownName(G[x], x)
    BY <1>1, <1>2, <2>1
  <2> QED  BY <1>2, <2>2 DEF LabelIn
<1> QED  BY <1>1, <1>2, <1>3 DEF TableOf

\* Whatever is offered has a name and a channel.
LEMMA NameTyped ==
  ASSUME NEW F \in Regs, NEW x \in OfferedIn(F)
  PROVE  /\ x \in Macs /\ F[x].channel \in Channels /\ ShownName(F[x], x) \in ShownNames
         /\ <<ShownName(F[x], x), F[x].channel>> \in ShownNames \X Channels
<1>1. x \in Macs /\ F[x] \in Adapter /\ F[x].channel # None
  BY DEF OfferedIn, Offered, Regs
<1>2. /\ F[x].channel \in Channels
      /\ F[x].name \in Names \cup {None} /\ F[x].hw \in Hardware \cup {None}
  BY <1>1 DEF Adapter
<1>3. ShownName(F[x], x) \in ShownNames
  BY <1>1, <1>2, LabelsType DEF ShownName
<1> QED  BY <1>1, <1>2, <1>3

\* A table tells the names and channels of its transmitters, when no name
\* reads like a disambiguated one.
LEMMA TableTellsOne ==
  ASSUME PlainNames, NEW F \in Regs, NEW G \in Regs, TableOf(F) = TableOf(G),
         NEW x \in OfferedIn(F)
  PROVE  /\ x \in OfferedIn(G) /\ ShownName(F[x], x) = ShownName(G[x], x)
         /\ F[x].channel = G[x].channel
<1>1. [mac |-> x, label |-> LabelIn(F, x), channel |-> F[x].channel] \in TableOf(G)
  BY DEF TableOf
<1>2. PICK y \in OfferedIn(G) :
        [mac |-> x, label |-> LabelIn(F, x), channel |-> F[x].channel]
          = [mac |-> y, label |-> LabelIn(G, y), channel |-> G[y].channel]
  BY <1>1 DEF TableOf
<1>3. x \in OfferedIn(G) /\ LabelIn(F, x) = LabelIn(G, x) /\ F[x].channel = G[x].channel
  <2>1. x = y /\ LabelIn(F, x) = LabelIn(G, y) /\ F[x].channel = G[y].channel
    BY <1>2
  <2> QED  BY <2>1
<1> DEFINE f == ShownName(F[x], x)
           g == ShownName(G[x], x)
           p == <<f, F[x].channel>>
           q == <<g, G[x].channel>>
<1>4. f \in ShownNames /\ g \in ShownNames /\ p \in ShownNames \X Channels
      /\ q \in ShownNames \X Channels
  BY <1>3, NameTyped
<1>5. LabelIn(F, x) \in {f, Disambiguated[p]} /\ LabelIn(G, x) \in {g, Disambiguated[q]}
  BY DEF LabelIn
<1>6. Disambiguated[p] = Disambiguated[q] => p = q
  BY <1>4, DisambiguatedInjective
<1>7. f # Disambiguated[q] /\ g # Disambiguated[p]
  BY <1>4 DEF PlainNames
<1>8. p = q => f = g
  OBVIOUS
<1> HIDE DEF f, g, p, q
<1>9. f = g
  BY <1>3, <1>5, <1>6, <1>7, <1>8
<1> QED  BY <1>3, <1>9 DEF f, g

\* When names are plain, a table tells the names and channels it was made of.
LEMMA TableTells ==
  ASSUME PlainNames, NEW F \in Regs, NEW G \in Regs, TableOf(F) = TableOf(G), NEW x \in Macs
  PROVE  SameSource(F[x], G[x], x)
<1>1. Offered(F[x]) => /\ Offered(G[x]) /\ ShownName(F[x], x) = ShownName(G[x], x)
                       /\ F[x].channel = G[x].channel
  BY TableTellsOne DEF OfferedIn
<1>2. Offered(G[x]) => Offered(F[x])
  BY TableTellsOne DEF OfferedIn
<1> QED  BY <1>1, <1>2 DEF SameSource

\* A look at the table is under way because of x.
Refreshing(x) == \E u \in UnderWay : x \in u.about /\ Op("refresh") \in Range(u.ops)

\* Everything begins with hello, which is followed by all adapters.
HelloFirst == \A u \in UnderWay : Op("hello") \in Range(u.ops) => u.ops = EverythingOps

\* The last table published is of the registry F; of whatever has changed since,
\* a look at the table is under way.
Recent(F) == /\ lastSources = TableOf(F)
             /\ \A x \in Macs : SameSource(F[x], adapters[x], x) \/ Refreshing(x)

TableFollows == Live => Coming("hello") \/ \E F \in Regs : Recent(F)

\* G is at least as new as F.
Between(G, F) ==
  \A x \in Macs : SameSource(G[x], F[x], x) \/ SameSource(G[x], adapters[x], x)

\* m offers, and shows, sources of a registry at least as new as F, or will.
Offers(m, F) ==
  /\ \/ Awaits("announce", m)
     \/ \E G \in Regs : retained[m].options = Options(TableOf(G)) /\ Between(G, F)
  /\ \/ Awaits("state", m)
     \/ \E G \in Regs : /\ retained[m].source = SourceOn(TableOf(G), adapters[m].channel)
                        /\ Between(G, F)

Receivers(reg) == {m \in Macs : reg[m].known /\ reg[m].role = "receiver"}

\* Receivers are never behind the last table published, unless it is on its way
\* to them: were they, comparing with that table would pass over them.
ReceiversFollow ==
  Live /\ mixed = {} => \/ Coming("all") \/ Coming("receivers")
                        \/ \E F \in Regs : Recent(F) /\ \A m \in Receivers(adapters) : Offers(m, F)

SourcesInv == HelloFirst /\ TableFollows /\ ReceiversFollow

\* As long as hello is to come, all adapters are.
LEMMA HelloMeansAll ==
  ASSUME HelloFirst, Coming("hello")
  PROVE  Coming("all")
<1>1. Op("all") \in Range(EverythingOps)
  BY EverythingTyped DEF Everything, Update
<1> QED  BY <1>1 DEF HelloFirst, Coming

\* Nothing is promised without a session.
LEMMA SourcesNotLive ==
  ASSUME SourcesInv, ~Live', UNCHANGED <<pending, work>>
  PROVE  SourcesInv'
<1>1. UnderWay' = UnderWay
  BY DEF UnderWay
<1> QED  BY <1>1 DEF SourcesInv, HelloFirst, TableFollows, ReceiversFollow

\* Publishing everything makes up for whatever was missed.
LEMMA SourcesEverything ==
  ASSUME SourcesInv, pending' = pending \cup {Everything}, work' = work
  PROVE  SourcesInv'
<1>1. UnderWay' = UnderWay \cup {Everything}
  BY DEF UnderWay
<1>2. Coming("hello")' /\ Coming("all")'
  BY <1>1, EverythingTyped DEF Coming
<1>3. Everything.ops = EverythingOps
  BY DEF Everything, Update
<1>4. HelloFirst'
  BY <1>1, <1>3 DEF SourcesInv, HelloFirst
<1> QED  BY <1>2, <1>4 DEF SourcesInv, TableFollows, ReceiversFollow

\* Sessions, starts and restarts of Home Assistant keep it.
LEMMA SessionSources ==
  ASSUME SourcesInv,
         SessionUp \/ SessionDrop \/ NewController \/ LoadInventory \/ Await \/ HomeAssistantOnline
  PROVE  SourcesInv'
<1>1. CASE SessionUp
  <2>1. CASE phase = "connect"
    BY <1>1, <2>1, SourcesNotLive DEF SessionUp, Live
  <2>2. CASE phase # "connect"
    BY <1>1, <2>2, SourcesEverything DEF SessionUp
  <2> QED  BY <2>1, <2>2
<1>2. CASE SessionDrop
  BY <1>2, SourcesNotLive DEF SessionDrop, Live
<1>3. CASE NewController
  BY <1>3, SourcesNotLive DEF NewController, Live
<1>4. CASE LoadInventory
  BY <1>4, SourcesNotLive DEF LoadInventory, Live
<1>5. CASE Await
  <2>1. CASE session
    BY <1>5, <2>1, SourcesEverything DEF Await, AwaitConnection
  <2>2. CASE ~session
    BY <1>5, <2>2, SourcesNotLive DEF Await, AwaitConnection, Live
  <2> QED  BY <2>1, <2>2
<1>6. CASE HomeAssistantOnline
  BY <1>6, SourcesEverything DEF HomeAssistantOnline
<1> QED  BY <1>1, <1>2, <1>3, <1>4, <1>5, <1>6

\* Nothing changes but what is under way.
LEMMA SourcesFrame ==
  ASSUME SourcesInv, HelloFirst',
         UNCHANGED <<adapters, phase, session, lastSources, retained, mixed>>,
         \A s \in {"hello", "all", "receivers"} : Coming(s) => Coming(s)',
         \A s, x : Awaits(s, x) => Awaits(s, x)',
         \A x : Refreshing(x) => Refreshing(x)'
  PROVE  SourcesInv'
<1>1. ASSUME NEW F \in Regs, Recent(F) PROVE Recent(F)'
  BY <1>1 DEF Recent
<1>2. ASSUME NEW F \in Regs, NEW m \in Receivers(adapters), Offers(m, F) PROVE Offers(m, F)'
  BY <1>2 DEF Offers, Between
<1>3. TableFollows'
  BY <1>1 DEF SourcesInv, TableFollows, Live
<1>4. ReceiversFollow'
  <2> SUFFICES ASSUME Live, mixed = {}, ~Coming("all"), ~Coming("receivers")
               PROVE  \E F \in Regs : Recent(F)' /\ \A m \in Receivers(adapters') : Offers(m, F)'
    BY DEF ReceiversFollow, Live
  <2>1. PICK F \in Regs : Recent(F) /\ \A m \in Receivers(adapters) : Offers(m, F)
    BY DEF SourcesInv, ReceiversFollow
  <2> QED  BY <1>1, <1>2, <2>1
<1> QED  BY <1>3, <1>4 DEF SourcesInv

\* An update that takes the lock is still under way.
LEMMA LockSources ==
  ASSUME SourcesInv, NEW u \in pending, Lock(u)
  PROVE  SourcesInv'
<1>1. /\ work = Idle /\ work' = u /\ pending' = pending \ {u}
      /\ UNCHANGED <<adapters, phase, session, lastSources, retained, mixed>>
  BY DEF Lock, vars
<1>2. UnderWay' = pending /\ UnderWay = pending \cup {Idle}
  BY <1>1 DEF UnderWay
<1>3. HelloFirst'
  BY <1>2 DEF SourcesInv, HelloFirst
<1>4. /\ \A s : Coming(s) => Coming(s)'
      /\ \A s, x : Awaits(s, x) => Awaits(s, x)'
      /\ \A x : Refreshing(x) => Refreshing(x)'
  BY <1>2, IdleTyped DEF Coming, Awaits, Refreshing
<1> QED  BY <1>1, <1>3, <1>4, SourcesFrame

\* Nothing happens.
LEMMA StutterSources ==
  ASSUME SourcesInv, UNCHANGED allVars
  PROVE  SourcesInv'
<1>1. /\ UnderWay' = UnderWay
      /\ UNCHANGED <<adapters, phase, session, lastSources, retained, mixed>>
  BY DEF UnderWay, allVars, vars, pubVars
<1>2. HelloFirst'
  BY <1>1 DEF SourcesInv, HelloFirst
<1>3. /\ \A s : Coming(s) => Coming(s)'
      /\ \A s, x : Awaits(s, x) => Awaits(s, x)'
      /\ \A x : Refreshing(x) => Refreshing(x)'
  BY <1>1 DEF Coming, Awaits, Refreshing
<1> QED  BY <1>1, <1>2, <1>3, SourcesFrame

\* An update leaves the registry.  If no other is under way about its devices,
\* the last table was right about them, and so was every receiver.
LEMMA LeaveSources ==
  ASSUME SourcesInv, NEW about, NEW ops, Leave(about, ops), Carries(about, ops)
  PROVE  SourcesInv'
<1> DEFINE u0 == Update(about, ops, changes)
<1>1. /\ pending' = pending \cup {u0} /\ work' = work
      /\ mixed' = mixed \cup {m \in about : Busy(m)}
      /\ UNCHANGED <<phase, session, lastSources, retained>>
  BY DEF Leave
<1>2. UnderWay' = UnderWay \cup {u0} /\ u0.ops = ops /\ u0.about = about
  BY <1>1 DEF UnderWay, Update
<1> HIDE DEF u0
<1>3. /\ \A s : Coming(s) => Coming(s)'
      /\ \A s, x : Awaits(s, x) => Awaits(s, x)'
      /\ \A s, x : Says(ops, s, x) => Awaits(s, x)'
      /\ \A x : Refreshing(x) => Refreshing(x)'
      /\ Op("refresh") \in Range(ops) => \A x \in about : Refreshing(x)'
  BY <1>2 DEF Coming, Awaits, Says, Refreshing
<1>4. HelloFirst'
  <2>1. Op("hello") \notin AdapterOps /\ Op("hello") \notin {Op("counts"), Op("refresh")}
    BY OpsTyped DEF Op
  <2>2. Op("hello") \notin Range(ops)
    BY <2>1 DEF Carries
  <2> QED  BY <1>2, <2>2 DEF SourcesInv, HelloFirst
<1>5. /\ about \subseteq Macs
      /\ \A x \in Macs \ about : adapters'[x] = adapters[x]
      /\ \A x \in about :
           Op("refresh") \in Range(ops) \/ SameSource(adapters[x], adapters'[x], x)
  BY DEF Carries
<1>6. ASSUME NEW F \in Regs, Recent(F) PROVE Recent(F)'
  <2>1. ASSUME NEW x \in Macs PROVE SameSource(F[x], adapters'[x], x) \/ Refreshing(x)'
    <3>1. SameSource(F[x], adapters[x], x) \/ Refreshing(x)
      BY <1>6 DEF Recent
    <3>2. CASE x \in about
      BY <1>3, <1>5, <3>1, <3>2, SameIsEquivalence
    <3>3. CASE x \notin about
      BY <1>3, <1>5, <3>1, <3>3
    <3> QED  BY <3>2, <3>3
  <2> QED  BY <1>1, <1>6, <2>1 DEF Recent
<1>7. TableFollows'
  BY <1>1, <1>3, <1>6 DEF SourcesInv, TableFollows, Live
<1>8. ReceiversFollow'
  <2> SUFFICES ASSUME Live, mixed' = {}, ~Coming("all"), ~Coming("receivers")
               PROVE  \E F \in Regs : Recent(F)' /\ \A m \in Receivers(adapters') : Offers(m, F)'
    BY <1>1, <1>3 DEF ReceiversFollow, Live
  <2>1. mixed = {} /\ \A x \in about : ~Refreshing(x)
    BY <1>1 DEF Busy, Refreshing, UnderWay
  <2>2. PICK F \in Regs : Recent(F) /\ \A m \in Receivers(adapters) : Offers(m, F)
    BY <2>1 DEF SourcesInv, ReceiversFollow
  <2>3. \A x \in about : SameSource(F[x], adapters[x], x)
    BY <1>5, <2>1, <2>2 DEF Recent
  <2>4. ASSUME NEW G \in Regs, Between(G, F) PROVE Between(G, F)'
    <3>1. ASSUME NEW x \in Macs
          PROVE  SameSource(G[x], F[x], x) \/ SameSource(G[x], adapters'[x], x)
      <4>1. SameSource(G[x], F[x], x) \/ SameSource(G[x], adapters[x], x)
        BY <2>4 DEF Between
      <4>2. CASE x \in about
        BY <2>3, <4>1, <4>2, SameIsEquivalence
      <4>3. CASE x \notin about
        BY <1>5, <4>1, <4>3
      <4> QED  BY <4>2, <4>3
    <3> QED  BY <3>1 DEF Between
  <2>5. ASSUME NEW m \in Receivers(adapters') PROVE Offers(m, F)'
    <3>0. m \in Macs /\ adapters'[m].known /\ adapters'[m].role = "receiver"
      BY DEF Receivers
    <3>1. \/ Says(ops, "announce", m)
          \/ m \in Receivers(adapters)
      BY <1>5, <3>0 DEF Carries, Receivers
    <3>2. \/ Says(ops, "state", m)
          \/ m \in Receivers(adapters) /\ adapters'[m].channel = adapters[m].channel
      BY <1>5, <3>0 DEF Carries, Receivers
    <3>3. \/ Awaits("announce", m)'
          \/ \E G \in Regs : retained'[m].options = Options(TableOf(G)) /\ Between(G, F)'
      <4>1. CASE m \in Receivers(adapters)
        <5>1. Offers(m, F)
          BY <2>2, <4>1
        <5> QED  BY <1>1, <1>3, <2>4, <5>1 DEF Offers
      <4> QED  BY <1>3, <3>1, <4>1
    <3>4. \/ Awaits("state", m)'
          \/ \E G \in Regs : /\ retained'[m].source = SourceOn(TableOf(G), adapters'[m].channel)
                             /\ Between(G, F)'
      <4>1. CASE m \in Receivers(adapters) /\ adapters'[m].channel = adapters[m].channel
        <5>1. Offers(m, F)
          BY <2>2, <4>1
        <5> QED  BY <1>1, <1>3, <2>4, <4>1, <5>1 DEF Offers
      <4> QED  BY <1>3, <3>2, <4>1
    <3> QED  BY <3>3, <3>4 DEF Offers
  <2> QED  BY <1>6, <2>2, <2>5
<1> QED  BY <1>4, <1>7, <1>8 DEF SourcesInv

\* What performing the first operation leaves of what is under way.
LEMMA PerformSources ==
  ASSUME PublisherInv, HelloFirst, Perform, NEW op, op = Head(work.ops)
  PROVE  /\ HelloFirst'
         /\ \A x : Refreshing(x) /\ op # Op("refresh") => Refreshing(x)'
         /\ op = Op("hello") => Coming("all")'
<1>0. /\ work \in Updates /\ work.ops # <<>> /\ op \in Range(work.ops) /\ pending' = pending
      /\ work' = Idle \/ work'.about = work.about
      /\ \A p \in Range(work.ops) : p # op => p \in Range(work'.ops)
      /\ \A p \in Range(work'.ops) : p \in Range(work.ops) \/ p = Op("receivers")
  BY PerformFrame
<1>1. UnderWay = pending \cup {work} /\ UnderWay' = pending \cup {work'}
  BY <1>0 DEF UnderWay
<1>2. \A x : Refreshing(x) /\ op # Op("refresh") => Refreshing(x)'
  BY <1>0, <1>1, IdleTyped DEF Refreshing
<1>3. Op("hello") \in Range(work.ops) => work.ops = EverythingOps
  BY <1>1 DEF HelloFirst
<1>4. /\ Op("all") \in Ops /\ Op("allCounts") \in Ops
      /\ Op("hello").op = "hello" /\ Op("all").op = "all" /\ Op("allCounts").op = "allCounts"
      /\ Op("hello") # Op("receivers") /\ Op("hello") # Op("all") /\ Op("hello") # Op("allCounts")
  BY OpsTyped DEF Op
<1>5. Head(EverythingOps) = Op("hello") /\ Tail(EverythingOps) = <<Op("all"), Op("allCounts")>>
  BY DEF EverythingOps
<1>6. Range(Tail(EverythingOps)) = {Op("all"), Op("allCounts")}
  BY <1>4, <1>5, PairRange
<1>7. ASSUME Op("hello") \in Range(work.ops) PROVE Range(work'.ops) = {Op("all"), Op("allCounts")}
  <2>1. work.ops = EverythingOps /\ op.op = "hello"
    BY <1>3, <1>4, <1>5, <1>7
  <2>2. Done
    BY <2>1 DEF Perform, Hello
  <2>3. Range(work'.ops) = Range(Tail(work.ops))
    BY <1>0, <2>2, DoneEffect
  <2> QED  BY <1>6, <2>1, <2>3
<1>8. Op("hello") \notin Range(work'.ops)
  BY <1>0, <1>4, <1>7
<1>9. HelloFirst'
  BY <1>1, <1>8 DEF HelloFirst
<1>10. op = Op("hello") => Coming("all")'
  BY <1>0, <1>1, <1>7 DEF Coming
<1> QED  BY <1>2, <1>9, <1>10

\* What one operation says of sources.
LEMMA OneSourcesEffect ==
  ASSUME NEW op \in AdapterOps, NEW r, Kept(r), NEW table, NEW s, s = OneMessages(op, r, table)
  PROVE  /\ s.options = IF op.op = "announce" /\ op.a.role = "receiver" THEN Options(table)
                        ELSE r.options
         /\ s.source = IF op.op = "state" /\ op.a.role = "receiver"
                         THEN SourceOn(table, op.a.channel) ELSE r.source
<1>0. op.op \in {"announce", "avail", "name", "state"}
  BY DEF AdapterOps
<1>a. DOMAIN r = Topics
  BY DEF Kept
<1>1. CASE op.op = "announce"
  <2>1. s = WithName(WithDiscovery(r, op.mac, op.a, table), op.mac, op.a)
    BY <1>1 DEF OneMessages
  <2> DEFINE r1 == [r EXCEPT !.configs = @ \ StaleTopics(op.a.role)]
             r2 == AdapterMessages(r1, op.mac, op.a, table)
  <2>2. DOMAIN r1 = Topics /\ r1.options = r.options /\ r1.source = r.source
    BY <1>a DEF Topics
  <2>3. s = [r2 EXCEPT !.name = ShownName(op.a, op.mac)]
    BY <2>1 DEF WithName, WithDiscovery
  <2> HIDE DEF r1
  <2>4. /\ DOMAIN r2 = Topics /\ r2.source = r1.source
        /\ r2.options = IF op.a.role = "receiver" THEN Options(table) ELSE r1.options
    BY <2>2 DEF AdapterMessages, Topics
  <2> HIDE DEF r2
  <2>5. s.options = r2.options /\ s.source = r2.source
    BY <2>3, <2>4 DEF Topics
  <2> QED  BY <1>1, <2>2, <2>4, <2>5
<1>2. CASE op.op = "avail"
  BY <1>2, <1>a DEF OneMessages, WithAvailability, Topics
<1>3. CASE op.op = "name"
  BY <1>3, <1>a DEF OneMessages, WithName, Topics
<1>4. CASE op.op = "state"
  <2>1. s = WithState(r, op.a, table)
    BY <1>4 DEF OneMessages
  <2>2. /\ s.options = r.options
        /\ s.source = IF op.a.role = "receiver" THEN SourceOn(table, op.a.channel) ELSE r.source
    BY <1>a, <2>1 DEF WithState, Topics
  <2> QED  BY <1>4, <2>2
<1> QED  BY <1>0, <1>1, <1>2, <1>3, <1>4

\* A message about one adapter: a receiver gets the table of this moment.
LEMMA OneSources ==
  ASSUME PublisherInv, SourcesInv, Perform, NEW op, op = Head(work.ops),
         op.op \in {"announce", "avail", "name", "state"}, OneAdapter(op)
  PROVE  SourcesInv'
<1>0. /\ PubTypes /\ adapters \in Regs /\ \A x \in Macs : Kept(retained[x])
      /\ retained = [x \in Macs |-> retained[x]]
  BY DEF PublisherInv, PubTypes, Regs
<1>1. /\ op \in Ops /\ UNCHANGED <<adapters, phase, session>>
  BY PerformFrame
<1>2. /\ \A s : Coming(s) /\ op # Op(s) => Coming(s)'
      /\ \A s, x : Awaits(s, x) =>
           Awaits(s, x)' \/ (op \in AdapterOps /\ op.op = s /\ op.mac = x)
      /\ op \in AdapterOps => (op.mac \notin mixed => op.a = adapters[op.mac])
  BY PerformKeeps
<1>3. op \in AdapterOps /\ op.mac \in Macs
  BY <1>1 DEF Ops, AdapterOps, OtherOps
<1>4. \A s \in {"hello", "all", "receivers", "refresh"} : op # Op(s)
  BY <1>3, OpsTyped
<1>5. HelloFirst' /\ \A x : Refreshing(x) => Refreshing(x)'
  BY <1>4, PerformSources DEF SourcesInv
<1>6. UNCHANGED <<lastSources, mixed>>
  BY DEF OneAdapter
<1>7. PICK s : s = OneMessages(op, retained[op.mac], Sources)
  OBVIOUS
<1>8. retained' = IF session THEN [retained EXCEPT ![op.mac] = s] ELSE retained
  BY <1>7 DEF OneAdapter, Publish, OneMessages
<1>9. \A x \in Macs : retained'[x] = IF session /\ x = op.mac THEN s ELSE retained[x]
  BY <1>0, <1>3, <1>8
<1>10. /\ s.options = IF op.op = "announce" /\ op.a.role = "receiver"
                        THEN Options(TableOf(adapters)) ELSE retained[op.mac].options
       /\ s.source = IF op.op = "state" /\ op.a.role = "receiver"
                       THEN SourceOn(TableOf(adapters), op.a.channel)
                       ELSE retained[op.mac].source
  BY <1>0, <1>3, <1>7, OneSourcesEffect, SourcesNow
<1>11. ASSUME NEW F \in Regs, Recent(F) PROVE Recent(F)'
  BY <1>1, <1>5, <1>6, <1>11 DEF Recent
<1>12. TableFollows'
  BY <1>1, <1>2, <1>4, <1>11 DEF SourcesInv, TableFollows, Live
<1>13. ReceiversFollow'
  <2> SUFFICES ASSUME Live, mixed = {}, ~Coming("all"), ~Coming("receivers")
               PROVE  \E F \in Regs : Recent(F)' /\ \A m \in Receivers(adapters') : Offers(m, F)'
    BY <1>1, <1>2, <1>4, <1>6 DEF ReceiversFollow, Live
  <2>1. PICK F \in Regs : Recent(F) /\ \A m \in Receivers(adapters) : Offers(m, F)
    BY DEF SourcesInv, ReceiversFollow
  <2>2. session /\ op.a = adapters[op.mac]
    BY <1>2, <1>3 DEF Live
  <2>3. \A G : Between(G, F) => Between(G, F)'
    BY <1>1 DEF Between
  <2>4. Between(adapters, F)
    BY SameIsEquivalence DEF Between
  <2>5. ASSUME NEW m \in Receivers(adapters') PROVE Offers(m, F)'
    <3>0. m \in Macs /\ m \in Receivers(adapters) /\ adapters[m].role = "receiver" /\ Offers(m, F)
      BY <1>1, <2>1 DEF Receivers
    <3>1. CASE m # op.mac
      BY <1>1, <1>2, <1>9, <2>3, <3>0, <3>1 DEF Offers
    <3>2. CASE m = op.mac
      <4>0. retained'[m] = s /\ op.a = adapters[m] /\ adapters' = adapters
        BY <1>1, <1>9, <2>2, <3>0, <3>2
      <4>1. \/ Awaits("announce", m)'
            \/ \E G \in Regs : s.options = Options(TableOf(G)) /\ Between(G, F)
        <5>1. CASE op.op = "announce"
          BY <1>0, <1>10, <2>4, <3>0, <4>0, <5>1
        <5>2. CASE op.op # "announce"
          BY <1>2, <1>10, <3>0, <3>2, <5>2 DEF Offers
        <5> QED  BY <5>1, <5>2
      <4>2. \/ Awaits("state", m)'
            \/ \E G \in Regs : /\ s.source = SourceOn(TableOf(G), adapters[m].channel)
                               /\ Between(G, F)
        <5>1. CASE op.op = "state"
          BY <1>0, <1>10, <2>4, <3>0, <4>0, <5>1
        <5>2. CASE op.op # "state"
          BY <1>2, <1>10, <3>0, <3>2, <5>2 DEF Offers
        <5> QED  BY <5>1, <5>2
      <4> QED  BY <2>3, <4>0, <4>1, <4>2 DEF Offers
    <3> QED  BY <3>1, <3>2
  <2> QED  BY <1>11, <2>1, <2>5
<1> QED  BY <1>5, <1>12, <1>13 DEF SourcesInv

\* An operation that is not about one adapter, and what it leaves under way.
LEMMA OtherSources ==
  ASSUME PublisherInv, SourcesInv, Perform,
         NEW k \in {"counts", "refresh", "receivers", "hello", "all", "allCounts"},
         Head(work.ops).op = k
  PROVE  /\ UNCHANGED <<adapters, phase, session>>
         /\ HelloFirst'
         /\ \A s \in {"hello", "all", "receivers"} : Coming(s) /\ s # k => Coming(s)'
         /\ \A s, x : Awaits(s, x) => Awaits(s, x)'
         /\ k # "refresh" => \A x : Refreshing(x) => Refreshing(x)'
         /\ k = "hello" => Coming("all")'
<1>1. PICK op : op = Head(work.ops)
  OBVIOUS
<1>2. /\ op = Op(k) /\ UNCHANGED <<adapters, phase, session>>
      /\ \A s, x : Awaits(s, x) => Awaits(s, x)'
  BY <1>1, OtherOp
<1>3. \A s \in {"hello", "all", "receivers", "refresh"} : s # k => op # Op(s)
  BY <1>2, OpsTyped
<1>4. \A s : Coming(s) /\ op # Op(s) => Coming(s)'
  BY <1>1, PerformKeeps
<1>5. /\ HelloFirst'
      /\ \A x : Refreshing(x) /\ op # Op("refresh") => Refreshing(x)'
      /\ op = Op("hello") => Coming("all")'
  BY <1>1, PerformSources DEF SourcesInv
<1> QED  BY <1>2, <1>3, <1>4, <1>5

\* Counts have nothing to do with sources.
LEMMA CountsSources ==
  ASSUME PublisherInv, SourcesInv, Perform,
         \/ Head(work.ops).op = "counts" /\ CountsOp
         \/ Head(work.ops).op = "allCounts" /\ AllCounts
  PROVE  SourcesInv'
<1>1. UNCHANGED <<lastSources, retained, mixed>>
  BY DEF CountsOp, AllCounts
<1>2. PICK k \in {"counts", "allCounts"} : Head(work.ops).op = k
  OBVIOUS
<1>3. /\ UNCHANGED <<adapters, phase, session>>
      /\ HelloFirst'
      /\ \A s \in {"hello", "all", "receivers"} : Coming(s) => Coming(s)'
      /\ \A s, x : Awaits(s, x) => Awaits(s, x)'
      /\ \A x : Refreshing(x) => Refreshing(x)'
  BY <1>2, OtherSources
<1> QED  BY <1>1, <1>3, SourcesFrame

\* The table of this moment is the last one published.
LEMMA NowRecent ==
  ASSUME adapters \in Regs, adapters' = adapters, lastSources' = Sources
  PROVE  Recent(adapters)'
<1>1. lastSources' = TableOf(adapters')
  BY SourcesNow
<1> QED  BY <1>1, SameIsEquivalence DEF Recent

\* The first step of everything remembers the table as it is.
LEMMA HelloSources ==
  ASSUME PublisherInv, SourcesInv, Perform, Head(work.ops).op = "hello", Hello
  PROVE  SourcesInv'
<1>0. adapters \in Regs
  BY DEF PublisherInv, PubTypes, Regs
<1>1. adapters' = adapters /\ HelloFirst' /\ Coming("all")'
  BY OtherSources
<1>2. Recent(adapters)'
  BY <1>0, <1>1, NowRecent DEF Hello
<1>3. TableFollows'
  BY <1>0, <1>1, <1>2 DEF TableFollows
<1>4. ReceiversFollow'
  BY <1>1 DEF ReceiversFollow
<1> QED  BY <1>1, <1>3, <1>4 DEF SourcesInv

\* refreshSources passes over a table equal to the last one: then no receiver
\* is behind it.
LEMMA RefreshSources ==
  ASSUME PlainNames, PublisherInv, SourcesInv, Perform, Head(work.ops).op = "refresh", Refresh
  PROVE  SourcesInv'
<1>0. adapters \in Regs
  BY DEF PublisherInv, PubTypes, Regs
<1>1. /\ UNCHANGED <<adapters, phase, session>>
      /\ HelloFirst'
      /\ \A s \in {"hello", "all", "receivers"} : Coming(s) => Coming(s)'
      /\ \A s, x : Awaits(s, x) => Awaits(s, x)'
  BY OtherSources
<1>2. lastSources' = Sources /\ UNCHANGED <<retained, mixed>>
  BY DEF Refresh
<1>3. Recent(adapters)'
  BY <1>0, <1>1, <1>2, NowRecent
<1>4. TableFollows'
  BY <1>0, <1>1, <1>3 DEF TableFollows
<1>5. CASE Sources # lastSources
  <2>1. work' = [work EXCEPT !.ops = <<Op("receivers")>> \o Tail(@)]
    BY <1>5 DEF Refresh
  <2>2. work \in Updates /\ work.ops \in Seq(Ops) /\ work.ops # <<>>
    BY PerformFrame DEF Updates
  <2> DEFINE first == <<Op("receivers")>>
             rest == Tail(work.ops)
  <2>3. Op("receivers") \in Ops /\ rest \in Seq(Ops)
    BY <2>2, OpsTyped, TailRange
  <2>4. first \in Seq(Ops) /\ Range(first) = {Op("receivers")}
    BY <2>3, OneOp
  <2>5. work'.ops = first \o rest
    BY <2>1, <2>2 DEF Updates
  <2> HIDE DEF first, rest
  <2>6. Op("receivers") \in Range(work'.ops)
    BY <2>3, <2>4, <2>5, RangeConcatenation
  <2>7. Coming("receivers")'
    BY <2>6 DEF Coming, UnderWay
  <2> QED  BY <1>1, <1>4, <2>7 DEF SourcesInv, ReceiversFollow
<1>6. CASE Sources = lastSources
  <2>1. ReceiversFollow'
    <3> SUFFICES ASSUME Live, mixed = {}, ~Coming("all"), ~Coming("receivers")
                 PROVE  \E F \in Regs : Recent(F)' /\ \A m \in Receivers(adapters') : Offers(m, F)'
      BY <1>1, <1>2 DEF ReceiversFollow, Live
    <3>1. PICK F \in Regs : Recent(F) /\ \A m \in Receivers(adapters) : Offers(m, F)
      BY DEF SourcesInv, ReceiversFollow
    <3>2. TableOf(F) = TableOf(adapters)
      BY <1>6, <3>1, SourcesNow DEF Recent
    <3>3. \A x \in Macs : SameSource(F[x], adapters[x], x)
      BY <1>0, <3>2, TableTells
    <3>4. \A G : Between(G, F) => Between(G, adapters)'
      BY <1>1, <3>3, SameIsEquivalence DEF Between
    <3>5. ASSUME NEW m \in Receivers(adapters') PROVE Offers(m, adapters)'
      <4>1. Offers(m, F)
        BY <1>1, <3>1
      <4>2. \/ Awaits("announce", m)'
            \/ \E G \in Regs : /\ retained'[m].options = Options(TableOf(G))
                               /\ Between(G, adapters)'
        BY <1>1, <1>2, <3>4, <4>1 DEF Offers
      <4>3. \/ Awaits("state", m)'
            \/ \E G \in Regs : /\ retained'[m].source = SourceOn(TableOf(G), adapters'[m].channel)
                               /\ Between(G, adapters)'
        BY <1>1, <1>2, <3>4, <4>1 DEF Offers
      <4> QED  BY <4>2, <4>3 DEF Offers
    <3>6. PICK N \in Regs : N = adapters /\ N = adapters'
      BY <1>0, <1>1
    <3>7. Recent(N)' /\ \A m \in Receivers(adapters') : Offers(m, N)'
      BY <1>1, <1>3, <3>5, <3>6
    <3> QED  BY <3>7
  <2> QED  BY <1>1, <1>4, <2>1 DEF SourcesInv
<1> QED  BY <1>5, <1>6

\* The table goes to every receiver, with the adapters as they are now.
LEMMA TableSent ==
  ASSUME PublisherInv, SourcesInv, HelloFirst', UNCHANGED <<adapters, phase, session, lastSources>>,
         Coming("hello") => Coming("hello")',
         \A x : Refreshing(x) => Refreshing(x)',
         session => \A m \in Receivers(adapters) :
           /\ retained'[m].options = Options(lastSources)
           /\ retained'[m].source = SourceOn(lastSources, adapters[m].channel)
  PROVE  SourcesInv'
<1>1. ASSUME NEW F \in Regs, Recent(F) PROVE Recent(F)'
  BY <1>1 DEF Recent
<1>2. TableFollows'
  BY <1>1 DEF SourcesInv, TableFollows, Live
<1>3. CASE Coming("hello")'
  <2>1. Coming("all")'
    BY <1>3, HelloMeansAll, PTL
  <2> QED  BY <1>2, <2>1 DEF SourcesInv, ReceiversFollow
<1>4. CASE ~Coming("hello")'
  <2> SUFFICES ASSUME Live
               PROVE  \E F \in Regs : Recent(F)' /\ \A m \in Receivers(adapters') : Offers(m, F)'
    BY <1>2 DEF SourcesInv, ReceiversFollow, Live
  <2>1. PICK F \in Regs : Recent(F)
    BY <1>4 DEF SourcesInv, TableFollows
  <2>2. Between(F, F)'
    BY SameIsEquivalence DEF Between
  <2>3. ASSUME NEW m \in Receivers(adapters') PROVE Offers(m, F)'
    <3>1. /\ retained'[m].options = Options(TableOf(F))
          /\ retained'[m].source = SourceOn(TableOf(F), adapters'[m].channel)
      BY <2>1 DEF Recent, Live
    <3> QED  BY <2>2, <3>1 DEF Offers
  <2> QED  BY <1>1, <2>1, <2>3
<1> QED  BY <1>3, <1>4

\* The receivers are sent the table as it is.
LEMMA ReceiversSources ==
  ASSUME PublisherInv, SourcesInv, Perform, Head(work.ops).op = "receivers", RefreshReceivers
  PROVE  SourcesInv'
<1>0. \A x \in Macs : Kept(retained[x])
  BY DEF PublisherInv, PubTypes
<1>1. /\ UNCHANGED <<adapters, phase, session>>
      /\ HelloFirst'
      /\ Coming("hello") => Coming("hello")'
      /\ \A x : Refreshing(x) => Refreshing(x)'
  BY OtherSources
<1>2. lastSources' = lastSources
  BY DEF RefreshReceivers
<1>3. ASSUME session, NEW m \in Receivers(adapters)
      PROVE  /\ retained'[m].options = Options(lastSources)
             /\ retained'[m].source = SourceOn(lastSources, adapters[m].channel)
  <2>1. m \in Macs /\ DOMAIN retained[m] = Topics
    BY <1>0 DEF Receivers, Kept
  <2>2. retained'[m] = WithSource(retained[m], m, adapters[m], lastSources)
    BY <1>3, <2>1 DEF RefreshReceivers, Publish, Receivers
  <2> QED  BY <2>1, <2>2 DEF WithSource, Topics
<1> QED  BY <1>1, <1>2, <1>3, TableSent

\* All adapters are sent as they are, the receivers with the table as it is.
LEMMA AllSources ==
  ASSUME PublisherInv, SourcesInv, Perform, Head(work.ops).op = "all", AllAdapters
  PROVE  SourcesInv'
<1>0. \A x \in Macs : Kept(retained[x])
  BY DEF PublisherInv, PubTypes
<1>1. /\ UNCHANGED <<adapters, phase, session>>
      /\ HelloFirst'
      /\ Coming("hello") => Coming("hello")'
      /\ \A x : Refreshing(x) => Refreshing(x)'
  BY OtherSources
<1>2. lastSources' = lastSources
  BY DEF AllAdapters
<1>3. ASSUME session, NEW m \in Receivers(adapters)
      PROVE  /\ retained'[m].options = Options(lastSources)
             /\ retained'[m].source = SourceOn(lastSources, adapters[m].channel)
  <2> DEFINE a == adapters[m]
             r0 == [retained[m] EXCEPT !.configs = @ \ StaleTopics(a.role)]
             r1 == AdapterMessages(r0, m, a, lastSources)
             r2 == WithAvailability(r1, a)
             r3 == WithName(r2, m, a)
  <2>1. m \in Macs /\ DOMAIN retained[m] = Topics /\ a.known /\ a.role = "receiver"
    BY <1>0 DEF Receivers, Kept
  <2>2. retained'[m] = WithState(r3, a, lastSources)
    BY <1>3, <2>1 DEF AllAdapters, Publish, WithDiscovery
  <2>3. DOMAIN r0 = Topics
    BY <2>1
  <2> HIDE DEF r0
  <2>4. DOMAIN r1 = Topics /\ r1.options = Options(lastSources)
    BY <2>1, <2>3 DEF AdapterMessages, Topics
  <2> HIDE DEF r1
  <2>5. DOMAIN r2 = Topics /\ r2.options = Options(lastSources)
    BY <2>4 DEF WithAvailability, Topics
  <2> HIDE DEF r2
  <2>6. DOMAIN r3 = Topics /\ r3.options = Options(lastSources)
    BY <2>5 DEF WithName, Topics
  <2> HIDE DEF r3
  <2>7. /\ WithState(r3, a, lastSources).options = Options(lastSources)
        /\ WithState(r3, a, lastSources).source = SourceOn(lastSources, a.channel)
    BY <2>1, <2>6 DEF WithState, Topics
  <2> QED  BY <2>2, <2>7
<1> QED  BY <1>1, <1>2, <1>3, TableSent

\* Every step keeps the invariant of the sources.
LEMMA SourcesStep ==
  ASSUME PlainNames, PublisherInv, SourcesInv, [PublisherNext]_allVars
  PROVE  SourcesInv'
<1>1. CASE SessionUp \/ SessionDrop \/ NewController \/ LoadInventory \/ Await
           \/ HomeAssistantOnline
  BY <1>1, SessionSources
<1>2. CASE ScanFinished
  BY <1>2, NoChangeCarries, LeaveSources
<1>3. ASSUME NEW ip \in IPs, NEW info \in Answers, ObserveDevice(ip, info)
      PROVE  SourcesInv'
  <2>1. info \in DeviceInfo
    BY PublisherType
  <2> QED  BY <1>3, <2>1, ObserveCarries, LeaveSources
<1>4. ASSUME NEW m \in Macs, TimeOut(m) PROVE SourcesInv'
  BY <1>4, TimeOutCarries, LeaveSources
<1>5. ASSUME NEW m \in Macs, RejectName(m) PROVE SourcesInv'
  BY <1>5, NoChangeCarries, LeaveSources
<1>6. ASSUME NEW m \in Macs, NEW name \in Names \cup {None}, NameCommand(m, name)
      PROVE  SourcesInv'
  BY <1>6, NameCarries, LeaveSources
<1>7. ASSUME NEW u \in pending, Lock(u) PROVE SourcesInv'
  BY <1>7, LockSources
<1>8. CASE Perform
  <2> DEFINE op == Head(work.ops)
  <2>1. \/ op.op \in {"announce", "avail", "name", "state"} /\ OneAdapter(op)
        \/ (op.op = "counts" /\ CountsOp) \/ (op.op = "allCounts" /\ AllCounts)
        \/ op.op = "refresh" /\ Refresh
        \/ op.op = "receivers" /\ RefreshReceivers
        \/ op.op = "hello" /\ Hello
        \/ op.op = "all" /\ AllAdapters
    BY <1>8 DEF Perform
  <2>2. CASE op.op \in {"announce", "avail", "name", "state"} /\ OneAdapter(op)
    BY <1>8, <2>2, OneSources
  <2>3. CASE (op.op = "counts" /\ CountsOp) \/ (op.op = "allCounts" /\ AllCounts)
    BY <1>8, <2>3, CountsSources
  <2>4. CASE op.op = "refresh" /\ Refresh
    BY <1>8, <2>4, RefreshSources
  <2>5. CASE op.op = "receivers" /\ RefreshReceivers
    BY <1>8, <2>5, ReceiversSources
  <2>6. CASE op.op = "hello" /\ Hello
    BY <1>8, <2>6, HelloSources
  <2>7. CASE op.op = "all" /\ AllAdapters
    BY <1>8, <2>7, AllSources
  <2> QED  BY <2>1, <2>2, <2>3, <2>4, <2>5, <2>6, <2>7
<1>9. CASE UNCHANGED allVars
  BY <1>9, StutterSources
<1> QED
  BY <1>1, <1>2, <1>3, <1>4, <1>5, <1>6, <1>7, <1>8, <1>9 DEF PublisherNext

\* Once nothing is on its way and no updates of one device overlapped, every
\* receiver offers the transmitters there are and shows the one it is tuned to,
\* although refreshSources compares only with the last table it handled, if no
\* name reads like a disambiguated one.
THEOREM SourcesAreShown == PlainNames /\ PublisherSpec => []SourcesShown
<1> SUFFICES ASSUME PlainNames PROVE PublisherSpec => []SourcesShown
  OBVIOUS
<1>1. PublisherInit => SourcesInv
  <2> SUFFICES ASSUME PublisherInit PROVE SourcesInv
    OBVIOUS
  <2>1. UnderWay = {Idle} /\ ~Live
    BY DEF PublisherInit, UnderWay, Live
  <2> QED  BY <2>1, IdleTyped DEF SourcesInv, HelloFirst, TableFollows, ReceiversFollow
<1>2. PublisherInv /\ SourcesInv /\ [PublisherNext]_allVars => SourcesInv'
  BY SourcesStep
<1>3. ASSUME PublisherInv, SourcesInv PROVE SourcesShown
  <2> SUFFICES ASSUME Settled, mixed = {}, NEW m \in Receivers(adapters)
               PROVE  /\ retained[m].options = Options(Sources)
                      /\ retained[m].source = SourceOn(Sources, adapters[m].channel)
    BY DEF SourcesShown, Receivers, Known
  <2>1. Live /\ UnderWay = {Idle} /\ adapters \in Regs
    BY <1>3 DEF Settled, Live, UnderWay, PublisherInv, PubTypes, Regs
  <2>2. /\ \A s : ~Coming(s)
        /\ \A s, x : ~Awaits(s, x)
        /\ \A x : ~Refreshing(x)
    BY <2>1, IdleTyped DEF Coming, Awaits, Refreshing
  <2>3. PICK F \in Regs : Recent(F) /\ Offers(m, F)
    BY <1>3, <2>1, <2>2 DEF SourcesInv, ReceiversFollow
  <2>4. \A x \in Macs : SameSource(F[x], adapters[x], x)
    BY <2>2, <2>3 DEF Recent
  <2>5. ASSUME NEW G \in Regs, Between(G, F) PROVE TableOf(G) = Sources
    <3>1. \A x \in Macs : SameSource(G[x], adapters[x], x)
      BY <2>4, <2>5, SameIsEquivalence DEF Between
    <3> QED  BY <2>1, <3>1, SameTable, SourcesNow
  <2> QED  BY <2>2, <2>3, <2>5 DEF Offers
<1> QED  BY <1>1, <1>2, <1>3, PublisherInvariant, PTL DEF PublisherSpec
=============================================================================
