--------------------------- MODULE RegistryProofs ---------------------------
(***************************************************************************)
(* The registry's invariants for every set of devices, addresses, channels  *)
(* and names, and for every inventory the database may hold; and why every   *)
(* transmitter can be selected and is shown under its own label as long as    *)
(* no two share a channel and no name reads like a disambiguated one.         *)
(***************************************************************************)
EXTENDS SourceTable, InventoryProofs

\* The invariant: types, and one online adapter per address, on which the
\* claim about displacements rests.
RegistryInv == TypeOK /\ AtMostOneOnlinePerIP /\ DisplacementIsAChange

\* Recording an answer keeps the invariant.
LEMMA ObservePreserves ==
  ASSUME RegistryInv, NEW ip \in IPs, NEW info \in DeviceInfo, Observe(ip, info)
  PROVE  RegistryInv'
<1> DEFINE m == Normalize[info.lanMAC]
<1>0. PICK d \in Displacements(adapters, ip, m) :
         /\ m # None
         /\ adapters' = RecordObservation(adapters, ip, info, d)
         /\ obs' = ObservationOf(adapters, ip, info, d)
  BY DEF Observe
<1>1. adapters \in [Macs -> Adapter]
  BY DEF RegistryInv, TypeOK
<1>2. adapters' \in [Macs -> Adapter]
  BY <1>0, <1>1, RecordType
<1>3. /\ m \in Macs
      /\ adapters'[m] = [known |-> TRUE, role |-> Classify(info.hw), ip |-> ip,
                         name |-> adapters[m].name, hw |-> info.hw,
                         channel |-> info.channel, online |-> TRUE]
  BY <1>0, <1>1, RecordOwn
<1>a. /\ adapters'[m].known = TRUE /\ adapters'[m].online = TRUE
      /\ adapters'[m].ip = ip /\ adapters'[m].channel \in Channels
  BY <1>3 DEF DeviceInfo
<1>b. \A x \in Macs \ {m} : /\ x = d => adapters'[x].online = FALSE
                            /\ x # d => adapters'[x] = adapters[x]
  <2> SUFFICES ASSUME NEW x \in Macs \ {m}
               PROVE  /\ x = d => adapters'[x].online = FALSE
                      /\ x # d => adapters'[x] = adapters[x]
    OBVIOUS
  <2>1. adapters'[x] = IF x = d THEN [adapters[x] EXCEPT !.online = FALSE] ELSE adapters[x]
    BY <1>0 DEF RecordObservation
  <2>2. adapters[x] \in Adapter
    BY <1>1
  <2>3. [adapters[x] EXCEPT !.online = FALSE].online = FALSE
    BY <2>2 DEF Adapter
  <2> QED  BY <2>1, <2>3
<1>4. d \in Macs \cup {None} /\ (d \in Macs => d \in OnlineAt(adapters, ip) \ {m})
  BY NoneIsFresh DEF Displacements, OnlineAt
<1>5. OnlineAt(adapters, ip) \ {m} \subseteq {d}
  BY <1>4 DEF RegistryInv, AtMostOneOnlinePerIP, Displacements
<1> HIDE DEF m
<1>6. TypeOK'
  <2>1. obs' \in Observation
    <3>1. adapters[m] \in Adapter
      BY <1>1, <1>3
    <3>2. obs'.mac = m
      BY <1>0 DEF ObservationOf, m
    <3> QED  BY <1>0, <1>3, <1>4, <3>1 DEF ObservationOf, Observation, Adapter, m
  <2>2. \A x \in Macs : adapters'[x].online =>
           adapters'[x].known /\ adapters'[x].ip # None /\ adapters'[x].channel # None
    BY <1>a, <1>b, NoneIsFresh DEF RegistryInv, TypeOK
  <2> QED  BY <1>2, <2>1, <2>2 DEF TypeOK
<1>7. AtMostOneOnlinePerIP'
  <2>1. ASSUME NEW x \in Macs \ {m} PROVE x \in OnlineAt(adapters', ip) => FALSE
    BY <1>b, <1>5 DEF OnlineAt
  <2>2. \A i \in IPs \ {ip} : OnlineAt(adapters', i) \subseteq OnlineAt(adapters, i)
    <3> SUFFICES ASSUME NEW i \in IPs \ {ip}, NEW x \in OnlineAt(adapters', i)
                 PROVE  x \in OnlineAt(adapters, i)
      OBVIOUS
    <3>1. x \in Macs \ {m} /\ x # d
      BY <1>a, <1>b DEF OnlineAt
    <3> QED  BY <1>b, <3>1 DEF OnlineAt
  <2>3. OnlineAt(adapters', ip) \subseteq {m}
    BY <2>1 DEF OnlineAt
  <2>4. \A i \in IPs : \A x, y \in OnlineAt(adapters', i) : x = y
    BY <2>2, <2>3 DEF RegistryInv, AtMostOneOnlinePerIP
  <2>5. \A i \in IPs : OnlineAt(adapters, i)' = OnlineAt(adapters', i)
    BY DEF OnlineAt
  <2> QED  BY <2>4, <2>5 DEF AtMostOneOnlinePerIP
<1>8. DisplacementIsAChange'
  <2> SUFFICES ASSUME d # None PROVE Changed(obs')
    BY <1>0 DEF DisplacementIsAChange, ObservationOf, Changed
  <2>1. d \in OnlineAt(adapters, ip) /\ d # m
    BY <1>4
  <2>2. ~adapters[m].online \/ adapters[m].ip # ip
    <3>1. m \notin OnlineAt(adapters, ip)
      BY <2>1 DEF RegistryInv, AtMostOneOnlinePerIP
    <3> QED  BY <1>3, <3>1 DEF OnlineAt, RegistryInv, TypeOK
  <2> QED  BY <1>0, <2>2 DEF ObservationOf, Changed, m
<1> QED  BY <1>6, <1>7, <1>8 DEF RegistryInv

\* A step that puts nobody online and moves nobody who is online keeps the
\* invariant: loading, renaming and going offline are such steps.
LEMMA QuietPreserves ==
  ASSUME RegistryInv, adapters' \in [Macs -> Adapter], obs' = obs,
         \A x \in Macs : adapters'[x].online =>
            /\ adapters[x].online
            /\ adapters'[x].ip = adapters[x].ip
            /\ adapters'[x].known = adapters[x].known
            /\ adapters'[x].channel = adapters[x].channel
  PROVE  RegistryInv'
<1>1. TypeOK'
  BY DEF RegistryInv, TypeOK
<1>2. AtMostOneOnlinePerIP'
  BY DEF RegistryInv, AtMostOneOnlinePerIP, OnlineAt
<1>3. DisplacementIsAChange'
  BY DEF RegistryInv, DisplacementIsAChange, Changed
<1> QED  BY <1>1, <1>2, <1>3 DEF RegistryInv

\* The registry's invariant holds of every behaviour.
THEOREM RegistryInvariant == Spec => []RegistryInv
<1>1. Init => RegistryInv
  BY DEF Init, RegistryInv, TypeOK, AtMostOneOnlinePerIP, DisplacementIsAChange,
         OnlineAt, Absent, Adapter, Roles
<1>2. RegistryInv /\ [Next]_vars => RegistryInv'
  <2> SUFFICES ASSUME RegistryInv, [Next]_vars PROVE RegistryInv'
    OBVIOUS
  <2> USE DEF RegistryInv, TypeOK
  <2>1. CASE Load
    <3>1. PICK rows \in Inventories : adapters' = Hydrate(adapters, rows)
      BY <2>1 DEF Load
    <3>2. rows \in [Macs -> Adapter]
      BY InventoriesType
    <3>3. /\ adapters' \in [Macs -> Adapter]
          /\ \A x \in Macs : adapters'[x].online => adapters'[x] = adapters[x]
      BY <3>1, <3>2, HydrateEffect
    <3>4. obs' = obs
      BY <2>1 DEF Load
    <3> QED  BY <3>3, <3>4, QuietPreserves
  <2>2. ASSUME NEW ip \in IPs, NEW info \in DeviceInfo, Observe(ip, info)
        PROVE  RegistryInv'
    BY <2>2, ObservePreserves
  <2>3. ASSUME NEW m \in Macs, NEW name \in Names \cup {None}, Rename(m, name)
        PROVE  RegistryInv'
    <3>1. adapters' \in [Macs -> Adapter] /\ obs' = obs
      BY <2>3 DEF Rename, SetName, Adapter
    <3>2. \A x \in Macs : /\ adapters'[x].online = adapters[x].online
                          /\ adapters'[x].ip = adapters[x].ip
                          /\ adapters'[x].known = adapters[x].known
                          /\ adapters'[x].channel = adapters[x].channel
      BY <2>3 DEF Rename, SetName, Adapter
    <3> QED  BY <3>1, <3>2, QuietPreserves
  <2>4. ASSUME NEW m \in Macs, GoOffline(m)
        PROVE  RegistryInv'
    <3>1. adapters' \in [Macs -> Adapter] /\ obs' = obs
      BY <2>4 DEF GoOffline, MarkOffline, Adapter
    <3>2. \A x \in Macs : adapters'[x].online => adapters'[x] = adapters[x]
      BY <2>4 DEF GoOffline, MarkOffline, Adapter
    <3> QED  BY <3>1, <3>2, QuietPreserves
  <2>5. CASE UNCHANGED vars
    BY <2>5, QuietPreserves DEF vars
  <2> QED  BY <2>1, <2>2, <2>3, <2>4, <2>5 DEF Next
<1> QED  BY <1>1, <1>2, PTL DEF Spec

\* Two devices are never both online at one address.
THEOREM OneOnlinePerAddress == Spec => []AtMostOneOnlinePerIP
<1>1. RegistryInv => AtMostOneOnlinePerIP
  BY DEF RegistryInv
<1> QED  BY <1>1, RegistryInvariant, PTL

\* A displacement is never reported as an unchanged observation.
THEOREM DisplacementsAreReported == Spec => []DisplacementIsAChange
<1>1. RegistryInv => DisplacementIsAChange
  BY DEF RegistryInv
<1> QED  BY <1>1, RegistryInvariant, PTL

\* The map stays well typed, and an online entry is known and has an address
\* and a channel.
THEOREM RegistryTyped == Spec => []TypeOK
<1>1. RegistryInv => TypeOK
  BY DEF RegistryInv
<1> QED  BY <1>1, RegistryInvariant, PTL

\* One step of the registry changes, name apart, an adapter that is online after
\* it only by an observation of that adapter whose flags say so.
LEMMA StepIsReported ==
  ASSUME RegistryInv, [Next]_vars, NEW x \in Macs, adapters'[x].online,
         [adapters'[x] EXCEPT !.name = None] # [adapters[x] EXCEPT !.name = None]
  PROVE  obs' # None /\ obs'.mac = x /\ Changed(obs')
<1>0. adapters \in [Macs -> Adapter] /\ adapters[x] \in Adapter
  BY DEF RegistryInv, TypeOK
<1>1. CASE Load
  <2>1. PICK rows \in Inventories : adapters' = Hydrate(adapters, rows)
    BY <1>1 DEF Load
  <2>2. rows \in [Macs -> Adapter]
    BY InventoriesType
  <2> QED  BY <1>0, <2>1, <2>2, HydrateEffect
<1>2. ASSUME NEW ip \in IPs, NEW info \in DeviceInfo, Observe(ip, info)
      PROVE  obs' # None /\ obs'.mac = x /\ Changed(obs')
  <2> DEFINE m == Normalize[info.lanMAC]
  <2>1. PICK d \in Displacements(adapters, ip, m) :
           /\ m # None
           /\ adapters' = RecordObservation(adapters, ip, info, d)
           /\ obs' = ObservationOf(adapters, ip, info, d)
    BY <1>2 DEF Observe
  <2>2. CASE x # m
    <3>1. adapters'[x] = IF x = d THEN [adapters[x] EXCEPT !.online = FALSE] ELSE adapters[x]
      BY <2>1, <2>2 DEF RecordObservation
    <3>2. [adapters[x] EXCEPT !.online = FALSE].online = FALSE
      BY <1>0 DEF Adapter
    <3> QED  BY <3>1, <3>2
  <2>3. CASE x = m
    <3>1. /\ m \in Macs
          /\ adapters'[x] = [known |-> TRUE, role |-> Classify(info.hw), ip |-> ip,
                             name |-> adapters[x].name, hw |-> info.hw,
                             channel |-> info.channel, online |-> TRUE]
      BY <1>0, <2>1, <2>3, RecordOwn
    <3>2. obs'.mac = x /\ obs' \in Observation
      <4>1. RegistryInv'
        BY <1>2, ObservePreserves
      <4>2. obs'.mac = m
        BY <2>1 DEF ObservationOf
      <4>3. /\ d \in Macs \cup {None}
            /\ adapters[m] \in Adapter
        BY <1>0, <2>1, <3>1, NoneIsFresh DEF Displacements, OnlineAt
      <4> HIDE DEF m
      <4> QED  BY <2>1, <2>3, <3>1, <4>2, <4>3 DEF ObservationOf, Observation, Adapter, m
    <3>3. Changed(obs')
      <4> SUFFICES ASSUME ~Changed(obs') PROVE FALSE
        OBVIOUS
      <4>1. /\ obs'.created = ~adapters[x].known
            /\ obs'.cameOnline = ~adapters[x].online
            /\ obs'.stateChanged = (adapters[x].ip # ip \/ adapters[x].channel # info.channel)
            /\ obs'.metadataChanged = (\/ ~adapters[x].known
                                       \/ adapters[x].role # Classify(info.hw)
                                       \/ adapters[x].hw # info.hw)
        BY <2>1, <2>3 DEF ObservationOf
      <4>2. /\ adapters[x].known = TRUE /\ adapters[x].online = TRUE
            /\ adapters[x].ip = ip /\ adapters[x].channel = info.channel
            /\ adapters[x].role = Classify(info.hw) /\ adapters[x].hw = info.hw
        BY <1>0, <4>1 DEF Changed, Adapter
      <4> QED  BY <1>0, <3>1, <4>2 DEF Adapter
    <3>4. obs' # None
      BY <3>2, NilIsNoObservation
    <3> QED  BY <3>2, <3>3, <3>4
  <2> QED  BY <2>2, <2>3
<1>3. ASSUME NEW m \in Macs, NEW name \in Names \cup {None}, Rename(m, name)
      PROVE  FALSE
  <2>1. \/ adapters'[x] = adapters[x]
        \/ adapters'[x] = [adapters[x] EXCEPT !.name = name]
    BY <1>0, <1>3 DEF Rename, SetName
  <2>2. [[adapters[x] EXCEPT !.name = name] EXCEPT !.name = None]
          = [adapters[x] EXCEPT !.name = None]
    BY <1>0 DEF Adapter
  <2> QED  BY <2>1, <2>2
<1>4. ASSUME NEW m \in Macs, GoOffline(m)
      PROVE  FALSE
  <2>1. \/ adapters'[x] = adapters[x]
        \/ adapters'[x] = [adapters[x] EXCEPT !.online = FALSE]
    BY <1>0, <1>4 DEF GoOffline, MarkOffline
  <2>2. [adapters[x] EXCEPT !.online = FALSE].online = FALSE
    BY <1>0 DEF Adapter
  <2> QED  BY <2>1, <2>2
<1>5. CASE UNCHANGED vars
  BY <1>5 DEF vars
<1> QED  BY <1>1, <1>2, <1>3, <1>4, <1>5 DEF Next

\* Nothing the caller would persist slips through the observation's flags, and
\* nobody comes online or moves by what the database held: ChangesAreReported
\* for every behaviour of the registry.
THEOREM EveryChangeIsReported == Spec => ChangesAreReported
<1>1. RegistryInv /\ [Next]_vars =>
        [\A m \in Macs :
           /\ adapters'[m].online
           /\ [adapters'[m] EXCEPT !.name = None] # [adapters[m] EXCEPT !.name = None]
           => obs' # None /\ obs'.mac = m /\ Changed(obs')]_vars
  BY StepIsReported
<1> QED  BY <1>1, RegistryInvariant, PTL DEF Spec, ChangesAreReported

-----------------------------------------------------------------------------
(* The table of sources, derived from the registry.                          *)

\* DisplayName and LabelOf of a transmitter are well typed.
LEMMA LabelType ==
  ASSUME TypeOK, NEW m \in Transmitters
  PROVE  /\ m \in Macs /\ adapters[m].channel \in Channels
         /\ DisplayName(m) \in ShownNames /\ LabelOf(m) \in Labels
<1>1. m \in Macs /\ adapters[m].channel # None
  BY DEF Transmitters
<1>2. adapters[m] \in Adapter
  BY <1>1 DEF TypeOK
<1>3. /\ adapters[m].channel \in Channels
      /\ adapters[m].name \in Names \cup {None} /\ adapters[m].hw \in Hardware \cup {None}
  BY <1>1, <1>2 DEF Adapter
<1>4. DisplayName(m) \in ShownNames
  BY <1>1, <1>3, LabelsType DEF DisplayName, ShownName
<1>5. <<DisplayName(m), adapters[m].channel>> \in ShownNames \X Channels
  BY <1>3, <1>4
<1> QED  BY <1>1, <1>3, <1>4, <1>5, LabelsType DEF LabelOf

\* Two transmitters on different channels never have one label.
LEMMA DifferentChannels ==
  ASSUME TypeOK, PlainNames, NEW m \in Transmitters, NEW n \in Transmitters,
         LabelOf(m) = LabelOf(n), adapters[m].channel # adapters[n].channel
  PROVE  FALSE
<1> DEFINE P(x) == <<DisplayName(x), adapters[x].channel>>
<1>1. /\ DisplayName(m) \in ShownNames /\ DisplayName(n) \in ShownNames
      /\ P(m) \in ShownNames \X Channels /\ P(n) \in ShownNames \X Channels
  BY LabelType
<1>2. CASE AmbiguousName(m) /\ AmbiguousName(n)
  <2>1. Disambiguated[P(m)] = Disambiguated[P(n)]
    BY <1>2 DEF LabelOf
  <2>2. P(m) = P(n)
    BY <1>1, <2>1, DisambiguatedInjective
  <2> QED  BY <2>2
<1>3. CASE AmbiguousName(m) /\ ~AmbiguousName(n)
  <2>1. Disambiguated[P(m)] = DisplayName(n)
    BY <1>3 DEF LabelOf
  <2> QED  BY <1>1, <2>1 DEF PlainNames
<1>4. CASE ~AmbiguousName(m) /\ AmbiguousName(n)
  <2>1. Disambiguated[P(n)] = DisplayName(m)
    BY <1>4 DEF LabelOf
  <2> QED  BY <1>1, <2>1 DEF PlainNames
<1>5. CASE ~AmbiguousName(m) /\ ~AmbiguousName(n)
  <2>1. DisplayName(m) = DisplayName(n) /\ m # n
    BY <1>5 DEF LabelOf
  <2> QED  BY <1>5, <2>1 DEF AmbiguousName
<1> QED  BY <1>2, <1>3, <1>4, <1>5

\* Selecting and showing sources is faithful at every instant (Sources,
\* ByLabel, ForChannel), when no name reads like a disambiguated one.
THEOREM SourcesAreFaithful == PlainNames /\ Spec => []EachSelectableAndShown
<1> SUFFICES ASSUME PlainNames PROVE Spec => []EachSelectableAndShown
  OBVIOUS
<1>1. RegistryInv => EachSelectableAndShown
  <2> SUFFICES ASSUME TypeOK, Collisions = {}, NEW m \in Transmitters
               PROVE  /\ ByLabel(LabelOf(m)) = {m}
                      /\ ForChannel(adapters[m].channel) = LabelOf(m)
    BY DEF RegistryInv, EachSelectableAndShown
  <2>1. /\ m \in Macs /\ adapters[m].channel \in Channels /\ LabelOf(m) \in Labels
    BY LabelType
  <2>2. \A n \in Transmitters : adapters[n].channel = adapters[m].channel => n = m
    BY <2>1 DEF Collisions, Sharing
  <2>3. \A n \in Transmitters : LabelOf(n) = LabelOf(m) => n = m
    BY <2>2, DifferentChannels
  <2>4. ByLabel(LabelOf(m)) = {m}
    BY <2>3 DEF ByLabel
  <2>5. Sharing(adapters[m].channel) = {m}
    BY <2>2 DEF Sharing
  <2>6. {LabelOf(x) : x \in Sharing(adapters[m].channel)} = {LabelOf(m)}
    BY <2>5
  <2>7. Rank[LabelOf(m)] <= Rank[LabelOf(m)]
    BY <2>1, LabelsType
  <2>8. ForChannel(adapters[m].channel) = LabelOf(m)
    BY <2>5, <2>6, <2>7 DEF ForChannel
  <2> QED  BY <2>4, <2>8
<1> QED  BY <1>1, RegistryInvariant, PTL
=============================================================================
