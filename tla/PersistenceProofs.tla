-------------------------- MODULE PersistenceProofs -------------------------
(***************************************************************************)
(* The database and the registry agree on names and on devices, for every    *)
(* set of devices and names, every inventory to begin with, any number of     *)
(* commands and of copies under way, and a crash at any point.                *)
(***************************************************************************)
EXTENDS Persistence, InventoryProofs

\* What is not known is Absent, in the registry and in the database.
Shape == \A m \in Macs : /\ db[m].known \/ db[m] = Absent
                         /\ adapters[m].known \/ adapters[m] = Absent

\* While there is no process nothing is in the registry or under way.
Rest == proc = "down" => /\ saves = {} /\ renames = {}
                         /\ \A m \in Macs : adapters[m] = Absent

\* Between LoadAll and Hydrate the rows read are still there, though they may
\* have changed, and the names read are among those to be expected.
Loaded == proc = "hydrate" =>
            \A m \in Macs : rows[m].known => db[m].known /\ rows[m].name \in expected[m]

\* The registry's name of m matters: no row gives it another at the next
\* insertion or at Hydrate.
NameCounts(m) == \/ proc # "down" /\ ~db[m].known
                 \/ proc = "hydrate" /\ ~rows[m].known
                 \/ proc = "up"

\* The names to be expected are the only ones to be found, renames under way
\* or not; a copy under way that will insert its row carries one of them.
NamesExpected ==
  /\ \A m \in Macs : /\ db[m].known => db[m].name \in expected[m]
                     /\ NameCounts(m) => adapters[m].name \in expected[m]
  /\ \A s \in saves : db[s.mac].known \/ s.copy.name \in expected[s.mac]

\* A rename in front of the database has given its name to the registry, where
\* it stays if the rename is alone; alone means that there is no other.
RenamesInHand ==
  \A r \in renames :
    /\ r.at = "store" => ValidateName(r.raw) \in expected[r.mac]
    /\ r.at = "store" /\ r.alone => adapters[r.mac].name = ValidateName(r.raw)
    /\ r.alone => \A q \in renames : q.mac = r.mac => q = r

\* The copy under way, or else the row, is what the registry shows.
RowsFollow ==
  \A m \in Macs \ mixed : adapters[m].known =>
    /\ Saves(m) = {} => db[m].known /\ Columns(db[m]) = Columns(adapters[m])
    /\ \A s \in Saves(m) : Columns(s.copy) = Columns(adapters[m])

CopiesKnown == \A s \in saves : s.copy.known

\* The inductive invariant.
PersistInv == /\ PersistTypeOK /\ Shape /\ Rest /\ Loaded /\ CopiesKnown
              /\ NamesExpected /\ RenamesInHand /\ RowsFollow

\* The record of a MAC that is not known.
LEMMA AbsentIsAdapter ==
  /\ Absent \in Adapter /\ ~Absent.known /\ ~Absent.online /\ Absent.name = None
BY DEF Absent, Adapter, Roles

\* The invariant when the database is opened for the first time.
LEMMA PersistInitInv == PersistInit => PersistInv
<1> SUFFICES ASSUME PersistInit PROVE PersistInv
  OBVIOUS
<1>1. /\ db \in [Macs -> Adapter]
      /\ \A m \in Macs : ~db[m].online /\ (db[m].known \/ db[m] = Absent)
  BY PersistenceType DEF PersistInit
<1>2. \A m \in Macs : db[m].name \in Names \cup {None}
  BY <1>1 DEF Adapter
<1>3. adapters \in [Macs -> Adapter] /\ rows \in [Macs -> Adapter]
  BY AbsentIsAdapter DEF PersistInit
<1>4. PersistTypeOK
  BY <1>1, <1>2, <1>3, PersistenceType DEF PersistInit, PersistTypeOK
<1>5. Shape /\ Rest /\ Loaded /\ CopiesKnown /\ NamesExpected /\ RenamesInHand /\ RowsFollow
  BY <1>1, AbsentIsAdapter
     DEF PersistInit, Shape, Rest, Loaded, CopiesKnown, NamesExpected, RenamesInHand,
         RowsFollow, NameCounts
<1> QED  BY <1>4, <1>5 DEF PersistInv

\* Hydrate only takes a rename's being alone away.
LEMMA HydrateUndoes ==
  ASSUME NEW r \in [id : Nat, mac : Macs, raw : RawNames, at : {"begin", "store"},
                    alone : BOOLEAN]
  PROVE  /\ Undone(r) \in [id : Nat, mac : Macs, raw : RawNames, at : {"begin", "store"},
                           alone : BOOLEAN]
         /\ Undone(r).mac = r.mac /\ Undone(r).raw = r.raw /\ Undone(r).at = r.at
         /\ Undone(r).alone => r.alone /\ r.at # "store" /\ Undone(r) = r
<1>1. CASE r.at = "store"
  <2>1. Undone(r) = [r EXCEPT !.alone = FALSE]
    BY <1>1 DEF Undone
  <2> QED  BY <2>1
<1>2. CASE r.at # "store"
  BY <1>2 DEF Undone
<1> QED  BY <1>1, <1>2

\* Start and the end of the process keep the invariant.
LEMMA ProcessPreserves ==
  ASSUME PersistInv, Boot \/ LoadAll \/ HydrateRows \/ EndLife \/ Die
  PROVE  PersistInv'
<1>0. /\ db \in [Macs -> Adapter] /\ rows \in [Macs -> Adapter] /\ adapters \in [Macs -> Adapter]
      /\ \A m \in Macs : ~db[m].online
  BY DEF PersistInv, PersistTypeOK
<1>a. \A m \in Macs : db[m].name \in Names \cup {None}
  BY <1>0 DEF Adapter
<1> DEFINE R == [id : Nat, mac : Macs, raw : RawNames, at : {"begin", "store"},
                 alone : BOOLEAN]
<1>b. renames \subseteq R
  BY DEF PersistInv, PersistTypeOK
<1> USE DEF PersistInv
<1>1. CASE Boot
  <2>1. /\ proc = "down" /\ proc' = "read"
        /\ expected' = [m \in Macs |-> {db[m].name}]
        /\ UNCHANGED <<adapters, rows, db, saves, renames, commands, mixed>>
    BY <1>1 DEF Boot
  <2>2. PersistTypeOK'
    BY <1>0, <1>a, <2>1 DEF PersistTypeOK
  <2>3. Shape' /\ Rest' /\ Loaded' /\ CopiesKnown' /\ RenamesInHand'
    BY <2>1 DEF Shape, Rest, Loaded, CopiesKnown, RenamesInHand
  <2>4. NamesExpected'
    BY <2>1, AbsentIsAdapter DEF Rest, Shape, NamesExpected, NameCounts
  <2>5. RowsFollow'
    BY <2>1 DEF RowsFollow, Saves
  <2> QED  BY <2>2, <2>3, <2>4, <2>5
<1>2. CASE LoadAll
  <2>1. rows' = db
    <3>1. \A m \in Macs : [db[m] EXCEPT !.online = FALSE] = db[m]
      BY <1>0 DEF Adapter
    <3> QED  BY <1>0, <1>2, <3>1 DEF LoadAll
  <2>2. /\ proc = "read" /\ proc' = "hydrate"
        /\ UNCHANGED <<adapters, db, saves, renames, commands, expected, mixed>>
    BY <1>2 DEF LoadAll
  <2>3. PersistTypeOK'
    BY <1>0, <2>1, <2>2 DEF PersistTypeOK
  <2>4. Shape' /\ Rest' /\ Loaded' /\ CopiesKnown' /\ RenamesInHand'
    BY <2>1, <2>2 DEF Shape, Rest, Loaded, CopiesKnown, RenamesInHand, NamesExpected
  <2>5. NamesExpected' /\ RowsFollow'
    BY <2>1, <2>2 DEF NamesExpected, NameCounts, RowsFollow, Saves
  <2> QED  BY <2>3, <2>4, <2>5
<1>3. CASE HydrateRows
  <2>1. /\ proc = "hydrate" /\ proc' = "up"
        /\ adapters' = Hydrate(adapters, rows)
        /\ rows' = [m \in Macs |-> Absent]
        /\ renames' = {Undone(r) : r \in renames}
        /\ mixed' = mixed \cup SetBack
        /\ UNCHANGED <<db, saves, commands, expected>>
    BY <1>3 DEF HydrateRows
  <2>2. /\ adapters' \in [Macs -> Adapter]
        /\ \A m \in Macs :
             adapters'[m] = IF rows[m].known THEN [rows[m] EXCEPT !.online = FALSE]
                                             ELSE adapters[m]
    BY <1>0, <2>1, HydrateEffect DEF Hydrate
  <2>3. \A m \in Macs : rows[m].known => /\ adapters'[m].known
                                         /\ adapters'[m].name = rows[m].name
                                         /\ Columns(adapters'[m]) = Columns(rows[m])
    BY <1>0, <2>2 DEF Adapter, Columns
  <2>4. \A r \in renames : /\ Undone(r) \in R
                           /\ Undone(r).mac = r.mac /\ Undone(r).raw = r.raw
                           /\ Undone(r).at = r.at
                           /\ Undone(r).alone => r.alone /\ r.at # "store" /\ Undone(r) = r
    BY <1>b, HydrateUndoes
  <2>5. PersistTypeOK'
    <3>1. renames' \subseteq R
      BY <2>1, <2>4
    <3>2. mixed' \subseteq Macs
      BY <2>1 DEF PersistTypeOK, SetBack
    <3> QED  BY <2>1, <2>2, <3>1, <3>2, AbsentIsAdapter DEF PersistTypeOK
  <2>6. Shape' /\ Rest' /\ Loaded' /\ CopiesKnown'
    BY <2>1, <2>2, <2>3 DEF Shape, Rest, Loaded, CopiesKnown
  <2>7. NamesExpected'
    BY <2>1, <2>2, <2>3 DEF Loaded, NamesExpected, NameCounts
  <2>8. RenamesInHand'
    <3> SUFFICES ASSUME NEW q \in renames
                 PROVE  /\ q.at = "store" => ValidateName(q.raw) \in expected[q.mac]
                        /\ Undone(q).alone =>
                             \A p \in renames : Undone(p).mac = q.mac => Undone(p) = Undone(q)
      BY <2>1, <2>4 DEF RenamesInHand, ValidateName
    <3> QED  BY <2>4 DEF RenamesInHand
  <2>9. RowsFollow'
    <3> SUFFICES ASSUME NEW m \in Macs, m \notin mixed, m \notin SetBack, adapters'[m].known
                 PROVE  /\ Saves(m) = {} => db[m].known /\ Columns(db[m]) = Columns(adapters'[m])
                        /\ \A s \in Saves(m) : Columns(s.copy) = Columns(adapters'[m])
      BY <2>1 DEF RowsFollow, Saves, Columns
    <3>1. CASE rows[m].known
      BY <2>1, <2>3, <3>1 DEF SetBack, Loaded
    <3>2. CASE ~rows[m].known
      BY <2>2, <3>2 DEF RowsFollow
    <3> QED  BY <3>1, <3>2
  <2> QED  BY <2>5, <2>6, <2>7, <2>8, <2>9
<1>4. CASE EndLife
  <2>1. /\ proc \in {"read", "up"} /\ proc' = "stopping"
        /\ UNCHANGED <<adapters, rows, db, saves, renames, commands, expected, mixed>>
    BY <1>4 DEF EndLife
  <2>2. PersistTypeOK' /\ Shape' /\ Rest' /\ Loaded' /\ CopiesKnown'
    BY <2>1 DEF PersistTypeOK, Shape, Rest, Loaded, CopiesKnown, NameCounts
  <2>3. NamesExpected' /\ RenamesInHand' /\ RowsFollow'
    BY <2>1 DEF NamesExpected, RenamesInHand, RowsFollow, NameCounts, Saves
  <2> QED  BY <2>2, <2>3
<1>5. CASE Die
  <2>1. /\ proc' = "down"
        /\ adapters' = [m \in Macs |-> Absent] /\ rows' = [m \in Macs |-> Absent]
        /\ saves' = {} /\ renames' = {} /\ mixed' = {}
        /\ UNCHANGED <<db, commands, expected>>
    BY <1>5 DEF Die
  <2>2. PersistTypeOK'
    BY <2>1, AbsentIsAdapter DEF PersistTypeOK
  <2>3. Shape' /\ Rest' /\ Loaded' /\ CopiesKnown'
    BY <2>1 DEF Shape, Rest, Loaded, CopiesKnown, NameCounts
  <2>4. NamesExpected' /\ RenamesInHand' /\ RowsFollow'
    BY <2>1, AbsentIsAdapter DEF NamesExpected, RenamesInHand, RowsFollow, NameCounts
  <2> QED  BY <2>2, <2>3, <2>4
<1> QED  BY <1>1, <1>2, <1>3, <1>4, <1>5

\* A step on m's entry that keeps names, and leaves a copy under way if it
\* changes a column or makes m known, keeps the invariant.
LEMMA RegistryStep ==
  ASSUME PersistInv, proc # "down", NEW m \in Macs,
         adapters' \in [Macs -> Adapter], adapters'[m].known,
         \A x \in Macs : /\ adapters'[x].name = adapters[x].name
                         /\ adapters'[x].known \/ adapters'[x] = Absent,
         \A x \in Macs \ {m} : /\ adapters'[x].known = adapters[x].known
                               /\ Columns(adapters'[x]) = Columns(adapters[x]),
         \/ Persist(m, adapters'[m])
         \/ /\ UNCHANGED <<saves, mixed>>
            /\ adapters[m].known /\ Columns(adapters'[m]) = Columns(adapters[m]),
         UNCHANGED <<proc, rows, db, renames, commands, expected>>
  PROVE  PersistInv'
<1> DEFINE s0 == [mac |-> m, copy |-> adapters'[m]]
<1>1. /\ s0 \in [mac : Macs, copy : Adapter] /\ s0.mac = m /\ s0.copy = adapters'[m]
  OBVIOUS
<1>2. \/ /\ saves' = saves \cup {s0}
         /\ mixed' = IF Saves(m) = {} THEN mixed \ {m} ELSE mixed \cup {m}
      \/ /\ UNCHANGED <<saves, mixed>>
         /\ adapters[m].known /\ Columns(adapters'[m]) = Columns(adapters[m])
  BY DEF Persist
<1> HIDE DEF s0
<1>3. saves \subseteq saves' /\ saves' \subseteq saves \cup {s0}
  BY <1>2
<1>4. PersistTypeOK'
  BY <1>1, <1>2 DEF PersistInv, PersistTypeOK
<1>5. Shape' /\ Rest' /\ Loaded' /\ CopiesKnown'
  BY <1>1, <1>3 DEF PersistInv, Shape, Rest, Loaded, CopiesKnown, NameCounts
<1>6. NamesExpected' /\ RenamesInHand'
  BY <1>1, <1>3 DEF PersistInv, PersistTypeOK, NamesExpected, RenamesInHand, NameCounts
<1>7. RowsFollow'
  <2> SUFFICES ASSUME NEW x \in Macs, x \notin mixed', adapters'[x].known
               PROVE  /\ Saves(x)' = {} => db[x].known /\ Columns(db[x]) = Columns(adapters'[x])
                      /\ \A s \in Saves(x)' : Columns(s.copy) = Columns(adapters'[x])
    BY DEF RowsFollow, Columns
  <2>1. CASE x # m
    <3>1. Saves(x)' = Saves(x) /\ x \notin mixed
      BY <1>1, <1>2, <2>1 DEF Saves
    <3> QED  BY <2>1, <3>1 DEF PersistInv, RowsFollow
  <2>2. CASE x = m /\ UNCHANGED <<saves, mixed>> /\ adapters[m].known
             /\ Columns(adapters'[m]) = Columns(adapters[m])
    BY <2>2 DEF PersistInv, RowsFollow, Saves
  <2>3. CASE x = m /\ saves' = saves \cup {s0} /\ Saves(m) = {}
    <3>1. Saves(m)' = {s0}
      BY <1>1, <2>3 DEF Saves
    <3> QED  BY <1>1, <2>3, <3>1
  <2>4. CASE x = m /\ mixed' = mixed \cup {m}
    BY <2>4
  <2> QED  BY <1>2, <2>1, <2>2, <2>3, <2>4
<1> QED  BY <1>4, <1>5, <1>6, <1>7 DEF PersistInv

\* Observations and devices going offline keep the invariant.
LEMMA ObservationPreserves ==
  ASSUME PersistInv,
         \/ \E ip \in IPs, info \in DeviceInfo : ObserveAndPersist(ip, info)
         \/ \E m \in Macs : MarkOfflineAndPersist(m)
  PROVE  PersistInv'
<1>0. /\ adapters \in [Macs -> Adapter] /\ \A x \in Macs : adapters[x] \in Adapter
      /\ \A x \in Macs : adapters[x].known \/ adapters[x] = Absent
      /\ \A x \in Macs : adapters[x].online => adapters[x].known
  BY AbsentIsAdapter DEF PersistInv, PersistTypeOK, Shape
<1>a. \A x \in Macs : /\ [adapters[x] EXCEPT !.online = FALSE].name = adapters[x].name
                      /\ [adapters[x] EXCEPT !.online = FALSE].known = adapters[x].known
                      /\ Columns([adapters[x] EXCEPT !.online = FALSE]) = Columns(adapters[x])
                      /\ [adapters[x] EXCEPT !.online = FALSE] \in Adapter
  BY <1>0 DEF Adapter, Columns
<1>1. ASSUME NEW ip \in IPs, NEW info \in DeviceInfo, ObserveAndPersist(ip, info)
      PROVE  PersistInv'
  <2> DEFINE m == Normalize[info.lanMAC]
  <2>1. PICK d \in Displacements(adapters, ip, m) :
           /\ adapters' = RecordObservation(adapters, ip, info, d)
           /\ IF Changed(ObservationOf(adapters, ip, info, d))
                THEN Persist(m, adapters'[m]) ELSE UNCHANGED <<saves, mixed>>
    BY <1>1 DEF ObserveAndPersist
  <2>2. /\ proc # "down" /\ m # None
        /\ UNCHANGED <<proc, rows, db, renames, commands, expected>>
    BY <1>1 DEF ObserveAndPersist
  <2>3. adapters' \in [Macs -> Adapter]
    BY <1>0, <2>1, RecordType
  <2>4. /\ m \in Macs
        /\ adapters'[m] = [known |-> TRUE, role |-> Classify(info.hw), ip |-> ip,
                           name |-> adapters[m].name, hw |-> info.hw,
                           channel |-> info.channel, online |-> TRUE]
    BY <1>0, <2>1, <2>2, RecordOwn
  <2>5. \A x \in Macs \ {m} : \/ adapters'[x] = adapters[x]
                              \/ /\ x = d
                                 /\ adapters'[x] = [adapters[x] EXCEPT !.online = FALSE]
    BY <2>1, <2>2 DEF RecordObservation
  <2>6. d \in Macs => adapters[d].known
    BY NoneIsFresh DEF Displacements, OnlineAt
  <2>7. ~Changed(ObservationOf(adapters, ip, info, d)) =>
          adapters[m].known /\ Columns(adapters'[m]) = Columns(adapters[m])
    <3> SUFFICES ASSUME ~Changed(ObservationOf(adapters, ip, info, d))
                 PROVE  adapters[m].known /\ Columns(adapters'[m]) = Columns(adapters[m])
      OBVIOUS
    <3>1. /\ adapters[m].known /\ adapters[m].ip = ip /\ adapters[m].channel = info.channel
          /\ adapters[m].role = Classify(info.hw) /\ adapters[m].hw = info.hw
      BY DEF Changed, ObservationOf
    <3> QED  BY <2>4, <3>1 DEF Columns
  <2> HIDE DEF m
  <2>8. \A x \in Macs \ {m} : /\ adapters'[x].name = adapters[x].name
                              /\ adapters'[x].known = adapters[x].known
                              /\ adapters'[x].known \/ adapters'[x] = Absent
                              /\ Columns(adapters'[x]) = Columns(adapters[x])
    BY <1>0, <1>a, <2>5, <2>6
  <2>9. adapters'[m].known /\ adapters'[m].name = adapters[m].name
    BY <2>4
  <2> QED  BY <2>1, <2>2, <2>3, <2>4, <2>7, <2>8, <2>9, RegistryStep
<1>2. ASSUME NEW m \in Macs, MarkOfflineAndPersist(m)
      PROVE  PersistInv'
  <2>1. /\ proc # "down" /\ adapters[m].online /\ adapters[m].known
        /\ adapters' = [adapters EXCEPT ![m].online = FALSE]
        /\ Persist(m, adapters'[m])
        /\ UNCHANGED <<proc, rows, db, renames, commands, expected>>
    BY <1>0, <1>2 DEF MarkOfflineAndPersist, MarkOffline
  <2>2. /\ adapters' \in [Macs -> Adapter]
        /\ \A x \in Macs \ {m} : adapters'[x] = adapters[x]
        /\ adapters'[m] = [adapters[m] EXCEPT !.online = FALSE]
    BY <1>0, <1>a, <2>1
  <2>3. adapters'[m].known
    BY <1>a, <2>1, <2>2
  <2>4. \A x \in Macs : /\ adapters'[x].name = adapters[x].name
                        /\ adapters'[x].known \/ adapters'[x] = Absent
    BY <1>0, <1>a, <2>2, <2>3
  <2> QED  BY <2>1, <2>2, <2>3, <2>4, RegistryStep
<1> QED  BY <1>1, <1>2

\* A copy saved, however late, keeps the invariant.
LEMMA SavePreserves ==
  ASSUME PersistInv, NEW s0 \in saves, Save(s0)
  PROVE  PersistInv'
<1> DEFINE m == s0.mac
           c == s0.copy
<1>1. /\ m \in Macs /\ c \in Adapter /\ c.known /\ db \in [Macs -> Adapter]
      /\ \A x \in Macs : db[x] \in Adapter
  BY DEF PersistInv, PersistTypeOK, CopiesKnown
<1>2. /\ saves' = saves \ {s0}
      /\ db' = [db EXCEPT ![m] = Upsert(db[m], c)]
      /\ UNCHANGED <<adapters, proc, rows, renames, commands, expected, mixed>>
  BY DEF Save
<1>3. /\ Upsert(db[m], c) \in Adapter
      /\ Upsert(db[m], c).known = c.known
      /\ Upsert(db[m], c).online = FALSE
      /\ Upsert(db[m], c).name = IF db[m].known THEN db[m].name ELSE c.name
      /\ Columns(Upsert(db[m], c)) = Columns(c)
  BY <1>1 DEF Upsert, Adapter, Columns
<1>4. /\ db' \in [Macs -> Adapter]
      /\ db'[m].known /\ ~db'[m].online /\ Columns(db'[m]) = Columns(c)
      /\ db'[m].name = IF db[m].known THEN db[m].name ELSE c.name
      /\ \A x \in Macs \ {m} : db'[x] = db[x]
  BY <1>1, <1>2, <1>3
<1>5. proc # "down"
  BY DEF PersistInv, Rest
<1>6. PersistTypeOK'
  BY <1>1, <1>2, <1>4 DEF PersistInv, PersistTypeOK
<1>7. Shape' /\ Rest' /\ Loaded' /\ CopiesKnown'
  BY <1>1, <1>2, <1>4, <1>5 DEF PersistInv, Shape, Rest, Loaded, CopiesKnown, NameCounts
<1>8. NamesExpected'
  <2>1. db'[m].name \in expected[m]
    BY <1>1, <1>4 DEF PersistInv, NamesExpected
  <2>2. \A s \in saves : s.mac \in Macs
    BY DEF PersistInv, PersistTypeOK
  <2> QED  BY <1>2, <1>4, <2>1, <2>2 DEF PersistInv, NamesExpected, NameCounts
<1>9. RenamesInHand'
  BY <1>2 DEF PersistInv, RenamesInHand
<1>10. RowsFollow'
  <2> SUFFICES ASSUME NEW x \in Macs, x \notin mixed, adapters[x].known
               PROVE  /\ Saves(x)' = {} => db'[x].known /\ Columns(db'[x]) = Columns(adapters[x])
                      /\ \A s \in Saves(x)' : Columns(s.copy) = Columns(adapters[x])
    BY <1>2 DEF RowsFollow, Columns
  <2>1. Saves(x)' \subseteq Saves(x) /\ (x # m => Saves(x)' = Saves(x))
    BY <1>2 DEF Saves
  <2>2. /\ Saves(x) = {} => db[x].known /\ Columns(db[x]) = Columns(adapters[x])
        /\ \A s \in Saves(x) : Columns(s.copy) = Columns(adapters[x])
    BY <1>5 DEF PersistInv, RowsFollow
  <2>3. s0 \in Saves(m)
    BY DEF Saves
  <2> QED  BY <1>4, <2>1, <2>2, <2>3
<1> QED  BY <1>6, <1>7, <1>8, <1>9, <1>10 DEF PersistInv

\* A name command keeps the invariant: a second one of a device makes both not
\* alone.
LEMMA NameCommandPreserves ==
  ASSUME PersistInv, NEW m \in Macs, NEW raw \in RawNames, NameCommand(m, raw)
  PROVE  PersistInv'
<1> DEFINE new == [id |-> commands, mac |-> m, raw |-> raw, at |-> "begin",
                   alone |-> Renaming(m) = {}]
           seen(r) == IF r.mac = m THEN [r EXCEPT !.alone = FALSE] ELSE r
           R == [id : Nat, mac : Macs, raw : RawNames, at : {"begin", "store"},
                 alone : BOOLEAN]
<1>1. /\ proc # "down" /\ commands < MaxCommands
      /\ renames' = {seen(r) : r \in renames} \cup {new}
      /\ commands' = commands + 1
      /\ UNCHANGED <<adapters, proc, rows, db, saves, expected, mixed>>
  BY DEF NameCommand
<1>2. renames \subseteq R /\ commands \in 0..MaxCommands
  BY DEF PersistInv, PersistTypeOK
<1>3. /\ new \in R /\ new.mac = m /\ new.at = "begin"
      /\ new.alone => Renaming(m) = {}
  <2>1. commands \in Nat
    BY <1>2, PersistenceType
  <2>2. (Renaming(m) = {}) \in BOOLEAN
    OBVIOUS
  <2>3. ASSUME NEW b \in BOOLEAN
        PROVE  [id |-> commands, mac |-> m, raw |-> raw, at |-> "begin", alone |-> b] \in R
    BY <2>1
  <2>4. new \in R
    BY <2>2, <2>3
  <2> QED  BY <2>4
<1>4. \A r \in renames : /\ seen(r) \in R
                         /\ seen(r).mac = r.mac /\ seen(r).raw = r.raw /\ seen(r).at = r.at
                         /\ seen(r).alone => r.alone /\ r.mac # m /\ seen(r) = r
  <2> SUFFICES ASSUME NEW r \in renames
               PROVE  /\ seen(r) \in R
                      /\ seen(r).mac = r.mac /\ seen(r).raw = r.raw /\ seen(r).at = r.at
                      /\ seen(r).alone => r.alone /\ r.mac # m /\ seen(r) = r
    OBVIOUS
  <2>1. r \in R
    BY <1>2
  <2>2. CASE r.mac = m
    <3>1. seen(r) = [r EXCEPT !.alone = FALSE]
      BY <2>2
    <3>2. /\ [r EXCEPT !.alone = FALSE] \in R
          /\ [r EXCEPT !.alone = FALSE].mac = r.mac
          /\ [r EXCEPT !.alone = FALSE].raw = r.raw
          /\ [r EXCEPT !.alone = FALSE].at = r.at
          /\ [r EXCEPT !.alone = FALSE].alone = FALSE
      BY <2>1
    <3> QED  BY <3>1, <3>2
  <2>3. CASE r.mac # m
    BY <2>1, <2>3
  <2> QED  BY <2>2, <2>3
<1> HIDE DEF new, seen
<1>5. PersistTypeOK'
  <2>1. renames' \subseteq R
    BY <1>1, <1>3, <1>4
  <2>2. commands' \in 0..MaxCommands
    BY <1>1, <1>2, PersistenceType
  <2> QED  BY <1>1, <2>1, <2>2 DEF PersistInv, PersistTypeOK
<1>6. Shape' /\ Rest' /\ Loaded' /\ CopiesKnown' /\ NamesExpected'
  BY <1>1 DEF PersistInv, Shape, Rest, Loaded, CopiesKnown, NamesExpected, NameCounts
<1>7. RowsFollow'
  BY <1>1 DEF PersistInv, RowsFollow, NameCounts, Saves
<1>8. RenamesInHand'
  <2> SUFFICES ASSUME NEW r \in renames'
               PROVE  /\ r.at = "store" => ValidateName(r.raw) \in expected[r.mac]
                      /\ r.at = "store" /\ r.alone => adapters[r.mac].name = ValidateName(r.raw)
                      /\ r.alone => \A q \in renames' : q.mac = r.mac => q = r
    BY <1>1 DEF RenamesInHand, ValidateName
  <2>1. CASE r = new
    BY <1>1, <1>3, <1>4, <2>1 DEF Renaming
  <2>2. ASSUME NEW r0 \in renames, r = seen(r0)
        PROVE  /\ r.at = "store" => ValidateName(r.raw) \in expected[r.mac]
               /\ r.at = "store" /\ r.alone => adapters[r.mac].name = ValidateName(r.raw)
               /\ r.alone => \A q \in renames' : q.mac = r.mac => q = r
    <3>1. /\ r.mac = r0.mac /\ r.raw = r0.raw /\ r.at = r0.at
          /\ r.alone => r0.alone /\ r0.mac # m /\ r = r0
      BY <1>4, <2>2
    <3>2. /\ r0.at = "store" => ValidateName(r0.raw) \in expected[r0.mac]
          /\ r0.at = "store" /\ r0.alone => adapters[r0.mac].name = ValidateName(r0.raw)
          /\ r0.alone => \A q \in renames : q.mac = r0.mac => q = r0
      BY DEF PersistInv, RenamesInHand
    <3>3. ASSUME r.alone, NEW q \in renames', q.mac = r.mac PROVE q = r
      <4>1. PICK q0 \in renames : q = seen(q0)
        BY <1>1, <1>3, <3>1, <3>3
      <4>2. q0.mac = r0.mac
        BY <1>4, <3>1, <3>3, <4>1
      <4>3. q0 = r0
        BY <3>1, <3>2, <3>3, <4>2
      <4> QED  BY <2>2, <4>1, <4>3
    <3> QED  BY <3>1, <3>2, <3>3
  <2> QED  BY <1>1, <2>1, <2>2
<1> QED  BY <1>5, <1>6, <1>7, <1>8 DEF PersistInv

\* A rename in the registry keeps the invariant.
LEMMA RenameBeginPreserves ==
  ASSUME PersistInv, NEW r \in renames, RenameBegin(r)
  PROVE  PersistInv'
<1> DEFINE name == ValidateName(r.raw)
           m == r.mac
           R == [id : Nat, mac : Macs, raw : RawNames, at : {"begin", "store"},
                 alone : BOOLEAN]
<1>0. /\ renames \subseteq R /\ r \in R /\ m \in Macs /\ adapters \in [Macs -> Adapter]
      /\ \A x \in Macs : adapters[x] \in Adapter
  BY DEF PersistInv, PersistTypeOK
<1>1. /\ UNCHANGED <<proc, rows, db, saves, commands, mixed>>
      /\ proc # "down"
  BY DEF RenameBegin, PersistInv, Rest
<1>2. CASE adapters[m].known /\ name # "invalid"
  <2> DEFINE q0 == [r EXCEPT !.at = "store"]
  <2>1. /\ adapters' = [adapters EXCEPT ![m].name = name]
        /\ renames' = (renames \ {r}) \cup {q0}
        /\ expected' = [expected EXCEPT ![m] = expected[m] \cup {name}]
    BY <1>2 DEF RenameBegin, SetName
  <2>2. q0 \in R /\ q0.mac = m /\ q0.raw = r.raw /\ q0.alone = r.alone
    BY <1>0
  <2>3. name \in Names \cup {None}
    BY <1>0, <1>2, PersistenceType DEF ValidateName
  <2>4. /\ [adapters[m] EXCEPT !.name = name] \in Adapter
        /\ [adapters[m] EXCEPT !.name = name].name = name
        /\ [adapters[m] EXCEPT !.name = name].known = adapters[m].known
        /\ Columns([adapters[m] EXCEPT !.name = name]) = Columns(adapters[m])
    BY <1>0, <2>3 DEF Adapter, Columns
  <2>5. /\ adapters' \in [Macs -> Adapter]
        /\ adapters'[m].name = name /\ adapters'[m].known
        /\ Columns(adapters'[m]) = Columns(adapters[m])
        /\ \A x \in Macs \ {m} : adapters'[x] = adapters[x]
    BY <1>0, <1>2, <2>1, <2>4
  <2>6. /\ expected' \in [Macs -> SUBSET (Names \cup {None})]
        /\ \A x \in Macs : expected[x] \subseteq expected'[x]
        /\ name \in expected'[m]
    BY <1>0, <2>1, <2>3 DEF PersistInv, PersistTypeOK
  <2> HIDE DEF q0, name
  <2>7. PersistTypeOK'
    BY <1>1, <2>1, <2>2, <2>5, <2>6 DEF PersistInv, PersistTypeOK
  <2>8. Shape' /\ Rest' /\ Loaded' /\ CopiesKnown'
    BY <1>0, <1>1, <2>5, <2>6 DEF PersistInv, Shape, Rest, Loaded, CopiesKnown
  <2>9. NamesExpected'
    <3>1. \A s \in saves : s.mac \in Macs
      BY DEF PersistInv, PersistTypeOK
    <3>2. \A x \in Macs : NameCounts(x)' => NameCounts(x)
      BY <1>1 DEF NameCounts
    <3>3. \A x \in Macs : /\ db[x].known => db[x].name \in expected'[x]
                          /\ NameCounts(x) => adapters'[x].name \in expected'[x]
      BY <2>5, <2>6 DEF PersistInv, NamesExpected
    <3>4. \A s \in saves : db[s.mac].known \/ s.copy.name \in expected'[s.mac]
      BY <2>6, <3>1 DEF PersistInv, NamesExpected
    <3> QED  BY <1>1, <3>2, <3>3, <3>4 DEF NamesExpected
  <2>10. RowsFollow'
    <3>1. \A x \in Macs : /\ adapters'[x].known = adapters[x].known \/ x = m
                          /\ Columns(adapters'[x]) = Columns(adapters[x])
                          /\ Saves(x)' = Saves(x)
      BY <1>1, <2>5 DEF Saves
    <3> SUFFICES ASSUME NEW x \in Macs, x \notin mixed, adapters'[x].known
                 PROVE  /\ Saves(x) = {} => db[x].known /\ Columns(db[x]) = Columns(adapters'[x])
                        /\ \A s \in Saves(x) : Columns(s.copy) = Columns(adapters'[x])
      BY <1>1, <3>1 DEF RowsFollow, Columns
    <3>2. adapters[x].known
      BY <1>2, <3>1
    <3> QED  BY <1>1, <3>1, <3>2 DEF PersistInv, RowsFollow
  <2>11. RenamesInHand'
    <3> SUFFICES ASSUME NEW q \in renames'
                 PROVE  /\ q.at = "store" => ValidateName(q.raw) \in expected'[q.mac]
                        /\ q.at = "store" /\ q.alone => adapters'[q.mac].name = ValidateName(q.raw)
                        /\ q.alone => \A p \in renames' : p.mac = q.mac => p = q
      BY DEF RenamesInHand, ValidateName
    <3>1. /\ \A p \in renames : p.alone => \A p2 \in renames : p2.mac = p.mac => p2 = p
          /\ \A p \in renames : p.mac \in Macs
      BY <1>0 DEF PersistInv, RenamesInHand
    <3>2. CASE q = q0
      BY <2>1, <2>2, <2>5, <2>6, <3>1, <3>2 DEF name
    <3>3. CASE q \in renames \ {r}
      <4>1. q.alone => q.mac # m
        BY <3>1, <3>3
      <4>2. /\ q.at = "store" => ValidateName(q.raw) \in expected[q.mac]
            /\ q.at = "store" /\ q.alone => adapters[q.mac].name = ValidateName(q.raw)
        BY <3>3 DEF PersistInv, RenamesInHand
      <4> QED  BY <2>1, <2>2, <2>5, <2>6, <3>1, <3>3, <4>1, <4>2
    <3> QED  BY <2>1, <3>2, <3>3
  <2> QED  BY <2>7, <2>8, <2>9, <2>10, <2>11 DEF PersistInv
<1>3. CASE ~(adapters[m].known /\ name # "invalid")
  <2>1. renames' = renames \ {r} /\ UNCHANGED <<adapters, expected>>
    BY <1>3 DEF RenameBegin
  <2>2. PersistTypeOK' /\ Shape' /\ Rest' /\ Loaded' /\ CopiesKnown'
    BY <1>1, <2>1 DEF PersistInv, PersistTypeOK, Shape, Rest, Loaded, CopiesKnown, NameCounts
  <2>3. NamesExpected' /\ RenamesInHand'
    BY <1>1, <2>1 DEF PersistInv, NamesExpected, RenamesInHand, NameCounts
  <2>4. RowsFollow'
    BY <1>1, <2>1 DEF PersistInv, RowsFollow, NameCounts, Saves
  <2> QED  BY <2>2, <2>3, <2>4 DEF PersistInv
<1> QED  BY <1>2, <1>3

\* A rename in the database keeps the invariant.
LEMMA RenameStorePreserves ==
  ASSUME PersistInv, NEW r \in renames, RenameStore(r)
  PROVE  PersistInv'
<1> DEFINE name == ValidateName(r.raw)
           m == r.mac
           stored == db[m].known /\ proc # "stopping"
<1>0. /\ m \in Macs /\ db \in [Macs -> Adapter] /\ \A x \in Macs : db[x] \in Adapter
      /\ expected \in [Macs -> SUBSET (Names \cup {None})]
      /\ r.alone \in BOOLEAN
  BY DEF PersistInv, PersistTypeOK
<1>1. /\ renames' = renames \ {r} /\ r.at = "store"
      /\ db' = IF stored THEN [db EXCEPT ![m].name = name] ELSE db
      /\ expected' = IF stored /\ r.alone /\ proc # "hydrate" THEN [expected EXCEPT ![m] = {name}] ELSE expected
      /\ UNCHANGED <<adapters, proc, rows, saves, commands, mixed>>
  BY DEF RenameStore
<1>2. proc # "down"
  BY DEF PersistInv, Rest
<1>3. /\ name \in expected[m]
      /\ r.alone => adapters[m].name = name /\ \A q \in renames : q.mac = m => q = r
  BY <1>1 DEF PersistInv, RenamesInHand
<1>4. name \in Names \cup {None}
  BY <1>0, <1>3
<1> HIDE DEF name
<1>5. /\ db' \in [Macs -> Adapter]
      /\ \A x \in Macs \ {m} : db'[x] = db[x]
      /\ stored => db'[m].name = name
      /\ ~stored => db'[m] = db[m]
      /\ db'[m].known = db[m].known /\ db'[m].online = db[m].online
      /\ Columns(db'[m]) = Columns(db[m])
  <2>1. /\ [db[m] EXCEPT !.name = name] \in Adapter
        /\ [db[m] EXCEPT !.name = name].name = name
        /\ [db[m] EXCEPT !.name = name].known = db[m].known
        /\ [db[m] EXCEPT !.name = name].online = db[m].online
        /\ Columns([db[m] EXCEPT !.name = name]) = Columns(db[m])
    BY <1>0, <1>4 DEF Adapter, Columns
  <2> QED  BY <1>0, <1>1, <2>1
<1>6. /\ expected' \in [Macs -> SUBSET (Names \cup {None})]
      /\ \A x \in Macs \ {m} : expected'[x] = expected[x]
      /\ expected'[m] = IF stored /\ r.alone /\ proc # "hydrate" THEN {name} ELSE expected[m]
  BY <1>0, <1>1, <1>4
<1>7. PersistTypeOK'
  BY <1>1, <1>5, <1>6 DEF PersistInv, PersistTypeOK
<1>8. Shape' /\ Rest' /\ Loaded' /\ CopiesKnown'
  BY <1>1, <1>2, <1>5 DEF PersistInv, Shape, Rest, Loaded, CopiesKnown, NameCounts
<1>9. NamesExpected'
  <2>1. \A s \in saves : s.mac \in Macs
    BY DEF PersistInv, PersistTypeOK
  <2>2. \A x \in Macs : db'[x].known => db'[x].name \in expected'[x]
    BY <1>3, <1>5, <1>6 DEF PersistInv, NamesExpected
  <2>3. \A x \in Macs : NameCounts(x)' => adapters'[x].name \in expected'[x]
    <3>1. \A x \in Macs : NameCounts(x)' => NameCounts(x)
      BY <1>1, <1>5 DEF NameCounts
    <3> QED  BY <1>1, <1>2, <1>3, <1>6, <3>1 DEF PersistInv, NamesExpected
  <2>4. \A s \in saves' : db'[s.mac].known \/ s.copy.name \in expected'[s.mac]
    BY <1>1, <1>5, <1>6, <2>1 DEF PersistInv, NamesExpected
  <2> QED  BY <2>2, <2>3, <2>4 DEF NamesExpected
<1>10. RenamesInHand'
  <2> SUFFICES ASSUME NEW q \in renames'
               PROVE  /\ q.at = "store" => ValidateName(q.raw) \in expected'[q.mac]
                      /\ q.at = "store" /\ q.alone => adapters'[q.mac].name = ValidateName(q.raw)
                      /\ q.alone => \A p \in renames' : p.mac = q.mac => p = q
    BY DEF RenamesInHand, ValidateName
  <2>1. q \in renames /\ q # r /\ q.mac \in Macs
    BY <1>1 DEF PersistInv, PersistTypeOK
  <2>2. expected'[q.mac] = expected[q.mac]
    BY <1>3, <1>6, <2>1
  <2> QED  BY <1>1, <2>1, <2>2 DEF PersistInv, RenamesInHand
<1>11. RowsFollow'
  <2>1. \A x \in Macs : /\ db'[x].known = db[x].known
                        /\ Columns(db'[x]) = Columns(db[x]) /\ Saves(x)' = Saves(x)
    BY <1>1, <1>5 DEF Saves
  <2> SUFFICES ASSUME NEW x \in Macs, x \notin mixed, adapters[x].known
               PROVE  /\ Saves(x) = {} => db'[x].known /\ Columns(db'[x]) = Columns(adapters[x])
                      /\ \A s \in Saves(x) : Columns(s.copy) = Columns(adapters[x])
    BY <1>1, <2>1 DEF RowsFollow, Columns
  <2> QED  BY <1>2, <2>1 DEF PersistInv, RowsFollow
<1> QED  BY <1>7, <1>8, <1>9, <1>10, <1>11 DEF PersistInv

\* The invariant holds of every behaviour, crashes included.
THEOREM PersistInvariant == PersistSpec => []PersistInv
<1>1. PersistInv /\ UNCHANGED vars => PersistInv'
  <2> SUFFICES ASSUME PersistInv, UNCHANGED vars PROVE PersistInv'
    OBVIOUS
  <2> USE DEF PersistInv, vars
  <2>1. PersistTypeOK' /\ Shape' /\ Rest' /\ Loaded' /\ CopiesKnown'
    BY DEF PersistTypeOK, Shape, Rest, Loaded, CopiesKnown, NameCounts
  <2>2. NamesExpected' /\ RenamesInHand'
    BY DEF NamesExpected, RenamesInHand, NameCounts
  <2>3. RowsFollow'
    BY DEF RowsFollow, NameCounts, Saves
  <2> QED  BY <2>1, <2>2, <2>3
<1>2. PersistInv /\ [PersistNext]_vars => PersistInv'
  <2> SUFFICES ASSUME PersistInv, PersistNext PROVE PersistInv'
    BY <1>1
  <2>1. CASE Boot \/ LoadAll \/ HydrateRows \/ EndLife \/ Die
    BY <2>1, ProcessPreserves
  <2>2. CASE \/ \E ip \in IPs, info \in DeviceInfo : ObserveAndPersist(ip, info)
             \/ \E m \in Macs : MarkOfflineAndPersist(m)
    BY <2>2, ObservationPreserves
  <2>3. CASE \E m \in Macs, raw \in RawNames : NameCommand(m, raw)
    BY <2>3, NameCommandPreserves
  <2>4. CASE \E m \in Macs : Saving(m) \/ RunRename(m)
    BY <2>4, SavePreserves, RenameBeginPreserves, RenameStorePreserves
       DEF Saving, RunRename, Saves, Renaming
  <2> QED  BY <2>1, <2>2, <2>3, <2>4 DEF PersistNext
<1> QED  BY PersistInitInv, <1>2, PTL DEF PersistSpec

\* Registry, database and everything under way keep their types, and no row is
\* ever online.
THEOREM PersistenceTyped == PersistSpec => []PersistTypeOK
<1>1. PersistInv => PersistTypeOK
  BY DEF PersistInv
<1> QED  BY <1>1, PersistInvariant, PTL

\* The user's name for a device survives observations saved late, other
\* renames, crashes and restarts.
THEOREM NamesAreKept == PersistSpec => []NamesSurvive
<1>1. PersistInv => NamesSurvive
  BY DEF PersistInv, NamesExpected, NamesSurvive, NameCounts
<1> QED  BY <1>1, PersistInvariant, PTL

\* With nothing under way the row is what the registry shows.
THEOREM RowsAreCurrent == PersistSpec => []RowIsLatest
<1>1. PersistInv => RowIsLatest
  BY DEF PersistInv, RowsFollow, RowIsLatest, NameCounts
<1> QED  BY <1>1, PersistInvariant, PTL
=============================================================================
