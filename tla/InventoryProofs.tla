-------------------------- MODULE InventoryProofs ---------------------------
(***************************************************************************)
(* What the operations on the inventory do to each of its entries: the facts *)
(* the proofs about the registry and about the write path share.             *)
(***************************************************************************)
EXTENDS Inventory, TLAPS

\* A device's answer keeps the map well typed.
LEMMA RecordType ==
  ASSUME NEW reg \in [Macs -> Adapter], NEW ip \in IPs, NEW info \in DeviceInfo, NEW d
  PROVE  RecordObservation(reg, ip, info, d) \in [Macs -> Adapter]
<1> DEFINE m == Normalize[info.lanMAC]
<1>1. CASE m = None
  BY <1>1 DEF RecordObservation
<1>2. CASE m # None
  <2>1. m \in Macs
    BY <1>2, NormalizeType DEF DeviceInfo
  <2>2. Classify(info.hw) \in Roles
    BY DEF Classify, Roles
  <2>3. Observed(reg[m], ip, info) \in Adapter
    BY <2>1, <2>2 DEF Observed, Adapter, DeviceInfo
  <2>4. \A x \in Macs : [reg[x] EXCEPT !.online = FALSE] \in Adapter /\ reg[x] \in Adapter
    BY DEF Adapter
  <2> HIDE DEF m
  <2> QED  BY <1>2, <2>3, <2>4 DEF RecordObservation, m
<1> QED  BY <1>1, <1>2

\* What an answer by m at ip does to m's own entry.
LEMMA RecordOwn ==
  ASSUME NEW reg \in [Macs -> Adapter], NEW ip \in IPs, NEW info \in DeviceInfo, NEW d,
         NEW m, m = Normalize[info.lanMAC], m # None
  PROVE  /\ m \in Macs
         /\ RecordObservation(reg, ip, info, d)[m] =
              [known |-> TRUE, role |-> Classify(info.hw), ip |-> ip,
               name |-> reg[m].name, hw |-> info.hw, channel |-> info.channel,
               online |-> TRUE]
<1>1. m \in Macs
  BY NormalizeType DEF DeviceInfo
<1> QED  BY <1>1 DEF RecordObservation, Observed

\* What it does to the others: nothing, but for the one it puts offline.
LEMMA RecordOther ==
  ASSUME NEW reg \in [Macs -> Adapter], NEW ip \in IPs, NEW info \in DeviceInfo, NEW d,
         NEW m, m = Normalize[info.lanMAC], m # None, NEW x \in Macs, x # m
  PROVE  /\ RecordObservation(reg, ip, info, d)[x].online => reg[x].online /\ x # d
         /\ RecordObservation(reg, ip, info, d)[x].ip = reg[x].ip
         /\ RecordObservation(reg, ip, info, d)[x].known = reg[x].known
         /\ RecordObservation(reg, ip, info, d)[x].role = reg[x].role
<1>1. RecordObservation(reg, ip, info, d)[x] =
         IF x = d THEN [reg[x] EXCEPT !.online = FALSE] ELSE reg[x]
  BY DEF RecordObservation
<1>2. reg[x] \in Adapter
  OBVIOUS
<1>3. /\ [reg[x] EXCEPT !.online = FALSE].online = FALSE
      /\ [reg[x] EXCEPT !.online = FALSE].ip = reg[x].ip
      /\ [reg[x] EXCEPT !.online = FALSE].known = reg[x].known
      /\ [reg[x] EXCEPT !.online = FALSE].role = reg[x].role
  BY <1>2 DEF Adapter
<1> QED  BY <1>1, <1>3

\* Loading the database puts nobody online and moves nobody who stays online.
LEMMA HydrateEffect ==
  ASSUME NEW reg \in [Macs -> Adapter], NEW rows \in [Macs -> Adapter]
  PROVE  /\ Hydrate(reg, rows) \in [Macs -> Adapter]
         /\ \A x \in Macs : Hydrate(reg, rows)[x].online => Hydrate(reg, rows)[x] = reg[x]
<1>1. \A x \in Macs : rows[x] \in Adapter
  OBVIOUS
<1>2. \A x \in Macs : /\ [rows[x] EXCEPT !.online = FALSE] \in Adapter
                      /\ [rows[x] EXCEPT !.online = FALSE].online = FALSE
  BY <1>1 DEF Adapter
<1> QED  BY <1>2 DEF Hydrate

\* MarkOffline keeps the map well typed, puts m offline and leaves the rest.
LEMMA MarkOfflineEffect ==
  ASSUME NEW reg \in [Macs -> Adapter], NEW m \in Macs,
         \A x \in Macs : reg[x].online => reg[x].known
  PROVE  /\ MarkOffline(reg, m) \in [Macs -> Adapter]
         /\ ~MarkOffline(reg, m)[m].online
         /\ \A x \in Macs : /\ MarkOffline(reg, m)[x].online => reg[x].online /\ x # m
                            /\ MarkOffline(reg, m)[x].ip = reg[x].ip
                            /\ MarkOffline(reg, m)[x].known = reg[x].known
                            /\ MarkOffline(reg, m)[x].role = reg[x].role
<1>1. CASE reg[m].known /\ reg[m].online
  <2>1. MarkOffline(reg, m) = [reg EXCEPT ![m].online = FALSE]
    BY <1>1 DEF MarkOffline
  <2>2. reg[m] \in Adapter
    OBVIOUS
  <2>3. /\ [reg[m] EXCEPT !.online = FALSE] \in Adapter
        /\ [reg[m] EXCEPT !.online = FALSE].online = FALSE
        /\ [reg[m] EXCEPT !.online = FALSE].ip = reg[m].ip
        /\ [reg[m] EXCEPT !.online = FALSE].known = reg[m].known
        /\ [reg[m] EXCEPT !.online = FALSE].role = reg[m].role
    BY <2>2 DEF Adapter
  <2> QED  BY <2>1, <2>3
<1>2. CASE ~(reg[m].known /\ reg[m].online)
  BY <1>2 DEF MarkOffline
<1> QED  BY <1>1, <1>2
=============================================================================
