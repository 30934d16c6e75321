------------------------------ MODULE Registry ------------------------------
(***************************************************************************)
(* The registry as a component (internal/registry/registry.go): one map     *)
(* behind one lock, so each exported method that writes is one step.  The    *)
(* callers are any goroutines in any order; what they pass is whatever       *)
(* devices may answer, users may type and the database may hold.             *)
(***************************************************************************)
EXTENDS Inventory

CONSTANT Inventories   \* what the database may hold at start: Macs -> Adapter

ASSUME InventoriesType == Inventories \subseteq [Macs -> Adapter]

VARIABLES adapters,    \* r.adapters
          obs          \* the last Observation returned, None before the first

vars == <<adapters, obs>>

Init == /\ adapters = [m \in Macs |-> Absent]
        /\ obs = None

Load == /\ \E rows \in Inventories : adapters' = Hydrate(adapters, rows)
        /\ UNCHANGED obs

Observe(ip, info) ==
  LET m == Normalize[info.lanMAC]
  IN  \E d \in Displacements(adapters, ip, m) :
        /\ m # None
        /\ adapters' = RecordObservation(adapters, ip, info, d)
        /\ obs' = ObservationOf(adapters, ip, info, d)

Rename(m, name) == /\ adapters' = SetName(adapters, m, name)
                   /\ UNCHANGED obs

GoOffline(m) == /\ adapters' = MarkOffline(adapters, m)
                /\ UNCHANGED obs

Next == \/ Load
        \/ \E ip \in IPs, info \in DeviceInfo : Observe(ip, info)
        \/ \E m \in Macs, name \in Names \cup {None} : Rename(m, name)
        \/ \E m \in Macs : GoOffline(m)

Spec == Init /\ [][Next]_vars

-----------------------------------------------------------------------------
Observation == [mac : Macs, created : BOOLEAN, cameOnline : BOOLEAN,
                stateChanged : BOOLEAN, roleChanged : BOOLEAN,
                metadataChanged : BOOLEAN, previousIP : IPs \cup {None},
                displaced : Macs \cup {None}]

ASSUME NilIsNoObservation == None \notin Observation

\* Type correctness of the map and of what RecordObservation returns; an
\* entry that is not in the map is never online, and one that is online has
\* the address and the channel of an answer.
TypeOK == /\ adapters \in [Macs -> Adapter]
          /\ obs = None \/ obs \in Observation
          /\ \A m \in Macs : adapters[m].online =>
               adapters[m].known /\ adapters[m].ip # None /\ adapters[m].channel # None

\* One address never hosts two online devices, although a displacement puts
\* only the first other adapter it meets offline: the loop's break is
\* harmless because there is never a second one.
AtMostOneOnlinePerIP == \A ip \in IPs : \A m, n \in OnlineAt(adapters, ip) : m = n

\* An observation that displaced another adapter, which has to be published,
\* is never one that Changed, "whether anything worth persisting or publishing
\* happened", denies, although Changed does not look at the displacement.
DisplacementIsAChange == obs # None /\ obs.displaced # None => Changed(obs)

\* Whatever a step changes of an adapter that is online after it, its name
\* apart, came with an observation of that adapter that says so: nothing the
\* caller would persist slips through the flags, and no adapter comes online
\* or moves by what the database held.
ChangesAreReported ==
  [][\A m \in Macs :
       /\ adapters'[m].online
       /\ [adapters'[m] EXCEPT !.name = None] # [adapters[m] EXCEPT !.name = None]
       => obs' # None /\ obs'.mac = m /\ Changed(obs')]_vars
=============================================================================
