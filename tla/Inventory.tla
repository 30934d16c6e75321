----------------------------- MODULE Inventory ------------------------------
(***************************************************************************)
(* The adapters the controller knows and the operations of                 *)
(* internal/registry/registry.go on them, as operators on a map reg from    *)
(* MAC to Adapter; the modules with state apply them to their own copy.     *)
(*                                                                         *)
(* An IP, a channel, a name and a MAC are members of small sets.  What the   *)
(* hardware says of itself is one record: marks is the set of role marks     *)
(* ("tx" for proavtx, "rx" for proavrx) that the product and model strings   *)
(* contain, text stands for the other metadata (device name, firmware).      *)
(* Timestamps are left out: no decision depends on them.                     *)
(***************************************************************************)
EXTENDS Integers, FiniteSets

CONSTANTS Macs,       \* normalised MAC addresses
          RawMacs,    \* MAC addresses as devices spell them
          Normalize,  \* RawMacs -> Macs \cup {None}: "" is None
          IPs,
          Channels,
          Names,      \* names a user may give
          Hardware,   \* what devices say of themselves: [marks, text]
          None        \* nil, "" or an absent map entry

ASSUME NormalizeType == Normalize \in [RawMacs -> Macs \cup {None}]
ASSUME NoneIsFresh == /\ None \notin Macs /\ None \notin IPs
                      /\ None \notin Channels /\ None \notin Names
                      /\ None \notin Hardware

Roles == {"transmitter", "receiver", "unknown"}

\* Classify: a device is what its product and model strings agree on.
Classify(hw) == IF hw.marks = {"tx"} THEN "transmitter"
                ELSE IF hw.marks = {"rx"} THEN "receiver"
                ELSE "unknown"

\* What get_device_info_proav returns, the fields the controller reads.
DeviceInfo == [lanMAC : RawMacs, hw : Hardware, channel : Channels]

Adapter == [known : BOOLEAN, role : Roles, ip : IPs \cup {None},
            name : Names \cup {None}, hw : Hardware \cup {None},
            channel : Channels \cup {None}, online : BOOLEAN]

\* A MAC that is not in the map.
Absent == [known |-> FALSE, role |-> "unknown", ip |-> None, name |-> None,
           hw |-> None, channel |-> None, online |-> FALSE]

Known(reg) == {m \in Macs : reg[m].known}
OnlineAt(reg, ip) == {m \in Macs : reg[m].known /\ reg[m].online /\ reg[m].ip = ip}

-----------------------------------------------------------------------------
(* Plausible slips, used by the mutants.                                    *)

DisplacementsNone(reg, ip, m) == {None}

MarkOfflineNever(reg, m) == reg

ObservedKeepsChannel(a, ip, info) ==
  [known |-> TRUE, role |-> Classify(info.hw), ip |-> ip, name |-> a.name,
   hw |-> info.hw, channel |-> IF a.known THEN a.channel ELSE info.channel,
   online |-> TRUE]

ChangedWithoutState(obs) == obs.created \/ obs.cameOnline \/ obs.metadataChanged

ChangedWithoutMetadata(obs) == obs.created \/ obs.cameOnline \/ obs.stateChanged

-----------------------------------------------------------------------------
\* Hydrate: every persisted row replaces the entry of its MAC, offline.
Hydrate(reg, rows) ==
  [m \in Macs |-> IF rows[m].known THEN [rows[m] EXCEPT !.online = FALSE] ELSE reg[m]]

\* SetName: the name of a known adapter, and nothing else.
SetName(reg, m, name) ==
  IF reg[m].known THEN [reg EXCEPT ![m].name = name] ELSE reg

\* MarkOffline; the second result of the code, whether anything changed, is
\* reg[m].known /\ reg[m].online.
MarkOffline(reg, m) ==
  IF reg[m].known /\ reg[m].online THEN [reg EXCEPT ![m].online = FALSE] ELSE reg

\* The adapters RecordObservation may put offline for an answer by m at ip.
\* The loop over the Go map stops at the first it meets, in any order.
Displacements(reg, ip, m) ==
  IF OnlineAt(reg, ip) \ {m} = {} THEN {None} ELSE OnlineAt(reg, ip) \ {m}

\* The entry of a device that has just answered at ip: created, or updated in
\* everything but the user's name.
Observed(a, ip, info) ==
  [known |-> TRUE, role |-> Classify(info.hw), ip |-> ip, name |-> a.name,
   hw |-> info.hw, channel |-> info.channel, online |-> TRUE]

\* RecordObservation with d displaced (None for nobody).  An answer whose MAC
\* does not normalise leaves the map alone.
RecordObservation(reg, ip, info, d) ==
  LET m == Normalize[info.lanMAC]
  IN  IF m = None THEN reg
      ELSE [x \in Macs |-> IF x = m THEN Observed(reg[m], ip, info)
                           ELSE IF x = d THEN [reg[x] EXCEPT !.online = FALSE]
                           ELSE reg[x]]

\* The Observation that RecordObservation returns for a usable MAC.
ObservationOf(reg, ip, info, d) ==
  LET m == Normalize[info.lanMAC]
      old == reg[m]
      role == Classify(info.hw)
  IN  [mac |-> m, created |-> ~old.known, cameOnline |-> ~old.online,
       stateChanged |-> old.ip # ip \/ old.channel # info.channel,
       roleChanged |-> old.known /\ old.role # role,
       metadataChanged |-> ~old.known \/ old.role # role \/ old.hw # info.hw,
       previousIP |-> IF old.ip # ip THEN old.ip ELSE None,
       displaced |-> d]

\* Observation.Changed: whether the caller persists the adapter.
Changed(obs) == obs.created \/ obs.cameOnline \/ obs.stateChanged \/ obs.metadataChanged
=============================================================================
