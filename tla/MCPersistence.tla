--------------------------- MODULE MCPersistence ----------------------------
(* One device on two channels, as nothing on the way to the database joins     *)
(* two; a name, no name, and a name that is too long.  The database is      *)
(* empty or knows the device.                                                *)
EXTENDS Persistence, TLC

CONSTANTS a, ip1

MCNormalize == [r \in RawMacs |-> a]
Rx == [marks |-> {"rx"}, text |-> "v1"]
MCHardware == {Rx}
MCRawNames == {[text |-> "Hall", length |-> 4, control |-> FALSE],
               [text |-> None, length |-> 0, control |-> FALSE],
               [text |-> "Hall", length |-> 65, control |-> FALSE]}
Row(name) == [known |-> TRUE, role |-> "receiver", ip |-> ip1, name |-> name,
              hw |-> Rx, channel |-> 0, online |-> FALSE]
MCInventories == {[m \in Macs |-> Absent], [m \in Macs |-> Row("Hall")]}
=============================================================================
