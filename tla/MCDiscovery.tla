---------------------------- MODULE MCDiscovery -----------------------------
(* Two devices, two addresses: each may take over the other's address.  The  *)
(* inventory is empty, or holds both at addresses that may be long stale, or  *)
(* one without any address.                                                   *)
EXTENDS Discovery, TLC

CONSTANTS a, b, da, db, ip1, ip2

MCNormalize == [r \in {"a", "b"} |-> IF r = "a" THEN a ELSE b]
MCMacOf == [d \in Devices |-> IF d = da THEN "a" ELSE "b"]
Rx == [marks |-> {"rx"}, text |-> "v1"]
AllOnZero == {[d \in Devices |-> 0]}
MCHardware == {Rx}
MCHardwareOf == [d \in Devices |-> Rx]
MCMacOrder == <<a, b>>
MCScanOrder == <<ip1, ip2>>

Row(ip) == [known |-> TRUE, role |-> "receiver", ip |-> ip, name |-> None,
            hw |-> Rx, channel |-> 0, online |-> FALSE]

MCInventories == {[m \in Macs |-> Absent],
                  [m \in Macs |-> IF m = a THEN Row(ip1) ELSE Row(ip2)],
                  [m \in Macs |-> IF m = a THEN Row(ip2) ELSE Row(None)]}
=============================================================================
