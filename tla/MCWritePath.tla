---------------------------- MODULE MCWritePath -----------------------------
(* Two devices on two addresses, so that either may turn up where the other   *)
(* is expected.                                                               *)
EXTENDS WritePath, TLC

CONSTANTS a, b, da, db, dx, ip1, ip2

MCNormalize == [r \in RawMacs |-> CASE r = "a" -> a [] r = "b" -> b [] OTHER -> None]
MCMacOf == [d \in Devices |-> CASE d = da -> "a" [] d = db -> "b" [] OTHER -> "junk"]
Rx == [marks |-> {"rx"}, text |-> "v1"]
Tx == [marks |-> {"tx"}, text |-> "v1"]
Odd == [marks |-> {"tx", "rx"}, text |-> "v1"]
AllOnZero == {[d \in Devices |-> 0]}
MCHardware == {Rx, Tx, Odd}
RxAndTx == [d \in Devices |-> IF d = db THEN Tx ELSE Rx]
RxAndOdd == [d \in Devices |-> IF d = db THEN Odd ELSE Rx]
MCMacOrder == IF b \in Macs THEN <<a, b>> ELSE <<a>>
MCScanOrder == IF ip2 \in IPs THEN <<ip1, ip2>> ELSE <<ip1>>

Row(role, ip, hw) == [known |-> TRUE, role |-> role, ip |-> ip, name |-> None,
                      hw |-> hw, channel |-> 0, online |-> FALSE]

\* Both known from an earlier run: a receiver and a transmitter, or a device
\* that was a transmitter before its firmware changed.
KnownBoth == {[m \in Macs |-> IF m = a THEN Row("receiver", ip1, Rx)
                                       ELSE Row("transmitter", ip2, Tx)]}
=============================================================================
