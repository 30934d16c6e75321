---------------------------- MODULE MCPublisher -----------------------------
(* A transmitter and a receiver, which may change roles, on two channels; a   *)
(* name.  The database holds the receiver as it was last seen.                *)
EXTENDS Publisher, TLC

CONSTANTS tx, rx, ip1

MCNormalize == [x \in RawMacs |-> IF x = "t" THEN tx ELSE rx]
Tx == [marks |-> {"tx"}, text |-> "Encoder"]
Rx == [marks |-> {"rx"}, text |-> "Decoder"]
MCHardware == {Tx, Rx}
\* Each device answers on any channel in its own role, and on one in the other's.
MCAnswers == {i \in DeviceInfo : i.channel = 0 \/ i.hw = IF i.lanMAC = "t" THEN Tx ELSE Rx}
MCReportedName == [h \in Hardware |-> h.text]
MCIdLabel == [m \in Macs |-> IF m = tx THEN "dt241m_t" ELSE "dt241m_r"]
MCShownNames == Names \cup {"Encoder", "Decoder", "dt241m_t", "dt241m_r"}
ChannelText(ch) == IF ch = 0 THEN " (ch 0)" ELSE " (ch 1)"
MCDisambiguated == [p \in ShownNames \X Channels |-> p[1] \o ChannelText(p[2])]
MCLabels == ShownNames \cup {MCDisambiguated[p] : p \in ShownNames \X Channels}
InOrder == <<"Decoder", "Decoder (ch 0)", "Decoder (ch 1)",
             "Encoder", "Encoder (ch 0)", "Encoder (ch 1)",
             "Hall", "Hall (ch 0)", "Hall (ch 1)",
             "dt241m_r", "dt241m_r (ch 0)", "dt241m_r (ch 1)",
             "dt241m_t", "dt241m_t (ch 0)", "dt241m_t (ch 1)">>
MCRank == [l \in Labels |-> CHOOSE i \in DOMAIN InOrder : InOrder[i] = l]

Row(hw) == [known |-> TRUE, role |-> Classify(hw), ip |-> ip1, name |-> None,
                    hw |-> hw, channel |-> 0, online |-> FALSE]
MCInventories == {[m \in Macs |-> IF m = tx THEN Absent ELSE Row(Rx)]}
=============================================================================
