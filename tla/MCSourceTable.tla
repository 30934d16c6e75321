--------------------------- MODULE MCSourceTable ----------------------------
(* Adapters that contend for two addresses and two channels.  One spells its   *)
(* MAC in two ways, and there is a MAC that is no MAC.  Their reported names    *)
(* are one name or none, and the user may give that name, too.                 *)
EXTENDS SourceTable, Sequences, TLC

CONSTANTS a, b, ip1, ip2

MCNormalize == [r \in RawMacs |-> CASE r \in {"a", "A"} -> a
                                    [] r = "b" -> b
                                    [] OTHER -> None]
Tx == [marks |-> {"tx"}, text |-> "Encoder"]
Rx == [marks |-> {"rx"}, text |-> "Encoder"]
Nameless == [marks |-> {"tx"}, text |-> ""]
MCHardware == {Tx, Rx, Nameless}
MCReportedName == [h \in Hardware |-> IF h.text = "" THEN None ELSE h.text]
MCIdLabel == [m \in Macs |-> IF m = a THEN "dt241m_a" ELSE "dt241m_b"]
MCShownNames == Names \cup {"Encoder", "dt241m_a", "dt241m_b"}
ChannelText(ch) == IF ch = 0 THEN " (ch 0)" ELSE " (ch 1)"
MCDisambiguated == [p \in ShownNames \X Channels |-> p[1] \o ChannelText(p[2])]
MCLabels == ShownNames \cup {MCDisambiguated[p] : p \in ShownNames \X Channels}
InOrder == <<"Encoder", "Encoder (ch 0)",
             "Encoder (ch 1)", "Hall", "Hall (ch 0)", "Hall (ch 1)",
             "dt241m_a", "dt241m_a (ch 0)", "dt241m_a (ch 1)",
             "dt241m_b", "dt241m_b (ch 0)", "dt241m_b (ch 1)">>
MCRank == [l \in Labels |-> CHOOSE i \in DOMAIN InOrder : InOrder[i] = l]

\* Nothing, or an adapter that was named before its channel was ever read.
MCInventories == {[m \in Macs |-> IF m = a THEN [Absent EXCEPT !.known = TRUE,
                                                             !.role = "transmitter",
                                                             !.name = "Encoder"]
                                          ELSE Absent]}
=============================================================================
