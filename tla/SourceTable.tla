----------------------------- MODULE SourceTable ----------------------------
(***************************************************************************)
(* The transmitters as they are offered to receivers                        *)
(* (internal/registry/sources.go): a label for each, the channel a label     *)
(* stands for, and the label shown for a channel.  The table is derived      *)
(* from the registry at one instant and follows every change of it.          *)
(***************************************************************************)
EXTENDS Registry

CONSTANTS ShownNames,      \* what DisplayName may return
          ReportedName,    \* hardware -> its device or product name, None for neither
          IdLabel,         \* MAC -> the adapter's ID
          Labels,          \* what an option may read
          Disambiguated,   \* <<name, channel>> -> "name (ch channel)"
          Rank             \* label -> its place in the order of strings

ASSUME LabelsType ==
  /\ Names \subseteq ShownNames /\ ShownNames \subseteq Labels /\ None \notin Labels
  /\ ReportedName \in [Hardware -> ShownNames \cup {None}]
  /\ IdLabel \in [Macs -> ShownNames]
  /\ Disambiguated \in [ShownNames \X Channels -> Labels]
  /\ Rank \in [Labels -> Nat]
  /\ \A k, l \in Labels : Rank[k] = Rank[l] => k = l

\* The text can be read back: what follows the last "(ch " is the channel.
ASSUME DisambiguatedInjective ==
  \A p, q \in ShownNames \X Channels : Disambiguated[p] = Disambiguated[q] => p = q

-----------------------------------------------------------------------------
(* A plausible slip, used by the mutant.                                    *)

NeverAmbiguous(m) == FALSE

-----------------------------------------------------------------------------
\* DisplayName of a, the adapter of m or a copy of it.
ShownName(a, m) ==
  IF a.name # None THEN a.name
  ELSE IF a.hw # None /\ ReportedName[a.hw] # None THEN ReportedName[a.hw]
  ELSE IdLabel[m]

DisplayName(m) == ShownName(adapters[m], m)

Transmitters == {m \in Macs : /\ adapters[m].known /\ adapters[m].role = "transmitter"
                              /\ adapters[m].channel # None}

\* nameCount is more than one.
AmbiguousName(m) == \E n \in Transmitters \ {m} : DisplayName(n) = DisplayName(m)

\* The transmitter's label, with its channel when its name is not its own.
LabelOf(m) == IF AmbiguousName(m)
                THEN Disambiguated[<<DisplayName(m), adapters[m].channel>>]
                ELSE DisplayName(m)

\* ByLabel: the transmitters it may return.  The sort is not stable, so of two
\* with one label either may come first.
ByLabel(label) == {m \in Transmitters : LabelOf(m) = label}

Sharing(ch) == {m \in Transmitters : adapters[m].channel = ch}

\* ForChannel: the first label of those on the channel, None for "none".
ForChannel(ch) ==
  IF Sharing(ch) = {} THEN None
  ELSE LET labels == {LabelOf(m) : m \in Sharing(ch)}
       IN  CHOOSE l \in labels : \A k \in labels : Rank[l] <= Rank[k]

\* Collisions: the channels of more than one transmitter.
Collisions == {ch \in Channels : \E m, n \in Sharing(ch) : m # n}

-----------------------------------------------------------------------------
\* "A label unique among transmitters", as the type Source is documented.
LabelsUnique == \A m, n \in Transmitters : LabelOf(m) = LabelOf(n) => m = n

\* Unless transmitters share a channel, every one of them can be selected and
\* no other is tuned to in its place, and a receiver on its channel shows just
\* its label, however names are given, cleared and reported meanwhile.  This is
\* for names that are plain (PlainNames), as those of the run are.
EachSelectableAndShown ==
  Collisions = {} => \A m \in Transmitters : /\ ByLabel(LabelOf(m)) = {m}
                                             /\ ForChannel(adapters[m].channel) = LabelOf(m)

\* No name looks like a disambiguated one.
PlainNames == \A name \in ShownNames, p \in ShownNames \X Channels : name # Disambiguated[p]
=============================================================================
