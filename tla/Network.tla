------------------------------ MODULE Network -------------------------------
(***************************************************************************)
(* The devices on the LAN and the two requests the controller makes of      *)
(* them (internal/dt241m/client.go).  The devices are the environment:      *)
(* they move between addresses, fall silent, are retuned at their front     *)
(* panel, lose requests and answers, and may apply a channel some time after *)
(* the request that asked for it has been given up.                         *)
(***************************************************************************)
EXTENDS Inventory

CONSTANTS Devices,          \* the physical devices
          MacOf,            \* device -> the MAC it reports, as it spells it
          HardwareOf,       \* device -> what it says of itself
          Tunings,          \* the channels the devices may start on
          MaxDisturbances,  \* bound on moves and front-panel changes
          MayLose,          \* whether requests and answers may get lost
          MaySettle         \* whether the LAN may become quiet for good

ASSUME DevicesType == /\ MacOf \in [Devices -> RawMacs]
                      /\ HardwareOf \in [Devices -> Hardware]
                      /\ Tunings \subseteq [Devices -> Channels]
ASSUME DisturbancesType == /\ MaxDisturbances \in Nat
                           /\ MayLose \in BOOLEAN /\ MaySettle \in BOOLEAN

VARIABLES at,            \* device -> its address, None when it is off
          tuned,         \* device -> the channel it is on
          late,          \* <<device, channel>>: requests yet to take effect
          calm,          \* no moves, losses or late effects any more
          disturbances

netVars == <<at, tuned, late, calm, disturbances>>

DevicesAt(ip) == {d \in Devices : at[d] = ip}
DevicesOf(m) == {d \in Devices : Normalize[MacOf[d]] = m}

\* One address hosts at most one device.
Placements == {p \in [Devices -> IPs \cup {None}] :
                 \A d, e \in Devices : d # e /\ p[d] = p[e] => p[d] = None}

NetworkInit == /\ at \in Placements
               /\ tuned \in Tunings
               /\ late = {}
               /\ calm = FALSE
               /\ disturbances = 0

-----------------------------------------------------------------------------
\* A device changes its address, is switched off or comes back.
Move(d, ip) ==
  /\ ~calm /\ disturbances < MaxDisturbances
  /\ at[d] # ip
  /\ ip # None => DevicesAt(ip) = {}
  /\ at' = [at EXCEPT ![d] = ip]
  /\ disturbances' = disturbances + 1
  /\ UNCHANGED <<tuned, late, calm>>

\* Somebody changes the channel at the device.
FrontPanel(d, ch) ==
  /\ ~calm /\ disturbances < MaxDisturbances
  /\ tuned[d] # ch
  /\ tuned' = [tuned EXCEPT ![d] = ch]
  /\ disturbances' = disturbances + 1
  /\ UNCHANGED <<at, late, calm>>

\* A request whose answer came early or never takes effect after all.
TakeEffect(w) ==
  /\ w \in late
  /\ tuned' = [tuned EXCEPT ![w[1]] = w[2]]
  /\ late' = late \ {w}
  /\ UNCHANGED <<at, calm, disturbances>>

Settle == /\ MaySettle /\ ~calm
          /\ late = {}
          /\ calm' = TRUE
          /\ UNCHANGED <<at, tuned, late, disturbances>>

NetworkNext == \/ \E d \in Devices, ip \in IPs \cup {None} : Move(d, ip)
               \/ \E d \in Devices, ch \in Channels : FrontPanel(d, ch)
               \/ \E w \in late : TakeEffect(w)
               \/ Settle

-----------------------------------------------------------------------------
InfoOf(d) == [lanMAC |-> MacOf[d], hw |-> HardwareOf[d], channel |-> tuned[d]]

\* What GetDeviceInfo may return for ip: the answer of the device there, or an
\* error (None) when there is none or the request, the answer or the patience
\* of the caller is lost.  A request under an ended context always fails.
GetDeviceInfo(ip, ctxDone) ==
  IF ctxDone THEN {None}
  ELSE {InfoOf(d) : d \in DevicesAt(ip)}
         \cup (IF (calm \/ ~MayLose) /\ DevicesAt(ip) # {} THEN {} ELSE {None})

\* SetChannel and what write makes of its error: accepted on an explicit
\* acknowledgement, ambiguous after a timeout or a cancellation, rejected
\* otherwise.  A device may apply at once, later or never; an answer lost or
\* mangled on the way back is no proof that it did not.
SetChannel(ip, ch, ctxDone, ack) ==
  \/ /\ ctxDone /\ ack = "ambiguous"
     /\ UNCHANGED <<tuned, late>>
  \/ /\ ~ctxDone /\ DevicesAt(ip) = {} /\ ack \in {"ambiguous", "rejected"}
     /\ UNCHANGED <<tuned, late>>
  \/ \E d \in DevicesAt(ip) :
       /\ ~ctxDone
       /\ \/ /\ ack \in {"accepted", "ambiguous", "rejected"}
             /\ tuned' = [tuned EXCEPT ![d] = ch]
             /\ UNCHANGED late
          \/ /\ ack \in {"accepted", "ambiguous"}
             /\ late' = late \cup {<<d, ch>>}
             /\ UNCHANGED tuned
          \/ /\ ack \in {"ambiguous", "rejected"}
             /\ UNCHANGED <<tuned, late>>
=============================================================================
