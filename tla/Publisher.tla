----------------------------- MODULE Publisher ------------------------------
(***************************************************************************)
(* What Home Assistant is told: the publisher (controller/publish.go), the    *)
(* entities of an adapter (mqtt/discovery.go) and the broker session          *)
(* (mqtt/paho.go, Start and onMQTTConnected in controller.go).                *)
(*                                                                         *)
(* The registry and the publisher have locks of their own: an update leaves   *)
(* the registry with a copy of the adapter, waits in pending for the           *)
(* publisher's lock, and then goes through its operations (work) while the     *)
(* registry moves on.  The broker keeps the last message of a topic.           *)
(***************************************************************************)
EXTENDS SourceTable, Sequences

CONSTANTS Answers,      \* what the devices may answer
          MaxChanges,   \* bound on observations, timeouts, scans and name commands
          MaxDisturbances   \* bound on lost sessions and restarts of Home Assistant

ASSUME PublisherType == /\ MaxChanges \in Nat /\ MaxDisturbances \in Nat
                        /\ Answers \subseteq DeviceInfo

VARIABLES phase,        \* Start: "connect", "new", "loaded", "run"
          session,      \* whether the broker session is up
          disturbances,
          changes,
          pending,      \* updates between the registry and the publisher's lock
          work,         \* the update that holds the lock, Idle if none
          lastCounts,
          lastSources,
          retained,     \* MAC -> what the broker keeps on its topics
          controller,   \* what the broker keeps on the controller's topics
          mixed         \* history: MACs of which two updates were under way together,
                        \* or one that Hydrate overtook

pubVars == <<phase, session, disturbances, changes, pending, work, lastCounts, lastSources,
             retained, controller, mixed>>
allVars == <<vars, pubVars>>

-----------------------------------------------------------------------------
(* The entities of an adapter, each a component and an object.               *)

NumberChannel == <<"number", "channel">>
SensorChannel == <<"sensor", "channel">>
SelectSource == <<"select", "source">>
Common == {<<"text", "name">>, <<"sensor", "ip_address">>, <<"sensor", "role">>}

EntitiesFor(role) ==
  Common \cup CASE role = "receiver" -> {NumberChannel, SelectSource}
                [] role = "transmitter" -> {NumberChannel}
                [] OTHER -> {SensorChannel}

\* A plausible slip, used by a mutant.
StaleTopicsOfReceivers(role) == {SelectSource} \ EntitiesFor(role)

\* StaleTopics: what the adapter does not use in its current role.
StaleTopics(role) == {NumberChannel, SensorChannel, SelectSource} \ EntitiesFor(role)

-----------------------------------------------------------------------------
(* Source tables as values, and the counts.                                  *)

Sources == {[mac |-> m, label |-> LabelOf(m), channel |-> adapters[m].channel] :
              m \in Transmitters}

Options(table) == {s.label : s \in table}

\* ForChannel of a table: the first label on the channel, None for "none".
SourceOn(table, ch) ==
  LET labels == {s.label : s \in {t \in table : t.channel = ch}}
  IN  IF labels = {} THEN None
      ELSE CHOOSE l \in labels : \A k \in labels : Rank[l] <= Rank[k]

Counts == <<Cardinality(Known(adapters)),
            Cardinality({m \in Known(adapters) : adapters[m].online})>>

-----------------------------------------------------------------------------
Nothing == [avail |-> None, name |-> None, channel |-> None, ip |-> None, role |-> None,
            source |-> None, options |-> None, device |-> None, configs |-> {}]
Idle == [about |-> {}, ops |-> <<>>, id |-> 0]

\* Release 2.0 may have left a channel sensor behind.
PublisherInit ==
  /\ Init
  /\ phase = "connect" /\ session = FALSE
  /\ disturbances = 0 /\ changes = 0
  /\ pending = {} /\ work = Idle
  /\ lastCounts = None /\ lastSources = {}
  /\ retained = [m \in Macs |-> [Nothing EXCEPT !.configs = {SensorChannel}]]
  /\ controller = [avail |-> None, counts |-> None]
  /\ mixed = {}

-----------------------------------------------------------------------------
(* Plausible slips, used by the mutants.                                    *)

DisplacedOpsNone(d, a) == <<>>
RefreshIfTransmitter(o, a) == a.role = "transmitter"
DoneKeepsLock == work' = [work EXCEPT !.ops = Tail(@)]
CountsOnceKnown(counts) == lastCounts # None /\ lastCounts[1] = counts[1]

-----------------------------------------------------------------------------
(* The entry points: what the holder of the lock will do, in order.          *)

When(cond, op) == IF cond THEN <<op>> ELSE <<>>
On(op, m, a) == [op |-> op, mac |-> m, a |-> a]
Op(op) == [op |-> op]

\* The adapter a of MAC d was displaced.
DisplacedOps(d, a) == When(d # None, On("avail", d, a))

RefreshNeeded(o, a) == a.role = "transmitter" \/ o.roleChanged

\* observation, reg being the registry just after it.
ObservationOps(o, reg) ==
  LET m == o.mac
      a == reg[m]
  IN  (IF o.displaced = None THEN <<>> ELSE DisplacedOps(o.displaced, reg[o.displaced]))
      \o When(o.created \/ o.metadataChanged, On("announce", m, a))
      \o When(o.cameOnline, On("avail", m, a))
      \o When(o.created \/ o.stateChanged \/ o.roleChanged, On("state", m, a))
      \o When(o.cameOnline \/ o.displaced # None, Op("counts"))
      \o When(RefreshNeeded(o, a), Op("refresh"))

RenamedOps(m, a) == <<On("announce", m, a)>>
                    \o When(a.role = "transmitter", Op("refresh"))

OfflineOps(m, a) == <<On("avail", m, a), Op("counts")>>

EverythingOps == <<Op("hello"), Op("all"), Op("allCounts")>>

\* Everything is pending once: the second would repeat the first.
Update(about, ops, id) == [about |-> about, ops |-> ops, id |-> id]
Everything == Update({}, EverythingOps, 0)

Busy(m) == \E u \in pending \cup {work} : m \in u.about

-----------------------------------------------------------------------------
(* The session and the start of the controller.                              *)

SessionUp ==
  /\ ~session
  /\ session' = TRUE
  /\ pending' = IF phase = "connect" THEN pending ELSE pending \cup {Everything}
  /\ UNCHANGED <<vars, phase, disturbances, changes, work, lastCounts, lastSources, retained, controller, mixed>>

\* The broker publishes the will.
SessionDrop ==
  /\ session /\ disturbances < MaxDisturbances
  /\ session' = FALSE /\ disturbances' = disturbances + 1
  /\ controller' = [controller EXCEPT !.avail = "offline"]
  /\ UNCHANGED <<vars, phase, changes, pending, work, lastCounts, lastSources, retained, mixed>>

\* New registers the handlers after Connect has begun to connect.
NewController ==
  /\ phase = "connect" /\ phase' = "new"
  /\ UNCHANGED <<vars, session, disturbances, changes, pending, work, lastCounts, lastSources,
                 retained, controller, mixed>>

\* A row may replace what a rescan or a rename has put there since New.
LoadInventory ==
  /\ phase = "new" /\ phase' = "loaded"
  /\ Load
  /\ mixed' = mixed \cup {m \in Macs : Busy(m) /\ adapters'[m] # adapters[m]}
  /\ UNCHANGED <<session, disturbances, changes, pending, work, lastCounts, lastSources, retained,
                 controller>>

\* Whether AwaitConnection returns before its deadline.
AwaitConnection == session

Await ==
  /\ phase = "loaded" /\ phase' = "run"
  /\ pending' = IF AwaitConnection THEN pending \cup {Everything} ELSE pending
  /\ UNCHANGED <<vars, session, disturbances, changes, work, lastCounts, lastSources, retained,
                 controller, mixed>>

HomeAssistantOnline ==
  /\ session /\ phase # "connect"
  /\ disturbances < MaxDisturbances /\ disturbances' = disturbances + 1
  /\ pending' = pending \cup {Everything}
  /\ UNCHANGED <<vars, phase, session, changes, work, lastCounts, lastSources, retained,
                 controller, mixed>>

-----------------------------------------------------------------------------
(* Updates leave the registry, from New on, where the broker's callbacks are   *)
(* wired: a rescan or a rename may come before, between and after LoadAll and  *)
(* Hydrate.                                                                  *)

Leave(about, ops) ==
  /\ phase # "connect"
  /\ changes < MaxChanges /\ changes' = changes + 1
  /\ mixed' = mixed \cup {m \in about : Busy(m)}
  /\ pending' = pending \cup {Update(about, ops, changes)}
  /\ UNCHANGED <<obs, phase, session, disturbances, work, lastCounts, lastSources, retained, controller>>

\* The adapters of which an observation has something to say.
Observes(o) == (IF Changed(o) THEN {o.mac} ELSE {}) \cup ({o.displaced} \ {None})

\* Every answer is handed to the publisher; the one of a transmitter is a look
\* at the table even if nothing changed.
ObserveDevice(ip, info) ==
  LET m == Normalize[info.lanMAC]
  IN  \E d \in Displacements(adapters, ip, m) :
        LET o == ObservationOf(adapters, ip, info, d)
        IN  /\ m # None /\ changes < MaxChanges
            /\ adapters' = RecordObservation(adapters, ip, info, d)
            /\ ObservationOps(o, adapters') # <<>>    \* otherwise there is nothing to do
            /\ Leave(Observes(o), ObservationOps(o, adapters'))

TimeOut(m) == /\ adapters[m].online
              /\ adapters' = MarkOffline(adapters, m)
              /\ Leave({m}, OfflineOps(m, adapters'[m]))

NameCommand(m, name) == /\ adapters[m].known
                        /\ adapters' = SetName(adapters, m, name)
                        /\ Leave({m}, RenamedOps(m, adapters'[m]))

RejectName(m) == /\ adapters[m].known
                 /\ Leave({m}, <<On("name", m, adapters[m])>>)
                 /\ UNCHANGED adapters

ScanFinished == /\ Leave({}, <<Op("counts")>>)
                /\ UNCHANGED adapters

Lock(u) == /\ work = Idle
           /\ work' = u /\ pending' = pending \ {u}
           /\ UNCHANGED <<vars, phase, session, disturbances, changes, lastCounts, lastSources, retained,
                          controller, mixed>>

-----------------------------------------------------------------------------
(* The operations.  Each reads the registry at most once; the messages of one  *)
(* go out together, as nobody else publishes meanwhile and a session that      *)
(* drops or comes up between them is followed by everything.                   *)

\* publish: without a session the message is only logged.
Publish(topics) == retained' = IF session THEN topics ELSE retained
Tell(state) == controller' = IF session THEN state ELSE controller

\* One operation less; the lock is released after the last.
Done == work' = IF Len(work.ops) = 1 THEN Idle ELSE [work EXCEPT !.ops = Tail(@)]

\* The device block of a config: the adapter's name and what it says of itself.
AdapterDevice(m, a) == <<ShownName(a, m), a.hw>>

AdapterMessages(r, m, a, table) ==
  [r EXCEPT !.configs = @ \cup EntitiesFor(a.role),
            !.options = IF a.role = "receiver" THEN Options(table) ELSE @,
            !.device = AdapterDevice(m, a)]

WithDiscovery(r, m, a, table) ==
  AdapterMessages([r EXCEPT !.configs = @ \ StaleTopics(a.role)], m, a, table)

WithAvailability(r, a) == [r EXCEPT !.avail = IF a.online THEN "online" ELSE "offline"]

WithName(r, m, a) == [r EXCEPT !.name = ShownName(a, m)]

WithState(r, a, table) ==
  [r EXCEPT !.channel = IF a.channel # None THEN a.channel ELSE @,
            !.ip = IF a.ip # None THEN a.ip ELSE @,
            !.role = a.role,
            !.source = IF a.role = "receiver" THEN SourceOn(table, a.channel) ELSE @]

\* ReceiverSource and the Source state.
WithSource(r, m, a, table) ==
  [r EXCEPT !.configs = @ \cup {SelectSource}, !.options = Options(table),
            !.source = SourceOn(table, a.channel), !.device = AdapterDevice(m, a)]

\* discovery with the name, availability, name and state.
OneAdapter(op) ==
  LET r == retained[op.mac]
  IN  /\ Publish([retained EXCEPT ![op.mac] =
           CASE op.op = "announce" -> WithName(WithDiscovery(r, op.mac, op.a, Sources), op.mac, op.a)
             [] op.op = "avail" -> WithAvailability(r, op.a)
             [] op.op = "name" -> WithName(r, op.mac, op.a)
             [] op.op = "state" -> WithState(r, op.a, Sources)])
      /\ Done
      /\ UNCHANGED <<lastCounts, lastSources, controller, mixed>>

CountsUnchanged(counts) == lastCounts = counts

\* counts are remembered before they are sent.
CountsOp ==
  /\ lastCounts' = Counts
  /\ IF CountsUnchanged(Counts) THEN UNCHANGED controller
                                ELSE Tell([controller EXCEPT !.counts = Counts])
  /\ Done
  /\ UNCHANGED <<lastSources, retained, mixed>>

\* refreshSources: nothing to do if the table is the last one published.
Refresh ==
  /\ IF Sources = lastSources THEN Done
     ELSE work' = [work EXCEPT !.ops = <<Op("receivers")>> \o Tail(@)]
  /\ lastSources' = Sources
  /\ UNCHANGED <<lastCounts, retained, controller, mixed>>

RefreshReceivers ==
  /\ Publish([m \in Macs |-> IF adapters[m].known /\ adapters[m].role = "receiver"
                               THEN WithSource(retained[m], m, adapters[m], lastSources)
                               ELSE retained[m]])
  /\ Done
  /\ UNCHANGED <<lastCounts, lastSources, controller, mixed>>

\* everything, in three parts: the controller's own messages and the table,
\* every adapter with that table, and the counts in any case.
Hello == /\ Tell([controller EXCEPT !.avail = "online"])
         /\ lastSources' = Sources
         /\ Done
         /\ UNCHANGED <<lastCounts, retained, mixed>>

AllAdapters ==
  /\ Publish([m \in Macs |->
       IF ~adapters[m].known THEN retained[m]
       ELSE LET a == adapters[m]
                d == WithDiscovery(retained[m], m, a, lastSources)
            IN  WithState(WithName(WithAvailability(d, a), m, a), a, lastSources)])
  /\ mixed' = {m \in mixed : \E u \in pending : m \in u.about}
  /\ Done
  /\ UNCHANGED <<lastCounts, lastSources, controller>>

AllCounts == /\ lastCounts' = Counts
             /\ Tell([controller EXCEPT !.counts = Counts])
             /\ Done
             /\ UNCHANGED <<lastSources, retained, mixed>>

Perform ==
  /\ work # Idle
  /\ LET op == Head(work.ops)
     IN  \/ op.op \in {"announce", "avail", "name", "state"} /\ OneAdapter(op)
         \/ op.op = "counts" /\ CountsOp
         \/ op.op = "refresh" /\ Refresh
         \/ op.op = "receivers" /\ RefreshReceivers
         \/ op.op = "hello" /\ Hello
         \/ op.op = "all" /\ AllAdapters
         \/ op.op = "allCounts" /\ AllCounts
  /\ UNCHANGED <<vars, phase, session, disturbances, changes, pending>>

PublisherNext ==
  \/ SessionUp \/ SessionDrop \/ NewController \/ LoadInventory \/ Await
  \/ HomeAssistantOnline \/ ScanFinished
  \/ \E ip \in IPs, info \in Answers : ObserveDevice(ip, info)
  \/ \E m \in Macs : TimeOut(m) \/ RejectName(m)
  \/ \E m \in Macs, name \in Names \cup {None} : NameCommand(m, name)
  \/ \E u \in pending : Lock(u)
  \/ Perform

PublisherSpec == PublisherInit /\ [][PublisherNext]_allVars

-----------------------------------------------------------------------------
\* Nothing is on its way to the broker.
Settled == phase = "run" /\ session /\ pending = {} /\ work = Idle

\* Type correctness; the lock is held only for something left to do.
PublisherTypeOK ==
  /\ phase \in {"connect", "new", "loaded", "run"} /\ session \in BOOLEAN
  /\ adapters \in [Macs -> Adapter]
  /\ disturbances \in 0..MaxDisturbances /\ changes \in 0..MaxChanges
  /\ \A u \in pending : u.about \subseteq Macs /\ u.ops # <<>>
  /\ work = Idle \/ work.ops # <<>>
  /\ \A m \in Macs : /\ retained[m].avail \in {None, "online", "offline"}
                     /\ retained[m].channel \in Channels \cup {None}
                     /\ retained[m].ip \in IPs \cup {None}
                     /\ retained[m].role \in Roles \cup {None}
  /\ controller.avail \in {None, "online", "offline"}

\* Once nothing is on its way, a device that answers is available in Home
\* Assistant and one that does not is not, and it shows its name, role, channel
\* and address as the registry has them, whatever sweeps and reconnections
\* happened.  There are two exceptions, and the next publication of everything
\* mends both: two updates of one device under way together may come out in the
\* wrong order, and one that left the registry before Hydrate replaced what it
\* says may come out after everything.
StateShown ==
  Settled => \A m \in Known(adapters) \ mixed :
    /\ retained[m].avail = IF adapters[m].online THEN "online" ELSE "offline"
    /\ retained[m].name = DisplayName(m) /\ retained[m].role = adapters[m].role
    /\ adapters[m].channel # None => retained[m].channel = adapters[m].channel
    /\ adapters[m].ip # None => retained[m].ip = adapters[m].ip

\* ... and its entities are those of its role and no others, on a device that
\* has its name: an entity of another role or release is gone.
EntitiesShown ==
  Settled => \A m \in Known(adapters) \ mixed :
    /\ retained[m].configs = EntitiesFor(adapters[m].role)
    /\ retained[m].device = <<DisplayName(m), adapters[m].hw>>

\* ... and every receiver offers the transmitters there are, and shows the one
\* it is tuned to, although only updates of transmitters look at the others.
\* Here an exception of any device counts, and that names are plain
\* (PlainNames): otherwise two renames can change the table there and back.
SourcesShown ==
  Settled /\ mixed = {} => \A m \in Known(adapters) : adapters[m].role = "receiver" =>
    /\ retained[m].options = Options(Sources)
    /\ retained[m].source = SourceOn(Sources, adapters[m].channel)

\* ... and the controller is available with the right counts, in whatever order
\* the updates came.
ControllerShown ==
  Settled => controller.avail = "online" /\ controller.counts = Counts
=============================================================================
