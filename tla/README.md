# dt241m-controller: a TLA+ development

The controller keeps an inventory of DT241M video-over-IP transmitters and
receivers on a LAN, follows them as they move and fall silent, changes their
channels on command and presents all of it to Home Assistant over MQTT. The
hard part is that everything happens at once: poll workers, scan workers,
queued channel changes, broker callbacks and shutdown share one registry, and
the devices answer late, move, or answer in each other's place.

This directory holds the specifications, the TLC configurations that check them
on small instances, and proofs of the most important results for every size.
`PROJECT.json` lists components, runs, mutants, the map from definitions to
source lines, findings, hazards and theorems. Source paths below are under
`src/dt241m-controller/`.

## Inventory of the system

| part (source) | state | operations | interacts through | correct when |
|---|---|---|---|---|
| per-device queue (`internal/controller/queue.go`) | map of tails, WaitGroup | enqueue, wait | one goroutine per job, done channels | work of one device never overlaps, keeps its order, drains |
| registry (`internal/registry/registry.go`, `adapter.go`) | map MAC to adapter behind a lock | Hydrate, SetName, MarkOffline, RecordObservation, reads | called by every goroutine; returns copies | one online adapter per address; every change reported |
| source table (`internal/registry/sources.go`) | none, derived | Sources, ByLabel, ForChannel, Collisions | commands and publisher | a label selects the transmitter it names |
| device client (`internal/dt241m`) | none | GetDeviceInfo, SetChannel, Classify | HTTP under a context | an unknown outcome is never taken for a known one |
| devices (external) | address, channel | answer, apply now, late or never | LAN | environment |
| discovery and polling (`discovery.go`, `probe.go`) | discoveryDone, worker pools | RunDiscovery, ProbeKnownAddresses, PollKnownDevices, observe, markOffline | registry; callers join a running scan | calls return; the registry becomes true once the LAN is quiet |
| commands (`write.go`) | queue, one job's progress | ChangeChannel, ChangeSource and the work they queue | queue, registry, RunDiscovery, client | never writes to an unproved address or for a device of unknown role; outcomes are true; every command settles |
| lifecycle (`controller.go`, `main.go`) | started, lifetime, pollDone | New, Start, Stop, pollLoop, background, Rename | all of the above | a stop request drains everything; nothing outlives it |
| publisher (`publish.go`) | last counts, last sources, a lock | observation, renamed, offline, everything | registry, broker | retained topics end up equal to the registry |
| entities (`internal/mqtt/discovery.go`) | none | entitiesFor, StaleTopics, configs | publisher | a role change or an upgrade leaves no stale entity |
| persistence (`internal/store`) | rows, schema version | Open, migrate, LoadAll, Save, SetName | controller | a rename or an observation survives a restart; an interrupted upgrade can be repeated |
| MQTT connection and router (`internal/mqtt`) | session, connected flag, handlers | Publish, Subscribe, callbacks, route | broker, background goroutines | every session is served; the controller is unavailable when it is gone |
| configuration (`internal/config`) | options | ParseOptions, ScanHosts | files, supervisor | the scan covers just the usable addresses of the ranges, none public |

What is hard to test here, each at its line, is the `hazards` list of
`PROJECT.json`; the properties below are aimed at it.

## Modules

| module | models | notes |
|---|---|---|
| `SerialPerKey` | what the queue promises | abstract specification |
| `KeyedQueue` | `queue.go` step by step | implements `SerialPerKey` (`ImplementsSerial`) |
| `KeyedQueueProofs` | | queue theorems |
| `Inventory` | the operations of `registry.go` as operators on a map | shared by all modules with a registry |
| `Registry` | the registry as a component, callers in any order | |
| `SourceTable` | `sources.go` over every state of `Registry` | extends `Registry` |
| `InventoryProofs`, `RegistryProofs` | | what each operation does to each entry; theorems of the registry and of the source table |
| `Network` | the LAN and the client's two requests | the devices are external |
| `Discovery` | `discovery.go`, `probe.go`, Start, poll loop, rescan, end of life | extends `Network` |
| `WritePath` | `write.go` on top of all of `Discovery` | extends `Discovery` |
| `WritePathProofs` | | verified writes; types, addresses, roles and outcomes, of `Discovery` too |
| `Persistence`, `PersistenceProofs` | Save, SetName, LoadAll, persist, Rename, with crashes | extends `Inventory` |
| `Publisher`, `PublisherProofs` | `publish.go`, `mqtt/discovery.go`, sessions and start-up | extends `SourceTable` |
| `Lifecycle`, `LifecycleProofs` | `main.go`, Start and Stop, `paho.go`, `router.go` | |
| `Migration` | `Open` and `migrate` of `store.go` | |
| `ScanTargets` | `cidr.go` and the ranges of `ParseOptions` | loops against a definition by sets |
| `Startup`, `StartupProofs` | the order of these in `main.go`, with restarts | composes `Migration` and `ScanTargets` |
| `MC*` | | finite instances for the runs |

### How state and actions correspond to the code

**Queue.** `tails`, `wg` and `prev` are the code's map, counter and captured
channel; a done channel is identified with the job that closes it; `pc` is where
the goroutine is. `Enqueue` is the critical section, `Begin` the receive from
the predecessor and the call of the work, `Close`, `Release` and `Leave` the
deferred calls in the order in which Go runs them. `ahead` is history.

**Registry.** A MAC that is not in the map is the record `Absent`.
`Displacements` is a set because the loop over a Go map stops at the first match
in any order. `hw` stands for the four metadata strings; its `marks` are the
role marks in product and model, its `text` the rest. Timestamps are left out:
no decision reads them.

**Network.** A request's answer is computed when the device answers and applied
later by the goroutine that asked. `None` is any error: refusal, timeout, bad
JSON, ended context. `SetChannel` keeps apart what the caller learns (accepted,
ambiguous, rejected) and what the device does (apply now, later, never); a lost
acknowledgement is no proof that nothing was applied. `Move`, `FrontPanel`,
`TakeEffect` and `Settle` are the environment.

**Discovery.** `disc[c]` is where caller `c` is inside `RunDiscovery`; callers
are the poll loop (Start before it), the rescan button and, in `WritePath`, each
device's work. The scan feeds addresses in order to at most `Concurrency`
workers; an address without an answer occupies no worker because nothing of it
is left to apply. The two statements that end a scan (clear `discoveryDone`,
close `done`) are one step: a caller between them would start a new scan, which
the model allows right after. `pollPhase` walks through Start (load, the MQTT
wait, startup probe, startup scan) and then the poll loop; the broker's
callbacks run from the beginning, so a rescan may precede the load. `LoadFails`
is a LoadAll that fails, by itself or because the signal ended its context: Start
returns without a poll loop and main calls Stop, signal or not. Start runs
under the signal's context, everything else under the lifetime (`CtxDone`). An
adapter that `All()` does not return has no address in the snapshot and is
passed over like one without an address. Publishing and persisting, which
`observe` and `markOffline` do last, have no effect that this code reads; they
are in `Publisher` and `Persistence`.

**WritePath.** `queue[m]` holds the accepted channels of device `m`, the head
being worked on: the queue is used as `SerialPerKey` specifies it. `pc[m]` is
where the work is: ask, check (verify), search, role, write, read, readCheck,
settled. `ChangeSource` resolves the label to any known transmitter with a
channel, at request time, as the code does. `proved[m]` (in `Discovery`) and
`held[m]` are history: the addresses at which `m` was recorded since its work
began, and the channels it has been on since the write was sent.

**Persistence.** `db` is the table, a row being an adapter that is not online;
`Columns` are those that Save owns, the name is SetName's. Between the registry
and the table are `saves` (copies on their way to Save) and `renames` (goroutines
of Rename, before the registry or before the store). `Boot` is New, which wires
the broker's callbacks: from there on devices are observed and renamed, before
LoadAll, between it and Hydrate (`rows` is what was read) and after. `EndLife` is
the beginning of Stop, after Start or after a failed load; `Die` is the end of the
process at any point. Two histories say how far the code's promises reach:
`expected[m]` is the set of names a user may find, one unless a rename overtook
another, found no row, or met Hydrate or the end of the process; `mixed` are the
devices of which two copies were under way to Save together, or which Hydrate set
back behind their row or a copy under way (`SetBack`).

**Publisher.** An update is computed from the registry (`ObserveDevice`,
`TimeOut`, `NameCommand`, ...), waits in `pending` with its copy of the adapter
and its operations, takes the lock (`work`) and performs them one at a time
while the registry moves on. Updates leave from New on, so also before, and
across, Hydrate (`LoadInventory`). An answer that changes nothing still has the
table looked at if a transmitter gave it. `retained[m]` holds the last message of each topic
of an adapter, `configs` its entities. `lastSources` and `lastCounts` are the
code's. Without a session nothing reaches the broker; `SessionUp` calls the
handler once New has registered it, `Await` is Start's own wait. Messages of one
operation go out together: nobody else publishes meanwhile, and a session that
comes up between them is followed by everything. `mixed` is history: the devices
of which two updates were under way together, or whose entry Hydrate replaced
while an update of them was under way, until everything is published.

**Lifecycle.** `main` is where `run` is, `jobs` the goroutines of `background`,
`waiter` the goroutine in `inflight.Wait`: woken by the last Done, it returns
only if the counter is still zero. `link` distinguishes the session from the
flag: in `upping` the session is usable and `OnConnectionUp` has not run.
`avail` is the retained availability of the controller; the will sets it when a
session ends without a DISCONNECT. `disturbed` is history: which of the races of
Stop have happened.

**Migration.** `schema` is the number of migrations in the file, `version` is
`user_version`, `tx` what the open transaction sees. `GiveUp` is a failing
statement or the end of the process at any step. The code has one migration;
the module has any number, as its loop does.

**ScanTargets.** Addresses are numbers below `2^Width`. The loops of
`ParseOptions`, `Hosts` and `ScanHosts` run step by step; what they should
compute is defined by sets.

**Startup.** `run` parses the options, opens the database and only then starts
the controller, whose scans compute their targets; `EndProcess` is the end of
the process anywhere, after which the next start finds the file as it was left.

## Runs

| run | configuration | shows |
|---|---|---|
| `keyed_queue` | 4 jobs, 2 keys | mutual exclusion, order, draining, refinement, progress, and that `QueueInv` is an invariant |
| `source_table` | 2 devices (one spelling its MAC two ways), an unreadable MAC, 2 addresses, 2 channels, plain names | one online adapter per address; `Changed` covers displacements and every change of an online adapter; without channel collisions, labels select and show the right transmitter |
| `source_labels` (violation) | 2 devices, 1 address | labels are not unique when name and channel coincide |
| `settled_lan` | 2 devices, 2 addresses, 2 disturbances, losses, quiet at any point, stop, failing load, polls only | addresses stay unique, the registry becomes true for good |
| `rescan_race` (violation) | 2 devices, 1 disturbance, no losses, 1 rescan | a device that moves while it is polled may stay unavailable for ever |
| `write_path` | 2 devices (one of ambiguous role), 1 move or retune, losses, late writes, 1 command | verified address, unknown role refused, true outcome, `WriteInv` |
| `write_stop` | 1 device, 1 command, 1 rescan, losses, late writes, stop, failing load | what Stop waits for ends, every call of RunDiscovery returns, every command settles |
| `unreadable_mac` (violation) | a second device with an unreadable MAC, 2 disturbances | a write goes to an address not proved |
| `persistence` | 1 device, 3 name commands, 2 copies under way, all of it from New on; crashes and stops without bound | names survive, quiet rows are current, known devices get rows, with the exceptions below |
| `publisher` | a transmitter and a receiver that may change roles, 2 changes from New on, 1 lost session or restart of Home Assistant | availability, state, entities, sources, controller and counts end up right, with the exceptions below |
| `lifecycle` | 2 sessions, 2 messages, failing load, slow work, kill | sessions served, nothing outlives Stop, SIGTERM ends the process, unavailable afterwards, with the exceptions below |
| `startup` | all pairs of 60 ranges of 6-bit addresses; 3 migrations and a later release, broken off anywhere | targets exact and private, refusals right; version and schema agree, opened is current |

### Findings

1. `write.go:160` trusts the registry's online flag after a search. If the
   device now at the address reports a MAC that cannot be read, its answer is
   refused by the registry, displaces nobody, and the write is sent to it,
   contrary to the comment at `write.go:142` and to `DOCS.md:88`. `WritesAreVerified`
   proves that unreadable MACs are the only way: it holds whenever every MAC can
   be read.
2. `discovery.go:19`: a device that polls show online moves while the scan of a
   rescan is running and has passed its new address. The poll finds the old
   address silent, marks the device offline and joins that scan, which ends
   without it. Later polls see a device that was offline before and start no
   scan: it stays unavailable, contrary to `DOCS.md:88`, until something else
   scans. `MovedWhilePollingIsFoundAgain`, which the run checks, speaks only of
   devices shown online while the poll loop runs, so that nothing that happens
   during start-up counts. Without the rescan button (`settled_lan`) the claim
   holds for devices that are shown online when the LAN becomes quiet.
3. `sources.go:44`: name and channel together do not make a label unique,
   contrary to the comments at `sources.go:14` and `sources.go:28`.

### Exceptions the passing properties make

Where the code does less than its documents say, the passing property names the
exception by a history variable; without it TLC refutes the property.

* `NamesSurvive`: a name may be lost because two commands overtake each other
  (`controller.go:93`, contrary to `router.go:13`, "which is what preserves
  command order"), because the device has no row yet and the pending Save
  carries an older copy (`store.go:198`, contrary to `store.go:19`), because it
  comes between LoadAll and Hydrate, which puts the name read before it back into
  the registry (`controller.go:144`), or because the UPDATE runs under the context that Stop has cancelled
  (`controller.go:239`, while `DOCS.md:63` says the name is "stored in the
  add-on's database"). Nothing else loses one.
* `RowIsLatest`: two Saves of one device under way together may leave the older
  copy (`discovery.go:171`); nothing promises otherwise. And what a rescan saves,
  or is about to save, between LoadAll and Hydrate is newer than what Hydrate puts
  into the registry (`controller.go:144`), until the device changes again.
* `StopDrains`: when LoadAll has failed, because of the database or because the
  stop came during it, there is no poll loop to close pollDone, and Stop's wait
  for it lasts until its timeout (`controller.go:140`, `:168`). That it then ends
  is `StopEnds` of `lifecycle`.
* `StateShown` and `EntitiesShown`: an update that left the registry before
  Hydrate replaced the entry may be published after everything
  (`controller.go:144`); and two updates of one adapter may be published
  in the wrong order (`publish.go:72`). The comment at `publish.go:24` concedes
  it; `DOCS.md:82` and `DOCS.md:88` do not. Publishing everything mends it.
* `SourcesShown`: `refreshSources` (`publish.go:177`) compares with the last
  table it handled, not with what receivers were sent by their own updates; a
  table that changes and changes back while updates overlap leaves a receiver
  wrong, contrary to `CHANGELOG.md:23`. This takes three changes, one more than
  the run has: with `MaxChanges = 3`, `MaxDisturbances = 0` and one channel TLC
  refutes the property without its exception. An update that Hydrate overtook
  (`controller.go:144`) leaves a receiver wrong like its other topics, in two
  changes. And names
  must be plain (`PlainNames`: none reads like a disambiguated label, as those of
  the run): if transmitters named "C (ch 0)" and "C (ch 1)" on channels 0 and 1
  are both renamed "C", the table changes with the first rename and is what it
  was with the second, and a receiver published in between keeps the table in
  between although no updates of one device overlapped. With three devices, two
  channels and these names, TLC shows this in three changes.
* `NothingOutlivesStop`: work that the broker's callbacks start after the end of
  the lifetime may be missed by the WaitGroup's wait (`controller.go:107`), and
  work that outlasts the timeout is left behind.
* `OfflineAfterwards`: during Stop the broker's callbacks still start work, so
  that "online" may be published last (`controller.go:178`) and the WaitGroup
  may panic (`controller.go:107`); work that outlasts the timeout has the first
  effect, too; and the connected flag may lag, so that "offline" is skipped
  (`controller.go:177`, while `CHANGELOG.md:12` says that publishing "no longer
  depends on a connection flag that could lag the broker session").

Two more disagreements met while modelling are outside these properties. A
connection that breaks after the device applied the channel counts as rejected
(`write.go:102`), even when the readback shows the channel, although the comment
at `client.go:113` takes the outcome of a plain transport failure for known. And
counts and sources are remembered before they are sent (`publish.go:156`): a
message that fails in spite of a session is not repeated.

### Bounds and why they are enough

* `MaxDisturbances` bounds moves and front-panel changes. One is enough for a
  device to take over an address or to be found elsewhere, two for an exchange
  of addresses or for a device to leave and another to take its place.
* `MaxRescans`, `MaxCommands`: one rescan joins or is joined by the poll; one
  command per run meets every poll and scan; that commands of one device queue
  behind each other is `keyed_queue`'s subject. Polls are not bounded: the loop
  goes round.
* `Concurrency` 2 lets two answers be applied out of order; in `write_path` and
  `write_stop` it is 1 because the poll, the scan and the work are three goroutines already.
* `Attempts` 2 has a first attempt, a repeated one and an exhausted loop.
* Two addresses are the smallest scan that can pass an address before the
  device arrives there.
* `persistence`: two commands are the least that can overtake each other and the
  third comes after a restart or after both; nothing on the way to the database
  joins two devices. Crashes are not bounded.
* `publisher`: two changes are a device becoming known or another taking its
  address, and a change of it or of the other, both waiting for the lock; the
  disturbance puts everything between them. `Answers` leaves out that a device
  answers in its unusual role on the second channel; the proofs have any answers.
* `lifecycle`: the second session is one that is found again, the second message
  one that meets the work of the first.
* `startup`: the private blocks have three sizes, the smallest as wide as
  the widest range, as in the code; the ranges lie at, around and within their
  ends and those of the address space, with and without host bits.

`CHECK_DEADLOCK FALSE` is set where the system may stop: all jobs done
(`keyed_queue`), the process told to stop (`settled_lan`, `write_stop`), the
process ended (`lifecycle`), or the environment's bound used up (`write_path`,
`unreadable_mac`, `publisher`). `source_table`, `persistence` and `startup` check
deadlock.

### Fairness

Weak fairness of goroutines that can go on: Go's scheduler runs them. A request
ends because it has a timeout, hence its answer is eventually applied; the
ticker ticks; `main` calls Stop after the signal. The single database connection serves Saves and
renames (`Persistence`); autopaho calls its callbacks and the shutdown timer
fires (`Lifecycle`). No fairness is assumed of
users, of sessions coming up, of the LAN, of late writes or of `Settle`. `settled_lan` assumes a quiet
LAN in its properties (`calm`), not in the specification.

## What is proved

Every invariant that a passing run checks, and every action property, is a
theorem for all values of the constants. Each rests on an inductive invariant.

* **Queue** (`KeyedQueueProofs`), for any finite set of jobs and any keys.
  `OneAtATime` alone is not inductive. `QueueInv` adds that the tail of a key is
  its latest job, that a missing tail means that all jobs of the key have
  closed, that a job's predecessor is the latest of those ahead of it, and that
  the counter is the number of pending jobs. From it follow mutual exclusion
  (`QueueMutualExclusion`), draining (`WaitMeansDrained`), types, and that each
  step is a step of `SerialPerKey` or a stutter (`QueueImplementsSerial`, the
  safety part of `ImplementsSerial`).
* **Registry** (`RegistryProofs`), for any devices, addresses and database:
  the types, `AtMostOneOnlinePerIP` and `DisplacementIsAChange` together are
  inductive; the displacement of one adapter suffices because there was at most
  one. `EveryChangeIsReported` is the action property `ChangesAreReported`: it
  goes through what each operation does to each entry (`InventoryProofs`).
* **Source table** (`RegistryProofs`): `EachSelectableAndShown` for every
  set of names, from the assumption `PlainNames` (no name reads like a
  disambiguated one) and the injectivity of the formatting.
* **Write path** (`WritePathProofs`), for any devices, addresses, workers,
  commands and disturbances.
  * Assuming `ReadableMacs`: `WriteInv` is inductive, and `VerifiedBeforeWrite`
    follows. While a command is verified, the registry
    may believe its device online only at the address being asked or at one
    recorded since; silence takes it offline, another device's answer displaces
    it, so that after a search "online" means "recorded since". This is exactly
    what an unreadable MAC breaks. Answers under way must be known to be readable
    (`AnswerInv`), and the addresses unique (`PlaceInv`), for the displacement to
    hit the right adapter.
  * Without that assumption: types (`WorkTypes`, which adds that work searches
    just while it is inside `RunDiscovery`); `OneOnlinePerAddress` (an answer
    without a MAC changes nothing), also for `Discovery` on its own
    (`DiscoveryTyped`); `UnknownRoleIsRefused`, which is about the command's own
    device and not about whatever else may be at the address (`RoleInv`:
    the role in the database may be out of date, but whoever is online, or is
    known before the database is read, has the role its device reported, and
    work that gets as far as the role check has seen its device or was accepted
    on such a word); `MatchedIsTrue` (`ReportInv`: what work reads back from its
    own device, the device has been on since the write was sent, because an
    answer still under way was given since).
* **Lifecycle** (`LifecycleProofs`), for any number of sessions and messages:
  `OfflineAfterwards`, `SessionServed`, `NothingOutlivesStop` and the types.
  `LifecycleInv` says who still has to subscribe an announced session and to say
  "online" (a background job, or Start in place of the handler that was not yet
  registered), that without a live session the broker does not say "online",
  and that after an undisturbed drain nobody is left who could; that no poll loop
  runs before it is started, and that past each wait of Stop what it waited for is
  over unless the timeout or a late callback came in between.
* **Persistence** (`PersistenceProofs`), for any devices, names, crashes and
  copies under way: `NamesSurvive`, `RowIsLatest` and the types. `PersistInv`
  adds what is in hand: a rename before the database has given its name to the
  registry and is expected; a copy that will insert its row carries an expected
  name; the one copy under way, or else the row, is what the registry shows,
  in every phase from New on; and between LoadAll and Hydrate the rows in hand
  carry expected names.
  The assumption on `Inventories` is that a MAC without a row is `Absent`.
* **Publisher** (`PublisherProofs`), for any devices, changes, sessions and
  restarts of Home Assistant. The properties speak of settled states only and
  are far from inductive. `PublisherInv`: as long as a topic is wrong, something
  that will set it right is under way, with a copy that is current unless
  updates of its adapter overlapped each other or Hydrate. `Carries` says of a change of the registry
  that its update carries whatever it changed; that this suffices is one lemma,
  that each change does so one lemma each. `StateShown`, `EntitiesShown` and
  `ControllerShown` follow. `SourcesShown` is harder because a receiver depends
  on all transmitters, while `refreshSources` compares with the last table only.
  `SourcesInv` relates that table to a past registry: of whatever changed since,
  a refresh is under way, and no receiver is behind it. It needs `PlainNames`,
  by which equal tables mean equal names and channels, and is false without it
  (see the exceptions above).
* **Start** (`StartupProofs`).
  * Opening the database, for any number of migrations and later releases:
    `VersionTellsSchema`, `OpenMeansCurrent` and `OnlyNewerRefused` follow from
    `MigrationInv`, which says at each step what the local variable and the open
    transaction know of the file. It is needed because the version read at the
    beginning is used after steps that change the file.
  * `Startup` implements `Migration` (`StartupImplementsMigration`), so that all
    of this holds of every start, in main's order and broken off anywhere.
  * `TargetsExact`, for addresses of any width, any private blocks and any lists
    of ranges. The loops are actions, so that an invariant takes the place of an
    induction: `ScanInv` says that the targets so far are the usable addresses of
    the ranges finished and those the current range has passed. Beside it there
    are lemmas that a block is an interval beginning at the masked address, that
    the loop's bounds enumerate its usable addresses, and that comparing lengths
    and testing the first address is inclusion of blocks (`ContainsIsSubset`). The
    last needs private blocks written without host bits (`BlocksAligned`), as the
    code's are.

The assumptions on constants are the `ASSUME`s of the component modules; TLC
evaluates them in the runs. All but one say what the code's constants are like;
`PowersOfTwo` in `ScanTargets` states three facts of arithmetic (2^1 = 2, powers
are positive, the law of exponents), which the provers do not have.

## Only model-checked

Liveness (`EveryJobLeaves`, `EveryCallReturns`, `StopDrains`,
`SilentBecomesUnavailable`, `MovedIsFoundAgain`, `EveryCommandSettles`,
`KnownBecomesStored`, `StopEnds`, the progress part of `ImplementsSerial`), which
TLAPS does not handle.

## Not modelled, and why

* The wire format of the device protocol, JSON, topic and payload syntax, the
  regular expressions of MACs and names: conversions whose results are inputs of
  the model (valid or not, which MAC).
* autopaho, SQLite, the broker and the devices: external, modelled by what the
  code relies on.
* Reading options, environment and the supervisor API: I/O. The bounds of the
  other options are single comparisons.
* A Save or a publication that fails although the database or the session is
  there: the code logs it and goes on; the row or the topic is stale until the
  next change.
* Which MQTT deliveries are acted on is one test of the retain flag
  (`paho.go:103`, `Accepted` in `Lifecycle`): it is in the model, without a
  property of its own.
* Logging, timestamps, test doubles.

## Plan

1. The safety side of the liveness properties: that a call of `RunDiscovery` is
   never left waiting for a scan nobody runs, that a command in work always has a
   next step, as invariants with proofs.
2. An abstract specification of the publisher ("retained follows the registry")
   and a proof that single-adapter updates implement it when they do not
   overlap.
3. The write path's queue as an instance of `SerialPerKey`, so that the two are
   joined by a refinement as `Startup` and `Migration` are.
