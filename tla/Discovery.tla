----------------------------- MODULE Discovery ------------------------------
(***************************************************************************)
(* Finding devices and keeping track of them: the startup probe, the poll   *)
(* loop, the full scan that any number of callers share, and the rescan     *)
(* button (internal/controller/discovery.go, probe.go and the parts of      *)
(* controller.go that call them).                                           *)
(*                                                                         *)
(* A request is two steps: the device answers, and later the goroutine that  *)
(* asked applies the answer to the registry; in between anything may have    *)
(* happened.  What publishing and persisting do with an observation does not *)
(* feed back into these decisions and is not part of this module.            *)
(***************************************************************************)
EXTENDS Network, Sequences

CONSTANTS Callers,       \* who may call RunDiscovery: "poller", "rescan", ...
          MacOrder,      \* the MACs in the order All() sorts them
          ScanOrder,     \* the addresses of the scan ranges in order
          Concurrency,   \* discovery_concurrency
          Inventories,   \* what the database may hold when Start reads it, by
                         \* then also what a rescan has found: Macs -> Adapter
          MaxRescans,    \* bound on presses of the rescan button
          MayStop        \* whether the process may be told to stop

ASSUME CallersType == {"poller", "rescan"} \subseteq Callers
ASSUME OrdersType == /\ MacOrder \in Seq(Macs) /\ ScanOrder \in Seq(IPs)
                     /\ Concurrency \in Nat \ {0} /\ MaxRescans \in Nat
                     /\ MayStop \in BOOLEAN
ASSUME InventoriesType == Inventories \subseteq [Macs -> Adapter]

VARIABLES adapters,   \* the registry
          life,       \* "up", "signalled" (Start's context ended), "stopping"
          disc,       \* caller -> where its call of RunDiscovery is
          scanNext,   \* index of the next address the scan feeds its workers
          scanBusy,   \* answers of the scan its workers have yet to apply
          pollPhase,  \* where Start and then the poll loop are
          pollTodo,   \* adapters (mac, ip, online) yet to be asked
          pollBusy,   \* those asked, with the reply to apply
          pollNeed,   \* needsRediscovery
          rescans,
          proved      \* history: MAC with a channel change under way -> the
                      \* addresses it was recorded at since; None for others

discVars == <<adapters, life, disc, scanNext, scanBusy, pollPhase, pollTodo,
              pollBusy, pollNeed, rescans, proved>>
scanVars == <<disc, scanNext, scanBusy, rescans>>
pollVars == <<pollPhase, pollTodo, pollBusy, pollNeed>>

DiscoveryInit ==
  /\ adapters = [m \in Macs |-> Absent]
  /\ life = "up"
  /\ disc = [c \in Callers |-> "out"]
  /\ scanNext = 1 /\ scanBusy = {}
  /\ pollPhase = "load" /\ pollTodo = <<>> /\ pollBusy = {} /\ pollNeed = FALSE
  /\ rescans = 0
  /\ proved = [m \in Macs |-> None]

Starting == pollPhase \in {"load", "boot", "startup", "startupSearch"}

\* The context of a caller has ended: Start runs under the signal's context,
\* everything else under the controller's lifetime.
CtxDone(c) == IF c = "poller" /\ Starting THEN life # "up" ELSE life = "stopping"

-----------------------------------------------------------------------------
(* Plausible slips, used by the mutants.                                    *)

SearchNeededIfTaken(e) == e.reply # None /\ Normalize[e.reply.lanMAC] # e.mac

ScanOverWhenFed(c) == scanNext > Len(ScanOrder)

WakeOwner(c) == IF disc[c] = "scanning" THEN "returned" ELSE disc[c]

-----------------------------------------------------------------------------
\* observe: the registry takes in an answer; whoever is changing that device's
\* channel has its address proved.
Observe(ip, info) ==
  LET m == Normalize[info.lanMAC]
  IN  /\ \E d \in Displacements(adapters, ip, m) :
            adapters' = RecordObservation(adapters, ip, info, d)
      /\ proved' = IF m = None THEN proved
                   ELSE IF proved[m] = None THEN proved
                   ELSE [proved EXCEPT ![m] = @ \cup {ip}]

(* RunDiscovery: one scan at a time, later callers wait for it.              *)

Scanning == \E c \in Callers : disc[c] = "scanning"

\* The caller's turn under discoveryMu: join the scan that runs, start one,
\* or do nothing when the controller is stopping.
Enter(c) ==
  /\ disc[c] = "enter"
  /\ disc' = [disc EXCEPT ![c] = IF Scanning THEN "joined"
                                 ELSE IF life = "stopping" THEN "returned"
                                 ELSE "scanning"]
  /\ UNCHANGED <<adapters, life, scanNext, scanBusy, rescans, proved>>
  /\ UNCHANGED pollVars

\* waitFor: the context ends before the scan does.
GiveUp(c) ==
  /\ disc[c] = "joined" /\ CtxDone(c)
  /\ disc' = [disc EXCEPT ![c] = "returned"]
  /\ UNCHANGED <<adapters, life, scanNext, scanBusy, rescans, proved>>
  /\ UNCHANGED pollVars

\* forEach feeds the next address to a free worker, and the device there
\* answers or not; an address that does not answer is skipped.
ScanAsk(c) ==
  /\ disc[c] = "scanning" /\ ~CtxDone(c)
  /\ scanNext <= Len(ScanOrder) /\ Cardinality(scanBusy) < Concurrency
  /\ \E info \in GetDeviceInfo(ScanOrder[scanNext], FALSE) :
        scanBusy' = IF info = None THEN scanBusy
                    ELSE scanBusy \cup {[ip |-> ScanOrder[scanNext], info |-> info]}
  /\ scanNext' = scanNext + 1
  /\ UNCHANGED <<adapters, life, disc, rescans, proved>>
  /\ UNCHANGED pollVars

\* OnHit.
ScanHit(hit) ==
  /\ Observe(hit.ip, hit.info)
  /\ scanBusy' = scanBusy \ {hit}
  /\ UNCHANGED <<life, disc, scanNext, rescans>>
  /\ UNCHANGED pollVars

\* Where the end of the scan leaves a caller: its owner and all who joined it
\* go on, because done is closed.
Wake(c) == IF disc[c] \in {"scanning", "joined"} THEN "returned" ELSE disc[c]

\* forEach has fed the whole range, or stopped feeding at the end of the context.
ScanOver(c) == scanNext > Len(ScanOrder) \/ CtxDone(c)

\* The workers are done; discoveryDone is cleared and closed in one step, since
\* nothing of the scan is left to do in between.
ScanEnd(c) ==
  /\ disc[c] = "scanning"
  /\ ScanOver(c)
  /\ scanBusy = {}
  /\ disc' = [x \in Callers |-> Wake(x)]
  /\ scanNext' = 1
  /\ UNCHANGED <<adapters, life, scanBusy, rescans, proved>>
  /\ UNCHANGED pollVars

(* The rescan button: a background goroutine that calls RunDiscovery.         *)

RescanPress ==
  /\ disc["rescan"] = "out" /\ rescans < MaxRescans
  /\ disc' = [disc EXCEPT !["rescan"] = "enter"]
  /\ rescans' = rescans + 1
  /\ UNCHANGED <<adapters, life, scanNext, scanBusy, proved>>
  /\ UNCHANGED pollVars

RescanReturn ==
  /\ disc["rescan"] = "returned"
  /\ disc' = [disc EXCEPT !["rescan"] = "out"]
  /\ UNCHANGED <<adapters, life, scanNext, scanBusy, rescans, proved>>
  /\ UNCHANGED pollVars

(* Start and the poll loop.                                                  *)

\* Start reads the database into the registry.  The broker's callbacks are
\* wired before, so that a rescan may already have found devices, and the
\* signal may come just after the rows have been read.
Load ==
  /\ pollPhase = "load"
  /\ \E rows \in Inventories : adapters' = Hydrate(adapters, rows)
  /\ pollPhase' = "boot"
  /\ UNCHANGED <<life, pollTodo, pollBusy, pollNeed, proved>>
  /\ UNCHANGED scanVars

\* LoadAll fails, because of the database or because the signal's context has
\* ended: Start returns the error and there never is a poll loop.
LoadFails ==
  /\ pollPhase = "load"
  /\ pollPhase' = "failed"
  /\ UNCHANGED <<adapters, life, pollTodo, pollBusy, pollNeed, proved>>
  /\ UNCHANGED scanVars

\* What All() copies of the adapters: a MAC not in the map has no address.
Snapshot == [i \in 1..Len(MacOrder) |->
               [mac |-> MacOrder[i], ip |-> adapters[MacOrder[i]].ip,
                online |-> adapters[MacOrder[i]].online]]

\* ProbeKnownAddresses, then PollKnownDevices on every tick.
SweepBegin ==
  /\ \/ pollPhase = "boot" /\ pollPhase' = "startup"
     \/ pollPhase = "idle" /\ life # "stopping" /\ pollPhase' = "sweep"
  /\ pollTodo' = Snapshot
  /\ pollNeed' = FALSE
  /\ UNCHANGED <<adapters, life, pollBusy, proved>>
  /\ UNCHANGED scanVars

\* An adapter without a last-known address is passed over.
HasAddress(a) == a.ip # None

\* forEach gives the next adapter to a free worker, and the device at its
\* last-known address answers or not.
SweepAsk ==
  /\ pollTodo # <<>> /\ Cardinality(pollBusy) < Concurrency
  /\ ~CtxDone("poller")
  /\ LET next == Head(pollTodo)
     IN  IF HasAddress(next)
           THEN \E info \in GetDeviceInfo(next.ip, FALSE) :
                  pollBusy' = pollBusy \cup {[mac |-> next.mac, ip |-> next.ip,
                                              online |-> next.online, reply |-> info]}
           ELSE UNCHANGED pollBusy
  /\ pollTodo' = Tail(pollTodo)
  /\ UNCHANGED <<adapters, life, pollPhase, pollNeed, proved>>
  /\ UNCHANGED scanVars

\* Whether a poll's reply calls for a rescan: another device answered, or one
\* that was online when the poll began did not.
SearchNeeded(e) == IF e.reply = None THEN e.online
                   ELSE Normalize[e.reply.lanMAC] # e.mac

\* observeAt and what its callers do with the outcome; the startup probe
\* ignores it.
SweepReply(e) ==
  /\ pollBusy' = pollBusy \ {e}
  /\ IF e.reply # None THEN Observe(e.ip, e.reply)
     ELSE /\ adapters' = IF pollPhase = "sweep" THEN MarkOffline(adapters, e.mac)
                                                ELSE adapters
          /\ UNCHANGED proved
  /\ pollNeed' = (pollNeed \/ (pollPhase = "sweep" /\ SearchNeeded(e)))
  /\ UNCHANGED <<life, pollPhase, pollTodo>>
  /\ UNCHANGED scanVars

\* forEach returns; Start always scans, a poll only when it has to.
SweepEnd ==
  /\ pollPhase \in {"startup", "sweep"}
  /\ pollTodo = <<>> \/ CtxDone("poller")
  /\ pollBusy = {}
  /\ pollTodo' = <<>> /\ pollNeed' = FALSE
  /\ IF pollPhase = "startup" \/ (pollNeed /\ life # "stopping")
       THEN /\ pollPhase' = IF pollPhase = "startup" THEN "startupSearch" ELSE "search"
            /\ disc' = [disc EXCEPT !["poller"] = "enter"]
       ELSE pollPhase' = "idle" /\ UNCHANGED disc
  /\ UNCHANGED <<adapters, life, scanNext, scanBusy, pollBusy, rescans, proved>>

PollReturn ==
  /\ disc["poller"] = "returned"
  /\ disc' = [disc EXCEPT !["poller"] = "out"]
  /\ pollPhase' = "idle"
  /\ UNCHANGED <<adapters, life, scanNext, scanBusy, pollTodo, pollBusy, pollNeed,
                 rescans, proved>>

\* pollLoop sees the end of the lifetime and closes pollDone.
PollLoopEnd ==
  /\ pollPhase = "idle" /\ life = "stopping"
  /\ pollPhase' = "ended"
  /\ UNCHANGED <<adapters, life, pollTodo, pollBusy, pollNeed, proved>>
  /\ UNCHANGED scanVars

(* The process is told to stop: Start's context ends at once, the lifetime    *)
(* when main, after Start has returned, calls Stop.  A failed Start makes main *)
(* call Stop without a signal.                                                *)

Signal == /\ MayStop /\ life = "up"
          /\ life' = "signalled"
          /\ UNCHANGED <<adapters, proved>> /\ UNCHANGED scanVars /\ UNCHANGED pollVars

EndLife == /\ \/ life = "signalled" /\ ~Starting
              \/ life = "up" /\ pollPhase = "failed"
           /\ life' = "stopping"
           /\ UNCHANGED <<adapters, proved>> /\ UNCHANGED scanVars /\ UNCHANGED pollVars

-----------------------------------------------------------------------------
ScanStep(c) == Enter(c) \/ GiveUp(c) \/ ScanAsk(c) \/ ScanEnd(c)

ScanHits == \E hit \in scanBusy : ScanHit(hit)
SweepReplies == \E e \in pollBusy : SweepReply(e)

PollStep == \/ Load \/ LoadFails \/ SweepBegin \/ SweepAsk \/ SweepReplies \/ SweepEnd
            \/ PollReturn \/ PollLoopEnd

DiscoveryNext == \/ \E c \in Callers : ScanStep(c)
                 \/ ScanHits
                 \/ RescanPress \/ RescanReturn
                 \/ PollStep
                 \/ Signal \/ EndLife

Init == NetworkInit /\ DiscoveryInit

vars == <<netVars, discVars>>

Next == \/ DiscoveryNext /\ UNCHANGED netVars
        \/ NetworkNext /\ UNCHANGED discVars

\* Goroutines run, requests end by their timeouts, the ticker ticks, main
\* reacts to the signal.  Nothing is assumed of users or of the LAN.
Fairness == /\ \A c \in Callers : WF_vars(ScanStep(c) /\ UNCHANGED netVars)
            /\ WF_vars(ScanHits /\ UNCHANGED netVars)
            /\ WF_vars(RescanReturn /\ UNCHANGED netVars)
            /\ WF_vars(PollStep /\ UNCHANGED netVars)
            /\ WF_vars(EndLife /\ UNCHANGED netVars)

Spec == Init /\ [][Next]_vars /\ Fairness

-----------------------------------------------------------------------------
SweepEntry == [mac : Macs, ip : IPs \cup {None}, online : BOOLEAN]

\* Type correctness of the discovery state.
TypeOK ==
  /\ at \in Placements /\ tuned \in [Devices -> Channels]
  /\ adapters \in [Macs -> Adapter]
  /\ life \in {"up", "signalled", "stopping"}
  /\ disc \in [Callers -> {"out", "enter", "joined", "scanning", "returned"}]
  /\ scanNext \in 1..(Len(ScanOrder) + 1)
  /\ scanBusy \subseteq [ip : IPs, info : DeviceInfo]
  /\ pollPhase \in {"load", "boot", "startup", "startupSearch", "idle", "sweep", "search",
                   "ended", "failed"}
  /\ pollTodo \in Seq(SweepEntry)
  /\ \A e \in pollBusy : e.mac \in Macs /\ e.ip \in IPs /\ e.reply \in DeviceInfo \cup {None}
  /\ proved \in [Macs -> (SUBSET IPs) \cup {None}]

\* One address never hosts two online adapters, whatever late answers the
\* poll's and the scan's workers apply and in whatever order.
OneOnlinePerAddress == \A ip \in IPs : \A m, n \in OnlineAt(adapters, ip) : m = n

\* Every call of RunDiscovery returns, whether it scanned, joined a scan that
\* somebody else started, or gave up.
EveryCallReturns == \A c \in Callers : disc[c] = "enter" ~> disc[c] \in {"returned", "out"}

\* After a stop request, or a Start that failed, everything Stop waits for ends:
\* no call of RunDiscovery is left, and the poll loop closes pollDone, whatever
\* they were doing.  The exception is a Start whose LoadAll failed, for instance
\* because the stop came during it: then there is no poll loop to close
\* pollDone, and what ends that wait of Stop is its timeout.
StopDrains == life # "up" \/ pollPhase = "failed" ~>
                /\ pollPhase \in {"ended", "failed"}
                /\ \A c \in Callers : disc[c] = "out"

Located(m) == \A d \in DevicesOf(m) : adapters[m].online /\ adapters[m].ip = at[d]

\* Once the LAN is quiet, a device that is off and is not just shown offline
\* already is eventually and for good shown offline, unless the process is told
\* to stop.
SilentBecomesUnavailable ==
  \A m \in Macs : calm /\ (\A d \in DevicesOf(m) : at[d] = None)
                    ~> life # "up" \/ [](~adapters[m].online)

\* Once the LAN is quiet, a device that answers somewhere and that the
\* registry still shows online, at whatever address, is found where it is and
\* stays found, unless the process is told to stop: the poll notices that it
\* moved and its rescan finds it.
MovedIsFoundAgain ==
  \A m \in Macs : calm /\ adapters[m].online /\ (\A d \in DevicesOf(m) : at[d] # None)
                    ~> life # "up" \/ [](Located(m))

\* Whether the poll loop runs, after Start.
Polling == pollPhase \in {"idle", "sweep", "search"}

\* The same of a device that the running poll loop shows online.
MovedWhilePollingIsFoundAgain ==
  \A m \in Macs :
    calm /\ Polling /\ adapters[m].online /\ (\A d \in DevicesOf(m) : at[d] # None)
      ~> life # "up" \/ [](Located(m))
=============================================================================
