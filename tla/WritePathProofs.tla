-------------------------- MODULE WritePathProofs ---------------------------
(***************************************************************************)
(* What holds of channel changes for every number of devices, addresses,      *)
(* commands, workers and disturbances.  First, as long as every device on the *)
(* LAN reports a MAC that can be read: a channel is never written to an        *)
(* address at which the device has not been seen since the work on the         *)
(* command began.  Then, whatever MACs the devices report: the types, that no   *)
(* command for a device of unknown role is carried out, and that "matched" is   *)
(* true.                                                                     *)
(***************************************************************************)
EXTENDS WritePath, InventoryProofs, SequenceTheorems

Watches == (SUBSET IPs) \cup {None}

\* What the devices answer is well typed and has a readable MAC.
LEMMA ReplyReadable ==
  ASSUME ReadableMacs, tuned \in [Devices -> Channels], NEW ip, NEW done,
         NEW info \in GetDeviceInfo(ip, done)
  PROVE  info \in Readable \cup {None}
<1>1. \A d \in Devices : InfoOf(d) \in DeviceInfo /\ InfoOf(d).lanMAC = MacOf[d]
  BY DevicesType DEF InfoOf, DeviceInfo
<1>2. \A d \in Devices : InfoOf(d) \in Readable
  BY <1>1 DEF Readable, ReadableMacs
<1>3. info = None \/ \E d \in Devices : info = InfoOf(d)
  BY DEF GetDeviceInfo, DevicesAt
<1> QED  BY <1>2, <1>3

\* An answer taken in by whichever goroutine.  The device that answered is
\* online at that address, which is proved if a command of it is under way;
\* whoever else is still online was so before, at another address.
LEMMA ObserveEffect ==
  ASSUME PlaceInv, proved \in [Macs -> Watches],
         NEW ip \in IPs, NEW info \in Readable, Observe(ip, info)
  PROVE  /\ PlaceInv' /\ proved' \in [Macs -> Watches]
         /\ \A x \in Macs :
              /\ proved[x] \in SUBSET IPs => /\ proved'[x] \in SUBSET IPs
                                             /\ proved[x] \subseteq proved'[x]
              /\ x = Normalize[info.lanMAC] /\ proved[x] \in SUBSET IPs => ip \in proved'[x]
              /\ adapters'[x].online =>
                   \/ x = Normalize[info.lanMAC] /\ adapters'[x].ip = ip
                   \/ /\ adapters[x].online /\ adapters[x].ip # ip
                      /\ adapters'[x].ip = adapters[x].ip
<1> DEFINE m == Normalize[info.lanMAC]
<1>0. PICK d \in Displacements(adapters, ip, m) :
         adapters' = RecordObservation(adapters, ip, info, d)
  BY DEF Observe
<1>1. adapters \in [Macs -> Adapter] /\ info \in DeviceInfo /\ m # None
  BY DEF PlaceInv, Readable
<1>2. adapters' \in [Macs -> Adapter]
  BY <1>0, <1>1, RecordType
<1>3. /\ m \in Macs
      /\ adapters'[m] = [known |-> TRUE, role |-> Classify(info.hw), ip |-> ip,
                         name |-> adapters[m].name, hw |-> info.hw,
                         channel |-> info.channel, online |-> TRUE]
  BY <1>0, <1>1, RecordOwn
<1>4. adapters'[m].known = TRUE /\ adapters'[m].ip = ip
  BY <1>3
<1>5. \A x \in Macs \ {m} : /\ adapters'[x].online => adapters[x].online /\ x # d
                            /\ adapters'[x].ip = adapters[x].ip
                            /\ adapters'[x].known = adapters[x].known
  BY <1>0, <1>1, RecordOther
<1>6. \A x \in OnlineAt(adapters, ip) \ {m} : x = d
  BY DEF PlaceInv, OneOnlinePerAddress, Displacements
<1> HIDE DEF m
<1>7. \A x \in Macs \ {m} : adapters'[x].online => adapters[x].ip # ip
  BY <1>5, <1>6 DEF PlaceInv, OnlineAt
<1>8. \A x \in Macs : adapters'[x].online => adapters'[x].known /\ adapters'[x].ip # None
  BY <1>4, <1>5, NoneIsFresh DEF PlaceInv
<1>9. OneOnlinePerAddress'
  <2>1. \A x, y \in Macs :
           (/\ adapters'[x].online /\ adapters'[y].online
            /\ adapters'[x].ip = adapters'[y].ip /\ adapters'[x].ip \in IPs) => x = y
    <3> SUFFICES ASSUME NEW x \in Macs, NEW y \in Macs,
                        adapters'[x].online, adapters'[y].online,
                        adapters'[x].ip = adapters'[y].ip, adapters'[x].ip \in IPs
                 PROVE  x = y
      OBVIOUS
    <3>1. CASE x = m \/ y = m
      BY <3>1, <1>4, <1>5, <1>7
    <3>2. CASE x # m /\ y # m
      <4>1. x \in OnlineAt(adapters, adapters'[x].ip) /\ y \in OnlineAt(adapters, adapters'[x].ip)
        BY <3>2, <1>5 DEF OnlineAt, PlaceInv
      <4> QED  BY <4>1 DEF PlaceInv, OneOnlinePerAddress
    <3> QED  BY <3>1, <3>2
  <2> QED  BY <2>1 DEF OneOnlinePerAddress, OnlineAt
<1>10. proved' = IF proved[m] = None THEN proved ELSE [proved EXCEPT ![m] = @ \cup {ip}]
  BY <1>1 DEF Observe, m
<1>11. proved' \in [Macs -> Watches]
  BY <1>3, <1>10, NoneIsNoSet DEF Watches
<1>12. \A x \in Macs :
          /\ proved[x] \in SUBSET IPs => /\ proved'[x] \in SUBSET IPs
                                         /\ proved[x] \subseteq proved'[x]
          /\ x = m /\ proved[x] \in SUBSET IPs => ip \in proved'[x]
  BY <1>3, <1>10, NoneIsNoSet
<1>13. PlaceInv'
  BY <1>2, <1>8, <1>9 DEF PlaceInv
<1> QED  BY <1>4, <1>5, <1>7, <1>11, <1>12, <1>13 DEF m

\* A device that does not answer goes offline, and the others stay put.
LEMMA SilenceEffect ==
  ASSUME PlaceInv, NEW m \in Macs, adapters' = MarkOffline(adapters, m)
  PROVE  /\ PlaceInv' /\ ~adapters'[m].online
         /\ \A x \in Macs : adapters'[x].online =>
              adapters[x].online /\ adapters'[x].ip = adapters[x].ip
<1>1. /\ adapters \in [Macs -> Adapter]
      /\ \A x \in Macs : adapters[x].online => adapters[x].known
  BY DEF PlaceInv
<1>2. /\ adapters' \in [Macs -> Adapter]
      /\ ~adapters'[m].online
      /\ \A x \in Macs : /\ adapters'[x].online => adapters[x].online /\ x # m
                         /\ adapters'[x].ip = adapters[x].ip
                         /\ adapters'[x].known = adapters[x].known
  BY <1>1, MarkOfflineEffect
<1>3. OneOnlinePerAddress'
  BY <1>2 DEF PlaceInv, OneOnlinePerAddress, OnlineAt
<1> QED  BY <1>2, <1>3 DEF PlaceInv

\* The address of a device at work was kept or proved anew.
Kept(x) == /\ proved[x] \in SUBSET IPs => /\ proved'[x] \in SUBSET IPs
                                          /\ proved[x] \subseteq proved'[x]
           /\ adapters'[x].online =>
                \/ adapters[x].online /\ adapters'[x].ip = adapters[x].ip
                \/ proved[x] \in SUBSET IPs => adapters'[x].ip \in proved'[x]

\* Work that does not move stays on track whatever else happens, as long as
\* the registry moves its device only to addresses that are thereby proved.
LEMMA TrackFrame ==
  ASSUME NEW x \in Macs, OnTrack(x), Kept(x),
         pc'[x] = pc[x], addr'[x] = addr[x], disc[x] = "out" => disc'[x] = "out"
  PROVE  OnTrack(x)'
BY DEF OnTrack, Kept

\* What an answer taken in does for every device's work.
LEMMA ObserveKeeps ==
  ASSUME PlaceInv, proved \in [Macs -> Watches],
         NEW ip \in IPs, NEW info \in Readable, Observe(ip, info)
  PROVE  /\ PlaceInv' /\ proved' \in [Macs -> Watches]
         /\ \A x \in Macs : Kept(x)
BY ObserveEffect DEF Kept

\* What silence does for it.
LEMMA SilenceKeeps ==
  ASSUME PlaceInv, NEW m \in Macs, adapters' = MarkOffline(adapters, m),
         proved' = proved
  PROVE  PlaceInv' /\ \A x \in Macs : Kept(x)
BY SilenceEffect DEF Kept

\* A step of discovery that keeps its own part of the invariant keeps all of it.
LEMMA BesideFrame ==
  ASSUME WriteInv, UNCHANGED netVars, UNCHANGED jobVars,
         PlaceInv', AnswerInv', proved' \in [Macs -> Watches],
         disc' \in [Callers -> DiscStates],
         \A x \in Macs : Kept(x) /\ (disc[x] = "out" => disc'[x] = "out")
  PROVE  WriteInv'
<1>1. \A x \in Macs : OnTrack(x)'
  <2> SUFFICES ASSUME NEW x \in Macs PROVE OnTrack(x)'
    OBVIOUS
  <2>1. OnTrack(x) /\ Kept(x) /\ (disc[x] = "out" => disc'[x] = "out")
    BY DEF WriteInv
  <2>2. pc' = pc /\ addr' = addr
    BY DEF jobVars
  <2> QED  BY <2>1, <2>2, TrackFrame
<1>2. TuningInv'
  BY DEF WriteInv, TuningInv, netVars, jobVars
<1> QED  BY <1>1, <1>2 DEF WriteInv, jobVars, Watches

\* The scan: joining, asking, applying answers and ending.
LEMMA ScanPreserves ==
  ASSUME ReadableMacs, WriteInv, UNCHANGED netVars, UNCHANGED jobVars,
         (\E c \in Callers : ScanStep(c)) \/ ScanHits \/ RescanPress \/ RescanReturn
  PROVE  WriteInv'
<1> USE DEF DiscStates
<1>0. /\ PlaceInv /\ AnswerInv /\ proved \in [Macs -> Watches]
      /\ disc \in [Callers -> DiscStates] /\ reply' = reply
  BY DEF WriteInv, Watches, jobVars
<1>a. ASSUME adapters' = adapters, proved' = proved
      PROVE  PlaceInv' /\ proved' \in [Macs -> Watches] /\ \A x \in Macs : Kept(x)
  BY <1>0, <1>a DEF PlaceInv, OneOnlinePerAddress, OnlineAt, Kept
<1>1. ASSUME NEW c \in Callers, Enter(c) \/ GiveUp(c) PROVE WriteInv'
  <2>1. AnswerInv'
    BY <1>0, <1>1 DEF Enter, GiveUp, AnswerInv, pollVars
  <2>2. disc' \in [Callers -> DiscStates] /\ \A x \in Macs : disc[x] = "out" => disc'[x] = "out"
    BY <1>0, <1>1, MacsCall DEF Enter, GiveUp
  <2>3. adapters' = adapters /\ proved' = proved
    BY <1>1 DEF Enter, GiveUp
  <2> QED  BY <2>1, <2>2, <2>3, <1>a, BesideFrame
<1>2. ASSUME NEW c \in Callers, ScanAsk(c) PROVE WriteInv'
  <2>0. PICK info \in GetDeviceInfo(ScanOrder[scanNext], FALSE) :
          scanBusy' = IF info = None THEN scanBusy
                      ELSE scanBusy \cup {[ip |-> ScanOrder[scanNext], info |-> info]}
    BY <1>2 DEF ScanAsk
  <2>1. info \in Readable \cup {None}
    BY ReplyReadable DEF WriteInv, TuningInv
  <2>2. ScanOrder[scanNext] \in IPs /\ scanNext + 1 \in Nat \ {0}
    BY <1>0, <1>2, OrdersType DEF ScanAsk, AnswerInv
  <2>3. AnswerInv'
    BY <1>0, <1>2, <2>0, <2>1, <2>2 DEF AnswerInv, ScanAsk, pollVars
  <2>4. disc' = disc /\ adapters' = adapters /\ proved' = proved
    BY <1>2 DEF ScanAsk
  <2> QED  BY <1>0, <2>3, <2>4, <1>a, BesideFrame
<1>3. ASSUME NEW c \in Callers, ScanEnd(c) PROVE WriteInv'
  <2>1. AnswerInv'
    BY <1>0, <1>3 DEF ScanEnd, AnswerInv, pollVars
  <2>2. disc' \in [Callers -> DiscStates] /\ \A x \in Macs : disc[x] = "out" => disc'[x] = "out"
    BY <1>0, <1>3, MacsCall DEF ScanEnd, Wake
  <2>3. adapters' = adapters /\ proved' = proved
    BY <1>3 DEF ScanEnd
  <2> QED  BY <2>1, <2>2, <2>3, <1>a, BesideFrame
<1>4. ASSUME NEW hit \in scanBusy, ScanHit(hit) PROVE WriteInv'
  <2>1. Observe(hit.ip, hit.info) /\ hit.ip \in IPs /\ hit.info \in Readable
    BY <1>0, <1>4 DEF ScanHit, AnswerInv
  <2>2. PlaceInv' /\ proved' \in [Macs -> Watches] /\ \A x \in Macs : Kept(x)
    BY <1>0, <2>1, ObserveKeeps
  <2>3. AnswerInv' /\ disc' = disc
    BY <1>0, <1>4 DEF ScanHit, AnswerInv, pollVars
  <2> QED  BY <1>0, <2>2, <2>3, BesideFrame
<1>5. ASSUME RescanPress \/ RescanReturn PROVE WriteInv'
  <2>1. AnswerInv'
    BY <1>0, <1>5 DEF RescanPress, RescanReturn, AnswerInv, pollVars
  <2>2. disc' \in [Callers -> DiscStates] /\ \A x \in Macs : disc[x] = "out" => disc'[x] = "out"
    BY <1>0, <1>5, MacsCall, CallersType DEF RescanPress, RescanReturn
  <2>3. adapters' = adapters /\ proved' = proved
    BY <1>5 DEF RescanPress, RescanReturn
  <2> QED  BY <2>1, <2>2, <2>3, <1>a, BesideFrame
<1> QED  BY <1>1, <1>2, <1>3, <1>4, <1>5 DEF ScanStep, ScanHits

\* The startup probe, the poll loop and the end of the process.
LEMMA PollPreserves ==
  ASSUME ReadableMacs, WriteInv, UNCHANGED netVars, UNCHANGED jobVars,
         PollStep \/ Signal \/ EndLife
  PROVE  WriteInv'
<1> USE DEF DiscStates
<1>0. /\ PlaceInv /\ AnswerInv /\ proved \in [Macs -> Watches]
      /\ disc \in [Callers -> DiscStates] /\ reply' = reply
  BY DEF WriteInv, Watches, jobVars
<1>a. ASSUME adapters' = adapters, proved' = proved
      PROVE  PlaceInv' /\ proved' \in [Macs -> Watches] /\ \A x \in Macs : Kept(x)
  BY <1>0, <1>a DEF PlaceInv, OneOnlinePerAddress, OnlineAt, Kept
<1>1. ASSUME SweepBegin PROVE WriteInv'
  <2>1. \A m \in Macs : adapters[m].ip \in IPs \cup {None} /\ adapters[m].online \in BOOLEAN
    BY <1>0 DEF PlaceInv, Adapter
  <2>2. \A i \in 1..Len(MacOrder) : MacOrder[i] \in Macs
    BY OrdersType
  <2>3. \A i \in 1..Len(MacOrder) :
           [mac |-> MacOrder[i], ip |-> adapters[MacOrder[i]].ip,
            online |-> adapters[MacOrder[i]].online] \in SweepEntry
    BY <2>1, <2>2 DEF SweepEntry
  <2>4. Len(MacOrder) \in Nat
    BY OrdersType
  <2>5. Snapshot \in Seq(SweepEntry)
    BY <2>3, <2>4, SeqDef DEF Snapshot
  <2>6. AnswerInv'
    BY <1>0, <1>1, <2>5 DEF SweepBegin, AnswerInv, scanVars
  <2>7. disc' = disc /\ adapters' = adapters /\ proved' = proved
    BY <1>1 DEF SweepBegin, scanVars
  <2> QED  BY <1>0, <2>6, <2>7, <1>a, BesideFrame
<1>2. ASSUME SweepAsk PROVE WriteInv'
  <2>0. pollTodo \in Seq(SweepEntry) /\ pollTodo # <<>>
    BY <1>0, <1>2 DEF SweepAsk, AnswerInv
  <2>1. Head(pollTodo) \in SweepEntry /\ Tail(pollTodo) \in Seq(SweepEntry)
    BY <2>0, HeadTailProperties
  <2>2. \A e \in pollBusy' : e.mac \in Macs /\ e.ip \in IPs /\ e.reply \in Readable \cup {None}
    <3>1. CASE ~HasAddress(Head(pollTodo))
      BY <1>0, <1>2, <3>1 DEF SweepAsk, AnswerInv
    <3>2. CASE HasAddress(Head(pollTodo))
      <4>1. PICK info \in GetDeviceInfo(Head(pollTodo).ip, FALSE) :
              pollBusy' = pollBusy \cup {[mac |-> Head(pollTodo).mac, ip |-> Head(pollTodo).ip,
                                          online |-> Head(pollTodo).online, reply |-> info]}
        BY <1>2, <3>2 DEF SweepAsk
      <4>2. info \in Readable \cup {None}
        BY ReplyReadable DEF WriteInv, TuningInv
      <4>3. Head(pollTodo).mac \in Macs /\ Head(pollTodo).ip \in IPs
        BY <2>1, <3>2 DEF SweepEntry, HasAddress
      <4> QED  BY <1>0, <4>1, <4>2, <4>3 DEF AnswerInv
    <3> QED  BY <3>1, <3>2
  <2>3. AnswerInv'
    BY <1>0, <1>2, <2>1, <2>2 DEF SweepAsk, AnswerInv, scanVars
  <2>4. disc' = disc /\ adapters' = adapters /\ proved' = proved
    BY <1>2 DEF SweepAsk, scanVars
  <2> QED  BY <1>0, <2>3, <2>4, <1>a, BesideFrame
<1>3. ASSUME NEW e \in pollBusy, SweepReply(e) PROVE WriteInv'
  <2>1. e.mac \in Macs /\ e.ip \in IPs /\ e.reply \in Readable \cup {None}
    BY <1>0 DEF AnswerInv
  <2>2. PlaceInv' /\ proved' \in [Macs -> Watches] /\ \A x \in Macs : Kept(x)
    <3>1. CASE e.reply # None
      <4>1. Observe(e.ip, e.reply) /\ e.reply \in Readable
        BY <1>3, <2>1, <3>1 DEF SweepReply
      <4> QED  BY <1>0, <2>1, <4>1, ObserveKeeps
    <3>2. CASE e.reply = None /\ adapters' = MarkOffline(adapters, e.mac)
      <4>1. proved' = proved
        BY <1>3, <3>2 DEF SweepReply
      <4> QED  BY <1>0, <2>1, <3>2, <4>1, SilenceKeeps
    <3>3. CASE e.reply = None /\ adapters' = adapters
      BY <1>3, <3>3, <1>a DEF SweepReply
    <3> QED  BY <1>3, <3>1, <3>2, <3>3 DEF SweepReply
  <2>3. AnswerInv' /\ disc' = disc
    BY <1>0, <1>3 DEF SweepReply, AnswerInv, scanVars
  <2> QED  BY <1>0, <2>2, <2>3, BesideFrame
<1>4. ASSUME SweepEnd \/ PollReturn PROVE WriteInv'
  <2>1. AnswerInv'
    <3>1. pollTodo' = <<>> \/ pollTodo' = pollTodo
      BY <1>4 DEF SweepEnd, PollReturn
    <3>2. pollTodo' \in Seq(SweepEntry)
      BY <1>0, <3>1, EmptySeq DEF AnswerInv
    <3> QED  BY <1>0, <1>4, <3>2 DEF SweepEnd, PollReturn, AnswerInv
  <2>2. disc' \in [Callers -> DiscStates] /\ \A x \in Macs : disc[x] = "out" => disc'[x] = "out"
    BY <1>0, <1>4, MacsCall, CallersType DEF SweepEnd, PollReturn
  <2>3. adapters' = adapters /\ proved' = proved
    BY <1>4 DEF SweepEnd, PollReturn
  <2> QED  BY <2>1, <2>2, <2>3, <1>a, BesideFrame
<1>5. ASSUME PollLoopEnd \/ LoadFails \/ Signal \/ EndLife PROVE WriteInv'
  <2>1. AnswerInv'
    BY <1>0, <1>5 DEF PollLoopEnd, LoadFails, Signal, EndLife, AnswerInv, scanVars, pollVars
  <2>2. disc' = disc /\ adapters' = adapters /\ proved' = proved
    BY <1>5 DEF PollLoopEnd, LoadFails, Signal, EndLife, scanVars
  <2> QED  BY <1>0, <2>1, <2>2, <1>a, BesideFrame
<1>6. ASSUME Load PROVE WriteInv'
  <2>1. PICK rows \in Inventories : adapters' = Hydrate(adapters, rows)
    BY <1>6 DEF Load
  <2>2. adapters \in [Macs -> Adapter] /\ rows \in [Macs -> Adapter]
    BY <1>0, InventoriesType DEF PlaceInv
  <2>3. /\ adapters' \in [Macs -> Adapter]
        /\ \A x \in Macs : adapters'[x].online => adapters'[x] = adapters[x]
    BY <2>1, <2>2, HydrateEffect
  <2>4. AnswerInv' /\ disc' = disc /\ proved' = proved
    BY <1>0, <1>6 DEF Load, AnswerInv, scanVars
  <2>5. PlaceInv'
    BY <1>0, <2>3 DEF PlaceInv, OneOnlinePerAddress, OnlineAt
  <2>6. \A x \in Macs : Kept(x)
    BY <2>3, <2>4 DEF Kept
  <2> QED  BY <1>0, <2>4, <2>5, <2>6, BesideFrame
<1> QED  BY <1>1, <1>2, <1>3, <1>4, <1>5, <1>6 DEF PollStep, SweepReplies

\* The LAN: moves, front panels and late effects.
LEMMA NetworkPreserves ==
  ASSUME WriteInv, NetworkNext, UNCHANGED discVars, UNCHANGED jobVars
  PROVE  WriteInv'
<1>1. tuned' \in [Devices -> Channels] /\ late' \subseteq Devices \X Channels
  <2>1. ASSUME NEW d \in Devices, NEW ip \in IPs \cup {None}, Move(d, ip)
        PROVE  tuned' \in [Devices -> Channels] /\ late' \subseteq Devices \X Channels
    BY <2>1 DEF Move, WriteInv, TuningInv
  <2>2. ASSUME NEW d \in Devices, NEW ch \in Channels, FrontPanel(d, ch)
        PROVE  tuned' \in [Devices -> Channels] /\ late' \subseteq Devices \X Channels
    BY <2>2 DEF FrontPanel, WriteInv, TuningInv
  <2>3. ASSUME NEW w \in late, TakeEffect(w)
        PROVE  tuned' \in [Devices -> Channels] /\ late' \subseteq Devices \X Channels
    BY <2>3 DEF TakeEffect, WriteInv, TuningInv
  <2>4. CASE Settle
    BY <2>4 DEF Settle, WriteInv, TuningInv
  <2> QED  BY <2>1, <2>2, <2>3, <2>4 DEF NetworkNext
<1>2. TuningInv'
  BY <1>1 DEF WriteInv, TuningInv, jobVars
<1>3. PlaceInv' /\ AnswerInv' /\ \A m \in Macs : OnTrack(m)'
  BY DEF WriteInv, PlaceInv, AnswerInv, OnTrack, OneOnlinePerAddress, OnlineAt, discVars, jobVars
<1> QED  BY <1>2, <1>3 DEF WriteInv, discVars, jobVars

\* A command joins the queue of its device.
LEMMA CommandPreserves ==
  ASSUME WriteInv, NEW m \in Macs, NEW ch \in Channels, Accept(m, ch)
  PROVE  WriteInv'
<1>1. TuningInv'
  <2>1. queue \in [Macs -> Seq(Channels)] /\ queue[m] \in Seq(Channels)
    BY DEF WriteInv, TuningInv
  <2>2. Append(queue[m], ch) \in Seq(Channels) /\ Append(queue[m], ch) # <<>>
    BY <2>1, AppendProperties
  <2>3. queue' = [queue EXCEPT ![m] = Append(queue[m], ch)]
    BY DEF Accept
  <2>4. queue' \in [Macs -> Seq(Channels)] /\ \A x \in Macs : queue[x] # <<>> => queue'[x] # <<>>
    BY <2>1, <2>2, <2>3
  <2> QED  BY <2>4 DEF WriteInv, TuningInv, Accept, netVars
<1>2. PlaceInv' /\ AnswerInv' /\ \A x \in Macs : OnTrack(x)'
  BY DEF WriteInv, PlaceInv, AnswerInv, OnTrack, OneOnlinePerAddress, OnlineAt, Accept, discVars
<1> QED  BY <1>1, <1>2 DEF WriteInv, Accept, discVars

\* A step of the work on m that keeps its own part of the invariant keeps all
\* of it: the work on other devices stays on track.
LEMMA WorkFrame ==
  ASSUME WriteInv, NEW m \in Macs, PlaceInv', AnswerInv', TuningInv', OnTrack(m)',
         proved' \in [Macs -> Watches],
         \A x \in Macs \ {m} : Kept(x),
         NEW s \in WorkStates, pc' = [pc EXCEPT ![m] = s],
         NEW i \in IPs \cup {None}, addr' = [addr EXCEPT ![m] = i],
         NEW c \in DiscStates, disc' = [disc EXCEPT ![m] = c]
  PROVE  WriteInv'
<1>1. \A x \in Macs : OnTrack(x)'
  <2> SUFFICES ASSUME NEW x \in Macs \ {m} PROVE OnTrack(x)'
    OBVIOUS
  <2>1. OnTrack(x) /\ Kept(x)
    BY DEF WriteInv
  <2>2. pc'[x] = pc[x] /\ addr'[x] = addr[x] /\ disc'[x] = disc[x]
    BY MacsCall DEF WriteInv
  <2> QED  BY <2>1, <2>2, TrackFrame
<1>2. /\ pc' \in [Macs -> WorkStates] /\ addr' \in [Macs -> IPs \cup {None}]
      /\ disc' \in [Callers -> DiscStates]
  BY MacsCall DEF WriteInv
<1> QED  BY <1>1, <1>2 DEF WriteInv, Watches

\* The work on a command, step by step.
LEMMA WorkPreserves ==
  ASSUME ReadableMacs, WriteInv, NEW m \in Macs, WorkStep(m)
  PROVE  WriteInv'
<1> USE DEF WorkStates, DiscStates
<1>0. /\ PlaceInv /\ AnswerInv /\ TuningInv /\ proved \in [Macs -> Watches] /\ OnTrack(m)
      /\ pc \in [Macs -> WorkStates] /\ addr \in [Macs -> IPs \cup {None}]
      /\ disc \in [Callers -> DiscStates]
  BY DEF WriteInv, Watches
<1>a. ASSUME adapters' = adapters PROVE PlaceInv'
  BY <1>0, <1>a DEF PlaceInv, OneOnlinePerAddress, OnlineAt
<1>b. addr[m] \in IPs \cup {None} /\ disc[m] \in DiscStates
  BY <1>0, MacsCall
<1>c. addr = [addr EXCEPT ![m] = addr[m]] /\ disc = [disc EXCEPT ![m] = disc[m]]
  BY <1>0
<1>d. ASSUME tuned' = tuned, late' = late, queue' = queue,
             \A x \in Macs : pc'[x] # "idle" => pc[x] # "idle" \/ queue[x] # <<>>
      PROVE  TuningInv'
  BY <1>0, <1>d DEF TuningInv
<1>1. ASSUME Begin(m) PROVE WriteInv'
  <2>1. adapters[m].ip \in IPs \cup {None}
    BY <1>0 DEF PlaceInv, Adapter
  <2>2. PlaceInv' /\ AnswerInv' /\ \A x \in Macs \ {m} : Kept(x)
    BY <1>0, <1>1, <1>a DEF Begin, AnswerInv, pollVars, Kept
  <2>3. TuningInv'
    BY <1>0, <1>1, <1>d DEF Begin, netVars
  <2>4. proved' \in [Macs -> Watches] /\ proved'[m] = {}
    BY <1>0, <1>1 DEF Begin, Watches
  <2>5. disc[m] = "out"
    BY <1>0, <1>1 DEF Begin, OnTrack
  <2>6. CASE adapters[m].ip # None
    <3>1. /\ pc' = [pc EXCEPT ![m] = "ask"] /\ addr' = [addr EXCEPT ![m] = adapters[m].ip]
          /\ disc' = [disc EXCEPT ![m] = disc[m]] /\ adapters' = adapters
      BY <1>1, <1>c, <2>6 DEF Begin
    <3>2. OnTrack(m)'
      BY <1>0, <1>b, <2>1, <2>4, <2>5, <2>6, <3>1 DEF OnTrack
    <3> QED  BY <1>b, <2>1, <2>2, <2>3, <2>4, <3>1, <3>2, WorkFrame
  <2>7. CASE adapters[m].ip = None
    <3>1. /\ pc' = [pc EXCEPT ![m] = "search"] /\ addr' = [addr EXCEPT ![m] = adapters[m].ip]
          /\ disc' = [disc EXCEPT ![m] = "enter"] /\ adapters' = adapters
      BY <1>1, <2>7 DEF Begin
    <3>2. OnTrack(m)'
      BY <1>0, <2>4, <2>7, <3>1 DEF OnTrack, PlaceInv
    <3> QED  BY <2>1, <2>2, <2>3, <2>4, <3>1, <3>2, WorkFrame
  <2> QED  BY <2>6, <2>7
<1>2. ASSUME Ask(m) PROVE WriteInv'
  <2>1. PICK info \in GetDeviceInfo(addr[m], CtxDone(m)) : reply' = [reply EXCEPT ![m] = info]
    BY <1>2 DEF Ask
  <2>2. info \in Readable \cup {None}
    BY <1>0, ReplyReadable DEF TuningInv
  <2>3. /\ UNCHANGED <<adapters, proved, disc, scanNext, scanBusy, pollTodo, pollBusy>>
        /\ UNCHANGED <<addr, queue, tuned, late>>
    BY <1>2 DEF Ask, discVars, netVars
  <2>4. AnswerInv'
    BY <1>0, <2>1, <2>2, <2>3 DEF AnswerInv
  <2>5. PlaceInv' /\ proved' \in [Macs -> Watches] /\ \A x \in Macs : Kept(x)
    BY <1>0, <1>a, <2>3 DEF Kept
  <2>6. PICK s \in {"check", "readCheck"} :
           /\ pc' = [pc EXCEPT ![m] = s]
           /\ s = "check" => pc[m] = "ask"
           /\ pc[m] \in {"ask", "read"}
    BY <1>2 DEF Ask
  <2>7. TuningInv'
    BY <1>0, <1>d, <2>3, <2>6
  <2>8. OnTrack(m)'
    BY <1>0, <2>3, <2>6 DEF OnTrack
  <2> QED  BY <1>b, <1>c, <2>3, <2>4, <2>5, <2>6, <2>7, <2>8, WorkFrame
<1>3. ASSUME Verify(m) PROVE WriteInv'
  <2>0. /\ pc[m] = "check" /\ disc[m] = "out" /\ addr[m] \in IPs
        /\ proved[m] \in SUBSET IPs /\ reply[m] \in Readable \cup {None}
    BY <1>0, <1>3 DEF Verify, OnTrack, AnswerInv
  <2>1. AnswerInv' /\ addr' = addr
    BY <1>0, <1>3 DEF Verify, AnswerInv, pollVars
  <2>2. TuningInv'
    BY <1>0, <1>3, <1>d DEF Verify, netVars
  <2>3. CASE reply[m] = None
    <3>1. /\ adapters' = MarkOffline(adapters, m) /\ proved' = proved
          /\ pc' = [pc EXCEPT ![m] = "search"] /\ disc' = [disc EXCEPT ![m] = "enter"]
      BY <1>3, <2>3 DEF Verify
    <3>2. PlaceInv' /\ ~adapters'[m].online /\ \A x \in Macs : Kept(x)
      BY <1>0, <3>1, SilenceEffect, SilenceKeeps
    <3>3. OnTrack(m)'
      BY <1>0, <2>0, <3>1, <3>2 DEF OnTrack
    <3> QED  BY <1>0, <1>b, <1>c, <2>1, <2>2, <3>1, <3>2, <3>3, WorkFrame
  <2>4. CASE reply[m] # None
    <3>1. Observe(addr[m], reply[m]) /\ reply[m] \in Readable
      BY <1>3, <2>0, <2>4 DEF Verify
    <3>2. PlaceInv' /\ proved' \in [Macs -> Watches] /\ \A x \in Macs : Kept(x)
      BY <1>0, <2>0, <3>1, ObserveKeeps
    <3>3. /\ proved'[m] \in SUBSET IPs /\ proved[m] \subseteq proved'[m]
          /\ m = Normalize[reply[m].lanMAC] => addr[m] \in proved'[m]
          /\ adapters'[m].online => \/ m = Normalize[reply[m].lanMAC]
                                    \/ /\ adapters[m].online /\ adapters[m].ip # addr[m]
                                       /\ adapters'[m].ip = adapters[m].ip
      BY <1>0, <2>0, <3>1, ObserveEffect
    <3>4. CASE IsAnswerOf(m, reply[m])
      <4>1. pc' = [pc EXCEPT ![m] = "role"] /\ disc' = disc
        BY <1>3, <2>4, <3>4 DEF Verify
      <4>2. OnTrack(m)'
        BY <1>0, <2>0, <2>1, <3>3, <3>4, <4>1 DEF OnTrack, IsAnswerOf
      <4> QED  BY <1>b, <1>c, <2>1, <2>2, <3>2, <4>1, <4>2, WorkFrame
    <3>5. CASE ~IsAnswerOf(m, reply[m])
      <4>1. pc' = [pc EXCEPT ![m] = "search"] /\ disc' = [disc EXCEPT ![m] = "enter"]
        BY <1>3, <2>4, <3>5 DEF Verify
      <4>2. OnTrack(m)'
        BY <1>0, <2>0, <2>1, <3>3, <3>5, <4>1 DEF OnTrack, IsAnswerOf
      <4> QED  BY <1>b, <1>c, <2>1, <2>2, <3>2, <4>1, <4>2, WorkFrame
    <3> QED  BY <3>4, <3>5
  <2> QED  BY <2>3, <2>4
<1>4. ASSUME Locate(m) PROVE WriteInv'
  <2>0. pc[m] = "search" /\ proved[m] \in SUBSET IPs
    BY <1>0, <1>4 DEF Locate, OnTrack
  <2>1. PlaceInv' /\ AnswerInv' /\ proved' = proved /\ adapters' = adapters
    BY <1>0, <1>4, <1>a DEF Locate, AnswerInv, pollVars
  <2>2. TuningInv'
    BY <1>0, <1>4, <1>d, <2>0 DEF Locate, netVars
  <2>3. \A x \in Macs : Kept(x)
    BY <2>1 DEF Kept
  <2>4. disc' = [disc EXCEPT ![m] = "out"] /\ disc'[m] = "out"
    BY <1>0, <1>4, MacsCall DEF Locate
  <2>5. CASE adapters[m].online
    <3>1. pc' = [pc EXCEPT ![m] = "role"] /\ addr' = [addr EXCEPT ![m] = adapters[m].ip]
      BY <1>4, <2>5 DEF Locate
    <3>2. adapters[m].ip \in IPs \cup {None} /\ adapters[m].ip \in proved[m]
      BY <1>0, <2>0, <2>5 DEF OnTrack, PlaceInv, Adapter
    <3>3. OnTrack(m)'
      BY <1>0, <2>0, <2>1, <2>4, <3>1, <3>2 DEF OnTrack
    <3> QED  BY <1>0, <2>1, <2>2, <2>3, <2>4, <3>1, <3>2, <3>3, WorkFrame
  <2>6. CASE ~adapters[m].online
    <3>1. pc' = [pc EXCEPT ![m] = "settled"] /\ addr' = addr
      BY <1>4, <2>6 DEF Locate
    <3>2. OnTrack(m)'
      BY <1>0, <2>0, <2>1, <2>4, <3>1 DEF OnTrack
    <3> QED  BY <1>0, <1>b, <1>c, <2>1, <2>2, <2>3, <2>4, <3>1, <3>2, WorkFrame
  <2> QED  BY <2>5, <2>6
<1>5. ASSUME CheckRole(m) PROVE WriteInv'
  <2>1. /\ UNCHANGED <<adapters, proved, disc, scanNext, scanBusy, pollTodo, pollBusy>>
        /\ UNCHANGED <<addr, reply, queue, tuned, late>> /\ pc[m] = "role"
    BY <1>5 DEF CheckRole, discVars, netVars
  <2>2. PICK s \in {"write", "settled"} : pc' = [pc EXCEPT ![m] = s]
    BY <1>5 DEF CheckRole
  <2>3. PlaceInv' /\ AnswerInv' /\ \A x \in Macs : Kept(x)
    BY <1>0, <1>a, <2>1 DEF AnswerInv, Kept
  <2>4. TuningInv'
    BY <1>0, <1>d, <2>1, <2>2
  <2>5. OnTrack(m)'
    BY <1>0, <2>1, <2>2 DEF OnTrack
  <2> QED  BY <1>0, <1>b, <1>c, <2>1, <2>2, <2>3, <2>4, <2>5, WorkFrame
<1>6. ASSUME Write(m) PROVE WriteInv'
  <2>1. /\ UNCHANGED <<adapters, proved, disc, scanNext, scanBusy, pollTodo, pollBusy>>
        /\ UNCHANGED <<addr, reply, queue>> /\ pc[m] = "write" /\ pc' = [pc EXCEPT ![m] = "read"]
    BY <1>6 DEF Write, discVars
  <2>2. PlaceInv' /\ AnswerInv' /\ \A x \in Macs : Kept(x)
    BY <1>0, <1>a, <2>1 DEF AnswerInv, Kept
  <2>3. Head(queue[m]) \in Channels
    <3>1. queue[m] \in Seq(Channels) /\ queue[m] # <<>>
      BY <1>0, <2>1 DEF TuningInv
    <3> QED  BY <3>1, HeadTailProperties
  <2>4. tuned' \in [Devices -> Channels] /\ late' \subseteq Devices \X Channels
    BY <1>0, <1>6, <2>3 DEF Write, SetChannel, DevicesAt, TuningInv
  <2>5. TuningInv'
    BY <1>0, <2>1, <2>4 DEF TuningInv
  <2>6. OnTrack(m)'
    BY <1>0, <2>1 DEF OnTrack
  <2> QED  BY <1>0, <1>b, <1>c, <2>1, <2>2, <2>5, <2>6, WorkFrame
<1>7. ASSUME ReadBack(m) PROVE WriteInv'
  <2>0. /\ pc[m] = "readCheck" /\ disc[m] = "out" /\ addr[m] \in IPs
        /\ proved[m] \in SUBSET IPs /\ reply[m] \in Readable \cup {None}
    BY <1>0, <1>7 DEF ReadBack, OnTrack, AnswerInv
  <2>1. AnswerInv' /\ addr' = addr /\ disc' = disc
    BY <1>0, <1>7 DEF ReadBack, AnswerInv, pollVars, scanVars
  <2>2. PICK s \in {"read", "settled"} : pc' = [pc EXCEPT ![m] = s]
    BY <1>7 DEF ReadBack, TryAgain, Conclude
  <2>3. TuningInv'
    BY <1>0, <1>7, <1>d, <2>0, <2>2 DEF ReadBack, netVars
  <2>4. PlaceInv' /\ proved' \in [Macs -> Watches] /\ \A x \in Macs : Kept(x)
    <3>1. CASE reply[m] = None
      BY <1>0, <1>7, <1>a, <3>1 DEF ReadBack, Kept
    <3>2. CASE reply[m] # None
      <4>1. Observe(addr[m], reply[m]) /\ reply[m] \in Readable
        BY <1>7, <2>0, <3>2 DEF ReadBack
      <4> QED  BY <1>0, <2>0, <4>1, ObserveKeeps
    <3> QED  BY <3>1, <3>2
  <2>5. OnTrack(m)'
    BY <1>0, <2>0, <2>1, <2>2, <2>4 DEF OnTrack, Kept
  <2> QED  BY <1>b, <1>c, <2>1, <2>2, <2>3, <2>4, <2>5, WorkFrame
<1>8. ASSUME StopReading(m) PROVE WriteInv'
  <2>1. /\ UNCHANGED <<adapters, proved, disc, scanNext, scanBusy, pollTodo, pollBusy>>
        /\ UNCHANGED <<addr, reply, queue, tuned, late>>
        /\ pc[m] = "read" /\ pc' = [pc EXCEPT ![m] = "settled"]
    BY <1>8 DEF StopReading, Conclude, discVars, netVars
  <2>2. PlaceInv' /\ AnswerInv' /\ \A x \in Macs : Kept(x)
    BY <1>0, <1>a, <2>1 DEF AnswerInv, Kept
  <2>3. TuningInv'
    BY <1>0, <1>d, <2>1
  <2>4. OnTrack(m)'
    BY <1>0, <2>1 DEF OnTrack
  <2> QED  BY <1>0, <1>b, <1>c, <2>1, <2>2, <2>3, <2>4, WorkFrame
<1>9. ASSUME Finish(m) PROVE WriteInv'
  <2>1. /\ UNCHANGED <<adapters, disc, scanNext, scanBusy, pollTodo, pollBusy>>
        /\ UNCHANGED <<reply, tuned, late>> /\ pc[m] = "settled"
        /\ pc' = [pc EXCEPT ![m] = "idle"] /\ addr' = [addr EXCEPT ![m] = None]
        /\ proved' = [proved EXCEPT ![m] = None]
        /\ queue' = [queue EXCEPT ![m] = Tail(queue[m])]
    BY <1>9 DEF Finish, scanVars, pollVars, netVars
  <2>2. PlaceInv' /\ AnswerInv' /\ \A x \in Macs \ {m} : Kept(x)
    BY <1>0, <1>a, <2>1 DEF AnswerInv, Kept
  <2>6. proved' \in [Macs -> Watches]
    <3>1. None \in Watches
      BY DEF Watches
    <3> QED  BY <1>0, <2>1, <3>1
  <2>3. Tail(queue[m]) \in Seq(Channels)
    <3>1. queue[m] \in Seq(Channels) /\ queue[m] # <<>>
      BY <1>0, <2>1 DEF TuningInv
    <3> QED  BY <3>1, HeadTailProperties
  <2>4. TuningInv'
    BY <1>0, <2>1, <2>3 DEF TuningInv
  <2>5. OnTrack(m)'
    BY <1>0, <2>1 DEF OnTrack
  <2> QED  BY <1>b, <1>c, <2>1, <2>2, <2>4, <2>5, <2>6, WorkFrame
<1> QED  BY <1>1, <1>2, <1>3, <1>4, <1>5, <1>6, <1>7, <1>8, <1>9 DEF WorkStep

\* Nothing that happens, in any order, leads out of the invariant, when every
\* device's MAC can be read.
THEOREM WriteInvariant == ReadableMacs /\ WriteSafety => []WriteInv
<1> SUFFICES ASSUME ReadableMacs PROVE WriteSafety => []WriteInv
  OBVIOUS
<1>1. WriteInit => WriteInv
  <2> SUFFICES ASSUME WriteInit PROVE WriteInv
    OBVIOUS
  <2> USE DEF WriteInit, NetworkInit, DiscoveryInit
  <2>1. PlaceInv
    BY DEF PlaceInv, OneOnlinePerAddress, OnlineAt, Absent, Adapter, Roles
  <2>2. AnswerInv
    BY EmptySeq DEF AnswerInv
  <2>3. TuningInv
    BY EmptySeq, DevicesType DEF TuningInv
  <2>4. \A m \in Macs : OnTrack(m)
    BY MacsCall DEF OnTrack
  <2>5. /\ pc \in [Macs -> WorkStates] /\ addr \in [Macs -> IPs \cup {None}]
        /\ disc \in [Callers -> DiscStates]
    BY DEF WorkStates, DiscStates
  <2>6. proved \in [Macs -> (SUBSET IPs) \cup {None}]
    <3>1. proved \in [Macs -> {None}]
      OBVIOUS
    <3> QED  BY <3>1
  <2> QED  BY <2>1, <2>2, <2>3, <2>4, <2>5, <2>6 DEF WriteInv
<1>2. WriteInv /\ [WriteNext]_writeVars => WriteInv'
  <2> SUFFICES ASSUME WriteInv, [WriteNext]_writeVars PROVE WriteInv'
    OBVIOUS
  <2>1. ASSUME NEW m \in Macs, Command(m) PROVE WriteInv'
    <3>1. ASSUME NEW ch \in Requests, ChangeChannel(m, ch) PROVE WriteInv'
      <4>1. Accept(m, ch) /\ ch \in Channels
        BY <3>1, CommandsType DEF ChangeChannel, Accept, ValidChannel
      <4> QED  BY <4>1, CommandPreserves
    <3>2. ASSUME NEW tx \in Macs, ChangeSource(m, tx) PROVE WriteInv'
      <4>1. Accept(m, adapters[tx].channel) /\ adapters[tx].channel # None
        BY <3>2 DEF ChangeSource
      <4>2. adapters[tx].channel \in Channels
        BY <4>1 DEF WriteInv, PlaceInv, Adapter
      <4> QED  BY <4>1, <4>2, CommandPreserves
    <3> QED  BY <2>1, <3>1, <3>2 DEF Command
  <2>2. ASSUME NEW m \in Macs, WorkStep(m) PROVE WriteInv'
    BY <2>2, WorkPreserves
  <2>3. CASE Beside(DiscoveryNext)
    BY <2>3, ScanPreserves, PollPreserves DEF Beside, DiscoveryNext
  <2>4. CASE NetworkNext /\ UNCHANGED discVars /\ UNCHANGED jobVars
    BY <2>4, NetworkPreserves
  <2>5. CASE UNCHANGED writeVars
    BY <2>5 DEF writeVars, netVars, discVars, jobVars, WriteInv, PlaceInv, AnswerInv, TuningInv,
                OnTrack, OneOnlinePerAddress, OnlineAt
  <2> QED  BY <2>1, <2>2, <2>3, <2>4, <2>5 DEF WriteNext
<1> QED  BY <1>1, <1>2, PTL DEF WriteSafety

\* A channel is written only to an address at which that very device has been
\* seen since the work on the command began (verifiedIP).
THEOREM WritesAreVerified == ReadableMacs /\ WriteSafety => []VerifiedBeforeWrite
<1>1. WriteInv => VerifiedBeforeWrite
  BY DEF WriteInv, OnTrack, VerifiedBeforeWrite
<1> QED  BY <1>1, WriteInvariant, PTL

-----------------------------------------------------------------------------
(* Types, addresses, roles and outcomes, whatever MACs the devices report.    *)

NetTyped == /\ at \in Placements /\ tuned \in [Devices -> Channels]
            /\ late \subseteq Devices \X Channels

RegTyped == /\ adapters \in [Macs -> Adapter]
            /\ proved \in [Macs -> Watches]
            /\ \A m \in Macs : adapters[m].online =>
                                 adapters[m].known /\ adapters[m].ip # None
            /\ \A m, n \in Macs : adapters[m].online /\ adapters[n].online
                                     /\ adapters[m].ip = adapters[n].ip => m = n

ScanTyped == /\ disc \in [Callers -> DiscStates]
             /\ scanNext \in 1..(Len(ScanOrder) + 1)
             /\ scanBusy \subseteq [ip : IPs, info : DeviceInfo]

PollTyped ==
  /\ life \in {"up", "signalled", "stopping"}
  /\ pollPhase \in {"load", "boot", "startup", "startupSearch", "idle", "sweep", "search",
                   "ended", "failed"}
  /\ pollTodo \in Seq(SweepEntry)
  /\ \A e \in pollBusy : e.mac \in Macs /\ e.ip \in IPs /\ e.reply \in DeviceInfo \cup {None}

\* The types of discovery, with the facts about addresses they depend on and
\* that no two adapters are online at one.
DiscTypes == NetTyped /\ RegTyped /\ ScanTyped /\ PollTyped

\* Work that asks or writes has an address, and a command to do it for.
JobTyped == /\ queue \in [Macs -> Seq(Channels \cap (0..255))]
            /\ pc \in [Macs -> WorkStates]
            /\ addr \in [Macs -> IPs \cup {None}]
            /\ reply \in [Macs -> DeviceInfo \cup {None}]
            /\ attempt \in [Macs -> 0..Attempts]
            /\ \A m \in Macs : /\ pc[m] # "idle" => queue[m] # <<>>
                               /\ pc[m] \notin {"idle", "search", "settled"} => addr[m] \in IPs

SearchOpen == \A m \in Macs : pc[m] = "search" <=> disc[m] # "out"

\* The same with the work on channel changes.
WorkTypes == NetTyped /\ RegTyped /\ ScanTyped /\ PollTyped /\ JobTyped /\ SearchOpen

\* What a device answers.
LEMMA ReplyTyped ==
  ASSUME tuned \in [Devices -> Channels], NEW ip, NEW done,
         NEW info \in GetDeviceInfo(ip, done)
  PROVE  /\ info \in DeviceInfo \cup {None}
         /\ info = None \/ \E d \in Devices : info = InfoOf(d)
<1>1. \A d \in Devices : InfoOf(d) \in DeviceInfo
  BY DevicesType DEF InfoOf, DeviceInfo
<1>2. info = None \/ \E d \in Devices : info = InfoOf(d)
  BY DEF GetDeviceInfo, DevicesAt
<1> QED  BY <1>1, <1>2

\* An answer taken in, also one without a MAC.
LEMMA ObserveTyped ==
  ASSUME RegTyped, NEW ip \in IPs, NEW info \in DeviceInfo, Observe(ip, info)
  PROVE  RegTyped'
<1> DEFINE m == Normalize[info.lanMAC]
<1>0. PICK d \in Displacements(adapters, ip, m) :
         adapters' = RecordObservation(adapters, ip, info, d)
  BY DEF Observe
<1>1. adapters \in [Macs -> Adapter] /\ adapters' \in [Macs -> Adapter]
  BY <1>0, RecordType DEF RegTyped
<1>2. CASE m = None
  BY <1>0, <1>2 DEF Observe, RecordObservation, RegTyped
<1>3. CASE m # None
  <2>0. /\ m \in Macs
        /\ adapters'[m] = [known |-> TRUE, role |-> Classify(info.hw), ip |-> ip,
                           name |-> adapters[m].name, hw |-> info.hw,
                           channel |-> info.channel, online |-> TRUE]
    BY <1>0, <1>1, <1>3, RecordOwn
  <2>1. m \in Macs /\ adapters'[m].known = TRUE /\ adapters'[m].ip = ip
    BY <2>0
  <2>2. \A x \in Macs \ {m} : /\ adapters'[x].online => adapters[x].online /\ x # d
                              /\ adapters'[x].ip = adapters[x].ip
                              /\ adapters'[x].known = adapters[x].known
    BY <1>0, <1>1, <1>3, RecordOther
  <2>3. \A x \in Macs \ {m} : adapters[x].online /\ adapters[x].ip = ip => x = d
    <3>1. \A x \in Macs : adapters[x].online /\ adapters[x].ip = ip => x \in OnlineAt(adapters, ip)
      BY DEF RegTyped, OnlineAt
    <3>2. \A x, y \in OnlineAt(adapters, ip) : x = y
      BY DEF RegTyped, OnlineAt
    <3>3. d \in OnlineAt(adapters, ip) \ {m} \/ OnlineAt(adapters, ip) \ {m} = {}
      BY DEF Displacements
    <3> QED  BY <3>1, <3>2, <3>3
  <2> HIDE DEF m
  <2>4. proved' = IF proved[m] = None THEN proved ELSE [proved EXCEPT ![m] = @ \cup {ip}]
    BY <1>3 DEF Observe, m
  <2>5. proved' \in [Macs -> Watches]
    BY <2>1, <2>4, NoneIsNoSet DEF Watches, RegTyped
  <2>6. \A x, y \in Macs : adapters'[x].online /\ adapters'[y].online
                              /\ adapters'[x].ip = adapters'[y].ip => x = y
    <3>1. \A x \in Macs \ {m} : adapters'[x].online => adapters'[x].ip # ip
      BY <2>2, <2>3
    <3> QED  BY <2>1, <2>2, <3>1 DEF RegTyped
  <2> QED  BY <1>1, <2>1, <2>2, <2>5, <2>6, NoneIsFresh DEF RegTyped
<1> QED  BY <1>2, <1>3

\* Silence.
LEMMA SilenceTyped ==
  ASSUME RegTyped, NEW m \in Macs, adapters' = MarkOffline(adapters, m), proved' = proved
  PROVE  RegTyped'
<1>1. /\ adapters \in [Macs -> Adapter]
      /\ \A x \in Macs : adapters[x].online => adapters[x].known
  BY DEF RegTyped
<1>2. /\ adapters' \in [Macs -> Adapter]
      /\ \A x \in Macs : /\ adapters'[x].online => adapters[x].online
                         /\ adapters'[x].ip = adapters[x].ip
                         /\ adapters'[x].known = adapters[x].known
  BY <1>1, MarkOfflineEffect
<1> QED  BY <1>2 DEF RegTyped

\* The LAN keeps the types.
LEMMA NetworkTypes ==
  ASSUME DiscTypes, NetworkNext, UNCHANGED discVars
  PROVE  DiscTypes'
<1>1. NetTyped'
  <2>1. ASSUME NEW d \in Devices, NEW ip \in IPs \cup {None}, Move(d, ip)
        PROVE  NetTyped'
    <3>1. at \in [Devices -> IPs \cup {None}] /\ at' = [at EXCEPT ![d] = ip]
      BY <2>1 DEF Move, DiscTypes, NetTyped, Placements
    <3>2. at' \in Placements
      BY <2>1, <3>1 DEF Move, DiscTypes, NetTyped, Placements, DevicesAt
    <3> QED  BY <2>1, <3>2 DEF Move, DiscTypes, NetTyped
  <2>2. ASSUME NEW d \in Devices, NEW ch \in Channels, FrontPanel(d, ch)
        PROVE  NetTyped'
    BY <2>2 DEF FrontPanel, DiscTypes, NetTyped
  <2>3. ASSUME NEW w \in late, TakeEffect(w)
        PROVE  NetTyped'
    <3>1. w[1] \in Devices /\ w[2] \in Channels
      BY DEF DiscTypes, NetTyped
    <3> QED  BY <2>3, <3>1 DEF TakeEffect, DiscTypes, NetTyped
  <2>4. CASE Settle
    BY <2>4 DEF Settle, DiscTypes, NetTyped
  <2> QED  BY <2>1, <2>2, <2>3, <2>4 DEF NetworkNext
<1>2. RegTyped' /\ ScanTyped' /\ PollTyped'
  BY DEF DiscTypes, RegTyped, ScanTyped, PollTyped, discVars
<1> QED  BY <1>1, <1>2 DEF DiscTypes

\* The goroutines that work on channel changes.
Workers == Callers \ {"poller", "rescan"}

\* A step of discovery keeps its types and begins or ends no worker's call.
Beneath == /\ DiscTypes'
           /\ \A c \in Workers : disc'[c] = "out" <=> disc[c] = "out"

\* A step that keeps the parts.
LEMMA BesideTypes ==
  ASSUME DiscTypes, UNCHANGED netVars, RegTyped', ScanTyped', PollTyped',
         \A c \in Workers : disc'[c] = "out" <=> disc[c] = "out"
  PROVE  Beneath
<1>1. NetTyped'
  BY DEF DiscTypes, NetTyped, netVars
<1> QED  BY <1>1 DEF DiscTypes, Beneath

\* Work is left alone by such a step.
LEMMA WorkBeside ==
  ASSUME WorkTypes, Beneath, UNCHANGED jobVars
  PROVE  WorkTypes'
<1>1. JobTyped'
  BY DEF WorkTypes, JobTyped, jobVars
<1>2. \A m \in Macs : m \in Workers
  BY MacsCall DEF Workers
<1>3. SearchOpen'
  BY <1>2 DEF WorkTypes, SearchOpen, Beneath, jobVars
<1> QED  BY <1>1, <1>3 DEF WorkTypes, Beneath, DiscTypes

\* The scan keeps the types.
LEMMA ScanTypes ==
  ASSUME DiscTypes, UNCHANGED netVars,
         (\E c \in Callers : ScanStep(c)) \/ ScanHits \/ RescanPress \/ RescanReturn
  PROVE  Beneath
<1>0. /\ RegTyped /\ ScanTyped /\ PollTyped /\ NetTyped
      /\ disc \in [Callers -> DiscStates]
  BY DEF DiscTypes, ScanTyped
<1>a. ASSUME UNCHANGED pollVars, life' = life PROVE PollTyped'
  BY <1>0, <1>a DEF PollTyped, pollVars
<1>b. ASSUME adapters' = adapters, proved' = proved PROVE RegTyped'
  BY <1>0, <1>b DEF RegTyped
<1>1. ASSUME NEW c \in Callers, Enter(c) \/ GiveUp(c) PROVE Beneath
  <2>1. ScanTyped' /\ \A w \in Workers : disc'[w] = "out" <=> disc[w] = "out"
    BY <1>0, <1>1 DEF Workers, Enter, GiveUp, ScanTyped, DiscStates
  <2>2. RegTyped' /\ PollTyped'
    BY <1>1, <1>a, <1>b DEF Enter, GiveUp
  <2> QED  BY <2>1, <2>2, BesideTypes
<1>2. ASSUME NEW c \in Callers, ScanAsk(c) PROVE Beneath
  <2>0. PICK info \in GetDeviceInfo(ScanOrder[scanNext], FALSE) :
          scanBusy' = IF info = None THEN scanBusy
                      ELSE scanBusy \cup {[ip |-> ScanOrder[scanNext], info |-> info]}
    BY <1>2 DEF ScanAsk
  <2>1. info \in DeviceInfo \cup {None}
    BY <1>0, ReplyTyped DEF NetTyped
  <2>2. /\ Len(ScanOrder) \in Nat /\ scanNext' = scanNext + 1
        /\ scanNext <= Len(ScanOrder) /\ disc' = disc
    BY <1>2, OrdersType DEF ScanAsk
  <2>3. ScanOrder[scanNext] \in IPs /\ scanNext' \in 1..(Len(ScanOrder) + 1)
    BY <1>0, <2>2, OrdersType DEF ScanTyped
  <2>4. ScanTyped'
    BY <1>0, <2>0, <2>1, <2>2, <2>3 DEF ScanTyped
  <2>5. RegTyped' /\ PollTyped'
    BY <1>2, <1>a, <1>b DEF ScanAsk
  <2> QED  BY <2>2, <2>4, <2>5, BesideTypes
<1>3. ASSUME NEW c \in Callers, ScanEnd(c) PROVE Beneath
  <2>0. Len(ScanOrder) \in Nat
    BY OrdersType
  <2>1. ScanTyped' /\ \A w \in Workers : disc'[w] = "out" <=> disc[w] = "out"
    BY <1>0, <1>3, <2>0 DEF Workers, ScanEnd, Wake, ScanTyped, DiscStates
  <2>2. RegTyped' /\ PollTyped'
    BY <1>3, <1>a, <1>b DEF ScanEnd
  <2> QED  BY <2>1, <2>2, BesideTypes
<1>4. ASSUME NEW hit \in scanBusy, ScanHit(hit) PROVE Beneath
  <2>1. Observe(hit.ip, hit.info) /\ hit.ip \in IPs /\ hit.info \in DeviceInfo
    BY <1>0, <1>4 DEF ScanHit, ScanTyped
  <2>2. RegTyped'
    BY <1>0, <2>1, ObserveTyped
  <2>3. ScanTyped' /\ disc' = disc
    BY <1>0, <1>4 DEF ScanHit, ScanTyped
  <2>4. PollTyped'
    BY <1>4, <1>a DEF ScanHit
  <2> QED  BY <2>2, <2>3, <2>4, BesideTypes
<1>5. ASSUME RescanPress \/ RescanReturn PROVE Beneath
  <2>1. ScanTyped' /\ \A w \in Workers : disc'[w] = "out" <=> disc[w] = "out"
    BY <1>0, <1>5, CallersType DEF Workers, RescanPress, RescanReturn, ScanTyped, DiscStates
  <2>2. RegTyped' /\ PollTyped'
    BY <1>5, <1>a, <1>b DEF RescanPress, RescanReturn
  <2> QED  BY <2>1, <2>2, BesideTypes
<1> QED  BY <1>1, <1>2, <1>3, <1>4, <1>5 DEF ScanStep, ScanHits

\* What All() copies is well typed.
LEMMA SnapshotTyped ==
  ASSUME adapters \in [Macs -> Adapter]
  PROVE  Snapshot \in Seq(SweepEntry)
<1>1. \A m \in Macs : adapters[m].ip \in IPs \cup {None} /\ adapters[m].online \in BOOLEAN
  BY DEF Adapter
<1>2. \A i \in 1..Len(MacOrder) : MacOrder[i] \in Macs
  BY OrdersType
<1>3. \A i \in 1..Len(MacOrder) :
         [mac |-> MacOrder[i], ip |-> adapters[MacOrder[i]].ip,
          online |-> adapters[MacOrder[i]].online] \in SweepEntry
  BY <1>1, <1>2 DEF SweepEntry
<1>4. Len(MacOrder) \in Nat
  BY OrdersType
<1> QED  BY <1>3, <1>4, SeqDef DEF Snapshot

\* Start, the poll loop and the end of the process keep the types.
LEMMA PollTypes ==
  ASSUME DiscTypes, UNCHANGED netVars, PollStep \/ Signal \/ EndLife
  PROVE  Beneath
<1>0. /\ RegTyped /\ ScanTyped /\ PollTyped /\ NetTyped
      /\ disc \in [Callers -> DiscStates]
  BY DEF DiscTypes, ScanTyped
<1>a. ASSUME UNCHANGED scanVars PROVE ScanTyped' /\ disc' = disc
  BY <1>0, <1>a DEF ScanTyped, scanVars
<1>b. ASSUME adapters' = adapters, proved' = proved PROVE RegTyped'
  BY <1>0, <1>b DEF RegTyped
<1>1. ASSUME SweepBegin PROVE Beneath
  <2>1. Snapshot \in Seq(SweepEntry)
    BY <1>0, SnapshotTyped DEF RegTyped
  <2>2. PollTyped'
    BY <1>0, <1>1, <2>1 DEF SweepBegin, PollTyped
  <2>3. RegTyped' /\ ScanTyped' /\ disc' = disc
    BY <1>1, <1>a, <1>b DEF SweepBegin
  <2> QED  BY <2>2, <2>3, BesideTypes
<1>2. ASSUME SweepAsk PROVE Beneath
  <2>0. pollTodo \in Seq(SweepEntry) /\ pollTodo # <<>>
    BY <1>0, <1>2 DEF SweepAsk, PollTyped
  <2>1. Head(pollTodo) \in SweepEntry /\ Tail(pollTodo) \in Seq(SweepEntry)
    BY <2>0, HeadTailProperties
  <2>2. \A e \in pollBusy' :
           e.mac \in Macs /\ e.ip \in IPs /\ e.reply \in DeviceInfo \cup {None}
    <3>1. CASE ~HasAddress(Head(pollTodo))
      BY <1>0, <1>2, <3>1 DEF SweepAsk, PollTyped
    <3>2. CASE HasAddress(Head(pollTodo))
      <4>1. PICK info \in GetDeviceInfo(Head(pollTodo).ip, FALSE) :
              pollBusy' = pollBusy \cup {[mac |-> Head(pollTodo).mac, ip |-> Head(pollTodo).ip,
                                          online |-> Head(pollTodo).online, reply |-> info]}
        BY <1>2, <3>2 DEF SweepAsk
      <4>2. info \in DeviceInfo \cup {None}
        BY <1>0, ReplyTyped DEF NetTyped
      <4>3. Head(pollTodo).mac \in Macs /\ Head(pollTodo).ip \in IPs
        BY <2>1, <3>2 DEF SweepEntry, HasAddress
      <4> QED  BY <1>0, <4>1, <4>2, <4>3 DEF PollTyped
    <3> QED  BY <3>1, <3>2
  <2>3. PollTyped'
    BY <1>0, <1>2, <2>1, <2>2 DEF SweepAsk, PollTyped
  <2>4. RegTyped' /\ ScanTyped' /\ disc' = disc
    BY <1>2, <1>a, <1>b DEF SweepAsk
  <2> QED  BY <2>3, <2>4, BesideTypes
<1>3. ASSUME NEW e \in pollBusy, SweepReply(e) PROVE Beneath
  <2>1. e.mac \in Macs /\ e.ip \in IPs /\ e.reply \in DeviceInfo \cup {None}
    BY <1>0 DEF PollTyped
  <2>2. RegTyped'
    <3>1. CASE e.reply # None
      <4>1. Observe(e.ip, e.reply) /\ e.reply \in DeviceInfo
        BY <1>3, <2>1, <3>1 DEF SweepReply
      <4> QED  BY <1>0, <2>1, <4>1, ObserveTyped
    <3>2. CASE e.reply = None /\ adapters' = MarkOffline(adapters, e.mac)
      <4>1. proved' = proved
        BY <1>3, <3>2 DEF SweepReply
      <4> QED  BY <1>0, <2>1, <3>2, <4>1, SilenceTyped
    <3>3. CASE e.reply = None /\ adapters' = adapters
      BY <1>3, <3>3, <1>b DEF SweepReply
    <3> QED  BY <1>3, <3>1, <3>2, <3>3 DEF SweepReply
  <2>3. PollTyped'
    BY <1>0, <1>3 DEF SweepReply, PollTyped
  <2>4. ScanTyped' /\ disc' = disc
    BY <1>3, <1>a DEF SweepReply
  <2> QED  BY <2>2, <2>3, <2>4, BesideTypes
<1>4. ASSUME SweepEnd \/ PollReturn PROVE Beneath
  <2>1. PollTyped'
    <3>1. pollTodo' = <<>> \/ pollTodo' = pollTodo
      BY <1>4 DEF SweepEnd, PollReturn
    <3>2. pollTodo' \in Seq(SweepEntry)
      BY <1>0, <3>1, EmptySeq DEF PollTyped
    <3> QED  BY <1>0, <1>4, <3>2 DEF SweepEnd, PollReturn, PollTyped
  <2>2. ScanTyped' /\ \A c \in Workers : disc'[c] = "out" <=> disc[c] = "out"
    BY <1>0, <1>4, CallersType DEF Workers, SweepEnd, PollReturn, ScanTyped, DiscStates
  <2>3. RegTyped'
    BY <1>4, <1>b DEF SweepEnd, PollReturn
  <2> QED  BY <2>1, <2>2, <2>3, BesideTypes
<1>5. ASSUME PollLoopEnd \/ LoadFails \/ Signal \/ EndLife PROVE Beneath
  <2>1. PollTyped'
    BY <1>0, <1>5 DEF PollLoopEnd, LoadFails, Signal, EndLife, PollTyped, pollVars
  <2>2. RegTyped' /\ ScanTyped' /\ disc' = disc
    BY <1>5, <1>a, <1>b DEF PollLoopEnd, LoadFails, Signal, EndLife
  <2> QED  BY <2>1, <2>2, BesideTypes
<1>6. ASSUME Load PROVE Beneath
  <2>1. PICK rows \in Inventories : adapters' = Hydrate(adapters, rows)
    BY <1>6 DEF Load
  <2>2. adapters \in [Macs -> Adapter] /\ rows \in [Macs -> Adapter]
    BY <1>0, InventoriesType DEF RegTyped
  <2>3. /\ adapters' \in [Macs -> Adapter]
        /\ \A x \in Macs : adapters'[x].online => adapters'[x] = adapters[x]
    BY <2>1, <2>2, HydrateEffect
  <2>4. RegTyped'
    BY <1>0, <1>6, <2>3 DEF Load, RegTyped
  <2>5. PollTyped'
    BY <1>0, <1>6 DEF Load, PollTyped
  <2>6. ScanTyped' /\ disc' = disc
    BY <1>6, <1>a DEF Load
  <2> QED  BY <2>4, <2>5, <2>6, BesideTypes
<1> QED  BY <1>1, <1>2, <1>3, <1>4, <1>5, <1>6 DEF PollStep, SweepReplies

\* A command keeps the types: only a channel the devices have gets into a queue.
LEMMA CommandTypes ==
  ASSUME WorkTypes, NEW m \in Macs, Command(m)
  PROVE  /\ WorkTypes' /\ UNCHANGED <<adapters, pollPhase, scanBusy, pollBusy>>
         /\ UNCHANGED <<pc, reply, reported, outcome, tuned>>
         /\ \E ch \in Channels \cap (0..255) :
              queue' = [queue EXCEPT ![m] = Append(queue[m], ch)]
         /\ adapters[m].known /\ WritableRole(adapters[m].role)
<1>1. \E ch \in Channels \cap (0..255) : Accept(m, ch)
  <2>1. ASSUME NEW ch \in Requests, ChangeChannel(m, ch)
        PROVE  ch \in Channels \cap (0..255) /\ Accept(m, ch)
    BY <2>1, CommandsType DEF ChangeChannel, Accept, ValidChannel
  <2>2. ASSUME NEW tx \in Macs, ChangeSource(m, tx)
        PROVE  /\ adapters[tx].channel \in Channels \cap (0..255)
               /\ Accept(m, adapters[tx].channel)
    <3>1. adapters[tx].channel \in Channels \cup {None}
      BY DEF WorkTypes, RegTyped, Adapter
    <3> QED  BY <2>2, <3>1 DEF ChangeSource, Accept, ValidChannel
  <2> QED  BY <2>1, <2>2 DEF Command
<1>2. PICK ch \in Channels \cap (0..255) : Accept(m, ch)
  BY <1>1
<1>3. /\ queue' = [queue EXCEPT ![m] = Append(queue[m], ch)]
      /\ UNCHANGED <<pc, addr, reply, attempt, reported, outcome>>
      /\ UNCHANGED discVars /\ UNCHANGED netVars
      /\ adapters[m].known /\ WritableRole(adapters[m].role)
  BY <1>2 DEF Accept
<1>4. /\ queue \in [Macs -> Seq(Channels \cap (0..255))]
      /\ queue[m] \in Seq(Channels \cap (0..255))
  BY DEF WorkTypes, JobTyped
<1>5. /\ Append(queue[m], ch) \in Seq(Channels \cap (0..255))
      /\ Append(queue[m], ch) # <<>>
  BY <1>4, AppendProperties
<1>6. /\ queue' \in [Macs -> Seq(Channels \cap (0..255))]
      /\ \A x \in Macs : queue[x] # <<>> => queue'[x] # <<>>
  BY <1>3, <1>4, <1>5
<1>7. JobTyped' /\ SearchOpen'
  BY <1>3, <1>6 DEF WorkTypes, JobTyped, SearchOpen, discVars
<1>8. NetTyped' /\ RegTyped' /\ ScanTyped' /\ PollTyped'
  BY <1>3 DEF WorkTypes, NetTyped, RegTyped, ScanTyped, PollTyped, discVars, netVars
<1> QED  BY <1>3, <1>7, <1>8 DEF WorkTypes, discVars, netVars

\* What a step of the work on m gives to m.
Gives(m, s, i, c, r, n, q) ==
  /\ UNCHANGED <<life, scanNext, scanBusy, pollPhase, pollTodo, pollBusy>>
  /\ pc' = [pc EXCEPT ![m] = s] /\ addr' = [addr EXCEPT ![m] = i]
  /\ disc' = [disc EXCEPT ![m] = c] /\ reply' = [reply EXCEPT ![m] = r]
  /\ attempt' = [attempt EXCEPT ![m] = n] /\ queue' = [queue EXCEPT ![m] = q]

\* The step keeps the types if what it gives m is well typed.
LEMMA WorkTypesFrame ==
  ASSUME WorkTypes, NEW m \in Macs, NetTyped', RegTyped',
         NEW s, NEW i, NEW c, NEW r, NEW n, NEW q, Gives(m, s, i, c, r, n, q),
         s \in WorkStates, i \in IPs \cup {None}, c \in DiscStates,
         r \in DeviceInfo \cup {None}, n \in 0..Attempts,
         q \in Seq(Channels \cap (0..255)),
         s # "idle" => q # <<>>,
         s \notin {"idle", "search", "settled"} => i \in IPs,
         s = "search" <=> c # "out"
  PROVE  WorkTypes'
<1> USE DEF Gives
<1>1. ScanTyped' /\ PollTyped'
  BY MacsCall DEF WorkTypes, ScanTyped, PollTyped
<1>2. \A x \in Macs : /\ pc'[x] = IF x = m THEN s ELSE pc[x]
                      /\ addr'[x] = IF x = m THEN i ELSE addr[x]
                      /\ queue'[x] = IF x = m THEN q ELSE queue[x]
                      /\ disc'[x] = IF x = m THEN c ELSE disc[x]
  BY MacsCall DEF WorkTypes, JobTyped, ScanTyped
<1>3. /\ queue' \in [Macs -> Seq(Channels \cap (0..255))]
      /\ pc' \in [Macs -> WorkStates] /\ addr' \in [Macs -> IPs \cup {None}]
      /\ reply' \in [Macs -> DeviceInfo \cup {None}] /\ attempt' \in [Macs -> 0..Attempts]
  BY DEF WorkTypes, JobTyped
<1>4. JobTyped'
  BY <1>2, <1>3 DEF WorkTypes, JobTyped
<1>5. SearchOpen'
  BY <1>2 DEF WorkTypes, SearchOpen
<1> QED  BY <1>1, <1>4, <1>5 DEF WorkTypes

\* The work on a command keeps the types.
LEMMA WorkStepTypes ==
  ASSUME WorkTypes, NEW m \in Macs, WorkStep(m)
  PROVE  WorkTypes'
<1> USE DEF WorkStates, DiscStates
<1>0. /\ NetTyped /\ RegTyped /\ ScanTyped /\ PollTyped /\ JobTyped
      /\ pc[m] = "search" <=> disc[m] # "out"
      /\ disc[m] \in DiscStates /\ addr[m] \in IPs \cup {None}
      /\ queue[m] \in Seq(Channels \cap (0..255))
      /\ reply[m] \in DeviceInfo \cup {None} /\ attempt[m] \in 0..Attempts
      /\ pc[m] # "idle" => queue[m] # <<>>
      /\ pc[m] \notin {"idle", "search", "settled"} => addr[m] \in IPs
      /\ Attempts \in Nat \ {0}
  BY MacsCall, CommandsType DEF WorkTypes, ScanTyped, JobTyped, SearchOpen
<1>a. /\ addr = [addr EXCEPT ![m] = addr[m]] /\ queue = [queue EXCEPT ![m] = queue[m]]
      /\ reply = [reply EXCEPT ![m] = reply[m]] /\ attempt = [attempt EXCEPT ![m] = attempt[m]]
      /\ disc = [disc EXCEPT ![m] = disc[m]]
  BY <1>0 DEF ScanTyped, JobTyped
<1>b. ASSUME adapters' = adapters, proved' = proved PROVE RegTyped'
  BY <1>0, <1>b DEF RegTyped
<1>c. ASSUME UNCHANGED netVars PROVE NetTyped'
  BY <1>0, <1>c DEF NetTyped, netVars
<1>d. adapters[m].ip \in IPs \cup {None}
  BY <1>0 DEF RegTyped, Adapter
<1>1. ASSUME Begin(m) PROVE WorkTypes'
  <2>1. /\ UNCHANGED <<life, scanNext, scanBusy, pollPhase, pollTodo, pollBusy>>
        /\ UNCHANGED <<reply, attempt, queue>>
        /\ addr' = [addr EXCEPT ![m] = adapters[m].ip] /\ pc[m] = "idle" /\ queue[m] # <<>>
    BY <1>1 DEF Begin, pollVars
  <2>2. NetTyped'
    BY <1>1, <1>c DEF Begin
  <2>3. RegTyped'
    BY <1>0, <1>1 DEF Begin, RegTyped, Watches
  <2>4. CASE adapters[m].ip # None
    <3>1. pc' = [pc EXCEPT ![m] = "ask"] /\ disc' = disc /\ disc[m] = "out"
      BY <1>0, <1>1, <2>1, <2>4 DEF Begin
    <3>g. Gives(m, "ask", adapters[m].ip, disc[m], reply[m], attempt[m], queue[m])
      BY <1>a, <2>1, <3>1 DEF Gives
    <3> QED  BY <1>0, <1>d, <2>1, <2>2, <2>3, <2>4, <3>1, <3>g, WorkTypesFrame
  <2>5. CASE adapters[m].ip = None
    <3>1. pc' = [pc EXCEPT ![m] = "search"] /\ disc' = [disc EXCEPT ![m] = "enter"]
      BY <1>1, <2>5 DEF Begin
    <3>g. Gives(m, "search", adapters[m].ip, "enter", reply[m], attempt[m], queue[m])
      BY <1>a, <2>1, <3>1 DEF Gives
    <3> QED  BY <1>0, <1>d, <2>1, <2>2, <2>3, <3>g, WorkTypesFrame
  <2> QED  BY <2>4, <2>5
<1>2. ASSUME Ask(m) PROVE WorkTypes'
  <2>1. PICK info \in GetDeviceInfo(addr[m], CtxDone(m)) : reply' = [reply EXCEPT ![m] = info]
    BY <1>2 DEF Ask
  <2>2. info \in DeviceInfo \cup {None}
    BY <1>0, ReplyTyped DEF NetTyped
  <2>3. /\ UNCHANGED <<life, scanNext, scanBusy, pollPhase, pollTodo, pollBusy, disc>>
        /\ UNCHANGED <<addr, attempt, queue>>
    BY <1>2 DEF Ask, discVars
  <2>4. NetTyped' /\ RegTyped'
    BY <1>2, <1>b, <1>c DEF Ask, discVars
  <2>5. PICK s \in {"check", "readCheck"} : pc' = [pc EXCEPT ![m] = s] /\ pc[m] \in {"ask", "read"}
    BY <1>2 DEF Ask
  <2>g. Gives(m, s, addr[m], disc[m], info, attempt[m], queue[m])
    BY <1>a, <2>1, <2>3, <2>5 DEF Gives
  <2> QED  BY <1>0, <2>2, <2>4, <2>5, <2>g, WorkTypesFrame
<1>3. ASSUME Verify(m) PROVE WorkTypes'
  <2>1. /\ UNCHANGED <<life, scanNext, scanBusy, pollPhase, pollTodo, pollBusy>>
        /\ UNCHANGED <<addr, attempt, queue>> /\ reply' = [reply EXCEPT ![m] = None]
        /\ pc[m] = "check"
    BY <1>3 DEF Verify, pollVars
  <2>2. NetTyped'
    BY <1>3, <1>c DEF Verify
  <2>3. RegTyped'
    <3>1. CASE reply[m] = None
      BY <1>0, <1>3, <3>1, SilenceTyped DEF Verify
    <3>2. CASE reply[m] # None
      <4>1. Observe(addr[m], reply[m]) /\ reply[m] \in DeviceInfo /\ addr[m] \in IPs
        BY <1>0, <1>3, <2>1, <3>2 DEF Verify
      <4> QED  BY <1>0, <4>1, ObserveTyped
    <3> QED  BY <3>1, <3>2
  <2>4. CASE pc' = [pc EXCEPT ![m] = "role"] /\ disc' = disc
    <3>g. Gives(m, "role", addr[m], disc[m], None, attempt[m], queue[m])
      BY <1>a, <2>1, <2>4 DEF Gives
    <3> QED  BY <1>0, <2>1, <2>2, <2>3, <3>g, WorkTypesFrame
  <2>5. CASE pc' = [pc EXCEPT ![m] = "search"] /\ disc' = [disc EXCEPT ![m] = "enter"]
    <3>g. Gives(m, "search", addr[m], "enter", None, attempt[m], queue[m])
      BY <1>a, <2>1, <2>5 DEF Gives
    <3> QED  BY <1>0, <2>1, <2>2, <2>3, <3>g, WorkTypesFrame
  <2> QED  BY <1>3, <2>4, <2>5 DEF Verify
<1>4. ASSUME Locate(m) PROVE WorkTypes'
  <2>1. /\ UNCHANGED <<life, scanNext, scanBusy, pollPhase, pollTodo, pollBusy>>
        /\ UNCHANGED <<reply, attempt, queue>> /\ disc' = [disc EXCEPT ![m] = "out"]
        /\ pc[m] = "search"
    BY <1>0, <1>4 DEF Locate, pollVars
  <2>2. NetTyped' /\ RegTyped'
    BY <1>4, <1>b, <1>c DEF Locate
  <2>3. CASE adapters[m].online
    <3>1. /\ pc' = [pc EXCEPT ![m] = "role"] /\ addr' = [addr EXCEPT ![m] = adapters[m].ip]
          /\ adapters[m].ip \in IPs
      BY <1>0, <1>4, <1>d, <2>3 DEF Locate, RegTyped
    <3>g. Gives(m, "role", adapters[m].ip, "out", reply[m], attempt[m], queue[m])
      BY <1>a, <2>1, <3>1 DEF Gives
    <3> QED  BY <1>0, <2>1, <2>2, <3>1, <3>g, WorkTypesFrame
  <2>4. CASE ~adapters[m].online
    <3>1. pc' = [pc EXCEPT ![m] = "settled"] /\ addr' = addr
      BY <1>4, <2>4 DEF Locate
    <3>g. Gives(m, "settled", addr[m], "out", reply[m], attempt[m], queue[m])
      BY <1>a, <2>1, <3>1 DEF Gives
    <3> QED  BY <1>0, <2>1, <2>2, <3>g, WorkTypesFrame
  <2> QED  BY <2>3, <2>4
<1>5. ASSUME CheckRole(m) PROVE WorkTypes'
  <2>1. /\ UNCHANGED <<life, scanNext, scanBusy, pollPhase, pollTodo, pollBusy, disc>>
        /\ UNCHANGED <<addr, reply, attempt, queue>> /\ pc[m] = "role"
    BY <1>5 DEF CheckRole, discVars
  <2>2. NetTyped' /\ RegTyped'
    BY <1>5, <1>b, <1>c DEF CheckRole, discVars
  <2>3. PICK s \in {"write", "settled"} : pc' = [pc EXCEPT ![m] = s]
    BY <1>5 DEF CheckRole
  <2>g. Gives(m, s, addr[m], disc[m], reply[m], attempt[m], queue[m])
    BY <1>a, <2>1, <2>3 DEF Gives
  <2> QED  BY <1>0, <2>1, <2>2, <2>3, <2>g, WorkTypesFrame
<1>6. ASSUME Write(m) PROVE WorkTypes'
  <2>1. /\ UNCHANGED <<life, scanNext, scanBusy, pollPhase, pollTodo, pollBusy, disc>>
        /\ UNCHANGED <<addr, reply, queue>> /\ pc[m] = "write"
        /\ pc' = [pc EXCEPT ![m] = "read"] /\ attempt' = [attempt EXCEPT ![m] = 1]
    BY <1>6 DEF Write, discVars
  <2>2. RegTyped'
    BY <1>6, <1>b DEF Write, discVars
  <2>3. Head(queue[m]) \in Channels
    BY <1>0, <2>1, HeadTailProperties
  <2>4. tuned' \in [Devices -> Channels] /\ late' \subseteq Devices \X Channels /\ at' = at
    BY <1>0, <1>6, <2>3 DEF Write, SetChannel, DevicesAt, NetTyped
  <2>5. NetTyped'
    BY <1>0, <2>4 DEF NetTyped
  <2>g. Gives(m, "read", addr[m], disc[m], reply[m], 1, queue[m])
    BY <1>a, <2>1 DEF Gives
  <2> QED  BY <1>0, <2>1, <2>2, <2>5, <2>g, WorkTypesFrame
<1>7. ASSUME ReadBack(m) PROVE WorkTypes'
  <2>1. /\ UNCHANGED <<life, scanNext, scanBusy, pollPhase, pollTodo, pollBusy, disc>>
        /\ UNCHANGED <<addr, queue>> /\ reply' = [reply EXCEPT ![m] = None]
        /\ pc[m] = "readCheck"
    BY <1>7 DEF ReadBack, pollVars, scanVars
  <2>2. NetTyped'
    BY <1>7, <1>c DEF ReadBack
  <2>3. RegTyped'
    <3>1. CASE reply[m] = None
      BY <1>7, <1>b, <3>1 DEF ReadBack
    <3>2. CASE reply[m] # None
      <4>1. Observe(addr[m], reply[m]) /\ reply[m] \in DeviceInfo /\ addr[m] \in IPs
        BY <1>0, <1>7, <2>1, <3>2 DEF ReadBack
      <4> QED  BY <1>0, <4>1, ObserveTyped
    <3> QED  BY <3>1, <3>2
  <2>4. \/ pc' = [pc EXCEPT ![m] = "settled"] /\ attempt' = attempt
        \/ /\ pc' = [pc EXCEPT ![m] = "read"] /\ attempt' = [attempt EXCEPT ![m] = attempt[m] + 1]
           /\ attempt[m] < Attempts
    BY <1>7 DEF ReadBack, TryAgain, Conclude, AttemptsLeft
  <2>5. CASE pc' = [pc EXCEPT ![m] = "settled"] /\ attempt' = attempt
    <3>g. Gives(m, "settled", addr[m], disc[m], None, attempt[m], queue[m])
      BY <1>a, <2>1, <2>5 DEF Gives
    <3> QED  BY <1>0, <2>1, <2>2, <2>3, <3>g, WorkTypesFrame
  <2>6. CASE /\ pc' = [pc EXCEPT ![m] = "read"]
             /\ attempt' = [attempt EXCEPT ![m] = attempt[m] + 1] /\ attempt[m] < Attempts
    <3>1. attempt[m] + 1 \in 0..Attempts
      BY <1>0, <2>6
    <3>g. Gives(m, "read", addr[m], disc[m], None, attempt[m] + 1, queue[m])
      BY <1>a, <2>1, <2>6 DEF Gives
    <3> QED  BY <1>0, <2>1, <2>2, <2>3, <3>1, <3>g, WorkTypesFrame
  <2> QED  BY <2>4, <2>5, <2>6
<1>8. ASSUME StopReading(m) PROVE WorkTypes'
  <2>1. /\ UNCHANGED <<life, scanNext, scanBusy, pollPhase, pollTodo, pollBusy, disc>>
        /\ UNCHANGED <<addr, reply, attempt, queue>> /\ pc[m] = "read"
        /\ pc' = [pc EXCEPT ![m] = "settled"]
    BY <1>8 DEF StopReading, Conclude, discVars
  <2>2. NetTyped' /\ RegTyped'
    BY <1>8, <1>b, <1>c DEF StopReading, discVars
  <2>g. Gives(m, "settled", addr[m], disc[m], reply[m], attempt[m], queue[m])
    BY <1>a, <2>1 DEF Gives
  <2> QED  BY <1>0, <2>1, <2>2, <2>g, WorkTypesFrame
<1>9. ASSUME Finish(m) PROVE WorkTypes'
  <2>1. /\ UNCHANGED <<life, scanNext, scanBusy, pollPhase, pollTodo, pollBusy, disc>>
        /\ reply' = reply /\ pc[m] = "settled" /\ pc' = [pc EXCEPT ![m] = "idle"]
        /\ addr' = [addr EXCEPT ![m] = None] /\ attempt' = [attempt EXCEPT ![m] = 0]
        /\ queue' = [queue EXCEPT ![m] = Tail(queue[m])]
        /\ adapters' = adapters /\ proved' = [proved EXCEPT ![m] = None]
    BY <1>9 DEF Finish, pollVars, scanVars
  <2>2. NetTyped'
    BY <1>9, <1>c DEF Finish
  <2>3. None \in Watches
    BY DEF Watches
  <2>4. RegTyped'
    BY <1>0, <2>1, <2>3 DEF RegTyped
  <2>5. Tail(queue[m]) \in Seq(Channels \cap (0..255))
    BY <1>0, <2>1, HeadTailProperties
  <2> DEFINE rest == Tail(queue[m])
  <2>g. Gives(m, "idle", None, "out", reply[m], 0, rest)
    BY <1>0, <1>a, <2>1 DEF Gives
  <2>6. 0 \in 0..Attempts /\ disc[m] = "out" /\ "idle" \in WorkStates
    BY <1>0, <2>1
  <2>7. rest \in Seq(Channels \cap (0..255)) /\ None \in IPs \cup {None}
    BY <2>5
  <2> HIDE DEF rest
  <2> QED  BY <1>0, <2>2, <2>4, <2>6, <2>7, <2>g, WorkTypesFrame
<1> QED  BY <1>1, <1>2, <1>3, <1>4, <1>5, <1>6, <1>7, <1>8, <1>9 DEF WorkStep

\* The types of discovery and of the work on channel changes.
THEOREM WorkTypesInvariant == WriteSafety => []WorkTypes
<1>1. WriteInit => WorkTypes
  <2> SUFFICES ASSUME WriteInit PROVE WorkTypes
    OBVIOUS
  <2> USE DEF WriteInit, NetworkInit, DiscoveryInit
  <2>1. NetTyped
    BY DevicesType DEF NetTyped
  <2>2. Absent \in Adapter /\ ~Absent.online /\ None \in Watches
    BY DEF Absent, Adapter, Roles, Watches
  <2>3. RegTyped
    BY <2>2 DEF RegTyped
  <2>4. Len(ScanOrder) \in Nat
    BY OrdersType
  <2>5. ScanTyped /\ PollTyped
    BY <2>4, EmptySeq DEF ScanTyped, PollTyped, DiscStates
  <2>6. 0 \in 0..Attempts /\ <<>> \in Seq(Channels \cap (0..255))
    BY CommandsType, EmptySeq
  <2>7. JobTyped /\ SearchOpen
    BY <2>6, MacsCall DEF JobTyped, SearchOpen, WorkStates
  <2> QED  BY <2>1, <2>3, <2>5, <2>7 DEF WorkTypes
<1>2. WorkTypes /\ [WriteNext]_writeVars => WorkTypes'
  <2> SUFFICES ASSUME WorkTypes, [WriteNext]_writeVars PROVE WorkTypes'
    OBVIOUS
  <2>1. ASSUME NEW m \in Macs, Command(m) PROVE WorkTypes'
    BY <2>1, CommandTypes
  <2>2. ASSUME NEW m \in Macs, WorkStep(m) PROVE WorkTypes'
    BY <2>2, WorkStepTypes
  <2>3. CASE Beside(DiscoveryNext)
    <3>1. Beneath /\ UNCHANGED jobVars
      BY <2>3, ScanTypes, PollTypes DEF Beside, DiscoveryNext, WorkTypes, DiscTypes
    <3> QED  BY <3>1, WorkBeside
  <2>4. CASE NetworkNext /\ UNCHANGED discVars /\ UNCHANGED jobVars
    <3>1. DiscTypes' /\ disc' = disc
      BY <2>4, NetworkTypes DEF WorkTypes, DiscTypes, discVars, scanVars
    <3> QED  BY <2>4, <3>1, WorkBeside DEF Beneath
  <2>5. CASE UNCHANGED writeVars
    BY <2>5 DEF writeVars, netVars, discVars, jobVars, WorkTypes, NetTyped, RegTyped, ScanTyped,
                PollTyped, JobTyped, SearchOpen
  <2> QED  BY <2>1, <2>2, <2>3, <2>4, <2>5 DEF WriteNext
<1> QED  BY <1>1, <1>2, PTL DEF WriteSafety

\* While commands, polls and scans interleave, one address never hosts two
\* online adapters (RecordObservation's displacement), also when some device's
\* MAC cannot be read.
THEOREM NoTwoOnlineAtOneAddress == WriteSafety => []OneOnlinePerAddress
<1>1. WorkTypes => OneOnlinePerAddress
  BY DEF WorkTypes, RegTyped, OneOnlinePerAddress, OnlineAt
<1> QED  BY <1>1, WorkTypesInvariant, PTL

\* The same, and the types, of polls, scans and rescans alone: nothing that is
\* assumed of commands is needed.
THEOREM DiscoveryTyped == Spec => [](TypeOK /\ OneOnlinePerAddress)
<1>1. Init => DiscTypes
  <2> SUFFICES ASSUME Init PROVE DiscTypes
    OBVIOUS
  <2> USE DEF Init, NetworkInit, DiscoveryInit
  <2>1. NetTyped
    BY DevicesType DEF NetTyped
  <2>2. Absent \in Adapter /\ ~Absent.online /\ None \in Watches
    BY DEF Absent, Adapter, Roles, Watches
  <2>3. RegTyped
    BY <2>2 DEF RegTyped
  <2>4. Len(ScanOrder) \in Nat
    BY OrdersType
  <2>5. ScanTyped /\ PollTyped
    BY <2>4, EmptySeq DEF ScanTyped, PollTyped, DiscStates
  <2> QED  BY <2>1, <2>3, <2>5 DEF DiscTypes
<1>2. DiscTypes /\ [Next]_vars => DiscTypes'
  <2> SUFFICES ASSUME DiscTypes, [Next]_vars PROVE DiscTypes'
    OBVIOUS
  <2>1. CASE DiscoveryNext /\ UNCHANGED netVars
    BY <2>1, ScanTypes, PollTypes DEF DiscoveryNext, Beneath
  <2>2. CASE NetworkNext /\ UNCHANGED discVars
    BY <2>2, NetworkTypes
  <2>3. CASE UNCHANGED vars
    BY <2>3 DEF vars, netVars, discVars, DiscTypes, NetTyped, RegTyped, ScanTyped, PollTyped
  <2> QED  BY <2>1, <2>2, <2>3 DEF Next
<1>3. DiscTypes => TypeOK /\ OneOnlinePerAddress
  BY DEF DiscTypes, NetTyped, RegTyped, ScanTyped, PollTyped, TypeOK, Watches, DiscStates,
         OneOnlinePerAddress, OnlineAt
<1> QED  BY <1>1, <1>2, <1>3, PTL DEF Spec

\* Work is under way only with a command at the head of its queue, it searches
\* exactly while its call of RunDiscovery is open, and all state is well typed.
THEOREM WritePathTyped == WriteSafety => []WriteTypeOK
<1>1. ASSUME WorkTypes PROVE WriteTypeOK
  <2>1. TypeOK
    BY <1>1 DEF WorkTypes, NetTyped, RegTyped, ScanTyped, PollTyped, TypeOK, Watches, DiscStates
  <2>2. queue \in [Macs -> Seq(0..255)]
    <3>1. Seq(Channels \cap (0..255)) \subseteq Seq(0..255)
      BY SeqDef
    <3> QED  BY <1>1, <3>1 DEF WorkTypes, JobTyped
  <2> QED  BY <1>1, <2>1, <2>2 DEF WorkTypes, JobTyped, SearchOpen, WriteTypeOK
<1> QED  BY <1>1, WorkTypesInvariant, PTL

-----------------------------------------------------------------------------
(* Roles.  The role the database holds may be out of date; the registry's is   *)
(* a device's own word as soon as the device has been seen, and work that may   *)
(* write has seen it, or was accepted on that word before the database was read.*)

GenuineInfo == {info \in DeviceInfo :
                  \E d \in Devices : MacOf[d] = info.lanMAC /\ HardwareOf[d] = info.hw}

Genuine(m) == \E d \in DevicesOf(m) : adapters[m].role = Classify(HardwareOf[d])

Controllable(m) == \E d \in DevicesOf(m) : Classify(HardwareOf[d]) # "unknown"

AnswersGenuine == /\ \A hit \in scanBusy : hit.info \in GenuineInfo
                  /\ \A e \in pollBusy : e.reply \in GenuineInfo \cup {None}
                  /\ \A m \in Macs : reply[m] \in GenuineInfo \cup {None}

RoleInv ==
  /\ AnswersGenuine
  /\ \A m \in Macs :
       /\ adapters[m].online => Genuine(m)
       /\ pollPhase = "load" /\ adapters[m].known => Genuine(m)
       /\ pollPhase = "load" /\ queue[m] # <<>> => Controllable(m)
       /\ pc[m] = "role" => Genuine(m) \/ Controllable(m)
       /\ pc[m] = "write" => Controllable(m)

\* Answers are the devices' own words.
LEMMA ReplyGenuine ==
  ASSUME tuned \in [Devices -> Channels], NEW ip, NEW done,
         NEW info \in GetDeviceInfo(ip, done)
  PROVE  info \in GenuineInfo \cup {None}
<1>1. \A d \in Devices : InfoOf(d).lanMAC = MacOf[d] /\ InfoOf(d).hw = HardwareOf[d]
  BY DEF InfoOf
<1>2. info \in DeviceInfo \cup {None} /\ (info = None \/ \E d \in Devices : info = InfoOf(d))
  BY ReplyTyped
<1> QED  BY <1>1, <1>2 DEF GenuineInfo

\* The registry's word on x is genuine now, or no more than it was before.
Recorded(x) == \/ Genuine(x)'
               \/ /\ adapters'[x].role = adapters[x].role
                  /\ adapters'[x].online => adapters[x].online
                  /\ adapters'[x].known => adapters[x].known

\* An observation records the device's own word.
LEMMA ObserveRoles ==
  ASSUME RegTyped, NEW ip \in IPs, NEW info \in GenuineInfo, Observe(ip, info)
  PROVE  /\ \A x \in Macs : Recorded(x)
         /\ Normalize[info.lanMAC] # None => Genuine(Normalize[info.lanMAC])'
<1> DEFINE m == Normalize[info.lanMAC]
<1>0. PICK d \in Displacements(adapters, ip, m) :
         adapters' = RecordObservation(adapters, ip, info, d)
  BY DEF Observe
<1>1. adapters \in [Macs -> Adapter] /\ info \in DeviceInfo
  BY DEF RegTyped, GenuineInfo
<1>2. CASE m = None
  <2>1. adapters' = adapters
    BY <1>0, <1>2 DEF RecordObservation
  <2> QED  BY <1>2, <2>1 DEF Recorded
<1>3. CASE m # None
  <2>1. m \in Macs /\ adapters'[m] = [known |-> TRUE, role |-> Classify(info.hw), ip |-> ip,
                                      name |-> adapters[m].name, hw |-> info.hw,
                                      channel |-> info.channel, online |-> TRUE]
    BY <1>0, <1>1, <1>3, RecordOwn
  <2>2. adapters'[m].role = Classify(info.hw)
    BY <2>1
  <2>3. PICK e \in Devices : MacOf[e] = info.lanMAC /\ HardwareOf[e] = info.hw
    BY DEF GenuineInfo
  <2>4. e \in DevicesOf(m)
    BY <2>3 DEF DevicesOf
  <2>5. \A x \in Macs \ {m} : /\ adapters'[x].online => adapters[x].online
                              /\ adapters'[x].known = adapters[x].known
                              /\ adapters'[x].role = adapters[x].role
    BY <1>0, <1>1, <1>3, RecordOther
  <2> HIDE DEF m
  <2>6. Genuine(m)'
    BY <2>2, <2>3, <2>4 DEF Genuine, DevicesOf
  <2> QED  BY <2>5, <2>6 DEF Recorded, m
<1> QED  BY <1>2, <1>3

\* Taking a device offline changes no role.
LEMMA SilenceRoles ==
  ASSUME RegTyped, NEW m \in Macs, adapters' = MarkOffline(adapters, m)
  PROVE  \A x \in Macs : Recorded(x)
<1>1. /\ adapters \in [Macs -> Adapter]
      /\ \A x \in Macs : adapters[x].online => adapters[x].known
  BY DEF RegTyped
<1>2. \A x \in Macs : /\ adapters'[x].online => adapters[x].online
                      /\ adapters'[x].known = adapters[x].known
                      /\ adapters'[x].role = adapters[x].role
  BY <1>1, MarkOfflineEffect
<1> QED  BY <1>2 DEF Recorded

\* A step that records only answers, adds no command and lets no work get as
\* far as the role or the write keeps the invariant.
LEMMA RoleFrame ==
  ASSUME RoleInv, AnswersGenuine', pollPhase' = "load" => pollPhase = "load",
         \A x \in Macs : /\ Recorded(x)
                         /\ pc'[x] \in {"role", "write"} => pc'[x] = pc[x]
                         /\ queue'[x] # <<>> => queue[x] # <<>>
  PROVE  RoleInv'
<1>1. \A x \in Macs : Controllable(x)' <=> Controllable(x)
  BY DEF Controllable, DevicesOf
<1>2. \A x \in Macs : Genuine(x)' \/ /\ Genuine(x) => Genuine(x)'
                                     /\ adapters'[x].online => adapters[x].online
                                     /\ adapters'[x].known => adapters[x].known
  BY DEF Recorded, Genuine, DevicesOf
<1> QED  BY <1>1, <1>2 DEF RoleInv

\* Every step keeps the invariant.
LEMMA RolePreserved ==
  ASSUME WorkTypes, RoleInv, [WriteNext]_writeVars
  PROVE  RoleInv'
<1>0. /\ RegTyped /\ NetTyped /\ tuned \in [Devices -> Channels] /\ AnswersGenuine
      /\ reply \in [Macs -> DeviceInfo \cup {None}]
      /\ pc \in [Macs -> WorkStates] /\ queue \in [Macs -> Seq(Channels \cap (0..255))]
  BY DEF WorkTypes, NetTyped, JobTyped, RoleInv
<1>a. ASSUME adapters' = adapters PROVE \A x \in Macs : Recorded(x)
  BY <1>a DEF Recorded
<1>b. ASSUME UNCHANGED jobVars
      PROVE  /\ \A x \in Macs : /\ pc'[x] \in {"role", "write"} => pc'[x] = pc[x]
                                /\ queue'[x] # <<>> => queue[x] # <<>>
             /\ reply' = reply
  BY <1>b DEF jobVars
<1>1. ASSUME NEW m \in Macs, Command(m) PROVE RoleInv'
  <2>1. /\ UNCHANGED <<adapters, pollPhase, scanBusy, pollBusy, pc, reply>>
        /\ \A x \in Macs \ {m} : queue'[x] = queue[x]
        /\ adapters[m].known /\ WritableRole(adapters[m].role)
    BY <1>0, <1>1, CommandTypes
  <2>2. pollPhase = "load" => Controllable(m)
    BY <2>1 DEF RoleInv, Genuine, Controllable, WritableRole
  <2>3. AnswersGenuine'
    BY <1>0, <2>1 DEF AnswersGenuine
  <2> QED  BY <2>1, <2>2, <2>3 DEF RoleInv, Genuine, Controllable, DevicesOf
<1>2. ASSUME NEW c \in Callers, ScanStep(c), UNCHANGED jobVars PROVE RoleInv'
  <2>1. UNCHANGED <<adapters, pollPhase, pollBusy>>
    BY <1>2 DEF ScanStep, Enter, GiveUp, ScanAsk, ScanEnd, pollVars
  <2>2. \A hit \in scanBusy' : hit.info \in GenuineInfo
    <3>1. CASE ScanAsk(c)
      <4>1. PICK info \in GetDeviceInfo(ScanOrder[scanNext], FALSE) :
              scanBusy' = IF info = None THEN scanBusy
                          ELSE scanBusy \cup {[ip |-> ScanOrder[scanNext], info |-> info]}
        BY <3>1 DEF ScanAsk
      <4>2. info \in GenuineInfo \cup {None}
        BY <1>0, ReplyGenuine
      <4> QED  BY <1>0, <4>1, <4>2 DEF AnswersGenuine
    <3>2. CASE Enter(c) \/ GiveUp(c) \/ ScanEnd(c)
      BY <1>0, <3>2 DEF Enter, GiveUp, ScanEnd, AnswersGenuine
    <3> QED  BY <1>2, <3>1, <3>2 DEF ScanStep
  <2>3. AnswersGenuine'
    BY <1>0, <1>2, <1>b, <2>1, <2>2 DEF AnswersGenuine
  <2> QED  BY <1>2, <1>a, <1>b, <2>1, <2>3, RoleFrame
<1>3. ASSUME NEW hit \in scanBusy, ScanHit(hit), UNCHANGED jobVars PROVE RoleInv'
  <2>1. Observe(hit.ip, hit.info) /\ hit.ip \in IPs /\ hit.info \in GenuineInfo
    BY <1>0, <1>3 DEF ScanHit, AnswersGenuine, WorkTypes, ScanTyped
  <2>2. \A x \in Macs : Recorded(x)
    BY <1>0, <2>1, ObserveRoles
  <2>3. AnswersGenuine' /\ pollPhase' = pollPhase
    BY <1>0, <1>3, <1>b DEF ScanHit, AnswersGenuine, pollVars
  <2> QED  BY <1>3, <1>b, <2>2, <2>3, RoleFrame
<1>4. ASSUME NEW e \in pollBusy, SweepReply(e), UNCHANGED jobVars PROVE RoleInv'
  <2>1. e.mac \in Macs /\ e.ip \in IPs /\ e.reply \in GenuineInfo \cup {None}
    BY <1>0 DEF AnswersGenuine, WorkTypes, PollTyped
  <2>2. \A x \in Macs : Recorded(x)
    <3>1. CASE e.reply # None
      <4>1. Observe(e.ip, e.reply) /\ e.reply \in GenuineInfo
        BY <1>4, <2>1, <3>1 DEF SweepReply
      <4> QED  BY <1>0, <2>1, <4>1, ObserveRoles
    <3>2. CASE adapters' = MarkOffline(adapters, e.mac)
      BY <1>0, <2>1, <3>2, SilenceRoles
    <3>3. CASE adapters' = adapters
      BY <3>3, <1>a
    <3> QED  BY <1>4, <3>1, <3>2, <3>3 DEF SweepReply
  <2>3. AnswersGenuine' /\ pollPhase' = pollPhase
    BY <1>0, <1>4, <1>b DEF SweepReply, AnswersGenuine, scanVars
  <2> QED  BY <1>4, <1>b, <2>2, <2>3, RoleFrame
<1>5. ASSUME SweepAsk, UNCHANGED jobVars PROVE RoleInv'
  <2>1. UNCHANGED <<adapters, pollPhase, scanBusy>>
    BY <1>5 DEF SweepAsk, scanVars
  <2>2. \A e \in pollBusy' : e.reply \in GenuineInfo \cup {None}
    <3>1. CASE ~HasAddress(Head(pollTodo))
      BY <1>0, <1>5, <3>1 DEF SweepAsk, AnswersGenuine
    <3>2. CASE HasAddress(Head(pollTodo))
      <4>1. PICK info \in GetDeviceInfo(Head(pollTodo).ip, FALSE) :
              pollBusy' = pollBusy \cup {[mac |-> Head(pollTodo).mac, ip |-> Head(pollTodo).ip,
                                          online |-> Head(pollTodo).online, reply |-> info]}
        BY <1>5, <3>2 DEF SweepAsk
      <4>2. info \in GenuineInfo \cup {None}
        BY <1>0, ReplyGenuine
      <4> QED  BY <1>0, <4>1, <4>2 DEF AnswersGenuine
    <3> QED  BY <3>1, <3>2
  <2>3. AnswersGenuine'
    BY <1>0, <1>5, <1>b, <2>1, <2>2 DEF AnswersGenuine
  <2> QED  BY <1>5, <1>a, <1>b, <2>1, <2>3, RoleFrame
<1>6. ASSUME \/ RescanPress \/ RescanReturn \/ SweepBegin \/ SweepEnd \/ PollReturn
             \/ PollLoopEnd \/ LoadFails \/ Signal \/ EndLife,
             UNCHANGED jobVars
      PROVE  RoleInv'
  <2>1. /\ UNCHANGED <<adapters, scanBusy, pollBusy>>
        /\ pollPhase' = "load" => pollPhase = "load"
    BY <1>6 DEF RescanPress, RescanReturn, SweepBegin, SweepEnd, PollReturn, PollLoopEnd,
                LoadFails, Signal, EndLife, scanVars, pollVars
  <2>2. AnswersGenuine'
    BY <1>0, <1>6, <1>b, <2>1 DEF AnswersGenuine
  <2> QED  BY <1>6, <1>a, <1>b, <2>1, <2>2, RoleFrame
<1>7. ASSUME Load, UNCHANGED jobVars PROVE RoleInv'
  <2>1. PICK rows \in Inventories : adapters' = Hydrate(adapters, rows)
    BY <1>7 DEF Load
  <2>2. adapters \in [Macs -> Adapter] /\ rows \in [Macs -> Adapter]
    BY <1>0, InventoriesType DEF RegTyped
  <2>3. \A x \in Macs : adapters'[x].online => adapters'[x] = adapters[x]
    BY <2>1, <2>2, HydrateEffect
  <2>4. \A x \in Macs : pc[x] # "idle" => queue[x] # <<>>
    BY DEF WorkTypes, JobTyped
  <2>5. AnswersGenuine'
    BY <1>0, <1>7, <1>b DEF Load, AnswersGenuine, scanVars
  <2>6. pollPhase = "load" /\ pollPhase' = "boot" /\ pc' = pc
    BY <1>7 DEF Load, jobVars
  <2>7. \A x \in Macs : adapters'[x].online => Genuine(x)'
    BY <2>3 DEF RoleInv, Genuine, DevicesOf
  <2>8. \A x \in Macs : pc[x] \in {"role", "write"} => Controllable(x)'
    BY <2>4, <2>6 DEF RoleInv, Controllable, DevicesOf
  <2> QED  BY <2>5, <2>6, <2>7, <2>8 DEF RoleInv
<1>8. ASSUME NetworkNext, UNCHANGED discVars, UNCHANGED jobVars PROVE RoleInv'
  BY <1>0, <1>8, <1>a, <1>b, RoleFrame DEF discVars, AnswersGenuine
<1>9. ASSUME NEW m \in Macs, WorkStep(m) PROVE RoleInv'
  <2>0. /\ m # None /\ reply[m] \in GenuineInfo \cup {None}
        /\ pc[m] \in {"check", "readCheck"} => addr[m] \in IPs
    BY <1>0, NoneIsFresh DEF AnswersGenuine, WorkTypes, JobTyped
  <2>1. UNCHANGED <<pollPhase, scanBusy, pollBusy>>
    BY <1>9 DEF WorkStep, Begin, Ask, Verify, Locate, CheckRole, Write, ReadBack, StopReading,
                Finish, scanVars, pollVars, discVars
  <2>a. ASSUME \A x \in Macs : reply'[x] \in GenuineInfo \cup {None} PROVE AnswersGenuine'
    BY <1>0, <2>1, <2>a DEF AnswersGenuine
  <2>2. AnswersGenuine'
    <3>1. CASE Ask(m)
      <4>1. PICK info \in GetDeviceInfo(addr[m], CtxDone(m)) : reply' = [reply EXCEPT ![m] = info]
        BY <3>1 DEF Ask
      <4>2. info \in GenuineInfo \cup {None}
        BY <1>0, ReplyGenuine
      <4>3. \A x \in Macs : reply'[x] = IF x = m THEN info ELSE reply[x]
        BY <1>0, <4>1
      <4>4. \A x \in Macs : reply[x] \in GenuineInfo \cup {None}
        BY <1>0 DEF AnswersGenuine
      <4> QED  BY <2>a, <4>2, <4>3, <4>4
    <3>2. CASE Verify(m) \/ ReadBack(m)
      <4>1. reply' = [reply EXCEPT ![m] = None]
        BY <3>2 DEF Verify, ReadBack
      <4>2. \A x \in Macs : reply'[x] = IF x = m THEN None ELSE reply[x]
        BY <1>0, <4>1
      <4>3. \A x \in Macs : reply[x] \in GenuineInfo \cup {None}
        BY <1>0 DEF AnswersGenuine
      <4> QED  BY <2>a, <4>2, <4>3
    <3>3. CASE reply' = reply
      BY <1>0, <2>a, <3>3 DEF AnswersGenuine
    <3> QED
      BY <1>9, <3>1, <3>2, <3>3 DEF WorkStep, Begin, Locate, CheckRole, Write, StopReading, Finish
  <2>b. ASSUME adapters' = adapters, queue' = queue,
               NEW s, pc' = [pc EXCEPT ![m] = s],
               s = "role" => Genuine(m), s = "write" => Controllable(m)
        PROVE  RoleInv'
    <3>1. \A x \in Macs : pc'[x] = IF x = m THEN s ELSE pc[x]
      BY <1>0, <2>b
    <3>2. \A x \in Macs : (Genuine(x)' <=> Genuine(x)) /\ (Controllable(x)' <=> Controllable(x))
      BY <2>b DEF Genuine, Controllable, DevicesOf
    <3> QED  BY <2>1, <2>2, <2>b, <3>1, <3>2 DEF RoleInv
  <2>3. CASE Begin(m)
    <3>1. PICK s \in {"ask", "search"} : pc' = [pc EXCEPT ![m] = s]
      BY <2>3 DEF Begin
    <3> QED  BY <2>3, <2>b, <3>1 DEF Begin
  <2>4. CASE Ask(m)
    <3>1. PICK s \in {"check", "readCheck"} : pc' = [pc EXCEPT ![m] = s]
      BY <2>4 DEF Ask
    <3> QED  BY <2>4, <2>b, <3>1 DEF Ask, discVars
  <2>5. CASE Verify(m)
    <3>1. pc[m] = "check" /\ queue' = queue
      BY <2>5 DEF Verify
    <3>2. CASE reply[m] # None /\ IsAnswerOf(m, reply[m])
      <4>1. Observe(addr[m], reply[m]) /\ pc' = [pc EXCEPT ![m] = "role"]
        BY <2>5, <3>2 DEF Verify
      <4>0. PICK info \in GenuineInfo : info = reply[m]
        BY <2>0, <3>2
      <4>2. (\A x \in Macs : Recorded(x)) /\ Genuine(m)'
        BY <1>0, <2>0, <3>1, <3>2, <4>0, <4>1, ObserveRoles DEF IsAnswerOf
      <4>4. \A x \in Macs : pc'[x] = IF x = m THEN "role" ELSE pc[x]
        BY <1>0, <4>1
      <4>5. \A x \in Macs : Controllable(x)' <=> Controllable(x)
        BY DEF Controllable, DevicesOf
      <4>6. \A x \in Macs : Genuine(x)' \/ /\ Genuine(x) => Genuine(x)'
                                           /\ adapters'[x].online => adapters[x].online
                                           /\ adapters'[x].known => adapters[x].known
        BY <4>2 DEF Recorded, Genuine, DevicesOf
      <4> QED  BY <2>1, <2>2, <3>1, <4>2, <4>4, <4>5, <4>6 DEF RoleInv
    <3>3. CASE ~(reply[m] # None /\ IsAnswerOf(m, reply[m]))
      <4>1. pc' = [pc EXCEPT ![m] = "search"]
        BY <2>5, <3>3 DEF Verify
      <4>2. CASE reply[m] = None
        <5>1. adapters' = MarkOffline(adapters, m)
          BY <2>5, <4>2 DEF Verify
        <5>2. \A x \in Macs : Recorded(x)
          BY <1>0, <5>1, SilenceRoles
        <5> QED  BY <1>0, <2>1, <2>2, <3>1, <4>1, <5>2, RoleFrame
      <4>3. CASE reply[m] # None
        <5>1. Observe(addr[m], reply[m])
          BY <2>5, <4>3 DEF Verify
        <5>2. \A x \in Macs : Recorded(x)
          BY <1>0, <2>0, <3>1, <4>3, <5>1, ObserveRoles
        <5> QED  BY <1>0, <2>1, <2>2, <3>1, <4>1, <5>2, RoleFrame
      <4> QED  BY <4>2, <4>3
    <3> QED  BY <3>2, <3>3
  <2>6. CASE Locate(m)
    <3>1. adapters[m].online => Genuine(m)
      BY DEF RoleInv
    <3>2. PICK s \in {"role", "settled"} : /\ pc' = [pc EXCEPT ![m] = s]
                                           /\ s = "role" => adapters[m].online
      BY <2>6 DEF Locate
    <3> QED  BY <2>6, <2>b, <3>1, <3>2 DEF Locate
  <2>7. CASE CheckRole(m)
    <3>1. WritableRole(adapters[m].role) => Controllable(m)
      BY <2>7 DEF CheckRole, RoleInv, Genuine, Controllable, WritableRole
    <3>2. PICK s \in {"write", "settled"} : /\ pc' = [pc EXCEPT ![m] = s]
                                            /\ s = "write" => WritableRole(adapters[m].role)
      BY <2>7 DEF CheckRole
    <3> QED  BY <2>7, <2>b, <3>1, <3>2 DEF CheckRole, discVars
  <2>8. CASE Write(m)
    BY <2>8, <2>b DEF Write, discVars
  <2>9. CASE ReadBack(m)
    <3>1. pc[m] = "readCheck" /\ queue' = queue
      BY <2>9 DEF ReadBack
    <3>2. PICK s \in {"read", "settled"} : pc' = [pc EXCEPT ![m] = s]
      BY <2>9 DEF ReadBack, TryAgain, Conclude
    <3>3. \A x \in Macs : Recorded(x)
      <4>1. CASE reply[m] = None
        BY <1>a, <2>9, <4>1 DEF ReadBack
      <4>2. CASE reply[m] # None
        <5>1. Observe(addr[m], reply[m])
          BY <2>9, <4>2 DEF ReadBack
        <5> QED  BY <1>0, <2>0, <3>1, <4>2, <5>1, ObserveRoles
      <4> QED  BY <4>1, <4>2
    <3> QED  BY <1>0, <2>1, <2>2, <3>1, <3>2, <3>3, RoleFrame
  <2>10. CASE StopReading(m)
    BY <2>10, <2>b DEF StopReading, Conclude, discVars
  <2>11. CASE Finish(m)
    <3>1. /\ adapters' = adapters /\ pc' = [pc EXCEPT ![m] = "idle"] /\ pc[m] = "settled"
          /\ queue' = [queue EXCEPT ![m] = Tail(queue[m])]
      BY <2>11 DEF Finish
    <3>2. queue[m] # <<>>
      BY <3>1 DEF WorkTypes, JobTyped
    <3>3. \A x \in Macs : /\ pc'[x] = IF x = m THEN "idle" ELSE pc[x]
                          /\ queue'[x] # <<>> => queue[x] # <<>>
      BY <1>0, <3>1, <3>2
    <3> QED  BY <1>a, <2>1, <2>2, <3>1, <3>3, RoleFrame
  <2> QED  BY <1>9, <2>3, <2>4, <2>5, <2>6, <2>7, <2>8, <2>9, <2>10, <2>11 DEF WorkStep
<1>10. CASE UNCHANGED writeVars
  BY <1>0, <1>10, <1>a, <1>b, RoleFrame DEF writeVars, discVars, AnswersGenuine
<1> QED
  BY <1>1, <1>2, <1>3, <1>4, <1>5, <1>6, <1>7, <1>8, <1>9, <1>10
     DEF WriteNext, Beside, DiscoveryNext, PollStep, ScanHits, SweepReplies

\* Roles are the devices' own words wherever work depends on them.
THEOREM RolesInvariant == WriteSafety => []RoleInv
<1>1. WriteInit => RoleInv
  <2> SUFFICES ASSUME WriteInit PROVE RoleInv
    OBVIOUS
  <2>1. \A m \in Macs : adapters[m] = Absent /\ queue[m] = <<>> /\ pc[m] = "idle"
    BY DEF WriteInit, DiscoveryInit
  <2>2. ~Absent.online /\ ~Absent.known
    BY DEF Absent
  <2>3. AnswersGenuine
    BY DEF WriteInit, DiscoveryInit, AnswersGenuine
  <2> QED  BY <2>1, <2>2, <2>3 DEF RoleInv
<1>2. WorkTypes /\ RoleInv /\ [WriteNext]_writeVars => RoleInv'
  BY RolePreserved
<1> QED  BY <1>1, <1>2, WorkTypesInvariant, PTL DEF WriteSafety

\* No command for a device that is neither receiver nor transmitter gets as far
\* as the write, whatever roles the database holds.
THEOREM UnknownRolesAreRefused == WriteSafety => []UnknownRoleIsRefused
<1>1. RoleInv => UnknownRoleIsRefused
  BY DEF RoleInv, Controllable, UnknownRoleIsRefused
<1> QED  BY <1>1, RolesInvariant, PTL

-----------------------------------------------------------------------------
(* Outcomes.  Whatever work reads back from its own device, the device has    *)
(* been on since the write was sent: the history follows the device, and an    *)
(* answer that is still under way was given since.                            *)

Outcomes == {"none", "device_not_located", "unknown_role", "write_rejected", "matched", "mismatch"}

Truthful(m) ==
  /\ pc[m] \in Sent => \A d \in DevicesOf(m) : tuned[d] \in held[m]
  /\ pc[m] = "readCheck" /\ reply[m] # None /\ IsAnswerOf(m, reply[m]) =>
       reply[m].channel \in held[m]
  /\ reported[m] # None => pc[m] \in Sent /\ reported[m] \in held[m]
  /\ outcome[m] = "matched" => pc[m] = "settled" /\ Head(queue[m]) \in held[m]

ReportInv == /\ reported \in [Macs -> Channels \cup {None}]
             /\ outcome \in [Macs -> Outcomes]
             /\ \A m \in Macs : Truthful(m)

\* The history holds what the device is on, and what it held before.
LEMMA HoldEffect ==
  ASSUME Hold, NEW m \in Macs, pc'[m] \in Sent
  PROVE  /\ \A d \in DevicesOf(m) : tuned'[d] \in held'[m]
         /\ pc[m] \in Sent => held[m] \subseteq held'[m]
  BY DEF Hold

\* A step that leaves m's work alone: at most, a command joins its queue.
Apart(m) == /\ pc'[m] = pc[m] /\ reply'[m] = reply[m]
            /\ reported'[m] = reported[m] /\ outcome'[m] = outcome[m]
            /\ pc[m] # "idle" => Head(queue'[m]) = Head(queue[m])

\* Work that a step leaves alone stays truthful.
LEMMA ApartTruthful ==
  ASSUME NEW m \in Macs, Truthful(m), Hold, Apart(m)
  PROVE  Truthful(m)'
<1>1. CASE pc[m] \in Sent
  <2>1. /\ \A d \in DevicesOf(m) : tuned'[d] \in held'[m]
        /\ held[m] \subseteq held'[m]
    BY <1>1, HoldEffect DEF Apart
  <2> QED  BY <1>1, <2>1 DEF Apart, Truthful, DevicesOf, IsAnswerOf, Sent
<1>2. CASE pc[m] \notin Sent
  BY <1>2 DEF Apart, Truthful, Sent
<1> QED  BY <1>1, <1>2

\* Work with nothing read back and no match to report.
LEMMA SilentTruthful ==
  ASSUME NEW m \in Macs, Hold, reported'[m] = None, outcome'[m] # "matched",
         pc'[m] = "readCheck" => reply'[m] = None \/ ~IsAnswerOf(m, reply'[m])
                                                  \/ reply'[m].channel \in held'[m]
  PROVE  Truthful(m)'
<1>1. pc'[m] \in Sent => \A d \in DevicesOf(m) : tuned'[d] \in held'[m]
  BY HoldEffect
<1> QED  BY <1>1 DEF Truthful, DevicesOf, IsAnswerOf

\* The end of a readback that reports what the device has been on.
LEMMA ConcludeTruthful ==
  ASSUME WorkTypes, ReportInv, NEW m \in Macs, pc[m] \in Sent, Hold, queue' = queue,
         NEW c \in Channels \cup {None}, c # None => c \in held[m],
         Conclude(m, c)
  PROVE  /\ Truthful(m)'
         /\ reported' = [reported EXCEPT ![m] = c]
         /\ \E o \in Outcomes : outcome' = [outcome EXCEPT ![m] = o]
         /\ \E s \in WorkStates : pc' = [pc EXCEPT ![m] = s]
<1>1. /\ pc \in [Macs -> WorkStates] /\ reported \in [Macs -> Channels \cup {None}]
      /\ outcome \in [Macs -> Outcomes]
      /\ queue[m] \in Seq(Channels \cap (0..255)) /\ queue[m] # <<>>
  BY DEF WorkTypes, JobTyped, ReportInv, Sent
<1>2. pc'[m] = "settled" /\ outcome'[m] = Verdict(m, c) /\ reported'[m] = c
  BY <1>1 DEF Conclude
<1>3. /\ \A d \in DevicesOf(m) : tuned'[d] \in held'[m]
      /\ held[m] \subseteq held'[m]
  BY <1>2, HoldEffect DEF Sent
<1>4. Head(queue[m]) \in Channels /\ None \notin Channels
  BY <1>1, HeadTailProperties, NoneIsFresh
<1>5. outcome'[m] = "matched" => Head(queue'[m]) \in held'[m]
  BY <1>2, <1>3, <1>4 DEF Verdict
<1>6. Truthful(m)'
  BY <1>2, <1>3, <1>5 DEF Truthful, DevicesOf, Sent
<1>7. Verdict(m, c) \in Outcomes /\ "settled" \in WorkStates
  BY DEF Verdict, Outcomes, WorkStates
<1> QED  BY <1>6, <1>7 DEF Conclude

\* The next turn of the readback, or its end.
LEMMA TryAgainTruthful ==
  ASSUME WorkTypes, ReportInv, NEW m \in Macs, pc[m] \in Sent \ {"settled"}, Hold, queue' = queue,
         NEW c \in Channels \cup {None}, c # None => c \in held[m],
         TryAgain(m, c)
  PROVE  /\ Truthful(m)'
         /\ reported' = [reported EXCEPT ![m] = c]
         /\ \E o \in Outcomes : outcome' = [outcome EXCEPT ![m] = o]
         /\ \E s \in WorkStates : pc' = [pc EXCEPT ![m] = s]
<1>1. CASE Conclude(m, c)
  BY <1>1, ConcludeTruthful
<1>2. CASE /\ pc' = [pc EXCEPT ![m] = "read"] /\ outcome' = outcome
           /\ reported' = [reported EXCEPT ![m] = c]
  <2>1. /\ pc \in [Macs -> WorkStates] /\ reported \in [Macs -> Channels \cup {None}]
        /\ outcome \in [Macs -> Outcomes] /\ Truthful(m)
    BY DEF WorkTypes, JobTyped, ReportInv
  <2>2. pc'[m] = "read" /\ reported'[m] = c /\ outcome'[m] # "matched"
    BY <1>2, <2>1 DEF Truthful, Sent
  <2>3. /\ \A d \in DevicesOf(m) : tuned'[d] \in held'[m]
        /\ held[m] \subseteq held'[m]
    BY <2>2, HoldEffect DEF Sent
  <2>4. Truthful(m)'
    BY <2>2, <2>3 DEF Truthful, DevicesOf, Sent
  <2>5. /\ "read" \in WorkStates
        /\ outcome[m] \in Outcomes /\ outcome = [outcome EXCEPT ![m] = outcome[m]]
    BY <2>1 DEF WorkStates
  <2> QED  BY <1>2, <2>4, <2>5
<1> QED  BY <1>1, <1>2 DEF TryAgain

\* The work on m's command keeps its reports truthful.
LEMMA WorkTruthful ==
  ASSUME WorkTypes, ReportInv, NEW m \in Macs, WorkStep(m), Hold
  PROVE  /\ Truthful(m)'
         /\ \E c \in Channels \cup {None} : reported' = [reported EXCEPT ![m] = c]
         /\ \E o \in Outcomes : outcome' = [outcome EXCEPT ![m] = o]
         /\ \E s \in WorkStates : pc' = [pc EXCEPT ![m] = s]
<1>0. /\ reported \in [Macs -> Channels \cup {None}] /\ outcome \in [Macs -> Outcomes]
      /\ Truthful(m)
      /\ pc \in [Macs -> WorkStates] /\ reply \in [Macs -> DeviceInfo \cup {None}]
      /\ reported[m] \in Channels \cup {None} /\ outcome[m] \in Outcomes
      /\ tuned \in [Devices -> Channels]
  BY DEF ReportInv, WorkTypes, JobTyped, NetTyped
<1> DEFINE Goal == /\ Truthful(m)'
                   /\ \E c \in Channels \cup {None} : reported' = [reported EXCEPT ![m] = c]
                   /\ \E o \in Outcomes : outcome' = [outcome EXCEPT ![m] = o]
                   /\ \E s \in WorkStates : pc' = [pc EXCEPT ![m] = s]
<1>a. /\ reported = [reported EXCEPT ![m] = reported[m]]
      /\ outcome = [outcome EXCEPT ![m] = outcome[m]]
  BY <1>0
\* Before the write is sent nothing has been read back.
<1>b. ASSUME pc[m] \notin Sent, NEW s \in WorkStates \ {"readCheck"}, pc' = [pc EXCEPT ![m] = s],
             NEW o \in Outcomes \ {"matched"},
             outcome' = outcome \/ outcome' = [outcome EXCEPT ![m] = o],
             reported' = reported
      PROVE  Goal
  <2>1. reported[m] = None /\ outcome[m] # "matched"
    BY <1>0, <1>b DEF Truthful, Sent
  <2>2. reported'[m] = None /\ outcome'[m] # "matched" /\ pc'[m] # "readCheck"
    BY <1>0, <1>b, <2>1
  <2>3. Truthful(m)'
    BY <2>2, SilentTruthful
  <2> QED  BY <1>0, <1>a, <1>b, <2>3
<1>1. CASE Begin(m)
  <2>1. PICK s \in {"ask", "search"} : pc' = [pc EXCEPT ![m] = s]
    BY <1>1 DEF Begin
  <2>2. pc[m] \notin Sent /\ outcome' = outcome /\ reported' = reported
    BY <1>1 DEF Begin, Sent
  <2>3. s \in WorkStates \ {"readCheck"} /\ "none" \in Outcomes \ {"matched"}
    BY <2>1 DEF WorkStates, Outcomes
  <2> QED  BY <1>b, <2>1, <2>2, <2>3
<1>2. CASE Ask(m)
  <2>1. PICK info \in GetDeviceInfo(addr[m], CtxDone(m)) : reply' = [reply EXCEPT ![m] = info]
    BY <1>2 DEF Ask
  <2>2. /\ UNCHANGED <<reported, outcome, tuned>>
        /\ \/ pc[m] = "ask" /\ pc' = [pc EXCEPT ![m] = "check"]
           \/ pc[m] = "read" /\ pc' = [pc EXCEPT ![m] = "readCheck"]
    BY <1>2 DEF Ask, netVars
  <2>3. CASE pc[m] = "ask" /\ pc' = [pc EXCEPT ![m] = "check"]
    <3>1. pc[m] \notin Sent /\ "check" \in WorkStates \ {"readCheck"}
          /\ "none" \in Outcomes \ {"matched"}
      BY <2>3 DEF Sent, WorkStates, Outcomes
    <3> QED  BY <1>b, <2>2, <2>3, <3>1
  <2>4. CASE pc[m] = "read" /\ pc' = [pc EXCEPT ![m] = "readCheck"]
    <3>1. pc'[m] = "readCheck" /\ reply'[m] = info /\ outcome[m] # "matched"
      BY <1>0, <2>1, <2>4 DEF Truthful
    <3>2. /\ \A d \in DevicesOf(m) : tuned'[d] \in held'[m]
          /\ held[m] \subseteq held'[m]
      BY <2>4, <3>1, HoldEffect DEF Sent
    <3>3. info = None \/ \E d \in Devices : info = InfoOf(d)
      BY <1>0, ReplyTyped
    <3>4. ASSUME info # None, IsAnswerOf(m, info) PROVE info.channel \in held'[m]
      <4>1. PICK d \in Devices : info = InfoOf(d)
        BY <3>3, <3>4
      <4>2. info.lanMAC = MacOf[d] /\ info.channel = tuned[d]
        BY <4>1 DEF InfoOf
      <4> QED  BY <2>2, <3>2, <3>4, <4>2 DEF IsAnswerOf, DevicesOf
    <3>5. IsAnswerOf(m, reply'[m]) <=> IsAnswerOf(m, info)
      BY <3>1 DEF IsAnswerOf
    <3>6. Truthful(m)'
      BY <1>0, <2>2, <2>4, <3>1, <3>2, <3>4, <3>5 DEF Truthful, DevicesOf, IsAnswerOf, Sent
    <3>7. "readCheck" \in WorkStates
      BY DEF WorkStates
    <3> QED  BY <1>0, <1>a, <2>2, <2>4, <3>6, <3>7
  <2> QED  BY <2>2, <2>3, <2>4
<1>3. CASE Verify(m)
  <2>1. PICK s \in {"role", "search"} : pc' = [pc EXCEPT ![m] = s]
    BY <1>3 DEF Verify
  <2>2. pc[m] \notin Sent /\ outcome' = outcome /\ reported' = reported
    BY <1>3 DEF Verify, Sent
  <2>3. s \in WorkStates \ {"readCheck"} /\ "none" \in Outcomes \ {"matched"}
    BY <2>1 DEF WorkStates, Outcomes
  <2> QED  BY <1>b, <2>1, <2>2, <2>3
<1>4. CASE Locate(m)
  <2>1. PICK s \in {"role", "settled"} : pc' = [pc EXCEPT ![m] = s]
    BY <1>4 DEF Locate
  <2>2. pc[m] = "search"
    BY <1>4 DEF Locate, WorkTypes, SearchOpen
  <2>3. /\ pc[m] \notin Sent /\ reported' = reported
        /\ outcome' = outcome \/ outcome' = [outcome EXCEPT ![m] = "device_not_located"]
    BY <1>4, <2>2 DEF Locate, Sent
  <2>4. s \in WorkStates \ {"readCheck"} /\ "device_not_located" \in Outcomes \ {"matched"}
    BY <2>1 DEF WorkStates, Outcomes
  <2> QED  BY <1>b, <2>1, <2>3, <2>4
<1>5. CASE CheckRole(m)
  <2>1. PICK s \in {"write", "settled"} : pc' = [pc EXCEPT ![m] = s]
    BY <1>5 DEF CheckRole
  <2>2. /\ pc[m] \notin Sent /\ reported' = reported
        /\ outcome' = outcome \/ outcome' = [outcome EXCEPT ![m] = "unknown_role"]
    BY <1>5 DEF CheckRole, Sent
  <2>3. s \in WorkStates \ {"readCheck"} /\ "unknown_role" \in Outcomes \ {"matched"}
    BY <2>1 DEF WorkStates, Outcomes
  <2> QED  BY <1>b, <2>1, <2>2, <2>3
<1>6. CASE Write(m)
  <2>1. /\ pc[m] \notin Sent /\ reported' = reported /\ outcome' = outcome
        /\ pc' = [pc EXCEPT ![m] = "read"]
    BY <1>6 DEF Write, Sent
  <2>2. "read" \in WorkStates \ {"readCheck"} /\ "none" \in Outcomes \ {"matched"}
    BY DEF WorkStates, Outcomes
  <2> QED  BY <1>b, <2>1, <2>2
<1>7. CASE ReadBack(m)
  <2>1. /\ pc[m] = "readCheck" /\ pc[m] \in Sent \ {"settled"} /\ queue' = queue
    BY <1>7 DEF ReadBack, Sent
  <2>2. reported[m] # None => reported[m] \in held[m]
    BY <1>0 DEF Truthful
  <2>3. CASE reply[m] = None
    <3>1. TryAgain(m, reported[m])
      BY <1>7, <2>3 DEF ReadBack
    <3> QED  BY <1>0, <2>1, <2>2, <3>1, TryAgainTruthful
  <2>4. CASE reply[m] # None /\ ~IsAnswerOf(m, reply[m])
    <3>1. Conclude(m, None)
      BY <1>7, <2>4 DEF ReadBack
    <3> QED  BY <1>0, <2>1, <3>1, ConcludeTruthful
  <2>5. CASE reply[m] # None /\ IsAnswerOf(m, reply[m])
    <3>1. reply[m].channel \in Channels /\ reply[m].channel \in held[m]
      BY <1>0, <2>1, <2>5 DEF Truthful, DeviceInfo
    <3>2. Conclude(m, reply[m].channel) \/ TryAgain(m, reply[m].channel)
      BY <1>7, <2>5 DEF ReadBack
    <3> QED  BY <2>1, <3>1, <3>2, ConcludeTruthful, TryAgainTruthful
  <2> QED  BY <2>3, <2>4, <2>5
<1>8. CASE StopReading(m)
  <2>1. pc[m] \in Sent /\ queue' = queue /\ Conclude(m, reported[m])
    BY <1>8 DEF StopReading, Sent
  <2>2. reported[m] # None => reported[m] \in held[m]
    BY <1>0 DEF Truthful
  <2> QED  BY <1>0, <2>1, <2>2, ConcludeTruthful
<1>9. CASE Finish(m)
  <2>1. /\ pc' = [pc EXCEPT ![m] = "idle"] /\ reported' = [reported EXCEPT ![m] = None]
        /\ outcome' = [outcome EXCEPT ![m] = "none"]
    BY <1>9 DEF Finish
  <2>2. pc'[m] = "idle" /\ reported'[m] = None /\ outcome'[m] = "none"
    BY <1>0, <2>1
  <2>3. Truthful(m)'
    BY <2>2, SilentTruthful
  <2>4. "idle" \in WorkStates /\ "none" \in Outcomes
    BY DEF WorkStates, Outcomes
  <2> QED  BY <2>1, <2>3, <2>4
<1> QED  BY <1>1, <1>2, <1>3, <1>4, <1>5, <1>6, <1>7, <1>8, <1>9 DEF WorkStep

\* Reports are truthful throughout.
THEOREM ReportsInvariant == WriteSafety => []ReportInv
<1>1. WriteInit => ReportInv
  <2> SUFFICES ASSUME WriteInit PROVE ReportInv
    OBVIOUS
  <2>1. \A m \in Macs : /\ pc[m] = "idle" /\ reported[m] = None /\ outcome[m] = "none"
    BY DEF WriteInit
  <2>2. /\ reported \in [Macs -> Channels \cup {None}] /\ outcome \in [Macs -> Outcomes]
    BY DEF WriteInit, Outcomes
  <2>3. \A m \in Macs : Truthful(m)
    BY <2>1 DEF Truthful, Sent
  <2> QED  BY <2>2, <2>3 DEF ReportInv
<1>2. WorkTypes /\ ReportInv /\ [WriteNext]_writeVars => ReportInv'
  <2> SUFFICES ASSUME WorkTypes, ReportInv, [WriteNext]_writeVars PROVE ReportInv'
    OBVIOUS
  <2>0. /\ reported \in [Macs -> Channels \cup {None}] /\ outcome \in [Macs -> Outcomes]
        /\ pc \in [Macs -> WorkStates] /\ reply \in [Macs -> DeviceInfo \cup {None}]
        /\ queue \in [Macs -> Seq(Channels \cap (0..255))]
        /\ \A m \in Macs : Truthful(m) /\ (pc[m] # "idle" => queue[m] # <<>>)
    BY DEF ReportInv, WorkTypes, JobTyped
  <2>1. ASSUME NEW m \in Macs, Command(m), Hold PROVE ReportInv'
    <3>1. PICK ch \in Channels \cap (0..255) : queue' = [queue EXCEPT ![m] = Append(queue[m], ch)]
      BY <2>1, CommandTypes
    <3>2. UNCHANGED <<pc, reply, reported, outcome>>
      BY <2>1, CommandTypes
    <3>4. \A x \in Macs : Apart(x)
      BY <2>0, <3>1, <3>2 DEF Apart
    <3>5. \A x \in Macs : Truthful(x)'
      BY <2>0, <2>1, <3>4, ApartTruthful
    <3> QED  BY <2>0, <3>2, <3>5 DEF ReportInv
  <2>2. ASSUME NEW m \in Macs, WorkStep(m), Hold PROVE ReportInv'
    <3>1. /\ Truthful(m)'
          /\ \E c \in Channels \cup {None} : reported' = [reported EXCEPT ![m] = c]
          /\ \E o \in Outcomes : outcome' = [outcome EXCEPT ![m] = o]
          /\ \E s \in WorkStates : pc' = [pc EXCEPT ![m] = s]
      BY <2>2, WorkTruthful
    <3>2. \A x \in Macs \ {m} : reply'[x] = reply[x] /\ queue'[x] = queue[x]
      BY <2>0, <2>2 DEF WorkStep, Begin, Ask, Verify, Locate, CheckRole, Write, ReadBack,
                        StopReading, Finish
    <3>3. \A x \in Macs \ {m} : Apart(x)
      BY <2>0, <3>1, <3>2 DEF Apart
    <3>4. \A x \in Macs \ {m} : Truthful(x)'
      BY <2>0, <2>2, <3>3, ApartTruthful
    <3>5. /\ reported' \in [Macs -> Channels \cup {None}]
          /\ outcome' \in [Macs -> Outcomes]
      BY <2>0, <3>1
    <3> QED  BY <3>1, <3>4, <3>5 DEF ReportInv
  <2>3. ASSUME UNCHANGED jobVars, Hold PROVE ReportInv'
    <3>1. \A x \in Macs : Apart(x)
      BY <2>3 DEF jobVars, Apart
    <3>2. \A x \in Macs : Truthful(x)'
      BY <2>0, <2>3, <3>1, ApartTruthful
    <3> QED  BY <2>0, <2>3, <3>2 DEF ReportInv, jobVars
  <2>4. CASE UNCHANGED writeVars
    BY <2>4 DEF writeVars, netVars, jobVars, ReportInv, Truthful, DevicesOf, IsAnswerOf
  <2> QED  BY <2>1, <2>2, <2>3, <2>4 DEF WriteNext, Beside
<1> QED  BY <1>1, <1>2, WorkTypesInvariant, PTL DEF WriteSafety

\* "matched" is reported only of a channel the device itself has been on since
\* the write was sent.
THEOREM MatchedMeansMatched == WriteSafety => []MatchedIsTrue
<1>1. ReportInv => MatchedIsTrue
  BY DEF ReportInv, Truthful, MatchedIsTrue
<1> QED  BY <1>1, ReportsInvariant, PTL
=============================================================================
