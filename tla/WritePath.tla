----------------------------- MODULE WritePath ------------------------------
(***************************************************************************)
(* Channel changes (internal/controller/write.go) on top of discovery: a     *)
(* command is validated and takes its place in its device's queue; its work   *)
(* verifies that the device is where the registry says, looks for it if not,  *)
(* writes once and reads back.  The queue is used as SerialPerKey specifies    *)
(* it and KeyedQueue implements it: the work at the head of a device's queue    *)
(* runs, the rest waits.  Startup, polls and scans go on meanwhile.             *)
(***************************************************************************)
EXTENDS Discovery

CONSTANTS Requests,     \* channel numbers users ask for, valid or not
          Attempts,     \* Readback.Attempts
          MaxCommands   \* bound on the commands

ASSUME CommandsType == /\ Requests \subseteq Int /\ Requests \cap (0..255) \subseteq Channels
                       /\ Attempts \in Nat \ {0} /\ MaxCommands \in Nat
ASSUME NoneIsNoSet == \A S \in SUBSET IPs : S # None
ASSUME MacsCall == Macs \subseteq Callers /\ Macs \cap {"poller", "rescan"} = {}

VARIABLES queue,      \* MAC -> the channels requested and not yet settled
          pc,         \* MAC -> where the work at the head of its queue is
          addr,       \* MAC -> the address that work uses
          reply,      \* MAC -> the reply it has yet to look at
          attempt,    \* MAC -> the readback attempt
          ack,        \* MAC -> what became of the write
          reported,   \* MAC -> the last channel read back, None for none
          outcome,    \* MAC -> the outcome of settled work
          commands,
          held        \* history: the channels a device has been on since the
                      \* write for it was sent

jobVars == <<queue, pc, addr, reply, attempt, ack, reported, outcome, commands>>
writeVars == <<netVars, discVars, jobVars, held>>

WriteInit ==
  /\ NetworkInit /\ DiscoveryInit
  /\ queue = [m \in Macs |-> <<>>]
  /\ pc = [m \in Macs |-> "idle"]
  /\ addr = [m \in Macs |-> None] /\ reply = [m \in Macs |-> None]
  /\ attempt = [m \in Macs |-> 0] /\ ack = [m \in Macs |-> "none"]
  /\ reported = [m \in Macs |-> None] /\ outcome = [m \in Macs |-> "none"]
  /\ commands = 0
  /\ held = [m \in Macs |-> {}]

ValidChannel(ch) == ch \in 0..255

-----------------------------------------------------------------------------
(* Plausible slips, used by the mutants.                                    *)

AnyRole(role) == TRUE

AnyAnswer(m, info) == TRUE

AttemptsLeftOneTooMany(m) == attempt[m] <= Attempts

-----------------------------------------------------------------------------
WritableRole(role) == role \in {"receiver", "transmitter"}

(* Commands.  A refused command changes nothing.                             *)

Accept(m, ch) ==
  /\ life # "stopping"
  /\ ValidChannel(ch)
  /\ adapters[m].known /\ WritableRole(adapters[m].role)
  /\ commands < MaxCommands
  /\ queue' = [queue EXCEPT ![m] = Append(@, ch)]
  /\ commands' = commands + 1
  /\ UNCHANGED <<pc, addr, reply, attempt, ack, reported, outcome>>
  /\ UNCHANGED discVars /\ UNCHANGED netVars

ChangeChannel(m, ch) == ch \in Requests /\ Accept(m, ch)

\* The label names a transmitter; the channel it is known to be on now is what
\* the receiver will be tuned to, whenever its turn comes.
ChangeSource(m, tx) ==
  /\ adapters[m].role = "receiver"
  /\ adapters[tx].known /\ adapters[tx].role = "transmitter" /\ adapters[tx].channel # None
  /\ Accept(m, adapters[tx].channel)

(* The work of one command: verifiedIP, the role check, write, readBack.      *)

\* verifiedIP's Lookup; without a last-known address the search comes first.
Begin(m) ==
  /\ pc[m] = "idle" /\ queue[m] # <<>>
  /\ addr' = [addr EXCEPT ![m] = adapters[m].ip]
  /\ IF adapters[m].ip # None
       THEN pc' = [pc EXCEPT ![m] = "ask"] /\ UNCHANGED disc
       ELSE pc' = [pc EXCEPT ![m] = "search"] /\ disc' = [disc EXCEPT ![m] = "enter"]
  /\ proved' = [proved EXCEPT ![m] = {}]
  /\ UNCHANGED <<adapters, life, scanNext, scanBusy, rescans,
                 queue, reply, attempt, ack, reported, outcome, commands>>
  /\ UNCHANGED pollVars /\ UNCHANGED netVars

\* A reply is the expected device's.
IsAnswerOf(m, info) == Normalize[info.lanMAC] = m

\* A request of the work: to verify the address, or to read back.
Ask(m) ==
  /\ \/ pc[m] = "ask" /\ pc' = [pc EXCEPT ![m] = "check"]
     \/ pc[m] = "read" /\ pc' = [pc EXCEPT ![m] = "readCheck"]
  /\ \E info \in GetDeviceInfo(addr[m], CtxDone(m)) : reply' = [reply EXCEPT ![m] = info]
  /\ UNCHANGED <<queue, addr, attempt, ack, reported, outcome, commands>>
  /\ UNCHANGED discVars /\ UNCHANGED netVars

\* observeAt's outcome: the right device answers and the address is good,
\* silence marks it offline, anything but the right device starts a search.
Verify(m) ==
  /\ pc[m] = "check"
  /\ reply' = [reply EXCEPT ![m] = None]
  /\ IF reply[m] = None
       THEN adapters' = MarkOffline(adapters, m) /\ UNCHANGED proved
       ELSE Observe(addr[m], reply[m])
  /\ IF reply[m] # None /\ IsAnswerOf(m, reply[m])
       THEN pc' = [pc EXCEPT ![m] = "role"] /\ UNCHANGED disc
       ELSE pc' = [pc EXCEPT ![m] = "search"] /\ disc' = [disc EXCEPT ![m] = "enter"]
  /\ UNCHANGED <<life, scanNext, scanBusy, rescans,
                 queue, addr, attempt, ack, reported, outcome, commands>>
  /\ UNCHANGED pollVars /\ UNCHANGED netVars

\* RunDiscovery has returned: if the device is online it is where it was seen.
Locate(m) ==
  /\ disc[m] = "returned"
  /\ disc' = [disc EXCEPT ![m] = "out"]
  /\ IF adapters[m].online
       THEN /\ pc' = [pc EXCEPT ![m] = "role"]
            /\ addr' = [addr EXCEPT ![m] = adapters[m].ip]
            /\ UNCHANGED outcome
       ELSE /\ pc' = [pc EXCEPT ![m] = "settled"]
            /\ outcome' = [outcome EXCEPT ![m] = "device_not_located"]
            /\ UNCHANGED addr
  /\ UNCHANGED <<adapters, life, scanNext, scanBusy, rescans, proved,
                 queue, reply, attempt, ack, reported, commands>>
  /\ UNCHANGED pollVars /\ UNCHANGED netVars

\* The role is looked up again: the verification may have changed it.
CheckRole(m) ==
  /\ pc[m] = "role"
  /\ IF WritableRole(adapters[m].role)
       THEN pc' = [pc EXCEPT ![m] = "write"] /\ UNCHANGED outcome
       ELSE /\ pc' = [pc EXCEPT ![m] = "settled"]
            /\ outcome' = [outcome EXCEPT ![m] = "unknown_role"]
  /\ UNCHANGED <<queue, addr, reply, attempt, ack, reported, commands>>
  /\ UNCHANGED discVars /\ UNCHANGED netVars

Write(m) ==
  /\ pc[m] = "write"
  /\ \E a \in {"accepted", "ambiguous", "rejected"} :
       /\ SetChannel(addr[m], Head(queue[m]), CtxDone(m), a)
       /\ ack' = [ack EXCEPT ![m] = a]
  /\ pc' = [pc EXCEPT ![m] = "read"]
  /\ attempt' = [attempt EXCEPT ![m] = 1]
  /\ UNCHANGED <<queue, addr, reply, reported, outcome, commands>>
  /\ UNCHANGED <<at, calm, disturbances>> /\ UNCHANGED discVars

\* changeChannel's verdict on what it read back.
Verdict(m, channel) == IF ack[m] = "rejected" THEN "write_rejected"
                       ELSE IF channel = Head(queue[m]) THEN "matched"
                       ELSE "mismatch"

\* The end of readBack, and of changeChannel, with the given last report.
Conclude(m, channel) ==
  /\ pc' = [pc EXCEPT ![m] = "settled"]
  /\ outcome' = [outcome EXCEPT ![m] = Verdict(m, channel)]
  /\ reported' = [reported EXCEPT ![m] = channel]
  /\ UNCHANGED attempt

AttemptsLeft(m) == attempt[m] < Attempts

\* The next turn of readBack's loop, if there is one.
TryAgain(m, channel) ==
  IF AttemptsLeft(m)
    THEN /\ attempt' = [attempt EXCEPT ![m] = @ + 1]
         /\ pc' = [pc EXCEPT ![m] = "read"]
         /\ reported' = [reported EXCEPT ![m] = channel]
         /\ UNCHANGED outcome
    ELSE Conclude(m, channel)

\* A reply to readBack: silence and a device still on another channel are
\* asked again; another device ends the readback with nothing reported.
ReadBack(m) ==
  /\ pc[m] = "readCheck"
  /\ reply' = [reply EXCEPT ![m] = None]
  /\ IF reply[m] = None
       THEN /\ TryAgain(m, reported[m])
            /\ UNCHANGED <<adapters, proved>>
       ELSE /\ Observe(addr[m], reply[m])
            /\ IF ~IsAnswerOf(m, reply[m]) THEN Conclude(m, None)
               ELSE IF reply[m].channel = Head(queue[m]) THEN Conclude(m, reply[m].channel)
               ELSE TryAgain(m, reply[m].channel)
  /\ UNCHANGED <<life, queue, addr, ack, commands>>
  /\ UNCHANGED scanVars /\ UNCHANGED pollVars /\ UNCHANGED netVars

\* The pause before another attempt is cut short by the end of the lifetime.
StopReading(m) ==
  /\ pc[m] = "read" /\ attempt[m] > 1 /\ CtxDone(m)
  /\ Conclude(m, reported[m])
  /\ UNCHANGED <<queue, addr, reply, ack, commands>>
  /\ UNCHANGED discVars /\ UNCHANGED netVars

\* The outcome is delivered and the next command of the device has its turn.
Finish(m) ==
  /\ pc[m] = "settled"
  /\ pc' = [pc EXCEPT ![m] = "idle"]
  /\ queue' = [queue EXCEPT ![m] = Tail(@)]
  /\ addr' = [addr EXCEPT ![m] = None] /\ attempt' = [attempt EXCEPT ![m] = 0]
  /\ ack' = [ack EXCEPT ![m] = "none"] /\ reported' = [reported EXCEPT ![m] = None]
  /\ outcome' = [outcome EXCEPT ![m] = "none"]
  /\ proved' = [proved EXCEPT ![m] = None]
  /\ UNCHANGED <<adapters, life, reply, commands>>
  /\ UNCHANGED scanVars /\ UNCHANGED pollVars /\ UNCHANGED netVars

-----------------------------------------------------------------------------
Command(m) == \/ \E ch \in Requests : ChangeChannel(m, ch)
              \/ \E tx \in Macs : ChangeSource(m, tx)

WorkStep(m) == \/ Begin(m) \/ Ask(m) \/ Verify(m) \/ Locate(m) \/ CheckRole(m)
               \/ Write(m) \/ ReadBack(m) \/ StopReading(m) \/ Finish(m)

Sent == {"read", "readCheck", "settled"}

\* The history of the channels the devices have been on since their writes.
Hold == held' = [m \in Macs |->
                   IF pc'[m] \notin Sent THEN {}
                   ELSE (IF pc[m] \in Sent THEN held[m] ELSE {})
                          \cup {tuned'[d] : d \in DevicesOf(m)}]

\* A step of discovery beside the work on channel changes.
Beside(A) == A /\ UNCHANGED netVars /\ UNCHANGED jobVars

WriteNext == /\ \/ \E m \in Macs : Command(m) \/ WorkStep(m)
                \/ Beside(DiscoveryNext)
                \/ NetworkNext /\ UNCHANGED discVars /\ UNCHANGED jobVars
             /\ Hold

\* As for discovery, and each device's work goes on while it can.
WriteFairness == /\ \A c \in Callers : WF_writeVars(Beside(ScanStep(c)) /\ Hold)
                 /\ WF_writeVars(Beside(ScanHits) /\ Hold)
                 /\ WF_writeVars(Beside(RescanReturn) /\ Hold)
                 /\ WF_writeVars(Beside(PollStep) /\ Hold)
                 /\ WF_writeVars(Beside(EndLife) /\ Hold)
                 /\ \A m \in Macs : WF_writeVars(WorkStep(m) /\ Hold)

WriteSafety == WriteInit /\ [][WriteNext]_writeVars

WriteSpec == WriteSafety /\ WriteFairness

-----------------------------------------------------------------------------
WorkStates == {"idle", "ask", "check", "search", "role", "write", "read", "readCheck",
               "settled"}
DiscStates == {"out", "enter", "joined", "scanning", "returned"}

\* Type correctness of the work on channel changes; work is under way only
\* with a command at the head of the queue, and it searches exactly while its
\* call of RunDiscovery is open.
WriteTypeOK ==
  /\ TypeOK
  /\ queue \in [Macs -> Seq(0..255)]
  /\ pc \in [Macs -> WorkStates]
  /\ addr \in [Macs -> IPs \cup {None}]
  /\ reply \in [Macs -> DeviceInfo \cup {None}]
  /\ attempt \in [Macs -> 0..Attempts]
  /\ \A m \in Macs : /\ pc[m] # "idle" => queue[m] # <<>>
                     /\ pc[m] = "search" <=> disc[m] # "out"

\* A channel is written only to an address at which that very device has been
\* seen since the work on the command began: its own answer, a poll's or a
\* scan's, recorded by whichever goroutine.
VerifiedBeforeWrite == \A m \in Macs : pc[m] = "write" => addr[m] \in proved[m]

\* A command for a device that is neither receiver nor transmitter is refused
\* before the write, even when the database, or the registry at the time of
\* the command, took the device for one.  This is about the command's own
\* device: whatever device is at the address by the time of the write gets it.
UnknownRoleIsRefused ==
  \A m \in Macs : pc[m] = "write" =>
    \E d \in DevicesOf(m) : Classify(HardwareOf[d]) # "unknown"

\* "matched" is true: the device has really been on the requested channel
\* since the write was sent, although other devices may answer at its address
\* and its own earlier answers are still under way.
MatchedIsTrue ==
  \A m \in Macs : outcome[m] = "matched" => Head(queue[m]) \in held[m]

\* Every accepted command comes to an outcome and leaves the queue, whatever
\* the LAN does and whether or not the controller is stopped meanwhile.
EveryCommandSettles == \A m \in Macs : queue[m] # <<>> ~> queue[m] = <<>>
-----------------------------------------------------------------------------
(* The inductive invariant behind VerifiedBeforeWrite, for devices whose MAC  *)
(* can be read.  It follows where the registry may believe the device to be    *)
(* while the work on a command goes on: at the address being verified, or at   *)
(* one it has been seen at since the work began.                               *)

ReadableMacs == \A d \in Devices : Normalize[MacOf[d]] # None

Readable == {info \in DeviceInfo : Normalize[info.lanMAC] # None}

PlaceInv == /\ adapters \in [Macs -> Adapter]
            /\ \A m \in Macs : adapters[m].online =>
                                 adapters[m].known /\ adapters[m].ip # None
            /\ OneOnlinePerAddress

\* Answers under way are from devices with a readable MAC.
AnswerInv == /\ scanNext \in Nat \ {0}
             /\ \A hit \in scanBusy : hit.ip \in IPs /\ hit.info \in Readable
             /\ pollTodo \in Seq(SweepEntry)
             /\ \A e \in pollBusy : /\ e.mac \in Macs /\ e.ip \in IPs
                                    /\ e.reply \in Readable \cup {None}
             /\ reply \in [Macs -> Readable \cup {None}]

TuningInv == /\ tuned \in [Devices -> Channels]
             /\ late \subseteq Devices \X Channels
             /\ queue \in [Macs -> Seq(Channels)]
             /\ \A m \in Macs : pc[m] # "idle" => queue[m] # <<>>

OnTrack(m) ==
  /\ pc[m] # "search" => disc[m] = "out"
  /\ pc[m] # "idle" => proved[m] \in SUBSET IPs
  /\ pc[m] \in {"ask", "check", "read", "readCheck"} => addr[m] \in IPs
  /\ pc[m] \in {"ask", "check"} /\ adapters[m].online =>
       adapters[m].ip \in proved[m] \cup {addr[m]}
  /\ pc[m] = "search" /\ adapters[m].online => adapters[m].ip \in proved[m]
  /\ pc[m] \in {"role", "write"} => addr[m] \in proved[m]

\* The invariant the proof of VerifiedBeforeWrite rests on: every step of the
\* commands' work, of the poll, of the scan and of the devices preserves it.
WriteInv == /\ PlaceInv /\ AnswerInv /\ TuningInv
            /\ pc \in [Macs -> WorkStates]
            /\ addr \in [Macs -> IPs \cup {None}]
            /\ proved \in [Macs -> (SUBSET IPs) \cup {None}]
            /\ disc \in [Callers -> DiscStates]
            /\ \A m \in Macs : OnTrack(m)
=============================================================================
