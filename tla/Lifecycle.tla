----------------------------- MODULE Lifecycle ------------------------------
(***************************************************************************)
(* The process from main to exit: run and shutdown (main.go), Start, Stop and *)
(* the background goroutines (controller.go), the broker connection and its    *)
(* callbacks (mqtt/paho.go) and the routing of messages (mqtt/router.go).      *)
(*                                                                         *)
(* Of what is published only the controller's availability is kept; Publisher *)
(* has the rest.  Scans, polls and device work are goroutines that end;        *)
(* Discovery and WritePath show that they do.                                 *)
(***************************************************************************)
EXTENDS Integers, FiniteSets

CONSTANTS MaxConnects,   \* bound on established sessions
          MaxMessages    \* bound on messages delivered

ASSUME LifecycleType == MaxConnects \in Nat /\ MaxMessages \in Nat

VARIABLES main,         \* where run is
          signalled,    \* whether SIGTERM has come
          life,         \* whether the controller's lifetime lasts
          started,
          poll,         \* the poll loop: "none", "running", "done"
          link,         \* the connection, see below
          connects,
          subscribed,   \* whether the broker delivers to this session
          avail,        \* retained: dt241m/controller/availability
          jobs,         \* goroutines of background: [id, at]
          nextJob,
          waiter,       \* the goroutine in inflight.Wait
          expired,      \* the shutdown timeout
          messages,
          disturbed     \* history: why "offline" may not be the last word, see below

netVars == <<link, connects, subscribed, avail>>
jobVars == <<jobs, nextJob>>
stopVars == <<waiter, expired>>
mainVars == <<main, signalled, life, started, poll>>
vars == <<mainVars, netVars, jobVars, stopVars, messages, disturbed>>

\* disturbed holds "late" when the broker has called back after the end of the
\* lifetime, "slow" when work has outlasted the shutdown timeout, and "lag" when
\* Stop looked for a session that autopaho had not yet announced.
Disturb(why, cond) == disturbed' = IF cond THEN disturbed \cup {why} ELSE disturbed

\* link: "down", "upping" (session up, OnConnectionUp not yet run), "up", "lost"
\* (session gone, OnConnectionDown not yet run), "flash" (gone before
\* OnConnectionUp has run), "closed".
Alive == link \in {"upping", "up"}
Connected == link \in {"up", "lost"}

Handlers == main \notin {"boot", "connect"}
Gone == main \in {"exit", "dead"}
Stopping == main \in {"stopPoll", "stopDrain", "stopOffline", "stopClose"}

Init ==
  /\ main = "boot" /\ signalled = FALSE /\ life = TRUE /\ started = FALSE /\ poll = "none"
  /\ link = "closed" /\ connects = 0 /\ subscribed = FALSE /\ avail \in {"none", "offline"}
  /\ jobs = {} /\ nextJob = 0
  /\ waiter = "none" /\ expired = FALSE
  /\ messages = 0
  /\ disturbed = {}

-----------------------------------------------------------------------------
(* Plausible slips, used by the mutants.                                    *)

HandlerOfNew == main = "load"
SaidNothing(last) == last
SaidEmpty(last) == ""
EndWithoutTimeout(done) == done
WaitForNobody(done) == TRUE

-----------------------------------------------------------------------------
(* background.                                                               *)

Spawn(at) == /\ jobs' = jobs \cup {[id |-> nextJob, at |-> at]}
             /\ nextJob' = nextJob + 1

\* Messages reach the broker only while the session is up.
Say(state) == avail' = IF Alive THEN state ELSE avail

\* A job in its turn: onMQTTConnected subscribes and publishes everything,
\* which begins with "online"; other work ends.  The last one wakes the waiter.
JobStep(j) ==
  LET rest == jobs \ {j}
      end == /\ jobs' = rest
             /\ waiter' = IF rest = {} /\ waiter = "waiting" THEN "woken" ELSE waiter
  IN  /\ ~Gone
      /\ \/ /\ j.at = "subscribe"
            /\ subscribed' = (subscribed \/ Alive)
            /\ jobs' = rest \cup {[j EXCEPT !.at = "publish"]}
            /\ UNCHANGED <<waiter, avail>>
         \/ j.at = "publish" /\ Say("online") /\ end /\ UNCHANGED subscribed
         \/ j.at = "work" /\ end /\ UNCHANGED <<avail, subscribed>>
      /\ UNCHANGED <<mainVars, link, connects, nextJob, expired, messages, disturbed>>

-----------------------------------------------------------------------------
(* The connection.                                                           *)

\* Whether OnConnect's handler is there to be called.
OnConnect == Handlers

SessionBegins ==
  /\ link = "down" /\ ~Gone
  /\ connects < MaxConnects /\ connects' = connects + 1
  /\ link' = "upping"
  /\ UNCHANGED <<mainVars, subscribed, avail, jobVars, stopVars, messages, disturbed>>

OnConnectionUp ==
  /\ ~Gone
  /\ \/ link = "upping" /\ link' = "up"
     \/ link = "flash" /\ link' = "lost"
  /\ IF OnConnect THEN Spawn("subscribe") ELSE UNCHANGED jobVars
  /\ Disturb("late", OnConnect /\ ~life)
  /\ UNCHANGED <<mainVars, connects, subscribed, avail, stopVars, messages>>

\* What the broker retains when a session ends without a DISCONNECT.
Will == "offline"

SessionLost ==
  /\ Alive /\ ~Gone
  /\ link' = IF link = "up" THEN "lost" ELSE "flash"
  /\ subscribed' = FALSE /\ avail' = Will
  /\ UNCHANGED <<mainVars, connects, jobVars, stopVars, messages, disturbed>>

OnConnectionDown ==
  /\ link = "lost" /\ ~Gone
  /\ link' = "down"
  /\ UNCHANGED <<mainVars, connects, subscribed, avail, jobVars, stopVars, messages, disturbed>>

\* OnPublishReceived: a retained delivery is a replay.
Accepted(retain) == ~retain

\* A message on a topic the controller listens on (NewRouter).  The broker may
\* replay a stored one in spite of the subscription's retain handling.  A
\* channel or source command becomes work unless the controller is stopping,
\* rescan and name commands in any case; birth republishes everything.
Deliver(kind, retain) ==
  LET acts == Accepted(retain) /\ kind # "invalid" /\ (kind = "channel" => life)
  IN  /\ subscribed /\ Alive /\ ~Gone
      /\ messages < MaxMessages /\ messages' = messages + 1
      /\ IF acts THEN Spawn(IF kind = "birth" THEN "publish" ELSE "work")
                 ELSE UNCHANGED jobVars
      /\ Disturb("late", acts /\ ~life)
      /\ UNCHANGED <<mainVars, netVars, stopVars>>

-----------------------------------------------------------------------------
(* run.                                                                      *)

Signal == /\ ~signalled /\ ~Gone
          /\ signalled' = TRUE
          /\ UNCHANGED <<main, life, started, poll, netVars, jobVars, stopVars, messages, disturbed>>

\* config.Load, store.Open and mqtt.Connect may fail; then nothing has begun.
Boot == /\ main = "boot"
        /\ \/ main' = "exit" /\ UNCHANGED link
           \/ main' = "connect" /\ link' = "down"
        /\ UNCHANGED <<signalled, life, started, poll, connects, subscribed, avail, jobVars,
                       stopVars, messages, disturbed>>

\* controller.New registers the handlers.
NewController == /\ main = "connect" /\ main' = "load"
                 /\ UNCHANGED <<signalled, life, started, poll, netVars, jobVars, stopVars, messages, disturbed>>

\* Start's first part; when loading fails, run calls shutdown, whose Stop ends
\* the lifetime.
LoadAll ==
  /\ main = "load"
  /\ started' = TRUE
  /\ \/ main' = "await" /\ UNCHANGED life
     \/ main' = "stopPoll" /\ life' = FALSE
  /\ UNCHANGED <<signalled, poll, netVars, jobVars, stopVars, messages, disturbed>>

\* AwaitConnection returns when the session is up, its deadline is over or the
\* signal has come.
Await ==
  /\ main = "await"
  /\ \/ Alive /\ main' = "subscribe"
     \/ (~Alive \/ signalled) /\ main' = "scan"
  /\ UNCHANGED <<signalled, life, started, poll, netVars, jobVars, stopVars, messages, disturbed>>

\* onMQTTConnected, called by Start itself.
StartSubscribe == /\ main = "subscribe" /\ main' = "publish"
                  /\ subscribed' = (subscribed \/ Alive)
                  /\ UNCHANGED <<signalled, life, started, poll, link, connects, avail, jobVars,
                                 stopVars, messages, disturbed>>

StartPublish == /\ main = "publish" /\ main' = "scan"
                /\ Say("online")
                /\ UNCHANGED <<signalled, life, started, poll, link, connects, subscribed, jobVars,
                               stopVars, messages, disturbed>>

\* The probe and the scan end, at the latest when the signal has come.
StartPolling == /\ main = "scan" /\ main' = "serve"
                /\ poll' = "running"
                /\ UNCHANGED <<signalled, life, started, netVars, jobVars, stopVars, messages, disturbed>>

\* The signal ends the lifetime (shutdown, Stop).
EndLife == /\ main = "serve" /\ signalled
           /\ main' = "stopPoll" /\ life' = FALSE
           /\ UNCHANGED <<signalled, started, poll, netVars, jobVars, stopVars, messages, disturbed>>

PollLoopEnds == /\ poll = "running" /\ ~life
                /\ poll' = "done"
                /\ UNCHANGED <<main, signalled, life, started, netVars, jobVars, stopVars, messages, disturbed>>

Expire == /\ Stopping /\ ~expired
          /\ expired' = TRUE
          /\ UNCHANGED <<mainVars, netVars, jobVars, waiter, messages, disturbed>>

\* waitFor.
WaitFor(done) == done \/ expired

\* The wait for the poll loop and for a scan; then whenDone starts the waiter,
\* which blocks only if there is something to wait for.
StopPoll == /\ main = "stopPoll"
            /\ WaitFor(started => poll = "done")
            /\ main' = "stopDrain"
            /\ waiter' = IF jobs = {} THEN "done" ELSE "waiting"
            /\ UNCHANGED <<signalled, life, started, poll, netVars, jobVars, expired, messages, disturbed>>

\* WaitGroup.Wait panics if it wakes up to a counter that is not zero again.
WaiterReturns == /\ waiter = "woken" /\ ~Gone
                 /\ IF jobs = {} THEN waiter' = "done" /\ UNCHANGED <<main, link, subscribed, avail>>
                    ELSE /\ waiter' = "panicked" /\ main' = "dead"
                         /\ link' = "closed" /\ subscribed' = FALSE
                         /\ avail' = IF Alive THEN Will ELSE avail
                 /\ UNCHANGED <<signalled, life, started, poll, connects, jobVars, expired, messages, disturbed>>

StopDrain == /\ main = "stopDrain"
             /\ WaitFor(waiter = "done")
             /\ main' = "stopOffline"
             /\ Disturb("slow", expired /\ jobs # {})
             /\ UNCHANGED <<signalled, life, started, poll, netVars, jobVars, stopVars, messages>>

\* controllerOffline, if the flag says there is a session.
OfflineSaid(last) == IF Connected /\ Alive THEN "offline" ELSE last

StopOffline == /\ main = "stopOffline"
               /\ main' = "stopClose"
               /\ avail' = OfflineSaid(avail)
               /\ Disturb("lag", Alive /\ ~Connected)
               /\ UNCHANGED <<signalled, life, started, poll, link, connects, subscribed, jobVars,
                              stopVars, messages>>

\* mqtt.Close says DISCONNECT, so no will; run returns.
StopClose == /\ main = "stopClose"
             /\ main' = "exit"
             /\ link' = "closed" /\ subscribed' = FALSE
             /\ UNCHANGED <<signalled, life, started, poll, connects, avail, jobVars, stopVars,
                            messages, disturbed>>

Kill == /\ ~Gone
        /\ main' = "dead"
        /\ link' = "closed" /\ subscribed' = FALSE
        /\ avail' = IF Alive THEN Will ELSE avail
        /\ UNCHANGED <<signalled, life, started, poll, connects, jobVars, stopVars, messages, disturbed>>

Run == \/ Boot \/ NewController \/ LoadAll \/ Await \/ StartSubscribe \/ StartPublish
       \/ StartPolling \/ EndLife \/ StopPoll \/ StopDrain \/ StopOffline \/ StopClose

Next == \/ Run \/ Signal \/ Kill \/ PollLoopEnds \/ Expire \/ WaiterReturns
        \/ SessionBegins \/ OnConnectionUp \/ SessionLost \/ OnConnectionDown
        \/ \E kind \in {"channel", "name", "birth", "invalid"}, retain \in BOOLEAN : Deliver(kind, retain)
        \/ \E j \in jobs : JobStep(j)

\* The process runs: main, its goroutines, timers and autopaho's callbacks; a
\* broken-off session may stay so, and nobody has to send anything.
Spec == /\ Init /\ [][Next]_vars
        /\ WF_vars(Run) /\ WF_vars(PollLoopEnds) /\ WF_vars(Expire) /\ WF_vars(WaiterReturns)
        /\ WF_vars(OnConnectionUp) /\ WF_vars(OnConnectionDown)
        /\ \A id \in 0..(MaxConnects + MaxMessages) :
             WF_vars(\E j \in jobs : j.id = id /\ JobStep(j))

-----------------------------------------------------------------------------
\* Type correctness.
TypeOK ==
  /\ main \in {"boot", "connect", "load", "await", "subscribe", "publish", "scan", "serve",
               "stopPoll", "stopDrain", "stopOffline", "stopClose", "exit", "dead"}
  /\ link \in {"down", "upping", "up", "lost", "flash", "closed"}
  /\ avail \in {"none", "online", "offline"}
  /\ jobs \subseteq [id : Nat, at : {"subscribe", "publish", "work"}]
  /\ waiter \in {"none", "waiting", "woken", "done", "panicked"}
  /\ poll \in {"none", "running", "done"}
  /\ disturbed \subseteq {"late", "slow", "lag"}

\* After the process, however it ended, Home Assistant does not show the
\* controller available: Stop "publishes the controller offline and closes
\* MQTT", and otherwise the will does.  And no goroutine panics meanwhile.  The
\* exceptions are callbacks after the end of the lifetime, work that outlasts
\* the shutdown timeout and a session not yet announced.
OfflineAfterwards ==
  /\ Gone /\ disturbed = {} => avail # "online"
  /\ waiter = "panicked" => "late" \in disturbed

\* Once a session is up and what its beginning started is done, the controller
\* listens to it and has said so, though the session may have come up before
\* there was a handler, and may have been lost and found at any point.
SessionServed ==
  main = "serve" /\ ~signalled /\ link = "up" /\ jobs = {} => subscribed /\ avail = "online"

\* When run returns, and on its way closes the database, nothing of the
\* controller is left that could still use it: neither the poll loop nor work
\* begun by a message or a session at any point before or during Stop, unless
\* Stop has given up waiting or the broker called back after the end of the
\* lifetime, which the WaitGroup's wait may miss.
NothingOutlivesStop ==
  main = "exit" /\ ~expired /\ "late" \notin disturbed => jobs = {} /\ poll # "running"

\* SIGTERM, and a failed Start, end the process, whatever the background work,
\* the database and the broker do.
StopEnds == signalled \/ Stopping ~> Gone
=============================================================================
