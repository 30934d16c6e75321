--------------------------- MODULE LifecycleProofs --------------------------
(***************************************************************************)
(* What holds of the process at every moment of its life, for any number of  *)
(* sessions and messages.                                                    *)
(*                                                                         *)
(* The proof is about Next alone: fairness is only needed for StopEnds.       *)
(***************************************************************************)
EXTENDS Lifecycle, TLAPS

Counters == nextJob \in Nat

\* Before mqtt.Connect and after the process there is no connection.
Unlinked == main = "boot" \/ Gone => link = "closed"

\* Stopping comes after the end of the lifetime, and so does the waiter.
EndedFirst == Stopping \/ waiter # "none" => ~life

\* Without a live session the broker has been told, by us or by the will, that
\* the controller is away; StopClose alone says no more than what was said.
LostIsOffline == ~Alive /\ main # "exit" => avail # "online"

\* After the drain no work is left that could still say "online", and after
\* "offline" nobody has said so.
DrainedIsQuiet ==
  disturbed = {} =>
    /\ main \in {"stopOffline", "stopClose"} => jobs = {}
    /\ main \in {"stopClose", "exit"} => avail # "online"

\* Start, or nothing, comes before the poll loop.
StartedFirst ==
  /\ main \in {"await", "subscribe", "publish", "scan", "serve"} \/ Stopping => started
  /\ main \in {"boot", "connect", "load"} => poll = "none"
  /\ main = "boot" => jobs = {}

\* Whoever got past a wait that was not broken off has left nothing behind.
WaitedFor ==
  /\ waiter = "done" /\ jobs # {} => "late" \in disturbed
  /\ main \in {"stopDrain", "stopOffline", "stopClose", "exit"} /\ ~expired => poll # "running"
  /\ main \in {"stopOffline", "stopClose", "exit"} /\ ~expired /\ "late" \notin disturbed
       => jobs = {}

\* The waiter's counter went to zero: work counted again is late.
WokenIsLate == waiter \in {"woken", "panicked"} /\ (waiter = "woken" => jobs # {})
                 => "late" \in disturbed

\* While the controller starts and serves, somebody still has to subscribe an
\* announced session, or has, and somebody still has to say "online", or has.
\* Start stands in for the handler that a session up too early did not find.
Serving == main \in {"boot", "connect", "load", "await", "subscribe", "publish", "scan", "serve"}

SessionInHand ==
  Serving /\ ~signalled /\ link = "up" =>
    /\ \/ subscribed
       \/ main \in {"boot", "connect", "load", "await", "subscribe"}
       \/ \E j \in jobs : j.at = "subscribe"
    /\ \/ avail = "online"
       \/ main \in {"boot", "connect", "load", "await", "subscribe", "publish"}
       \/ \E j \in jobs : j.at \in {"subscribe", "publish"}

\* The inductive invariant.
LifecycleInv ==
  /\ TypeOK /\ Counters /\ StartedFirst /\ WaitedFor
  /\ Unlinked /\ EndedFirst /\ LostIsOffline /\ DrainedIsQuiet /\ WokenIsLate /\ SessionInHand

\* The invariant at the beginning of the process.
LEMMA InitInv == Init => LifecycleInv
BY DEF Init, LifecycleInv, TypeOK, Counters, StartedFirst, WaitedFor, Unlinked, EndedFirst,
       LostIsOffline, DrainedIsQuiet, WokenIsLate, SessionInHand, Stopping, Alive, Serving, Gone

\* Each step of run keeps it.
LEMMA RunPreserves ==
  ASSUME LifecycleInv, Run
  PROVE  LifecycleInv'
<1> USE DEF LifecycleInv, TypeOK, Counters, StartedFirst, WaitedFor, Unlinked, EndedFirst,
            LostIsOffline, DrainedIsQuiet, WokenIsLate, SessionInHand, Stopping, Alive, Serving, Gone,
            jobVars, stopVars, netVars
<1>1. CASE Boot  BY <1>1 DEF Boot
<1>2. CASE NewController  BY <1>2 DEF NewController
<1>3. CASE LoadAll
  <2>1. CASE main' = "await" /\ life' = life  BY <1>3, <2>1 DEF LoadAll
  <2>2. CASE main' = "stopPoll" /\ life' = FALSE  BY <1>3, <2>2 DEF LoadAll
  <2> QED  BY <1>3, <2>1, <2>2 DEF LoadAll
<1>4. CASE Await  BY <1>4 DEF Await
<1>5. CASE StartSubscribe  BY <1>5 DEF StartSubscribe
<1>6. CASE StartPublish  BY <1>6 DEF StartPublish, Say
<1>7. CASE StartPolling  BY <1>7 DEF StartPolling
<1>8. CASE EndLife  BY <1>8 DEF EndLife
<1>9. CASE StopPoll  BY <1>9 DEF StopPoll, WaitFor
<1>10. CASE StopDrain  BY <1>10 DEF StopDrain, WaitFor, Disturb
<1>11. CASE StopOffline  BY <1>11 DEF StopOffline, Disturb, OfflineSaid, Connected
<1>12. CASE StopClose  BY <1>12 DEF StopClose
<1> QED
  BY <1>1, <1>2, <1>3, <1>4, <1>5, <1>6, <1>7, <1>8, <1>9, <1>10, <1>11, <1>12 DEF Run

\* The broker's callbacks and messages keep it.
LEMMA BrokerPreserves ==
  ASSUME LifecycleInv,
         \/ SessionBegins \/ OnConnectionUp \/ SessionLost \/ OnConnectionDown
         \/ \E kind \in {"channel", "name", "birth", "invalid"}, retain \in BOOLEAN :
              Deliver(kind, retain)
  PROVE  LifecycleInv'
<1> USE DEF LifecycleInv, TypeOK, Counters, StartedFirst, WaitedFor, Unlinked, EndedFirst,
            LostIsOffline, DrainedIsQuiet, WokenIsLate, SessionInHand, Stopping, Alive, Serving, Gone,
            mainVars, jobVars, stopVars, netVars
<1>1. CASE SessionBegins  BY <1>1 DEF SessionBegins
<1>2. CASE OnConnectionUp
  <2>1. CASE OnConnect
    <3> DEFINE job == [id |-> nextJob, at |-> "subscribe"]
    <3>1. /\ jobs' = jobs \cup {job} /\ job.at = "subscribe"
          /\ job \in [id : Nat, at : {"subscribe", "publish", "work"}]
          /\ ~life => "late" \in disturbed'
          /\ disturbed \subseteq disturbed' /\ disturbed' \subseteq disturbed \cup {"late"}
          /\ nextJob' = nextJob + 1
      BY <1>2, <2>1 DEF OnConnectionUp, Spawn, Disturb
    <3> HIDE DEF job
    <3>2. TypeOK' /\ Counters' /\ StartedFirst' /\ WaitedFor' /\ Unlinked' /\ EndedFirst'
      BY <1>2, <3>1 DEF OnConnectionUp
    <3>3. LostIsOffline' /\ DrainedIsQuiet' /\ WokenIsLate'
      BY <1>2, <3>1 DEF OnConnectionUp
    <3>4. SessionInHand'
      BY <1>2, <3>1 DEF OnConnectionUp
    <3> QED  BY <3>2, <3>3, <3>4
  <2>2. CASE ~OnConnect
    BY <1>2, <2>2 DEF OnConnectionUp, OnConnect, Handlers, Disturb
  <2> QED  BY <2>1, <2>2
<1>3. CASE SessionLost  BY <1>3 DEF SessionLost, Will
<1>4. CASE OnConnectionDown  BY <1>4 DEF OnConnectionDown
<1>5. ASSUME NEW kind \in {"channel", "name", "birth", "invalid"}, NEW retain \in BOOLEAN,
             Deliver(kind, retain)
      PROVE  LifecycleInv'
  <2> DEFINE acts == Accepted(retain) /\ kind # "invalid" /\ (kind = "channel" => life)
  <2>1. CASE acts
    BY <1>5, <2>1 DEF Deliver, Accepted, Spawn, Disturb
  <2>2. CASE ~acts
    BY <1>5, <2>2 DEF Deliver, Disturb
  <2> QED  BY <2>1, <2>2
<1> QED  BY <1>1, <1>2, <1>3, <1>4, <1>5

\* A job in its turn keeps it.
LEMMA JobPreserves ==
  ASSUME LifecycleInv, NEW j \in jobs, JobStep(j)
  PROVE  LifecycleInv'
<1> USE DEF LifecycleInv, TypeOK, Counters, StartedFirst, WaitedFor, Unlinked, EndedFirst,
            LostIsOffline, DrainedIsQuiet, WokenIsLate, SessionInHand, Stopping, Alive, Serving, Gone,
            mainVars
<1>1. CASE j.at = "subscribe"
  <2> DEFINE k == [j EXCEPT !.at = "publish"]
  <2>1. /\ k \in [id : Nat, at : {"subscribe", "publish", "work"}] /\ k.at = "publish"
        /\ jobs' = (jobs \ {j}) \cup {k}
        /\ UNCHANGED <<main, signalled, life, waiter, avail, link, disturbed>>
        /\ subscribed' = (subscribed \/ Alive)
    BY <1>1 DEF JobStep
  <2> HIDE DEF k
  <2>2. TypeOK' /\ Counters' /\ StartedFirst' /\ WaitedFor' /\ Unlinked' /\ EndedFirst'
    BY <1>1, <2>1 DEF JobStep
  <2>3. LostIsOffline' /\ DrainedIsQuiet' /\ WokenIsLate'
    BY <2>1
  <2>4. SessionInHand'
    BY <1>1, <2>1
  <2> QED  BY <2>2, <2>3, <2>4
<1>2. CASE j.at = "publish"
  BY <1>2 DEF JobStep, Say
<1>3. CASE j.at = "work"
  BY <1>3 DEF JobStep
<1> QED  BY <1>1, <1>2, <1>3 DEF JobStep

\* Signals, timers, the poll loop, the waiter and a kill keep it.
LEMMA OtherPreserves ==
  ASSUME LifecycleInv, Signal \/ Kill \/ PollLoopEnds \/ Expire \/ WaiterReturns
  PROVE  LifecycleInv'
<1> USE DEF LifecycleInv, TypeOK, Counters, StartedFirst, WaitedFor, Unlinked, EndedFirst,
            LostIsOffline, DrainedIsQuiet, WokenIsLate, SessionInHand, Stopping, Alive, Serving, Gone, Will,
            mainVars, jobVars, stopVars, netVars
<1>1. CASE Signal  BY <1>1 DEF Signal
<1>2. CASE Kill  BY <1>2 DEF Kill
<1>3. CASE PollLoopEnds  BY <1>3 DEF PollLoopEnds
<1>4. CASE Expire  BY <1>4 DEF Expire
<1>5. CASE WaiterReturns
  <2>1. CASE jobs = {}  BY <1>5, <2>1 DEF WaiterReturns
  <2>2. CASE jobs # {}  BY <1>5, <2>2 DEF WaiterReturns
  <2> QED  BY <2>1, <2>2
<1> QED  BY <1>1, <1>2, <1>3, <1>4, <1>5

\* The invariant holds of every behaviour of the process.
THEOREM LifecycleInvariant == Spec => []LifecycleInv
<1>1. LifecycleInv /\ UNCHANGED vars => LifecycleInv'
  BY DEF LifecycleInv, TypeOK, Counters, StartedFirst, WaitedFor, Unlinked, EndedFirst,
         LostIsOffline, DrainedIsQuiet, WokenIsLate, SessionInHand, Stopping, Alive, Serving, Gone,
         vars, mainVars, jobVars, stopVars, netVars
<1>2. LifecycleInv /\ [Next]_vars => LifecycleInv'
  BY <1>1, RunPreserves, BrokerPreserves, JobPreserves, OtherPreserves DEF Next
<1> QED  BY InitInv, <1>2, PTL DEF Spec

\* Every variable keeps its type.
THEOREM LifecycleTyped == Spec => []TypeOK
<1>1. LifecycleInv => TypeOK
  BY DEF LifecycleInv
<1> QED  BY <1>1, LifecycleInvariant, PTL

\* However the process ends, and whenever, the controller is not left shown
\* available, and nothing panics, but for the named disturbances.
THEOREM EndsOffline == Spec => []OfflineAfterwards
<1>1. LifecycleInv => OfflineAfterwards
  BY DEF LifecycleInv, OfflineAfterwards, TypeOK, Unlinked, LostIsOffline, DrainedIsQuiet,
         WokenIsLate, Gone, Alive
<1> QED  BY <1>1, LifecycleInvariant, PTL

\* A session that is up and whose jobs are done is subscribed and announced.
THEOREM SessionsAreServed == Spec => []SessionServed
<1>1. LifecycleInv => SessionServed
  BY DEF LifecycleInv, SessionServed, SessionInHand, Serving
<1> QED  BY <1>1, LifecycleInvariant, PTL

\* When the database is closed nothing of the controller is left to use it.
THEOREM StopLeavesNothing == Spec => []NothingOutlivesStop
<1>1. LifecycleInv => NothingOutlivesStop
  BY DEF LifecycleInv, WaitedFor, NothingOutlivesStop
<1> QED  BY <1>1, LifecycleInvariant, PTL
=============================================================================
