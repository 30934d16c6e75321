----------------------------- MODULE KeyedQueue -----------------------------
(***************************************************************************)
(* keyedQueue (internal/controller/queue.go): the queue that serialises the *)
(* channel writes of one device.  A call of enqueue claims its place under  *)
(* the lock and starts a goroutine; the goroutine waits for the done        *)
(* channel of its predecessor, runs the work, closes its own done channel,  *)
(* takes itself out of the map of tails if it is still the tail, and only   *)
(* then leaves the WaitGroup.  A done channel is identified with the job    *)
(* that closes it.                                                          *)
(***************************************************************************)
EXTENDS Integers, FiniteSets

CONSTANTS Jobs,   \* the calls of enqueue
          Keys,   \* the keys they may name (MAC addresses)
          None    \* a nil channel, an absent map entry

ASSUME JobsFinite == IsFiniteSet(Jobs)
ASSUME NoneFresh == None \notin Jobs /\ None \notin Keys

VARIABLES tails,   \* q.tails: key -> done channel of the last job, or None
          prev,    \* the channel a job's goroutine captured at enqueue time
          wg,      \* the counter of q.wg
          pc,      \* where a job's goroutine is
          keyOf,   \* the key a job was enqueued for
          ahead    \* history: the jobs enqueued for that key before it

vars == <<tails, prev, wg, pc, keyOf, ahead>>

Init == /\ tails = [k \in Keys |-> None]
        /\ prev = [j \in Jobs |-> None]
        /\ wg = 0
        /\ pc = [j \in Jobs |-> "new"]
        /\ keyOf = [j \in Jobs |-> None]
        /\ ahead = [j \in Jobs |-> {}]

\* close(done) has happened: a receive from j's channel no longer blocks.
Closed(j) == pc[j] \in {"closed", "released", "left"}

-----------------------------------------------------------------------------
(* Plausible slips in the code, one per property: each mutant is the action *)
(* it replaces with one thing changed.                                      *)

EnqueueKeepsTail(j, k) ==
  /\ pc[j] = "new"
  /\ prev' = [prev EXCEPT ![j] = tails[k]]
  /\ tails' = [tails EXCEPT ![k] = IF @ = None THEN j ELSE @]
  /\ wg' = wg + 1
  /\ pc' = [pc EXCEPT ![j] = "waiting"]
  /\ keyOf' = [keyOf EXCEPT ![j] = k]
  /\ ahead' = [ahead EXCEPT ![j] = {i \in Jobs : keyOf[i] = k}]

EnqueueWaitsForItself(j, k) ==
  /\ pc[j] = "new"
  /\ prev' = [prev EXCEPT ![j] = j]
  /\ tails' = [tails EXCEPT ![k] = j]
  /\ wg' = wg + 1
  /\ pc' = [pc EXCEPT ![j] = "waiting"]
  /\ keyOf' = [keyOf EXCEPT ![j] = k]
  /\ ahead' = [ahead EXCEPT ![j] = {i \in Jobs : keyOf[i] = k}]

ReleaseUnconditionally(j) ==
  /\ pc[j] = "closed"
  /\ tails' = [tails EXCEPT ![keyOf[j]] = None]
  /\ pc' = [pc EXCEPT ![j] = "released"]
  /\ UNCHANGED <<prev, wg, keyOf, ahead>>

ReleaseNever(j) ==
  /\ pc[j] = "closed"
  /\ pc' = [pc EXCEPT ![j] = "released"]
  /\ UNCHANGED <<tails, prev, wg, keyOf, ahead>>

LeaveTwice(j) ==
  /\ pc[j] = "released"
  /\ wg' = wg - 2
  /\ pc' = [pc EXCEPT ![j] = "left"]
  /\ UNCHANGED <<tails, prev, keyOf, ahead>>

-----------------------------------------------------------------------------
\* enqueue's critical section and the go statement: the slot is claimed and
\* the WaitGroup entered before the goroutine exists.
Enqueue(j, k) ==
  /\ pc[j] = "new"
  /\ prev' = [prev EXCEPT ![j] = tails[k]]
  /\ tails' = [tails EXCEPT ![k] = j]
  /\ wg' = wg + 1
  /\ pc' = [pc EXCEPT ![j] = "waiting"]
  /\ keyOf' = [keyOf EXCEPT ![j] = k]
  /\ ahead' = [ahead EXCEPT ![j] = {i \in Jobs : keyOf[i] = k}]

\* The goroutine passes <-prev, or had no predecessor, and calls fn.
Begin(j) ==
  /\ pc[j] = "waiting"
  /\ prev[j] # None => Closed(prev[j])
  /\ pc' = [pc EXCEPT ![j] = "running"]
  /\ UNCHANGED <<tails, prev, wg, keyOf, ahead>>

\* fn has returned; the deferred function closes the done channel.
Close(j) ==
  /\ pc[j] = "running"
  /\ pc' = [pc EXCEPT ![j] = "closed"]
  /\ UNCHANGED <<tails, prev, wg, keyOf, ahead>>

\* The deferred critical section: the map entry goes only if it is still ours.
Release(j) ==
  /\ pc[j] = "closed"
  /\ tails' = IF tails[keyOf[j]] = j
                THEN [tails EXCEPT ![keyOf[j]] = None]
                ELSE tails
  /\ pc' = [pc EXCEPT ![j] = "released"]
  /\ UNCHANGED <<prev, wg, keyOf, ahead>>

\* wg.Done, deferred first and therefore last.
Leave(j) ==
  /\ pc[j] = "released"
  /\ wg' = wg - 1
  /\ pc' = [pc EXCEPT ![j] = "left"]
  /\ UNCHANGED <<tails, prev, keyOf, ahead>>

Next == \E j \in Jobs : \/ \E k \in Keys : Enqueue(j, k)
                        \/ Begin(j) \/ Close(j) \/ Release(j) \/ Leave(j)

\* A goroutine that can go on does; Close is fair because the work, a channel
\* write, is bounded by its timeouts and its readback attempts.
Fairness == \A j \in Jobs : WF_vars(Begin(j) \/ Close(j) \/ Release(j) \/ Leave(j))

Safety == Init /\ [][Next]_vars

Spec == Safety /\ Fairness

-----------------------------------------------------------------------------
States == {"new", "waiting", "running", "closed", "released", "left"}

Pending == {j \in Jobs : pc[j] \notin {"new", "left"}}

\* Type correctness of the queue; in particular the WaitGroup counter never
\* goes below zero, where Go's WaitGroup.Done panics.
TypeOK == /\ tails \in [Keys -> Jobs \cup {None}]
          /\ prev \in [Jobs -> Jobs \cup {None}]
          /\ wg \in Nat
          /\ pc \in [Jobs -> States]
          /\ keyOf \in [Jobs -> Keys \cup {None}]
          /\ ahead \in [Jobs -> SUBSET Jobs]

\* The work of one key never overlaps: two channel writes of one device are
\* never in progress at once, whichever goroutines the scheduler favours.
OneAtATime == \A i, j \in Jobs :
  pc[i] = "running" /\ pc[j] = "running" /\ keyOf[i] = keyOf[j] => i = j

\* Work of one key runs in the order in which it was enqueued: nothing starts
\* before everything enqueued earlier for the same key has returned.
FirstComeFirstServed == \A j \in Jobs :
  pc[j] \notin {"new", "waiting"} => \A i \in ahead[j] : Closed(i)

\* When wait() may return (the counter is zero) no work is under way and no
\* entry is left in the map: the queue does not leak one entry per device.
DrainedWhenWaitReturns ==
  wg = 0 => /\ \A j \in Jobs : pc[j] \in {"new", "left"}
            /\ \A k \in Keys : tails[k] = None

\* Every piece of work that claimed a place is eventually run and leaves the
\* WaitGroup, so a Stop that waits for the queue is not left waiting.
EveryJobLeaves == \A j \in Jobs : pc[j] = "waiting" ~> pc[j] = "left"

-----------------------------------------------------------------------------
(* The inductive invariant.  The tail of a key is its latest job, a missing *)
(* tail means that every job of the key has closed, and a goroutine's       *)
(* predecessor is the latest of the jobs ahead of it.                       *)

KeyInv == \A j \in Jobs :
  /\ (pc[j] = "new") <=> (keyOf[j] = None)
  /\ ahead[j] \subseteq {i \in Jobs : keyOf[i] = keyOf[j] /\ keyOf[i] # None}

\* Of two jobs of one key one is ahead of the other.
OrderInv == \A i, j \in Jobs :
  i # j /\ keyOf[i] # None /\ keyOf[i] = keyOf[j] => i \in ahead[j] \/ j \in ahead[i]

TailInv == \A k \in Keys :
  IF tails[k] = None
    THEN \A j \in Jobs : keyOf[j] = k => Closed(j)
    ELSE /\ keyOf[tails[k]] = k
         /\ pc[tails[k]] \notin {"released", "left"}
         /\ \A j \in Jobs : keyOf[j] = k /\ j # tails[k] => j \in ahead[tails[k]]

PrevInv == \A j \in Jobs :
  IF prev[j] = None
    THEN \A i \in ahead[j] : Closed(i)
    ELSE ahead[j] = ahead[prev[j]] \cup {prev[j]}

CountInv == wg = Cardinality(Pending)

\* The invariant the proofs rest on: a strengthening of the properties above
\* that every step of enqueue and of the goroutines preserves.
QueueInv == /\ TypeOK
            /\ KeyInv
            /\ OrderInv
            /\ TailInv
            /\ PrevInv
            /\ FirstComeFirstServed
            /\ CountInv

-----------------------------------------------------------------------------
\* The abstract status of a job: its done channel tells the others it is done.
Status == [j \in Jobs |-> IF pc[j] = "waiting" THEN "queued"
                          ELSE IF Closed(j) THEN "done" ELSE pc[j]]

Serial == INSTANCE SerialPerKey WITH status <- Status

\* The goroutines, channels and tails implement the abstract queue, its
\* progress included.
ImplementsSerial == Serial!Spec
=============================================================================
