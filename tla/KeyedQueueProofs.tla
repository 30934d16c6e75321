-------------------------- MODULE KeyedQueueProofs --------------------------
(***************************************************************************)
(* For every set of jobs and every set of keys: the per-device queue keeps  *)
(* its invariant, so work of one key never overlaps and runs in the order   *)
(* of the calls, wait() returns only on a drained queue, and the queue      *)
(* implements SerialPerKey's safety part.                                   *)
(***************************************************************************)
EXTENDS KeyedQueue, FiniteSetTheorems, TLAPS

\* The queue starts out in its invariant.
LEMMA QueueInvInit == Init => QueueInv
<1> SUFFICES ASSUME Init PROVE QueueInv
  OBVIOUS
<1>1. TypeOK
  BY NoneFresh DEF Init, TypeOK, States
<1>2. KeyInv /\ OrderInv /\ TailInv /\ PrevInv /\ FirstComeFirstServed
  BY NoneFresh DEF Init, KeyInv, OrderInv, TailInv, PrevInv, FirstComeFirstServed
<1>3. CountInv
  <2>1. Pending = {}
    BY DEF Init, Pending
  <2> QED  BY <2>1, FS_EmptySet DEF Init, CountInv
<1> QED  BY <1>1, <1>2, <1>3 DEF QueueInv

\* enqueue keeps the invariant: the new job becomes the tail of its key, with
\* the old tail, and through it everything enqueued before, ahead of it.
LEMMA EnqueuePreserves ==
  ASSUME QueueInv, NEW j \in Jobs, NEW k \in Keys, Enqueue(j, k)
  PROVE  QueueInv'
<1> USE DEF QueueInv, Enqueue
<1>0. pc[j] = "new" /\ keyOf[j] = None /\ k # None
  BY NoneFresh DEF KeyInv
<1>1. TypeOK'
  BY DEF TypeOK, States
<1>2. KeyInv'
  BY <1>0 DEF TypeOK, KeyInv
<1>3. OrderInv'
  BY <1>0 DEF TypeOK, KeyInv, OrderInv
<1>4. TailInv'
  <2> SUFFICES ASSUME NEW l \in Keys
               PROVE  IF tails'[l] = None
                      THEN \A i \in Jobs : keyOf'[i] = l => Closed(i)'
                      ELSE /\ keyOf'[tails'[l]] = l
                           /\ pc'[tails'[l]] \notin {"released", "left"}
                           /\ \A i \in Jobs : keyOf'[i] = l /\ i # tails'[l]
                                                => i \in ahead'[tails'[l]]
    BY DEF TailInv
  <2>1. CASE l = k
    BY <1>0, <2>1, NoneFresh DEF TypeOK
  <2>2. CASE l # k
    <3>1. tails'[l] = tails[l]
      BY <2>2 DEF TypeOK
    <3>2. tails[l] # None => tails[l] \in Jobs /\ tails[l] # j
      BY <1>0, NoneFresh DEF TypeOK, TailInv
    <3> QED  BY <1>0, <2>2, <3>1, <3>2 DEF TypeOK, TailInv, Closed
  <2> QED  BY <2>1, <2>2
<1>5. PrevInv'
  <2> SUFFICES ASSUME NEW i \in Jobs
               PROVE  IF prev'[i] = None
                      THEN \A h \in ahead'[i] : Closed(h)'
                      ELSE ahead'[i] = ahead'[prev'[i]] \cup {prev'[i]}
    BY DEF PrevInv
  <2>0. \A h \in Jobs : Closed(h) => h # j /\ Closed(h)'
    BY <1>0 DEF TypeOK, Closed
  <2>1. CASE i = j
    <3>1. prev'[i] = tails[k] /\ ahead'[i] = {h \in Jobs : keyOf[h] = k}
      BY <2>1 DEF TypeOK
    <3>2. CASE tails[k] = None
      BY <2>0, <3>1, <3>2 DEF TailInv
    <3>3. CASE tails[k] # None
      <4>1. tails[k] \in Jobs /\ tails[k] # j /\ keyOf[tails[k]] = k
        BY <1>0, <3>3 DEF TypeOK, TailInv
      <4>2. ahead'[tails[k]] = ahead[tails[k]]
        BY <4>1 DEF TypeOK
      <4>3. {h \in Jobs : keyOf[h] = k} = ahead[tails[k]] \cup {tails[k]}
        BY <3>3, <4>1 DEF TailInv, KeyInv, TypeOK
      <4> QED  BY <3>1, <3>3, <4>2, <4>3
    <3> QED  BY <3>2, <3>3
  <2>2. CASE i # j
    <3>1. prev'[i] = prev[i] /\ ahead'[i] = ahead[i] /\ ahead[i] \subseteq Jobs
      BY <2>2 DEF TypeOK
    <3>2. CASE prev[i] = None
      BY <2>0, <3>1, <3>2 DEF PrevInv
    <3>3. CASE prev[i] # None
      <4>1. prev[i] \in ahead[i]
        BY <3>3 DEF PrevInv
      <4>2. prev[i] \in Jobs /\ prev[i] # j
        BY <1>0, <3>1, <4>1 DEF KeyInv
      <4>3. ahead'[prev[i]] = ahead[prev[i]]
        BY <4>2 DEF TypeOK
      <4> QED  BY <3>1, <3>3, <4>3 DEF PrevInv
    <3> QED  BY <3>2, <3>3
  <2> QED  BY <2>1, <2>2
<1>6. FirstComeFirstServed'
  BY <1>0 DEF TypeOK, FirstComeFirstServed, Closed
<1>7. CountInv'
  <2>1. Pending' = Pending \cup {j} /\ j \notin Pending
    BY <1>0 DEF TypeOK, Pending
  <2>2. IsFiniteSet(Pending)
    BY JobsFinite, FS_Subset DEF Pending
  <2> QED  BY <2>1, <2>2, FS_AddElement DEF CountInv
<1> QED  BY <1>1, <1>2, <1>3, <1>4, <1>5, <1>6, <1>7

\* Starting the work keeps the invariant: the predecessor closed only after
\* everything ahead of it had closed.
LEMMA BeginPreserves ==
  ASSUME QueueInv, NEW j \in Jobs, Begin(j)
  PROVE  QueueInv'
<1> USE DEF QueueInv, Begin
<1>0. \A h \in Jobs : Closed(h) <=> Closed(h)'
  BY DEF TypeOK, Closed
<1>1. TypeOK'
  BY DEF TypeOK, States
<1>2. KeyInv' /\ OrderInv'
  BY DEF TypeOK, KeyInv, OrderInv
<1>3. TailInv'
  BY <1>0 DEF TypeOK, TailInv
<1>4. PrevInv'
  BY <1>0 DEF TypeOK, PrevInv
<1>5. FirstComeFirstServed'
  <2>1. \A i \in ahead[j] : Closed(i)
    <3>1. CASE prev[j] = None
      BY <3>1 DEF PrevInv
    <3>2. CASE prev[j] # None
      <4>1. prev[j] \in Jobs /\ Closed(prev[j])
        BY <3>2 DEF TypeOK
      <4>2. \A i \in ahead[prev[j]] : Closed(i)
        BY <4>1 DEF FirstComeFirstServed, Closed
      <4> QED  BY <3>2, <4>1, <4>2 DEF PrevInv
    <3> QED  BY <3>1, <3>2
  <2> QED  BY <1>0, <2>1 DEF TypeOK, FirstComeFirstServed
<1>6. CountInv'
  <2>1. Pending' = Pending
    BY DEF TypeOK, Pending
  <2> QED  BY <2>1 DEF CountInv
<1> QED  BY <1>1, <1>2, <1>3, <1>4, <1>5, <1>6

\* Closing the done channel keeps the invariant.
LEMMA ClosePreserves ==
  ASSUME QueueInv, NEW j \in Jobs, Close(j)
  PROVE  QueueInv'
<1> USE DEF QueueInv, Close
<1>0. \A h \in Jobs : Closed(h) => Closed(h)'
  BY DEF TypeOK, Closed
<1>1. TypeOK'
  BY DEF TypeOK, States
<1>2. KeyInv' /\ OrderInv'
  BY DEF TypeOK, KeyInv, OrderInv
<1>3. TailInv'
  BY <1>0 DEF TypeOK, TailInv
<1>4. PrevInv'
  BY <1>0 DEF TypeOK, PrevInv
<1>5. FirstComeFirstServed'
  BY <1>0 DEF TypeOK, FirstComeFirstServed
<1>6. CountInv'
  <2>1. Pending' = Pending
    BY DEF TypeOK, Pending
  <2> QED  BY <2>1 DEF CountInv
<1> QED  BY <1>1, <1>2, <1>3, <1>4, <1>5, <1>6

\* Deleting the map entry keeps the invariant, because the entry goes only
\* when the job is still the tail: everything else of its key is ahead of it
\* and has closed.
LEMMA ReleasePreserves ==
  ASSUME QueueInv, NEW j \in Jobs, Release(j)
  PROVE  QueueInv'
<1> USE DEF QueueInv, Release
<1>0. \A h \in Jobs : Closed(h) <=> Closed(h)'
  BY DEF TypeOK, Closed
<1>1. keyOf[j] \in Keys
  BY DEF TypeOK, KeyInv
<1>2. TypeOK'
  BY <1>1 DEF TypeOK, States
<1>3. KeyInv' /\ OrderInv'
  BY DEF TypeOK, KeyInv, OrderInv
<1>4. TailInv'
  <2> SUFFICES ASSUME NEW k \in Keys
               PROVE  IF tails'[k] = None
                      THEN \A i \in Jobs : keyOf'[i] = k => Closed(i)'
                      ELSE /\ keyOf'[tails'[k]] = k
                           /\ pc'[tails'[k]] \notin {"released", "left"}
                           /\ \A i \in Jobs : keyOf'[i] = k /\ i # tails'[k]
                                                => i \in ahead'[tails'[k]]
    BY DEF TailInv
  <2>1. CASE tails[k] = j
    <3>1. keyOf[j] = k /\ tails'[k] = None
      BY <2>1, NoneFresh DEF TypeOK, TailInv
    <3>2. \A i \in Jobs : keyOf[i] = k => i = j \/ i \in ahead[j]
      BY <2>1, NoneFresh DEF TailInv
    <3>3. Closed(j) /\ \A i \in ahead[j] : Closed(i)
      BY DEF FirstComeFirstServed, Closed
    <3> QED  BY <1>0, <3>1, <3>2, <3>3
  <2>2. CASE tails[k] # j
    <3>1. tails'[k] = tails[k]
      BY <1>1, <2>2 DEF TypeOK
    <3>2. tails[k] # None => tails[k] \in Jobs
      BY DEF TypeOK
    <3> QED  BY <1>0, <2>2, <3>1, <3>2 DEF TypeOK, TailInv
  <2> QED  BY <2>1, <2>2
<1>5. PrevInv'
  BY <1>0 DEF TypeOK, PrevInv
<1>6. FirstComeFirstServed'
  BY <1>0 DEF TypeOK, FirstComeFirstServed
<1>7. CountInv'
  <2>1. Pending' = Pending
    BY DEF TypeOK, Pending
  <2> QED  BY <2>1 DEF CountInv
<1> QED  BY <1>2, <1>3, <1>4, <1>5, <1>6, <1>7

\* Leaving the WaitGroup keeps the invariant.
LEMMA LeavePreserves ==
  ASSUME QueueInv, NEW j \in Jobs, Leave(j)
  PROVE  QueueInv'
<1> USE DEF QueueInv, Leave
<1>0. \A h \in Jobs : Closed(h) <=> Closed(h)'
  BY DEF TypeOK, Closed
<1>1. Pending' = Pending \ {j} /\ j \in Pending
  BY DEF TypeOK, Pending
<1>2. IsFiniteSet(Pending) /\ IsFiniteSet(Pending')
  BY JobsFinite, FS_Subset DEF Pending
<1>3. CountInv'
  BY <1>1, <1>2, FS_RemoveElement DEF CountInv
<1>4. TypeOK'
  BY <1>2, <1>3, FS_CardinalityType DEF TypeOK, States, CountInv
<1>5. KeyInv' /\ OrderInv'
  BY DEF TypeOK, KeyInv, OrderInv
<1>6. TailInv'
  <2>1. \A k \in Keys : tails[k] # None => tails[k] \in Jobs /\ tails[k] # j
    BY DEF TypeOK, TailInv
  <2> QED  BY <1>0, <2>1 DEF TypeOK, TailInv
<1>7. PrevInv'
  BY <1>0 DEF TypeOK, PrevInv
<1>8. FirstComeFirstServed'
  BY <1>0 DEF TypeOK, FirstComeFirstServed
<1> QED  BY <1>3, <1>4, <1>5, <1>6, <1>7, <1>8

\* The invariant holds throughout every behaviour of the queue.
THEOREM QueueInvariant == Safety => []QueueInv
<1>1. QueueInv /\ [Next]_vars => QueueInv'
  <2> SUFFICES ASSUME QueueInv, [Next]_vars PROVE QueueInv'
    OBVIOUS
  <2>1. CASE UNCHANGED vars
    BY <2>1 DEF vars, QueueInv, TypeOK, KeyInv, OrderInv, TailInv, PrevInv,
                FirstComeFirstServed, CountInv, Pending, Closed
  <2>2. CASE Next
    BY <2>2, EnqueuePreserves, BeginPreserves, ClosePreserves,
       ReleasePreserves, LeavePreserves DEF Next
  <2> QED  BY <2>1, <2>2
<1> QED  BY <1>1, QueueInvInit, PTL DEF Safety

\* The WaitGroup counter of the queue never goes negative and every variable
\* keeps its type.
THEOREM QueueTypeCorrect == Safety => []TypeOK
<1>1. QueueInv => TypeOK
  BY DEF QueueInv
<1> QED  BY <1>1, QueueInvariant, PTL

\* Two pieces of work of one key are never in progress at once: of the two,
\* one is ahead of the other and closed before the other started.
THEOREM QueueMutualExclusion == Safety => []OneAtATime
<1>1. QueueInv => OneAtATime
  <2> SUFFICES ASSUME QueueInv, NEW i \in Jobs, NEW j \in Jobs,
                      pc[i] = "running", pc[j] = "running", keyOf[i] = keyOf[j], i # j
               PROVE  FALSE
    BY DEF OneAtATime
  <2>1. i \in ahead[j] \/ j \in ahead[i]
    BY DEF QueueInv, OrderInv, KeyInv
  <2> QED  BY <2>1 DEF QueueInv, FirstComeFirstServed, Closed
<1> QED  BY <1>1, QueueInvariant, PTL

\* When the counter is zero, the condition on which wait() returns, every
\* enqueued job has left and the map of tails is empty.
THEOREM WaitMeansDrained == Safety => []DrainedWhenWaitReturns
<1>1. QueueInv => DrainedWhenWaitReturns
  <2> SUFFICES ASSUME QueueInv, wg = 0
               PROVE  /\ \A j \in Jobs : pc[j] \in {"new", "left"}
                      /\ \A k \in Keys : tails[k] = None
    BY DEF DrainedWhenWaitReturns
  <2>1. Pending = {}
    <3>1. IsFiniteSet(Pending)
      BY JobsFinite, FS_Subset DEF Pending
    <3> QED  BY <3>1, FS_EmptySet DEF QueueInv, CountInv
  <2>2. \A j \in Jobs : pc[j] \in {"new", "left"}
    BY <2>1 DEF Pending
  <2>3. ASSUME NEW k \in Keys PROVE tails[k] = None
    BY <2>2, NoneFresh DEF QueueInv, TypeOK, TailInv, KeyInv
  <2> QED  BY <2>2, <2>3
<1> QED  BY <1>1, QueueInvariant, PTL

\* The goroutines and channels implement the abstract per-key queue: each
\* step is a Submit, a Start, a Complete or invisible.
THEOREM QueueImplementsSerial == Safety => Serial!Safety
<1>1. Init => Serial!Init
  BY DEF Init, Serial!Init, Status, Closed
<1>2. QueueInv /\ [Next]_vars => [Serial!Next]_(Serial!vars)
  <2> SUFFICES ASSUME QueueInv, [Next]_vars
               PROVE  Serial!Next \/ UNCHANGED <<keyOf, ahead, Status>>
    BY DEF Serial!vars
  <2>1. CASE UNCHANGED vars
    BY <2>1 DEF vars, Status, Closed
  <2>2. ASSUME NEW j \in Jobs, NEW k \in Keys, Enqueue(j, k)
        PROVE  Serial!Submit(j, k)
    BY <2>2 DEF Enqueue, Serial!Submit, QueueInv, TypeOK, Status, Closed
  <2>3. ASSUME NEW j \in Jobs, Begin(j)
        PROVE  Serial!Start(j)
    <3>1. QueueInv'
      BY <2>3, BeginPreserves
    <3>2. pc'[j] = "running" /\ ahead' = ahead /\ \A i \in Jobs : Closed(i)' => Closed(i)
      BY <2>3 DEF Begin, QueueInv, TypeOK, Closed
    <3>3. \A i \in ahead[j] : i \in Jobs /\ Closed(i)
      BY <3>1, <3>2 DEF QueueInv, FirstComeFirstServed, TypeOK
    <3>4. \A i \in ahead[j] : Status[i] = "done"
      BY <3>3 DEF Status, Closed
    <3> QED  BY <2>3, <3>4 DEF Begin, Serial!Start, QueueInv, TypeOK, Status, Closed
  <2>4. ASSUME NEW j \in Jobs, Close(j)
        PROVE  Serial!Complete(j)
    BY <2>4 DEF Close, Serial!Complete, QueueInv, TypeOK, Status, Closed
  <2>5. ASSUME NEW j \in Jobs, Release(j) \/ Leave(j)
        PROVE  UNCHANGED <<keyOf, ahead, Status>>
    BY <2>5 DEF Release, Leave, QueueInv, TypeOK, Status, Closed
  <2> QED  BY <2>1, <2>2, <2>3, <2>4, <2>5 DEF Next, Serial!Next
<1> QED  BY <1>1, <1>2, QueueInvariant, PTL DEF Safety, Serial!Safety
=============================================================================
