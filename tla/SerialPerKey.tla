---------------------------- MODULE SerialPerKey ----------------------------
(***************************************************************************)
(* What the controller's per-device queue promises its callers: the work   *)
(* submitted for one key runs one piece at a time and in the order of the   *)
(* submissions; work for different keys is independent.  Nothing here says  *)
(* how: the channels, the map of tails and the goroutines are KeyedQueue's. *)
(***************************************************************************)
CONSTANTS Jobs, Keys, None

VARIABLES keyOf,    \* the key a job was submitted for, None before that
          ahead,    \* the jobs submitted for the same key before it
          status    \* "new", "queued", "running" or "done"

vars == <<keyOf, ahead, status>>

Init == /\ keyOf = [j \in Jobs |-> None]
        /\ ahead = [j \in Jobs |-> {}]
        /\ status = [j \in Jobs |-> "new"]

Submit(j, k) == /\ status[j] = "new"
                /\ keyOf' = [keyOf EXCEPT ![j] = k]
                /\ ahead' = [ahead EXCEPT ![j] = {i \in Jobs : keyOf[i] = k}]
                /\ status' = [status EXCEPT ![j] = "queued"]

Start(j) == /\ status[j] = "queued"
            /\ \A i \in ahead[j] : status[i] = "done"
            /\ status' = [status EXCEPT ![j] = "running"]
            /\ UNCHANGED <<keyOf, ahead>>

Complete(j) == /\ status[j] = "running"
               /\ status' = [status EXCEPT ![j] = "done"]
               /\ UNCHANGED <<keyOf, ahead>>

Next == \E j \in Jobs : \/ \E k \in Keys : Submit(j, k)
                        \/ Start(j)
                        \/ Complete(j)

Fairness == \A j \in Jobs : WF_vars(Start(j)) /\ WF_vars(Complete(j))

Safety == Init /\ [][Next]_vars

Spec == Safety /\ Fairness
=============================================================================
