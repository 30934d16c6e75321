---------------------------- MODULE MCKeyedQueue ----------------------------
(* Four calls of enqueue over two keys: enough for a chain of predecessors,  *)
(* a tail deleted while a successor waits, and a second key in between.      *)
EXTENDS KeyedQueue
=============================================================================
