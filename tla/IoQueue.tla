------------------------------ MODULE IoQueue ------------------------------
(* What the I/O manager promises its callers (src/include/ioman.h): requests, *)
(* numbered in the order they were accepted, are executed one at a time, each *)
(* exactly once and in that order; between a block that drained the queue and *)
(* the unblock nothing is accepted and nothing runs; shutdown discards what   *)
(* has not started.                                                           *)
EXTENDS Integers

VARIABLES last,     \* number of the last accepted request
          started,  \* number of the last request started (or discarded)
          busy,     \* request `started' is being executed
          quiet     \* a caller holds the queue blocked and drained

vars == <<last, started, busy, quiet>>

Init == last = 0 /\ started = 0 /\ busy = FALSE /\ quiet = FALSE

Accept == /\ ~quiet
          /\ last' = last + 1
          /\ UNCHANGED <<started, busy, quiet>>

Start == /\ ~quiet /\ ~busy /\ started < last
         /\ started' = started + 1
         /\ busy' = TRUE
         /\ UNCHANGED <<last, quiet>>

Finish == /\ busy
          /\ busy' = FALSE
          /\ UNCHANGED <<last, started, quiet>>

Discard == /\ ~busy
           /\ started' = last
           /\ UNCHANGED <<last, busy, quiet>>

Quiesce == /\ ~quiet /\ ~busy /\ started = last
           /\ quiet' = TRUE
           /\ UNCHANGED <<last, started, busy>>

Resume == /\ quiet
          /\ quiet' = FALSE
          /\ UNCHANGED <<last, started, busy>>

Next == Accept \/ Start \/ Finish \/ Discard \/ Quiesce \/ Resume

Spec == Init /\ [][Next]_vars
=============================================================================
