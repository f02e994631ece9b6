--------------------------- MODULE ServerThreads ---------------------------
(* The pool of threads in which the server runs its handlers: each thread is  *)
(* a record with the step it is at, "idle" between requests.                  *)

CONSTANT Thread

\* At most one thread is at work.
Alone(work) == \A t, u \in Thread : work[t].pc # "idle" /\ work[u].pc # "idle" => t = u
=============================================================================
