----------------------------- MODULE RequestFifo -----------------------------
(***************************************************************************)
(* What the request queue of the server simulator promises its threads:    *)
(* generators put requests in, workers take them out in the order they     *)
(* went in, each request goes to one worker.  The promise has one hole,    *)
(* inherited from enqueue_request's missing full test: the request that    *)
(* would fill the last of the Capacity slots empties the queue instead.    *)
(*                                                                         *)
(* RequestQueue shows that the ring, the mutex and the condition variable  *)
(* of server_sim_prefetch.c implement this specification.                  *)
(***************************************************************************)
EXTENDS Naturals, Sequences

CONSTANTS Generators,   \* the generator threads; a request is named by its client
          Workers,      \* the worker threads
          Capacity,     \* the number of slots, REQ_QUEUE_SIZE
          NoRequest     \* a worker holding no request

VARIABLES queue,        \* the requests put and not yet taken, oldest first
          held          \* held[w]: the request worker w is serving

fifoVars == <<queue, held>>

Init ==
    /\ queue = <<>>
    /\ held = [w \in Workers |-> NoRequest]

\* A generator's request joins the queue, or wipes it when it is the one too many.
Put(g) ==
    /\ queue' = IF Len(queue) + 1 = Capacity THEN <<>> ELSE Append(queue, g)
    /\ UNCHANGED held

\* An idle worker takes the oldest request.
Take(w) ==
    /\ queue # <<>>
    /\ held[w] = NoRequest
    /\ held' = [held EXCEPT ![w] = Head(queue)]
    /\ queue' = Tail(queue)

\* The worker has answered its request.
Finish(w) ==
    /\ held[w] # NoRequest
    /\ held' = [held EXCEPT ![w] = NoRequest]
    /\ UNCHANGED queue

Next ==
    \/ \E g \in Generators : Put(g)
    \/ \E w \in Workers : Take(w) \/ Finish(w)

Spec == Init /\ [][Next]_fifoVars
=============================================================================
