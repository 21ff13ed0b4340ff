---------------------------- MODULE RequestQueue ----------------------------
(***************************************************************************)
(* The request queue of server_sim_prefetch.c: a ring of REQ_QUEUE_SIZE    *)
(* slots with the indices q_head and q_tail, guarded by the mutex qlock,   *)
(* and the condition variable qcond on which workers wait for work.        *)
(*                                                                         *)
(* One action per statement of enqueue_request and dequeue_request that    *)
(* touches shared state, so that the interleavings of generator_fn and     *)
(* worker_fn are the program's.  A request is the client_id its generator  *)
(* stores in it; the other fields are rewritten by the worker.  What a     *)
(* worker does with the request it got is one step here.                   *)
(***************************************************************************)
EXTENDS Naturals, Sequences, FiniteSets

CONSTANTS Generators,      \* threads running generator_fn, named by client_id
          Workers,         \* threads running worker_fn
          REQ_QUEUE_SIZE,  \* slots of the ring
          NoRequest,       \* a zero-initialised slot of the static array
          Free             \* the owner of an unlocked mutex

ASSUME QueueAssumption ==
    /\ REQ_QUEUE_SIZE \in Nat \ {0}
    /\ Generators \cap Workers = {}
    /\ NoRequest \notin Generators
    /\ Free \notin Generators \cup Workers
    /\ IsFiniteSet(Generators) /\ IsFiniteSet(Workers)

VARIABLES req_queue,  \* the ring: slot -> request
          q_head,     \* the slot the next dequeue reads
          q_tail,     \* the slot the next enqueue writes
          qlock,      \* the thread that holds the mutex, or Free
          req,        \* req[w]: worker w's local request_t
          pc          \* pc[t]: what thread t does next

vars == <<req_queue, q_head, q_tail, qlock, req, pc>>

Threads == Generators \cup Workers
Slots == 0 .. REQ_QUEUE_SIZE - 1
Requests == Generators \cup {NoRequest}

GeneratorLabels == {"sleep", "lock_q", "store", "advance_tail", "signal", "unlock_g"}
WorkerLabels == {"lock_w", "test", "waiting", "woken", "copy", "advance_head",
                 "unlock_w", "serve"}

\* Labels between pthread_mutex_lock and pthread_mutex_unlock.
Critical == {"store", "advance_tail", "signal", "unlock_g",
             "test", "copy", "advance_head", "unlock_w"}

\* Fault: the index is not taken around the end of the array.
NextSlotNoWrap(i) == i + 1
NextSlot(i) == (i + 1) % REQ_QUEUE_SIZE

Init ==
    /\ req_queue = [i \in Slots |-> NoRequest]
    /\ q_head = 0
    /\ q_tail = 0
    /\ qlock = Free
    /\ req = [w \in Workers |-> NoRequest]
    /\ pc = [t \in Threads |-> IF t \in Generators THEN "sleep" ELSE "lock_w"]

GoTo(t, from, to) ==
    /\ pc[t] = from
    /\ pc' = [pc EXCEPT ![t] = to]

\* pthread_mutex_lock: proceeds when the mutex is free.
Lock(t) == qlock = Free /\ qlock' = t

\* pthread_mutex_unlock, and the release half of pthread_cond_wait.
Unlock == qlock' = Free

-----------------------------------------------------------------------------
(* generator_fn and enqueue_request *)

\* usleep returns; the generator fills in its next request and calls enqueue_request.
Generate(g) ==
    /\ GoTo(g, "sleep", "lock_q")
    /\ UNCHANGED <<req_queue, q_head, q_tail, qlock, req>>

EnqueueLock(g) ==
    /\ GoTo(g, "lock_q", "store")
    /\ Lock(g)
    /\ UNCHANGED <<req_queue, q_head, q_tail, req>>

EnqueueStore(g) ==
    /\ GoTo(g, "store", "advance_tail")
    /\ req_queue' = [req_queue EXCEPT ![q_tail] = g]
    /\ UNCHANGED <<q_head, q_tail, qlock, req>>

\* There is no full test: the tail may catch up with the head.
EnqueueAdvance(g) ==
    /\ GoTo(g, "advance_tail", "signal")
    /\ q_tail' = NextSlot(q_tail)
    /\ UNCHANGED <<req_queue, q_head, qlock, req>>

Waiting == {w \in Workers : pc[w] = "waiting"}

\* Fault: signal only when the queue was empty before, as if one wakeup drained it.
EnqueueSignalFirstOnly(g) ==
    /\ pc[g] = "signal"
    /\ IF Waiting = {} \/ q_tail # NextSlot(q_head)
       THEN pc' = [pc EXCEPT ![g] = "unlock_g"]
       ELSE \E w \in Waiting :
              pc' = [pc EXCEPT ![g] = "unlock_g", ![w] = "woken"]
    /\ UNCHANGED <<req_queue, q_head, q_tail, qlock, req>>

\* Fault: pthread_cond_signal is missing.
EnqueueNoSignal(g) ==
    /\ GoTo(g, "signal", "unlock_g")
    /\ UNCHANGED <<req_queue, q_head, q_tail, qlock, req>>

\* pthread_cond_signal wakes one waiter, and is forgotten when there is none.
EnqueueSignal(g) ==
    /\ pc[g] = "signal"
    /\ IF Waiting = {}
       THEN pc' = [pc EXCEPT ![g] = "unlock_g"]
       ELSE \E w \in Waiting :
              pc' = [pc EXCEPT ![g] = "unlock_g", ![w] = "woken"]
    /\ UNCHANGED <<req_queue, q_head, q_tail, qlock, req>>

EnqueueUnlock(g) ==
    /\ GoTo(g, "unlock_g", "sleep")
    /\ Unlock
    /\ UNCHANGED <<req_queue, q_head, q_tail, req>>

-----------------------------------------------------------------------------
(* dequeue_request and worker_fn *)

DequeueLock(w) ==
    /\ GoTo(w, "lock_w", "test")
    /\ Lock(w)
    /\ UNCHANGED <<req_queue, q_head, q_tail, req>>

\* The while test fails: there is a request to take.
DequeueFound(w) ==
    /\ q_head # q_tail
    /\ GoTo(w, "test", "copy")
    /\ UNCHANGED <<req_queue, q_head, q_tail, qlock, req>>

\* The while test holds: pthread_cond_wait releases the mutex and blocks, atomically.
DequeueWait(w) ==
    /\ q_head = q_tail
    /\ GoTo(w, "test", "waiting")
    /\ Unlock
    /\ UNCHANGED <<req_queue, q_head, q_tail, req>>

\* POSIX lets pthread_cond_wait return without a signal.
SpuriousWakeup(w) ==
    /\ GoTo(w, "waiting", "woken")
    /\ UNCHANGED <<req_queue, q_head, q_tail, qlock, req>>

\* Fault: an if in place of the while: the woken worker does not test again.
DequeueRelockNoTest(w) ==
    /\ GoTo(w, "woken", "copy")
    /\ Lock(w)
    /\ UNCHANGED <<req_queue, q_head, q_tail, req>>

\* pthread_cond_wait takes the mutex again, then the loop tests once more.
DequeueRelock(w) ==
    /\ GoTo(w, "woken", "test")
    /\ Lock(w)
    /\ UNCHANGED <<req_queue, q_head, q_tail, req>>

\* Fault: the head is advanced before the copy instead of after it.
DequeueCopyNext(w) ==
    /\ GoTo(w, "copy", "advance_head")
    /\ req' = [req EXCEPT ![w] = req_queue[NextSlot(q_head)]]
    /\ UNCHANGED <<req_queue, q_head, q_tail, qlock>>

\* Fault: the mutex is released between the copy and the advance.
DequeueCopyUnlocks(w) ==
    /\ GoTo(w, "copy", "advance_head")
    /\ req' = [req EXCEPT ![w] = req_queue[q_head]]
    /\ Unlock
    /\ UNCHANGED <<req_queue, q_head, q_tail>>

DequeueCopy(w) ==
    /\ GoTo(w, "copy", "advance_head")
    /\ req' = [req EXCEPT ![w] = req_queue[q_head]]
    /\ UNCHANGED <<req_queue, q_head, q_tail, qlock>>

DequeueAdvance(w) ==
    /\ GoTo(w, "advance_head", "unlock_w")
    /\ q_head' = NextSlot(q_head)
    /\ UNCHANGED <<req_queue, q_tail, qlock, req>>

DequeueUnlock(w) ==
    /\ GoTo(w, "unlock_w", "serve")
    /\ Unlock
    /\ UNCHANGED <<req_queue, q_head, q_tail, req>>

\* The rest of worker_fn's loop body, up to the next dequeue_request.
Serve(w) ==
    /\ GoTo(w, "serve", "lock_w")
    /\ UNCHANGED <<req_queue, q_head, q_tail, qlock, req>>

-----------------------------------------------------------------------------
EnqueueRequest(g) ==
    \/ EnqueueLock(g) \/ EnqueueStore(g) \/ EnqueueAdvance(g)
    \/ EnqueueSignal(g) \/ EnqueueUnlock(g)

DequeueRequest(w) ==
    \/ DequeueLock(w) \/ DequeueFound(w) \/ DequeueWait(w) \/ DequeueRelock(w)
    \/ DequeueCopy(w) \/ DequeueAdvance(w) \/ DequeueUnlock(w)

Next ==
    \/ \E g \in Generators : Generate(g) \/ EnqueueRequest(g)
    \/ \E w \in Workers : DequeueRequest(w) \/ SpuriousWakeup(w) \/ Serve(w)

Spec == Init /\ [][Next]_vars

(***************************************************************************)
(* Every thread that is not blocked runs on.  A thread asking for qlock    *)
(* gets it if it is free again and again: each holder leaves the critical  *)
(* section after a few statements and then sleeps (usleep in generator_fn  *)
(* and worker_fn) or waits before it asks for it again.  Nothing promises  *)
(* a spurious wakeup, and no generator has to make another request: what   *)
(* is queued must not depend on later arrivals to be served.               *)
(***************************************************************************)
Fairness ==
    /\ \A g \in Generators : /\ WF_vars(EnqueueRequest(g))
                             /\ SF_vars(EnqueueLock(g))
    /\ \A w \in Workers : /\ WF_vars(DequeueRequest(w) \/ Serve(w))
                          /\ SF_vars(DequeueLock(w) \/ DequeueRelock(w))

FairSpec == Spec /\ Fairness
-----------------------------------------------------------------------------
(* Properties *)

TypeOK ==
    /\ req_queue \in [Slots -> Requests]
    /\ q_head \in Slots
    /\ q_tail \in Slots
    /\ qlock \in Threads \cup {Free}
    /\ req \in [Workers -> Requests]
    /\ pc \in [Threads -> GeneratorLabels \cup WorkerLabels]
    /\ \A g \in Generators : pc[g] \in GeneratorLabels
    /\ \A w \in Workers : pc[w] \in WorkerLabels

\* The number of requests the indices say are queued.
Backlog == IF q_tail >= q_head THEN q_tail - q_head
                               ELSE q_tail - q_head + REQ_QUEUE_SIZE

\* The slot of the i-th queued request, oldest first.
WindowSlot(i) == IF q_head + i - 1 < REQ_QUEUE_SIZE
                 THEN q_head + i - 1
                 ELSE q_head + i - 1 - REQ_QUEUE_SIZE

\* The queued requests, oldest first.
Window == [i \in 1 .. Backlog |-> req_queue[WindowSlot(i)]]

\* A thread is between lock and unlock exactly when it owns the mutex.
LockInv == \A t \in Threads : pc[t] \in Critical <=> qlock = t

\* dequeue_request's loop: a worker that has left the while loop finds a
\* request when it copies and when it advances q_head, whoever else was
\* woken, or woke by itself, in the meantime; and the slot it copied is still
\* what it copied.
NoUnderrun ==
    \A w \in Workers :
        /\ pc[w] \in {"copy", "advance_head"} => q_head # q_tail
        /\ pc[w] = "advance_head" => req[w] = req_queue[q_head]

\* Workers on their way to the while test, or past it with a request.
Claiming == {w \in Workers : pc[w] \in {"woken", "test", "copy", "advance_head"}}

Signalling == {g \in Generators : pc[g] = "signal"}

\* No lost wakeup: while a worker sleeps on qcond, every queued request has a
\* worker of its own coming for it, or an enqueue_request about to signal.
NoIdleWorkerWhileWorkQueued ==
    Waiting # {} => Backlog <= Cardinality(Claiming) + Cardinality(Signalling)

\* A slot nobody has written never reaches a worker: what it serves is a client's
\* request.  That it is not an old one is up to NoUnderrun and FifoSpec.
ServedRequestIsReal ==
    \A w \in Workers : pc[w] \in {"unlock_w", "serve"} => req[w] \in Generators

\* The slots from q_head up to q_tail, around the end of the array.
Queued(s) == IF q_head <= q_tail THEN q_head <= s /\ s < q_tail
                                 ELSE q_head <= s \/ s < q_tail

\* What holds of the ring at every statement, strong enough to be inductive:
\* the critical sections exclude each other, a stored request stays in its
\* slot until q_tail passes it, and every queued slot holds a client's request.
QueueInv ==
    /\ LockInv
    /\ NoUnderrun
    /\ ServedRequestIsReal
    /\ \A g \in Generators : pc[g] = "advance_tail" => req_queue[q_tail] = g
    /\ \A s \in Slots : Queued(s) => req_queue[s] \in Generators

\* The oldest request is taken in the end, even if it is the last one ever made,
\* unless an overrun empties the queue.
HeadIsTaken ==
    \A i \in Slots :
        (q_head = i /\ q_tail # i) ~> (q_head # i \/ q_tail = i)

\* enqueue_request enqueues: when it has advanced q_tail the queue is longer
\* by the new request, and what was queued before is still there.
EnqueueKeepsRequests ==
    [][q_tail' # q_tail => Window' = Append(Window, req_queue[q_tail])]_vars

\* The ring, seen through its window, is the FIFO of RequestFifo.  A request
\* is held from the moment q_head passes it until its worker asks for more.
Fifo == INSTANCE RequestFifo WITH
            Capacity <- REQ_QUEUE_SIZE,
            queue    <- Window,
            held     <- [w \in Workers |-> IF pc[w] \in {"unlock_w", "serve"}
                                           THEN req[w] ELSE NoRequest]

FifoSpec == Fifo!Spec
=============================================================================
