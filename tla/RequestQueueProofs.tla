------------------------- MODULE RequestQueueProofs -------------------------
(***************************************************************************)
(* Proofs about RequestQueue, for every number of generators and workers   *)
(* and every REQ_QUEUE_SIZE.                                               *)
(***************************************************************************)
EXTENDS RequestQueue, FiniteSetTheorems, SequenceTheorems, TLAPS

\* The actions of a step, one per disjunct, for the case splits below.
LEMMA StepCases ==
    ASSUME [Next]_vars
    PROVE  \/ \E g \in Generators : Generate(g)
           \/ \E g \in Generators : EnqueueLock(g)
           \/ \E g \in Generators : EnqueueStore(g)
           \/ \E g \in Generators : EnqueueAdvance(g)
           \/ \E g \in Generators : EnqueueSignal(g)
           \/ \E g \in Generators : EnqueueUnlock(g)
           \/ \E w \in Workers : DequeueLock(w)
           \/ \E w \in Workers : DequeueFound(w)
           \/ \E w \in Workers : DequeueWait(w)
           \/ \E w \in Workers : DequeueRelock(w)
           \/ \E w \in Workers : DequeueCopy(w)
           \/ \E w \in Workers : DequeueAdvance(w)
           \/ \E w \in Workers : DequeueUnlock(w)
           \/ \E w \in Workers : SpuriousWakeup(w)
           \/ \E w \in Workers : Serve(w)
           \/ UNCHANGED vars
BY Zenon DEF Next, EnqueueRequest, DequeueRequest

\* The next slot is the slot after, or slot 0 after the last.
LEMMA NextSlotValue ==
    ASSUME NEW i \in Slots
    PROVE  NextSlot(i) = IF i + 1 = REQ_QUEUE_SIZE THEN 0 ELSE i + 1
<1>1. CASE i + 1 = REQ_QUEUE_SIZE
  BY <1>1, QueueAssumption DEF NextSlot, Slots
<1>2. CASE i + 1 # REQ_QUEUE_SIZE
  BY <1>2, QueueAssumption DEF NextSlot, Slots
<1> QED BY <1>1, <1>2

LEMMA NextSlotType == ASSUME NEW i \in Slots PROVE NextSlot(i) \in Slots
BY NextSlotValue, QueueAssumption DEF Slots

-----------------------------------------------------------------------------
(* Type correctness *)

LEMMA TypeInit == Init => TypeOK
BY QueueAssumption DEF Init, TypeOK, Slots, Requests, Threads, GeneratorLabels, WorkerLabels

LEMMA TypeStep == TypeOK /\ [Next]_vars => TypeOK'
<1> SUFFICES ASSUME TypeOK, [Next]_vars PROVE TypeOK'
  OBVIOUS
<1> USE QueueAssumption DEF TypeOK, Requests, Threads, GeneratorLabels, WorkerLabels, GoTo
<1>1. ASSUME NEW g \in Generators, Generate(g) PROVE TypeOK'
  BY <1>1 DEF Generate
<1>2. ASSUME NEW g \in Generators, EnqueueLock(g) PROVE TypeOK'
  BY <1>2 DEF EnqueueLock, Lock
<1>3. ASSUME NEW g \in Generators, EnqueueStore(g) PROVE TypeOK'
  BY <1>3 DEF EnqueueStore
<1>4. ASSUME NEW g \in Generators, EnqueueAdvance(g) PROVE TypeOK'
  BY <1>4, NextSlotType DEF EnqueueAdvance
<1>5. ASSUME NEW g \in Generators, EnqueueSignal(g) PROVE TypeOK'
  BY <1>5 DEF EnqueueSignal, Waiting
<1>6. ASSUME NEW g \in Generators, EnqueueUnlock(g) PROVE TypeOK'
  BY <1>6 DEF EnqueueUnlock, Unlock
<1>7. ASSUME NEW w \in Workers, DequeueLock(w) PROVE TypeOK'
  BY <1>7 DEF DequeueLock, Lock
<1>8. ASSUME NEW w \in Workers, DequeueFound(w) PROVE TypeOK'
  BY <1>8 DEF DequeueFound
<1>9. ASSUME NEW w \in Workers, DequeueWait(w) PROVE TypeOK'
  BY <1>9 DEF DequeueWait, Unlock
<1>10. ASSUME NEW w \in Workers, DequeueRelock(w) PROVE TypeOK'
  BY <1>10 DEF DequeueRelock, Lock
<1>11. ASSUME NEW w \in Workers, DequeueCopy(w) PROVE TypeOK'
  BY <1>11 DEF DequeueCopy
<1>12. ASSUME NEW w \in Workers, DequeueAdvance(w) PROVE TypeOK'
  BY <1>12, NextSlotType DEF DequeueAdvance
<1>13. ASSUME NEW w \in Workers, DequeueUnlock(w) PROVE TypeOK'
  BY <1>13 DEF DequeueUnlock, Unlock
<1>14. ASSUME NEW w \in Workers, SpuriousWakeup(w) PROVE TypeOK'
  BY <1>14 DEF SpuriousWakeup
<1>15. ASSUME NEW w \in Workers, Serve(w) PROVE TypeOK'
  BY <1>15 DEF Serve
<1>16. CASE UNCHANGED vars
  BY <1>16 DEF vars
<1> QED
  BY <1>1, <1>2, <1>3, <1>4, <1>5, <1>6, <1>7, <1>8, <1>9, <1>10, <1>11, <1>12,
     <1>13, <1>14, <1>15, <1>16, StepCases

\* Every variable keeps its type, for every instance: in particular both
\* indices stay inside the array.
THEOREM TypeCorrect == Spec => []TypeOK
BY TypeInit, TypeStep, PTL DEF Spec

-----------------------------------------------------------------------------
(* The ring under its lock *)

LEMMA QueueInit == Init => QueueInv
<1> SUFFICES ASSUME Init PROVE QueueInv
  OBVIOUS
<1>1. LockInv
  BY QueueAssumption DEF Init, LockInv, Critical, Threads
<1>2. NoUnderrun
  BY QueueAssumption DEF Init, NoUnderrun, Threads
<1>3. ServedRequestIsReal
  BY QueueAssumption DEF Init, ServedRequestIsReal, Threads
<1>4. \A g \in Generators : pc[g] = "advance_tail" => req_queue[q_tail] = g
  BY DEF Init, Threads
<1>5. \A s \in Slots : Queued(s) => req_queue[s] \in Generators
  BY QueueAssumption DEF Init, Queued, Slots
<1> QED BY <1>1, <1>2, <1>3, <1>4, <1>5 DEF QueueInv

LEMMA QueueStep == TypeOK /\ QueueInv /\ [Next]_vars => QueueInv'
<1> SUFFICES ASSUME TypeOK, QueueInv, [Next]_vars PROVE QueueInv'
  OBVIOUS
<1> USE QueueAssumption, NextSlotType
    DEF QueueInv, LockInv, NoUnderrun, ServedRequestIsReal, Queued, Critical, TypeOK,
        Requests, Threads, Slots, GeneratorLabels, WorkerLabels, GoTo
<1>1. ASSUME NEW g \in Generators, Generate(g) PROVE QueueInv'
  BY <1>1 DEF Generate
<1>2. ASSUME NEW g \in Generators, EnqueueLock(g) PROVE QueueInv'
  BY <1>2 DEF EnqueueLock, Lock
<1>3. ASSUME NEW g \in Generators, EnqueueStore(g) PROVE QueueInv'
  BY <1>3 DEF EnqueueStore
<1>4. ASSUME NEW g \in Generators, EnqueueAdvance(g) PROVE QueueInv'
  <2>1. LockInv'
    BY <1>4 DEF EnqueueAdvance
  <2>2. \A t \in Threads : t # g => pc'[t] \notin Critical
    BY <1>4 DEF EnqueueAdvance
  <2>3. NoUnderrun' /\ \A h \in Generators : pc'[h] # "advance_tail"
    BY <1>4, <2>2 DEF EnqueueAdvance
  <2>4. ServedRequestIsReal'
    BY <1>4 DEF EnqueueAdvance
  <2>5. q_tail' = IF q_tail + 1 = REQ_QUEUE_SIZE THEN 0 ELSE q_tail + 1
    BY <1>4, NextSlotValue DEF EnqueueAdvance
  <2>6. \A s \in Slots : Queued(s)' => Queued(s) \/ s = q_tail
    BY <1>4, <2>5 DEF EnqueueAdvance
  <2>7. \A s \in Slots : Queued(s)' => req_queue'[s] \in Generators
    <3>1. pc[g] = "advance_tail" /\ req_queue' = req_queue
      BY <1>4 DEF EnqueueAdvance
    <3>2. req_queue[q_tail] \in Generators /\ \A s \in Slots : Queued(s) => req_queue[s] \in Generators
      BY <3>1
    <3> QED BY <2>6, <3>1, <3>2
  <2> QED BY <2>1, <2>3, <2>4, <2>7
<1>5. ASSUME NEW g \in Generators, EnqueueSignal(g) PROVE QueueInv'
  <2>1. UNCHANGED <<req_queue, q_head, q_tail, qlock, req>>
    BY <1>5 DEF EnqueueSignal
  <2>2. \A t \in Threads :
            \/ pc'[t] = pc[t]
            \/ t = g /\ pc[t] = "signal" /\ pc'[t] = "unlock_g"
            \/ t \in Workers /\ pc[t] = "waiting" /\ pc'[t] = "woken"
    BY <1>5 DEF EnqueueSignal, Waiting
  <2>3. LockInv'
    BY <2>1, <2>2
  <2>4. NoUnderrun' /\ ServedRequestIsReal'
    BY <2>1, <2>2
  <2>5. \A h \in Generators : pc'[h] = "advance_tail" => req_queue'[q_tail'] = h
    BY <2>1, <2>2
  <2>6. \A s \in Slots : Queued(s)' => req_queue'[s] \in Generators
    BY <2>1
  <2> QED BY <2>3, <2>4, <2>5, <2>6
<1>6. ASSUME NEW g \in Generators, EnqueueUnlock(g) PROVE QueueInv'
  BY <1>6 DEF EnqueueUnlock, Unlock
<1>7. ASSUME NEW w \in Workers, DequeueLock(w) PROVE QueueInv'
  BY <1>7 DEF DequeueLock, Lock
<1>8. ASSUME NEW w \in Workers, DequeueFound(w) PROVE QueueInv'
  BY <1>8 DEF DequeueFound
<1>9. ASSUME NEW w \in Workers, DequeueWait(w) PROVE QueueInv'
  BY <1>9 DEF DequeueWait, Unlock
<1>10. ASSUME NEW w \in Workers, DequeueRelock(w) PROVE QueueInv'
  BY <1>10 DEF DequeueRelock, Lock
<1>11. ASSUME NEW w \in Workers, DequeueCopy(w) PROVE QueueInv'
  BY <1>11 DEF DequeueCopy
<1>12. ASSUME NEW w \in Workers, DequeueAdvance(w) PROVE QueueInv'
  <2>1. LockInv'
    BY <1>12 DEF DequeueAdvance
  <2>2. q_head # q_tail /\ req[w] = req_queue[q_head] /\ Queued(q_head)
    BY <1>12 DEF DequeueAdvance
  <2>3. \A t \in Threads : t # w => pc'[t] \notin Critical
    BY <1>12 DEF DequeueAdvance
  <2>4. NoUnderrun' /\ \A g \in Generators : pc'[g] # "advance_tail"
    BY <1>12, <2>3 DEF DequeueAdvance
  <2>5. ServedRequestIsReal'
    BY <1>12, <2>2 DEF DequeueAdvance
  <2>6. q_head' = IF q_head + 1 = REQ_QUEUE_SIZE THEN 0 ELSE q_head + 1
    BY <1>12, NextSlotValue DEF DequeueAdvance
  <2>7. \A s \in Slots : Queued(s)' => Queued(s)
    BY <1>12, <2>2, <2>6 DEF DequeueAdvance
  <2>8. \A s \in Slots : Queued(s)' => req_queue'[s] \in Generators
    BY <1>12, <2>7 DEF DequeueAdvance
  <2> QED BY <2>1, <2>4, <2>5, <2>8
<1>13. ASSUME NEW w \in Workers, DequeueUnlock(w) PROVE QueueInv'
  BY <1>13 DEF DequeueUnlock, Unlock
<1>14. ASSUME NEW w \in Workers, SpuriousWakeup(w) PROVE QueueInv'
  BY <1>14 DEF SpuriousWakeup
<1>15. ASSUME NEW w \in Workers, Serve(w) PROVE QueueInv'
  BY <1>15 DEF Serve
<1>16. CASE UNCHANGED vars
  BY <1>16 DEF vars
<1> QED
  BY <1>1, <1>2, <1>3, <1>4, <1>5, <1>6, <1>7, <1>8, <1>9, <1>10, <1>11, <1>12,
     <1>13, <1>14, <1>15, <1>16, StepCases

THEOREM QueueInvariant == Spec => []QueueInv
BY QueueInit, QueueStep, TypeCorrect, PTL DEF Spec

\* dequeue_request never reads an empty ring, whatever the interleaving of
\* signals, stolen and spurious wakeups.
THEOREM NeverUnderruns == Spec => []NoUnderrun
BY QueueInvariant, PTL DEF QueueInv

\* What a worker serves was stored by a generator: no slot nobody has written is
\* served.  (That no old request is served is NeverUnderruns and ImplementsFifo.)
THEOREM ServesRealRequests == Spec => []ServedRequestIsReal
BY QueueInvariant, PTL DEF QueueInv

-----------------------------------------------------------------------------
(* No lost wakeup *)

LEMMA CountsAreNaturals ==
    /\ IsFiniteSet(Claiming) /\ Cardinality(Claiming) \in Nat
    /\ IsFiniteSet(Signalling) /\ Cardinality(Signalling) \in Nat
<1>1. IsFiniteSet(Claiming) /\ IsFiniteSet(Signalling)
  BY QueueAssumption, FS_Subset DEF Claiming, Signalling
<1> QED BY <1>1, FS_CardinalityType

\* How the backlog moves with the indices.
LEMMA BacklogMoves ==
    ASSUME TypeOK
    PROVE  /\ Backlog \in Nat /\ Backlog < REQ_QUEUE_SIZE
           /\ q_head = q_tail <=> Backlog = 0
           /\ q_tail' = NextSlot(q_tail) /\ q_head' = q_head =>
                  Backlog' = IF Backlog + 1 = REQ_QUEUE_SIZE THEN 0 ELSE Backlog + 1
           /\ q_head' = NextSlot(q_head) /\ q_tail' = q_tail /\ q_head # q_tail =>
                  Backlog' = Backlog - 1
<1> USE QueueAssumption DEF TypeOK, Slots, Backlog
<1>1. Backlog \in Nat /\ Backlog < REQ_QUEUE_SIZE /\ (q_head = q_tail <=> Backlog = 0)
  OBVIOUS
<1>2. ASSUME q_tail' = NextSlot(q_tail), q_head' = q_head
      PROVE  Backlog' = IF Backlog + 1 = REQ_QUEUE_SIZE THEN 0 ELSE Backlog + 1
  <2>1. q_tail' = IF q_tail + 1 = REQ_QUEUE_SIZE THEN 0 ELSE q_tail + 1
    BY <1>2, NextSlotValue
  <2> QED BY <1>2, <2>1
<1>3. ASSUME q_head' = NextSlot(q_head), q_tail' = q_tail, q_head # q_tail
      PROVE  Backlog' = Backlog - 1
  <2>1. q_head' = IF q_head + 1 = REQ_QUEUE_SIZE THEN 0 ELSE q_head + 1
    BY <1>3, NextSlotValue
  <2> QED BY <1>3, <2>1
<1> QED BY <1>1, <1>2, <1>3

LEMMA WakeupInit == Init => NoIdleWorkerWhileWorkQueued
<1> SUFFICES ASSUME Init PROVE Waiting = {}
  BY DEF NoIdleWorkerWhileWorkQueued
<1> QED BY QueueAssumption DEF Init, Waiting, Threads

\* A step that leaves the indices alone, adds workers to Claiming and leaves
\* the signalling generators alone keeps the invariant.
LEMMA MoreClaimants ==
    ASSUME TypeOK, NoIdleWorkerWhileWorkQueued, Backlog' = Backlog, Signalling' = Signalling,
           Waiting' # {} => Waiting # {},
           Claiming' = Claiming \/ \E w \in Workers : Claiming' = Claiming \cup {w}
    PROVE  NoIdleWorkerWhileWorkQueued'
<1> DEFINE c == Cardinality(Claiming)
           s == Cardinality(Signalling)
<1>1. c \in Nat /\ s \in Nat /\ IsFiniteSet(Claiming) /\ Backlog \in Nat
  BY CountsAreNaturals, BacklogMoves
<1>2. \A w : Cardinality(Claiming \cup {w}) \in {c, c + 1}
  BY <1>1, FS_AddElement
<1>3. Cardinality(Claiming') \in {c, c + 1}
  BY <1>2
<1>4. Waiting # {} => Backlog <= c + s
  BY DEF NoIdleWorkerWhileWorkQueued
<1>5. Waiting' # {} => Backlog' <= Cardinality(Claiming') + Cardinality(Signalling')
  BY <1>1, <1>3, <1>4
<1> QED BY <1>5 DEF NoIdleWorkerWhileWorkQueued

LEMMA WakeupStep ==
    TypeOK /\ QueueInv /\ NoIdleWorkerWhileWorkQueued /\ [Next]_vars
        => NoIdleWorkerWhileWorkQueued'
<1> SUFFICES ASSUME TypeOK, QueueInv, NoIdleWorkerWhileWorkQueued, [Next]_vars
             PROVE  NoIdleWorkerWhileWorkQueued'
  OBVIOUS
<1> DEFINE c == Cardinality(Claiming)
           s == Cardinality(Signalling)
           Quiet == Backlog' = Backlog /\ Signalling' = Signalling /\ Waiting' = Waiting
<1>a. c \in Nat /\ s \in Nat /\ IsFiniteSet(Claiming) /\ IsFiniteSet(Signalling)
  BY CountsAreNaturals
<1>b. Backlog \in Nat /\ (Waiting # {} => Backlog <= c + s)
  BY BacklogMoves DEF NoIdleWorkerWhileWorkQueued
<1>c. ASSUME Quiet, Claiming' = Claiming \/ \E w \in Workers : Claiming' = Claiming \cup {w}
      PROVE  NoIdleWorkerWhileWorkQueued'
  BY <1>c, MoreClaimants
<1>d. ASSUME NEW g \in Generators, EnqueueAdvance(g) PROVE Backlog' \in {0, Backlog + 1}
  BY <1>d, BacklogMoves DEF EnqueueAdvance
<1>e. ASSUME NEW w \in Workers, DequeueAdvance(w), q_head # q_tail
      PROVE  Backlog' = Backlog - 1
  BY <1>e, BacklogMoves DEF DequeueAdvance
<1> USE QueueAssumption DEF TypeOK, Threads, GoTo, Backlog, Waiting, Claiming, Signalling,
        GeneratorLabels, WorkerLabels
<1>1. ASSUME NEW g \in Generators, Generate(g) PROVE NoIdleWorkerWhileWorkQueued'
  <2>1. Quiet /\ Claiming' = Claiming
    BY <1>1 DEF Generate
  <2> QED BY <2>1, <1>c
<1>2. ASSUME NEW g \in Generators, EnqueueLock(g) PROVE NoIdleWorkerWhileWorkQueued'
  <2>1. Quiet /\ Claiming' = Claiming
    BY <1>2 DEF EnqueueLock
  <2> QED BY <2>1, <1>c
<1>3. ASSUME NEW g \in Generators, EnqueueStore(g) PROVE NoIdleWorkerWhileWorkQueued'
  <2>1. Quiet /\ Claiming' = Claiming
    BY <1>3 DEF EnqueueStore
  <2> QED BY <2>1, <1>c
<1>4. ASSUME NEW g \in Generators, EnqueueAdvance(g) PROVE NoIdleWorkerWhileWorkQueued'
  <2>1. Backlog' \in {0, Backlog + 1}
    BY <1>4, <1>d
  <2>2. Claiming' = Claiming /\ Waiting' = Waiting
    BY <1>4 DEF EnqueueAdvance
  <2>3. Signalling' = Signalling \cup {g} /\ g \notin Signalling
    BY <1>4 DEF EnqueueAdvance
  <2>4. Cardinality(Signalling') = s + 1
    BY <2>3, <1>a, FS_AddElement
  <2> HIDE DEF Backlog, Waiting, Claiming, Signalling
  <2>5. Waiting' # {} => Backlog' <= Cardinality(Claiming') + Cardinality(Signalling')
    BY <2>1, <2>2, <2>4, <1>a, <1>b
  <2> QED BY <2>5 DEF NoIdleWorkerWhileWorkQueued
<1>5. ASSUME NEW g \in Generators, EnqueueSignal(g) PROVE NoIdleWorkerWhileWorkQueued'
  <2>1. CASE Waiting = {}
    <3>1. Waiting' = {}
      BY <1>5, <2>1 DEF EnqueueSignal
    <3> QED BY <3>1 DEF NoIdleWorkerWhileWorkQueued
  <2>2. CASE Waiting # {}
    <3>1. PICK w \in Waiting : pc' = [pc EXCEPT ![g] = "unlock_g", ![w] = "woken"]
      BY <1>5, <2>2 DEF EnqueueSignal
    <3>a. pc[w] = "waiting" /\ pc[g] = "signal" /\ w \in Workers /\ g # w
      BY <1>5, <3>1 DEF EnqueueSignal
    <3>b. pc'[w] = "woken" /\ pc'[g] = "unlock_g"
      BY <3>1, <3>a
    <3>c. \A t \in Threads \ {g, w} : pc'[t] = pc[t]
      BY <3>1
    <3>2. Claiming' = Claiming \cup {w} /\ w \notin Claiming
      BY <3>a, <3>b, <3>c
    <3>3. Signalling' = Signalling \ {g} /\ g \in Signalling
      BY <3>a, <3>b, <3>c
    <3>4. Backlog' = Backlog
      BY <1>5 DEF EnqueueSignal
    <3> HIDE DEF Backlog, Waiting, Claiming, Signalling
    <3>5. Cardinality(Claiming') = c + 1
      BY <3>2, <1>a, FS_AddElement
    <3>6. Cardinality(Signalling') = s - 1
      BY <3>3, <1>a, FS_RemoveElement
    <3>7. Backlog' <= Cardinality(Claiming') + Cardinality(Signalling')
      BY <3>4, <3>5, <3>6, <1>a, <1>b, <2>2
    <3> QED BY <3>7 DEF NoIdleWorkerWhileWorkQueued
  <2> QED BY <2>1, <2>2
<1>6. ASSUME NEW g \in Generators, EnqueueUnlock(g) PROVE NoIdleWorkerWhileWorkQueued'
  <2>1. Quiet /\ Claiming' = Claiming
    BY <1>6 DEF EnqueueUnlock
  <2> QED BY <2>1, <1>c
<1>7. ASSUME NEW w \in Workers, DequeueLock(w) PROVE NoIdleWorkerWhileWorkQueued'
  <2>1. Quiet /\ Claiming' = Claiming \cup {w}
    BY <1>7 DEF DequeueLock
  <2> QED BY <2>1, <1>c
<1>8. ASSUME NEW w \in Workers, DequeueFound(w) PROVE NoIdleWorkerWhileWorkQueued'
  <2>1. Quiet /\ Claiming' = Claiming
    BY <1>8 DEF DequeueFound
  <2> QED BY <2>1, <1>c
<1>9. ASSUME NEW w \in Workers, DequeueWait(w) PROVE NoIdleWorkerWhileWorkQueued'
  <2>1. Backlog' = 0
    BY <1>9 DEF DequeueWait, Slots
  <2>2. Signalling' = Signalling
    BY <1>9 DEF DequeueWait
  <2>3. Claiming' = Claiming \ {w} /\ w \in Claiming
    BY <1>9 DEF DequeueWait
  <2>4. Cardinality(Claiming') \in Nat
    BY <2>3, <1>a, FS_RemoveElement, FS_CardinalityType
  <2>5. Backlog' <= Cardinality(Claiming') + Cardinality(Signalling')
    BY <2>1, <2>2, <2>4, <1>a
  <2> QED BY <2>5 DEF NoIdleWorkerWhileWorkQueued
<1>10. ASSUME NEW w \in Workers, DequeueRelock(w) PROVE NoIdleWorkerWhileWorkQueued'
  <2>1. Quiet /\ Claiming' = Claiming
    BY <1>10 DEF DequeueRelock
  <2> QED BY <2>1, <1>c
<1>11. ASSUME NEW w \in Workers, DequeueCopy(w) PROVE NoIdleWorkerWhileWorkQueued'
  <2>1. Quiet /\ Claiming' = Claiming
    BY <1>11 DEF DequeueCopy
  <2> QED BY <2>1, <1>c
<1>12. ASSUME NEW w \in Workers, DequeueAdvance(w) PROVE NoIdleWorkerWhileWorkQueued'
  <2>1. q_head # q_tail
    BY <1>12 DEF DequeueAdvance, QueueInv, NoUnderrun
  <2>2. Backlog' = Backlog - 1
    BY <1>12, <2>1, <1>e
  <2>3. Signalling' = Signalling /\ Waiting' = Waiting
    BY <1>12 DEF DequeueAdvance
  <2>4. Claiming' = Claiming \ {w} /\ w \in Claiming
    BY <1>12 DEF DequeueAdvance
  <2> HIDE DEF Backlog, Waiting, Claiming, Signalling
  <2>5. Cardinality(Claiming') = c - 1
    BY <2>4, <1>a, FS_RemoveElement
  <2>6. Waiting' # {} => Backlog' <= Cardinality(Claiming') + Cardinality(Signalling')
    BY <2>2, <2>3, <2>5, <1>a, <1>b
  <2> QED BY <2>6 DEF NoIdleWorkerWhileWorkQueued
<1>13. ASSUME NEW w \in Workers, DequeueUnlock(w) PROVE NoIdleWorkerWhileWorkQueued'
  <2>1. Quiet /\ Claiming' = Claiming
    BY <1>13 DEF DequeueUnlock
  <2> QED BY <2>1, <1>c
<1>14. ASSUME NEW w \in Workers, SpuriousWakeup(w) PROVE NoIdleWorkerWhileWorkQueued'
  <2>1. Backlog' = Backlog /\ Signalling' = Signalling
    BY <1>14 DEF SpuriousWakeup
  <2>2. Claiming' = Claiming \cup {w} /\ Waiting # {}
    BY <1>14 DEF SpuriousWakeup
  <2> QED BY <2>1, <2>2, MoreClaimants
<1>15. ASSUME NEW w \in Workers, Serve(w) PROVE NoIdleWorkerWhileWorkQueued'
  <2>1. Quiet /\ Claiming' = Claiming
    BY <1>15 DEF Serve
  <2> QED BY <2>1, <1>c
<1>16. CASE UNCHANGED vars
  <2>1. Quiet /\ Claiming' = Claiming
    BY <1>16 DEF vars
  <2> QED BY <2>1, <1>c
<1> QED
  BY <1>1, <1>2, <1>3, <1>4, <1>5, <1>6, <1>7, <1>8, <1>9, <1>10, <1>11, <1>12,
     <1>13, <1>14, <1>15, <1>16, StepCases

\* No worker sleeps on qcond while a queued request has nobody coming for it,
\* for any number of threads: one signal per enqueue is enough.
THEOREM NoLostWakeup == Spec => []NoIdleWorkerWhileWorkQueued
BY WakeupInit, WakeupStep, TypeCorrect, QueueInvariant, PTL DEF Spec

-----------------------------------------------------------------------------
(* The ring implements the FIFO *)

LEMMA WindowSlotFacts ==
    ASSUME TypeOK, NEW i \in 1 .. Backlog
    PROVE  WindowSlot(i) \in Slots /\ WindowSlot(i) # q_tail
BY QueueAssumption DEF TypeOK, Slots, Backlog, WindowSlot

LEMMA WindowType ==
    ASSUME TypeOK
    PROVE  /\ Window \in Seq(Requests)
           /\ Len(Window) = Backlog
           /\ \A i \in 1 .. Backlog : Window[i] = req_queue[WindowSlot(i)]
<1>1. Backlog \in Nat
  BY BacklogMoves
<1>2. \A i \in 1 .. Backlog : req_queue[WindowSlot(i)] \in Requests
  BY WindowSlotFacts DEF TypeOK
<1> QED BY <1>1, <1>2 DEF Window

\* Only the slots of the window matter, and q_tail is not one of them.
LEMMA WindowUnchanged ==
    ASSUME TypeOK, q_head' = q_head, q_tail' = q_tail,
           \A s \in Slots \ {q_tail} : req_queue'[s] = req_queue[s]
    PROVE  Window' = Window
<1>1. Backlog' = Backlog
  BY DEF Backlog
<1>2. \A i : WindowSlot(i)' = WindowSlot(i)
  BY DEF WindowSlot
<1>3. \A i \in 1 .. Backlog : req_queue'[WindowSlot(i)'] = req_queue[WindowSlot(i)]
  BY <1>2, WindowSlotFacts
<1> QED BY <1>1, <1>3 DEF Window

LEMMA WindowPut ==
    ASSUME TypeOK, q_tail' = NextSlot(q_tail), q_head' = q_head, req_queue' = req_queue
    PROVE  Window' = IF Len(Window) + 1 = REQ_QUEUE_SIZE
                     THEN <<>> ELSE Append(Window, req_queue[q_tail])
<1>1. Backlog \in Nat /\ Len(Window) = Backlog
  BY BacklogMoves, WindowType
<1>2. Backlog' = IF Backlog + 1 = REQ_QUEUE_SIZE THEN 0 ELSE Backlog + 1
  BY BacklogMoves
<1>3. CASE Backlog + 1 = REQ_QUEUE_SIZE
  <2>1. Window' = <<>>
    BY <1>2, <1>3 DEF Window
  <2> QED BY <1>1, <1>3, <2>1
<1>4. CASE Backlog + 1 # REQ_QUEUE_SIZE
  <2> DEFINE q == req_queue[q_tail]
  <2>1. Window' = [i \in 1 .. Backlog + 1 |-> req_queue[WindowSlot(i)]]
    BY <1>2, <1>4 DEF Window, WindowSlot
  <2>2. WindowSlot(Backlog + 1) = q_tail
    BY QueueAssumption DEF TypeOK, Slots, Backlog, WindowSlot
  <2>3. Window' \in Seq(Requests) /\ Len(Window') = Backlog + 1
    BY <1>1, <2>1, <2>2, WindowType DEF TypeOK
  <2>4. /\ Append(Window, q) \in Seq(Requests)
        /\ Len(Append(Window, q)) = Backlog + 1
        /\ \A i \in 1 .. Backlog : Append(Window, q)[i] = Window[i]
        /\ Append(Window, q)[Backlog + 1] = q
    BY <1>1, WindowType, AppendProperties DEF TypeOK
  <2>5. \A i \in 1 .. Backlog + 1 : Window'[i] = Append(Window, q)[i]
    BY <1>1, <2>1, <2>2, <2>4, WindowType
  <2>6. Window' = Append(Window, q)
    BY <2>3, <2>4, <2>5, SeqEqual
  <2> QED BY <1>1, <1>4, <2>6
<1> QED BY <1>3, <1>4

LEMMA WindowTake ==
    ASSUME TypeOK, q_head # q_tail,
           q_head' = NextSlot(q_head), q_tail' = q_tail, req_queue' = req_queue
    PROVE  Window # <<>> /\ Head(Window) = req_queue[q_head] /\ Window' = Tail(Window)
<1>1. Backlog \in Nat \ {0} /\ Len(Window) = Backlog /\ Backlog' = Backlog - 1
  BY BacklogMoves, WindowType
<1>2. WindowSlot(1) = q_head
  BY QueueAssumption DEF TypeOK, Slots, WindowSlot
<1>3. Window # <<>> /\ Head(Window) = req_queue[q_head]
  BY <1>1, <1>2, WindowType
<1>4. q_head' = IF q_head + 1 = REQ_QUEUE_SIZE THEN 0 ELSE q_head + 1
  BY NextSlotValue DEF TypeOK
<1>5. \A i \in 1 .. Backlog - 1 : WindowSlot(i)' = WindowSlot(i + 1)
  BY <1>1, <1>4, BacklogMoves, QueueAssumption DEF TypeOK, Slots, WindowSlot
<1>6. Window' = [i \in 1 .. Backlog - 1 |-> req_queue[WindowSlot(i + 1)]]
  BY <1>1, <1>5 DEF Window
<1>7. /\ Tail(Window) \in Seq(Requests)
      /\ Len(Tail(Window)) = Backlog - 1
      /\ \A i \in 1 .. Backlog - 1 : Tail(Window)[i] = Window[i + 1]
  BY <1>1, <1>3, WindowType, HeadTailProperties
<1>8. \A i \in 1 .. Backlog - 1 : Window[i + 1] = req_queue[WindowSlot(i + 1)]
  BY <1>1, WindowType
<1>9. Window' \in Seq(Requests) /\ Len(Window') = Backlog - 1
  <2>1. \A i \in 1 .. Backlog - 1 : req_queue[WindowSlot(i + 1)] \in Requests
    BY <1>1, WindowSlotFacts DEF TypeOK
  <2> QED BY <1>1, <1>6, <2>1
<1>10. \A i \in 1 .. Backlog - 1 : Window'[i] = Tail(Window)[i]
  BY <1>6, <1>7, <1>8
<1>11. Window' = Tail(Window)
  BY <1>7, <1>9, <1>10, SeqEqual
<1> QED BY <1>3, <1>11

\* The request each worker holds, as Fifo sees it.
Held == [w \in Workers |-> IF pc[w] \in {"unlock_w", "serve"} THEN req[w] ELSE NoRequest]

LEMMA FifoInit == Init => Fifo!Init
<1> SUFFICES ASSUME Init PROVE Window = <<>> /\ Held = [w \in Workers |-> NoRequest]
  BY DEF Fifo!Init, Held
<1>1. Backlog = 0
  BY QueueAssumption DEF Init, Backlog
<1>2. Window = <<>>
  BY <1>1 DEF Window
<1> QED BY <1>2, QueueAssumption DEF Init, Held, Threads

LEMMA FifoStep == TypeOK /\ QueueInv /\ [Next]_vars => [Fifo!Next]_(Fifo!fifoVars)
<1> SUFFICES ASSUME TypeOK, QueueInv, [Next]_vars
             PROVE  \/ \E g \in Generators : Fifo!Put(g)
                    \/ \E w \in Workers : Fifo!Take(w) \/ Fifo!Finish(w)
                    \/ Window' = Window /\ Held' = Held
  BY DEF Fifo!Next, Fifo!fifoVars, Held
<1> DEFINE Stutters == Window' = Window /\ Held' = Held
           SameRing == req_queue' = req_queue /\ q_head' = q_head /\ q_tail' = q_tail
<1>a. ASSUME SameRing PROVE Window' = Window
  BY <1>a, WindowUnchanged
<1> USE QueueAssumption DEF TypeOK, Threads, GoTo, Held, GeneratorLabels, WorkerLabels
<1>1. ASSUME NEW g \in Generators, Generate(g) PROVE Stutters
  BY <1>1, <1>a DEF Generate
<1>2. ASSUME NEW g \in Generators, EnqueueLock(g) PROVE Stutters
  BY <1>2, <1>a DEF EnqueueLock
<1>3. ASSUME NEW g \in Generators, EnqueueStore(g) PROVE Stutters
  <2>1. q_head' = q_head /\ q_tail' = q_tail
    BY <1>3 DEF EnqueueStore
  <2>2. \A s \in Slots \ {q_tail} : req_queue'[s] = req_queue[s]
    BY <1>3 DEF EnqueueStore
  <2>3. Window' = Window
    BY <2>1, <2>2, WindowUnchanged
  <2>4. Held' = Held
    BY <1>3 DEF EnqueueStore
  <2> QED BY <2>3, <2>4
<1>4. ASSUME NEW g \in Generators, EnqueueAdvance(g) PROVE Fifo!Put(g)
  <2>1. req_queue[q_tail] = g
    BY <1>4 DEF EnqueueAdvance, QueueInv
  <2>2. q_tail' = NextSlot(q_tail) /\ q_head' = q_head /\ req_queue' = req_queue
    BY <1>4 DEF EnqueueAdvance
  <2>3. Window' = IF Len(Window) + 1 = REQ_QUEUE_SIZE THEN <<>> ELSE Append(Window, g)
    BY <2>1, <2>2, WindowPut
  <2>4. Held' = Held
    BY <1>4 DEF EnqueueAdvance
  <2> QED BY <2>3, <2>4 DEF Fifo!Put
<1>5. ASSUME NEW g \in Generators, EnqueueSignal(g) PROVE Stutters
  BY <1>5, <1>a DEF EnqueueSignal, Waiting
<1>6. ASSUME NEW g \in Generators, EnqueueUnlock(g) PROVE Stutters
  BY <1>6, <1>a DEF EnqueueUnlock
<1>7. ASSUME NEW w \in Workers, DequeueLock(w) PROVE Stutters
  BY <1>7, <1>a DEF DequeueLock
<1>8. ASSUME NEW w \in Workers, DequeueFound(w) PROVE Stutters
  BY <1>8, <1>a DEF DequeueFound
<1>9. ASSUME NEW w \in Workers, DequeueWait(w) PROVE Stutters
  BY <1>9, <1>a DEF DequeueWait
<1>10. ASSUME NEW w \in Workers, DequeueRelock(w) PROVE Stutters
  BY <1>10, <1>a DEF DequeueRelock
<1>11. ASSUME NEW w \in Workers, DequeueCopy(w) PROVE Stutters
  BY <1>11, <1>a DEF DequeueCopy
<1>12. ASSUME NEW w \in Workers, DequeueAdvance(w) PROVE Fifo!Take(w)
  <2>1. q_head # q_tail /\ req[w] = req_queue[q_head] /\ pc[w] = "advance_head"
    BY <1>12 DEF DequeueAdvance, QueueInv, NoUnderrun
  <2>2. q_head' = NextSlot(q_head) /\ q_tail' = q_tail /\ req_queue' = req_queue
    BY <1>12 DEF DequeueAdvance
  <2>3. Window # <<>> /\ Head(Window) = req[w] /\ Window' = Tail(Window)
    BY <2>1, <2>2, WindowTake
  <2>4. Held[w] = NoRequest /\ Held' = [Held EXCEPT ![w] = req[w]]
    BY <1>12, <2>1 DEF DequeueAdvance
  <2> QED BY <2>3, <2>4 DEF Fifo!Take
<1>13. ASSUME NEW w \in Workers, DequeueUnlock(w) PROVE Stutters
  BY <1>13, <1>a DEF DequeueUnlock
<1>14. ASSUME NEW w \in Workers, SpuriousWakeup(w) PROVE Stutters
  BY <1>14, <1>a DEF SpuriousWakeup
<1>15. ASSUME NEW w \in Workers, Serve(w) PROVE Fifo!Finish(w)
  <2>1. Held[w] # NoRequest
    BY <1>15 DEF Serve, QueueInv, ServedRequestIsReal
  <2>2. Held' = [Held EXCEPT ![w] = NoRequest]
    BY <1>15 DEF Serve
  <2>3. Window' = Window
    BY <1>15, <1>a DEF Serve
  <2> QED BY <2>1, <2>2, <2>3 DEF Fifo!Finish
<1>16. ASSUME UNCHANGED vars PROVE Stutters
  BY <1>16, <1>a DEF vars
<1> QED
  BY <1>1, <1>2, <1>3, <1>4, <1>5, <1>6, <1>7, <1>8, <1>9, <1>10, <1>11, <1>12,
     <1>13, <1>14, <1>15, <1>16, StepCases

\* The ring, the mutex and the condition variable implement the FIFO.
THEOREM ImplementsFifo == Spec => FifoSpec
BY FifoInit, FifoStep, TypeCorrect, QueueInvariant, PTL DEF Spec, FifoSpec, Fifo!Spec
=============================================================================
