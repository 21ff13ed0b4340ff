------------------------------ MODULE Database ------------------------------
(***************************************************************************)
(* The in-memory database of server_sim_prefetch.c: db_table, a chained    *)
(* hash table guarded by the mutex db_lock; db_init, which main runs       *)
(* before it creates the threads; and db_lookup_update, which the workers  *)
(* run concurrently.                                                       *)
(*                                                                         *)
(* A node is the index of a db_entry_t in heap, in order of insertion;     *)
(* NULL is 0.  Nodes are never freed.  One action per statement that       *)
(* touches the table; the node being filled is private to its thread until *)
(* it is linked.  malloc is assumed to succeed, as the code assumes.       *)
(***************************************************************************)
EXTENDS Naturals, Sequences

CONSTANTS Threads,       \* the threads running worker_fn
          Keys,          \* the keys the workers ask for
          DB_SIZE,       \* buckets of the table
          INIT_ENTRIES,  \* entries db_init inserts, 256 in the code
          INIT_STRIDE,   \* the keys are multiples of this, 7919 in the code
          Free,          \* the owner of an unlocked mutex
          Absent,        \* the value of a key that has no entry
          MaxValue       \* bound: no update is requested beyond this value

ASSUME DatabaseAssumption ==
    /\ DB_SIZE \in Nat \ {0}
    /\ INIT_ENTRIES \in Nat
    /\ INIT_STRIDE \in Nat \ {0}
    /\ Keys \subseteq Nat
    /\ Free \notin Threads
    /\ Absent \notin Nat
    /\ MaxValue \in Nat

VARIABLES heap,       \* the linked nodes, oldest first
          db_table,   \* bucket -> first node of its chain, or NULL
          db_lock,    \* the thread that holds the mutex, or Free
          loaded,     \* main: entries inserted by db_init so far
          started,    \* main has created the threads
          call,       \* call[t]: the arguments of t's call
          e,          \* e[t]: local e, a node or NULL
          v,          \* v[t]: local v, the value t returns
          pc          \* pc[t]: what thread t does next

vars == <<heap, db_table, db_lock, loaded, started, call, e, v, pc>>

NULL == 0
Buckets == 0 .. DB_SIZE - 1
Nodes == 1 .. Len(heap)
AllKeys == Keys \cup {i * INIT_STRIDE : i \in 0 .. INIT_ENTRIES - 1}
Bucket(k) == k % DB_SIZE

Labels == {"idle", "lock", "head", "scan", "store", "fill", "link", "unlock", "return"}

\* Labels between pthread_mutex_lock and pthread_mutex_unlock.
Critical == {"head", "scan", "store", "fill", "link", "unlock"}

Init ==
    /\ heap = <<>>
    /\ db_table = [b \in Buckets |-> NULL]
    /\ db_lock = Free
    /\ loaded = 0
    /\ started = FALSE
    /\ call = [t \in Threads |-> [key |-> 0, do_update |-> FALSE]]
    /\ e = [t \in Threads |-> NULL]
    /\ v = [t \in Threads |-> 0]
    /\ pc = [t \in Threads |-> "idle"]

\* Fault: e->next = db_table[idx] is missing.
LinkOnly(k, value, next) ==
    /\ heap' = Append(heap, [key |-> k, value |-> value, next |-> NULL])
    /\ db_table' = [db_table EXCEPT ![Bucket(k)] = Len(heap) + 1]

\* A node with this key becomes the first of its chain, before node next.
LinkFirst(k, value, next) ==
    /\ heap' = Append(heap, [key |-> k, value |-> value, next |-> next])
    /\ db_table' = [db_table EXCEPT ![Bucket(k)] = Len(heap) + 1]

-----------------------------------------------------------------------------
(* main: db_init, then pthread_create *)

\* Fault: db_init's loop runs once too often.
InitInsertTooMany ==
    /\ loaded <= INIT_ENTRIES
    /\ LET k == loaded * INIT_STRIDE
       IN  LinkFirst(k, loaded % 50, db_table[Bucket(k)])
    /\ loaded' = loaded + 1
    /\ UNCHANGED <<db_lock, started, call, e, v, pc>>

InitInsert ==
    /\ loaded < INIT_ENTRIES
    /\ LET k == loaded * INIT_STRIDE
       IN  LinkFirst(k, loaded % 50, db_table[Bucket(k)])
    /\ loaded' = loaded + 1
    /\ UNCHANGED <<db_lock, started, call, e, v, pc>>

StartThreads ==
    /\ loaded = INIT_ENTRIES
    /\ ~started
    /\ started' = TRUE
    /\ UNCHANGED <<heap, db_table, db_lock, loaded, call, e, v, pc>>

-----------------------------------------------------------------------------
(* db_lookup_update *)

GoTo(t, from, to) ==
    /\ pc[t] = from
    /\ pc' = [pc EXCEPT ![t] = to]

\* The bucket of t's call.
Idx(t) == Bucket(call[t].key)

\* worker_fn calls with some key; do_update is the outcome of the business logic.
Call(t, k, update) ==
    /\ started
    /\ update => \A n \in Nodes : heap[n].value < MaxValue
    /\ GoTo(t, "idle", "lock")
    /\ call' = [call EXCEPT ![t] = [key |-> k, do_update |-> update]]
    /\ UNCHANGED <<heap, db_table, db_lock, loaded, started, e, v>>

\* Fault: db_lock is not waited for.
LockAnyway(t) ==
    /\ GoTo(t, "lock", "head")
    /\ db_lock' = t
    /\ UNCHANGED <<heap, db_table, loaded, started, call, e, v>>

Lock(t) ==
    /\ GoTo(t, "lock", "head")
    /\ db_lock = Free
    /\ db_lock' = t
    /\ UNCHANGED <<heap, db_table, loaded, started, call, e, v>>

LoadHead(t) ==
    /\ GoTo(t, "head", "scan")
    /\ e' = [e EXCEPT ![t] = db_table[Idx(t)]]
    /\ UNCHANGED <<heap, db_table, db_lock, loaded, started, call, v>>

ScanNext(t) ==
    /\ GoTo(t, "scan", "scan")
    /\ e[t] # NULL
    /\ heap[e[t]].key # call[t].key
    /\ e' = [e EXCEPT ![t] = heap[e[t]].next]
    /\ UNCHANGED <<heap, db_table, db_lock, loaded, started, call, v>>

\* Fault: the mutex is released as soon as the value is read.
ScanFoundUnlocks(t) ==
    /\ GoTo(t, "scan", IF call[t].do_update THEN "store" ELSE "unlock")
    /\ e[t] # NULL
    /\ heap[e[t]].key = call[t].key
    /\ v' = [v EXCEPT ![t] = heap[e[t]].value]
    /\ db_lock' = Free
    /\ UNCHANGED <<heap, db_table, loaded, started, call, e>>

\* The entry is there: read its value, and write it back if asked to.
ScanFound(t) ==
    /\ GoTo(t, "scan", IF call[t].do_update THEN "store" ELSE "unlock")
    /\ e[t] # NULL
    /\ heap[e[t]].key = call[t].key
    /\ v' = [v EXCEPT ![t] = heap[e[t]].value]
    /\ UNCHANGED <<heap, db_table, db_lock, loaded, started, call, e>>

ScanEnd(t) ==
    /\ GoTo(t, "scan", "fill")
    /\ e[t] = NULL
    /\ UNCHANGED <<heap, db_table, db_lock, loaded, started, call, e, v>>

StoreValue(t) ==
    /\ GoTo(t, "store", "unlock")
    /\ heap' = [heap EXCEPT ![e[t]].value = v[t] + 1]
    /\ UNCHANGED <<db_table, db_lock, loaded, started, call, e, v>>

\* The new entry, still private, gets its fields; e[t] stands for its next.
FillEntry(t) ==
    /\ GoTo(t, "fill", "link")
    /\ e' = [e EXCEPT ![t] = db_table[Idx(t)]]
    /\ UNCHANGED <<heap, db_table, db_lock, loaded, started, call, v>>

LinkEntry(t) ==
    /\ GoTo(t, "link", "unlock")
    /\ LinkFirst(call[t].key, 1, e[t])
    /\ v' = [v EXCEPT ![t] = 1]
    /\ UNCHANGED <<db_lock, loaded, started, call, e>>

\* Fault: the early return of the found case leaves db_lock locked.
UnlockNewOnly(t) ==
    /\ GoTo(t, "unlock", "return")
    /\ db_lock' = IF e[t] # NULL /\ heap[e[t]].key = call[t].key THEN db_lock ELSE Free
    /\ UNCHANGED <<heap, db_table, loaded, started, call, e, v>>

Unlock(t) ==
    /\ GoTo(t, "unlock", "return")
    /\ db_lock' = Free
    /\ UNCHANGED <<heap, db_table, loaded, started, call, e, v>>

\* The caller has v[t]; the locals are gone.
Return(t) ==
    /\ GoTo(t, "return", "idle")
    /\ e' = [e EXCEPT ![t] = NULL]
    /\ v' = [v EXCEPT ![t] = 0]
    /\ UNCHANGED <<heap, db_table, db_lock, loaded, started, call>>

-----------------------------------------------------------------------------
DbInit == InitInsert \/ StartThreads

DbLookupUpdate(t) ==
    \/ Lock(t) \/ LoadHead(t) \/ ScanNext(t) \/ ScanFound(t) \/ ScanEnd(t)
    \/ StoreValue(t) \/ FillEntry(t) \/ LinkEntry(t) \/ Unlock(t) \/ Return(t)

Next ==
    \/ DbInit
    \/ \E t \in Threads : DbLookupUpdate(t)
    \/ \E t \in Threads, k \in Keys, update \in BOOLEAN : Call(t, k, update)

Spec == Init /\ [][Next]_vars

\* A thread inside the call runs on; one that asks for the mutex gets it if
\* it is free again and again, since every holder leaves after one chain walk
\* and sleeps in usleep before its next call.  Nobody has to call.
Fairness == \A t \in Threads : WF_vars(DbLookupUpdate(t)) /\ SF_vars(Lock(t))

FairSpec == Spec /\ Fairness
-----------------------------------------------------------------------------
(* Properties *)

Entry == [key : AllKeys, value : Nat, next : Nat]

TypeOK ==
    /\ heap \in Seq(Entry)
    /\ db_table \in [Buckets -> Nodes \cup {NULL}]
    /\ db_lock \in Threads \cup {Free}
    /\ loaded \in 0 .. INIT_ENTRIES
    /\ started \in BOOLEAN
    /\ call \in [Threads -> [key : Keys \cup {0}, do_update : BOOLEAN]]
    /\ e \in [Threads -> Nodes \cup {NULL}]
    /\ v \in [Threads -> Nat]
    /\ pc \in [Threads -> Labels]

\* n is the newest of the nodes of bucket b below node m, or NULL if there are none.
NewestBelow(n, b, m) ==
    /\ n \in 0 .. m - 1
    /\ n # NULL => Bucket(heap[n].key) = b
    /\ \A i \in n + 1 .. m - 1 : Bucket(heap[i].key) # b

\* Every node ever linked can still be reached from its bucket, and each chain
\* holds its own bucket's nodes only, newest first: no insertion overwrites
\* another thread's, and no chain has a cycle.
ChainsHoldEveryEntry ==
    /\ \A b \in Buckets : NewestBelow(db_table[b], b, Len(heap) + 1)
    /\ \A n \in Nodes : NewestBelow(heap[n].next, Bucket(heap[n].key), n)

\* No two threads that both missed insert the same key twice.
OneEntryPerKey ==
    \A m, n \in Nodes : heap[m].key = heap[n].key => m = n

\* A thread is between lock and unlock exactly when it owns the mutex.
LockInv == \A t \in Threads : pc[t] \in Critical <=> db_lock = t

\* db_init runs alone, and inserts ever larger keys.
InitInv ==
    /\ started => loaded = INIT_ENTRIES
    /\ ~started => /\ \A t \in Threads : pc[t] = "idle"
                   /\ \A n \in Nodes : heap[n].key < loaded * INIT_STRIDE

\* What a chain walk has established so far: no newer node of the bucket than
\* e[t] has the key, at the end of the chain no node has, and then the head of
\* the chain is still the one read; the value to be stored is the current one.
WalkInv(t) ==
    LET k == call[t].key
    IN  /\ pc[t] # "idle" => k \in Keys
        /\ pc[t] = "scan" => /\ e[t] # NULL => Bucket(heap[e[t]].key) = Idx(t)
                             /\ \A n \in Nodes : n > e[t] => heap[n].key # k
        /\ pc[t] \in {"fill", "link"} => \A n \in Nodes : heap[n].key # k
        /\ pc[t] = "link" => e[t] = db_table[Idx(t)]
        /\ pc[t] = "store" => /\ call[t].do_update
                              /\ e[t] # NULL
                              /\ heap[e[t]].key = k
                              /\ heap[e[t]].value = v[t]

\* What holds of the table at every statement, strong enough to be inductive.
DbInv ==
    /\ LockInv
    /\ InitInv
    /\ ChainsHoldEveryEntry
    /\ OneEntryPerKey
    /\ \A t \in Threads : WalkInv(t)

\* A call that has been made returns.
CallReturns == \A t \in Threads : pc[t] = "lock" ~> pc[t] = "idle"

\* The value stored under k: the code finds it by walking k's chain.
ValueOf(k) == IF \E n \in Nodes : heap[n].key = k
              THEN heap[CHOOSE n \in Nodes : heap[n].key = k].value
              ELSE Absent

\* How far the call of t has got.  It takes effect when it reads the value it
\* will not change, writes the one it changes, or links the entry it creates.
OpOf(t) ==
    CASE pc[t] = "idle" -> [phase |-> "idle"]
      [] pc[t] \in {"unlock", "return"} -> [phase |-> "answered", value |-> v[t]]
      [] OTHER -> [phase     |-> "called",
                   key       |-> call[t].key,
                   do_update |-> call[t].do_update]

KV == INSTANCE KeyValueStore WITH
          Keys    <- AllKeys,
          store   <- [k \in AllKeys |-> ValueOf(k)],
          serving <- started,
          op      <- [t \in Threads |-> OpOf(t)]

\* The table and its lock implement the atomic map: no update is lost, none is
\* applied twice, and every call answers the value it acted on.
AtomicStore == KV!Spec
=============================================================================
