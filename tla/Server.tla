------------------------------- MODULE Server -------------------------------
(***************************************************************************)
(* server_sim.c as a whole: main fills the database and creates pairs of a *)
(* worker and a generator; generators queue requests of their client;      *)
(* workers take them, look up or update the client's entry in the database *)
(* and log the answer.                                                     *)
(*                                                                         *)
(* The queue is RequestFifo and the database KeyValueStore, what the       *)
(* modules RequestQueue and Database show the ring and the hash table to   *)
(* implement.  Parsing is the module RequestProcessing, which shows that   *)
(* a text of make_request_text is parsed to its path and always            *)
(* authorized; here a request therefore has a path and status 200.         *)
(***************************************************************************)
EXTENDS Naturals, Sequences, SequencesExt, FiniteSets, FiniteSetsExt

CONSTANTS Creation,            \* the pairs <<worker, client>> main creates, in order
          Clients,             \* generators: the client_id each is given
          Workers,
          Capacity,            \* REQ_QUEUE_SIZE
          Nothing,             \* no request, no path
          Absent,              \* no entry in the database
          Paths,               \* of make_request_text
          PathLength,          \* strlen of each
          SearchPaths,         \* those that contain "search"
          XorOf(_, _),
          UpdatingIterations,  \* loop counts after which business_logic_sim's sum is even
          INIT_ENTRIES,        \* 256
          INIT_STRIDE,         \* 7919
          MaxRequests          \* bound of the model: requests a client makes

ASSUME ServerAssumption ==
    /\ Creation \in Seq(Workers \X Clients)
    /\ Capacity \in Nat \ {0}
    /\ Nothing \notin Clients /\ Nothing \notin Paths
    /\ Absent \notin Nat
    /\ INIT_ENTRIES \in Nat
    /\ INIT_STRIDE \in Nat \ {0}
    /\ MaxRequests \in Nat
    /\ IsFiniteSet(Clients) /\ IsFiniteSet(Workers) /\ IsFiniteSet(Paths)

VARIABLES i,               \* db_init: entries inserted
          created,         \* threads created
          queue, held,     \* the request queue
          store, serving, op,  \* the database and the calls of db_lookup_update
          path,            \* path[w]: the path worker w has parsed
          made, lost,      \* of each client, requests made, and wiped by an overrun
          log,             \* log[c][p]: lines server_log printed for client c and path p
          firstUpdates     \* history: was the first request to act on an entry an update?

main == <<i, created>>
requests == <<queue, held, made, lost>>
db == <<store, serving, op, firstUpdates>>
vars == <<main, requests, db, path, log>>

-----------------------------------------------------------------------------
(* business_logic_sim and the key of a request *)

Iterations(c, p) == (1000 + (c % 500)) * (IF p \in SearchPaths THEN 2 ELSE 1)

\* The decision to update: the sum's integer part is even.
Decision(c, p) == Iterations(c, p) \in UpdatingIterations

Key(c, p) == XorOf(c, PathLength[p])

InitKeys == {n * INIT_STRIDE : n \in 0 .. INIT_ENTRIES - 1}
ClientKeys == {Key(c, p) : c \in Clients, p \in Paths}

\* client_id and the length of a path are small, and never equal: keys of
\* requests lie between 0 and the first multiple of INIT_STRIDE.
ASSUME KeysAssumption == InitKeys \cap ClientKeys = {}

Fifo == INSTANCE RequestFifo WITH Generators <- Clients, NoRequest <- Nothing
KV == INSTANCE KeyValueStore WITH Threads <- Workers, Keys <- InitKeys \cup ClientKeys

-----------------------------------------------------------------------------
(* main *)

Init ==
    /\ i = 0
    /\ created = 0
    /\ Fifo!Init
    /\ KV!Init
    /\ path = [w \in Workers |-> Nothing]
    /\ made = [c \in Clients |-> 0]
    /\ lost = [c \in Clients |-> 0]
    /\ log = [c \in Clients |-> [p \in Paths |-> 0]]
    /\ firstUpdates = [k \in ClientKeys |-> FALSE]

DbInit ==
    /\ i < INIT_ENTRIES
    /\ KV!Preload(i * INIT_STRIDE, i % 50)
    /\ i' = i + 1
    /\ UNCHANGED <<created, requests, path, log, firstUpdates>>

DbInitReturns ==
    /\ i = INIT_ENTRIES
    /\ KV!Open
    /\ UNCHANGED <<main, requests, path, log, firstUpdates>>

\* Fault: off by one in the test of the loop.
CreateThreadTooMany ==
    /\ serving
    /\ created <= 2 * Len(Creation)
    /\ created' = created + 1
    /\ UNCHANGED <<i, requests, db, path, log>>

\* pthread_create.
CreateThread ==
    /\ serving
    /\ created < 2 * Len(Creation)
    /\ created' = created + 1
    /\ UNCHANGED <<i, requests, db, path, log>>

\* Of each pair the worker is created first.
RunningWorker(w) == \E n \in DOMAIN Creation : Creation[n][1] = w /\ 2 * n - 1 <= created
RunningGenerator(c) == \E n \in DOMAIN Creation : Creation[n][2] = c /\ 2 * n <= created

-----------------------------------------------------------------------------
(* generator_fn *)

\* The requests of client c in s.
Count(c, s) == Cardinality({n \in DOMAIN s : s[n] = c})

Generate(c) ==
    /\ RunningGenerator(c)
    /\ made[c] < MaxRequests
    /\ made' = [made EXCEPT ![c] = @ + 1]
    /\ Fifo!Put(c)
    /\ lost' = IF queue' = <<>> THEN [d \in Clients |-> lost[d] + Count(d, Append(queue, c))]
                                ELSE lost
    /\ UNCHANGED <<main, db, path, log>>

-----------------------------------------------------------------------------
(* worker_fn *)

\* Fault: the request stays in the queue.
TakeRequestPeek(w) ==
    /\ RunningWorker(w)
    /\ held[w] = Nothing /\ queue # <<>>
    /\ held' = [held EXCEPT ![w] = Head(queue)]
    /\ UNCHANGED <<main, queue, made, lost, db, path, log>>

TakeRequest(w) ==
    /\ RunningWorker(w)
    /\ Fifo!Take(w)
    /\ UNCHANGED <<main, made, lost, db, path, log>>

\* make_request_text picks the path; parse_request_text finds it.
ParseRequest(w, p) ==
    /\ held[w] # Nothing
    /\ path[w] = Nothing
    /\ path' = [path EXCEPT ![w] = p]
    /\ UNCHANGED <<main, requests, db, log>>

\* db_lookup_update is called with the decision.
Lookup(w) ==
    /\ path[w] # Nothing
    /\ KV!Invoke(w, Key(held[w], path[w]), Decision(held[w], path[w]))
    /\ UNCHANGED <<main, requests, path, log, firstUpdates>>

\* The critical section of db_lookup_update.
LookupActs(w) ==
    /\ \E k \in ClientKeys, update \in BOOLEAN :
          /\ KV!Hit(w, k, update) \/ KV!Miss(w, k, update)
          /\ firstUpdates' = IF store[k] = Absent THEN [firstUpdates EXCEPT ![k] = update]
                                                ELSE firstUpdates
    /\ UNCHANGED <<main, requests, path, log>>

\* db_lookup_update returns; the response is built and logged.
Respond(w) ==
    /\ KV!Return(w)
    /\ log' = [log EXCEPT ![held[w]][path[w]] = @ + 1]
    /\ path' = [path EXCEPT ![w] = Nothing]
    /\ Fifo!Finish(w)
    /\ UNCHANGED <<main, made, lost, firstUpdates>>

-----------------------------------------------------------------------------
Main == DbInit \/ DbInitReturns \/ CreateThread
Work(w) == \/ TakeRequest(w)
           \/ \E p \in Paths : ParseRequest(w, p)
           \/ Lookup(w) \/ LookupActs(w) \/ Respond(w)

Next ==
    \/ Main
    \/ \E c \in Clients : Generate(c)
    \/ \E w \in Workers : Work(w)

Spec == Init /\ [][Next]_vars

\* main and every worker run on; a worker blocks only on an empty queue, and
\* qlock and db_lock are free again and again (RequestQueue, Database).  No
\* client has to make a request.
FairSpec == Spec /\ WF_vars(Main) /\ \A w \in Workers : WF_vars(Work(w))
-----------------------------------------------------------------------------
(* Properties *)

\* Types; the database holds entries of clients and of db_init only.
TypeOK ==
    /\ i \in 0 .. INIT_ENTRIES
    /\ created \in 0 .. 2 * Len(Creation)
    /\ queue \in Seq(Clients) /\ Len(queue) < Capacity
    /\ held \in [Workers -> Clients \cup {Nothing}]
    /\ DOMAIN store = InitKeys \cup ClientKeys
    /\ \A k \in DOMAIN store : store[k] \in Nat \cup {Absent}
    /\ serving \in BOOLEAN
    /\ DOMAIN op = Workers
    /\ \A w \in Workers : op[w].phase \in {"idle", "called", "answered"}
    /\ path \in [Workers -> Paths \cup {Nothing}]
    /\ made \in [Clients -> 0 .. MaxRequests]
    /\ lost \in [Clients -> Nat]
    /\ log \in [Clients -> [Paths -> Nat]]
    /\ firstUpdates \in [ClientKeys -> BOOLEAN]

\* The requests, as pairs of a client and a path, that ask for key k; those
\* whose decision is to update.
Asking(k) == {cp \in Clients \X Paths : Key(cp[1], cp[2]) = k}
Updating == {cp \in Clients \X Paths : Decision(cp[1], cp[2])}

\* How many of the given requests have acted on the database, logged or not yet.
Acted(asked) ==
    SumFunctionOnSet([cp \in Clients \X Paths |-> log[cp[1]][cp[2]]], asked)
    + Cardinality({w \in Workers : op[w].phase = "answered" /\ <<held[w], path[w]>> \in asked})

\* Clients share entries: client_id XOR the length of the path is no injective
\* key.  Whoever shares an entry, and in whatever order they come to it, its
\* value is the number of updating requests answered for it, and one more if
\* the first of all was not one of them (the first creates the entry with 1 and
\* its own update is dropped).  db_init's entries stay as they were.
ValuesCountUpdates ==
    serving =>
        /\ \A n \in 0 .. INIT_ENTRIES - 1 : store[n * INIT_STRIDE] = n % 50
        /\ \A k \in ClientKeys :
              store[k] = IF Acted(Asking(k)) = 0 THEN Absent
                         ELSE Acted(Asking(k) \cap Updating) + (IF firstUpdates[k] THEN 0 ELSE 1)

\* Every request a client made is in one place: queued, held by one worker,
\* answered in the log, or wiped by an overrun.
RequestsAreAccountedFor ==
    \A c \in Clients :
        made[c] = Count(c, queue) + Cardinality({w \in Workers : held[w] = c})
                  + SumFunctionOnSet(log[c], Paths) + lost[c]

\* main gets as far as creating every thread, whatever becomes of what it does
\* first, and then every request is answered in the end, unless an overrun wipes it.
EveryRequestIsAnswered ==
    /\ <>(created = 2 * Len(Creation))
    /\ \A c \in Clients : \A n \in 1 .. MaxRequests :
          made[c] = n ~> SumFunctionOnSet(log[c], Paths) + lost[c] >= n
=============================================================================
