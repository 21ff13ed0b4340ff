---------------------------- MODULE ServerProofs ----------------------------
(***************************************************************************)
(* Proofs about Server and PrefetchingServer, for any threads, paths and   *)
(* bundle file.                                                            *)
(***************************************************************************)
EXTENDS PrefetchingServer, DataTheorems, FiniteSetTheorems, TLAPS

\* The actions of a step of the server, one per disjunct, for the case splits.
LEMMA StepCases ==
    ASSUME [Next]_vars
    PROVE  \/ DbInit
           \/ DbInitReturns
           \/ CreateThread
           \/ \E c \in Clients : Generate(c)
           \/ \E w \in Workers : TakeRequest(w)
           \/ \E w \in Workers, p \in Paths : ParseRequest(w, p)
           \/ \E w \in Workers : Lookup(w)
           \/ \E w \in Workers : LookupActs(w)
           \/ \E w \in Workers : Respond(w)
           \/ UNCHANGED vars
BY Zenon DEF Next, Main, Work

-----------------------------------------------------------------------------
(* Types *)

LEMMA CountType == ASSUME NEW c, NEW s \in Seq(Clients) PROVE Count(c, s) \in Nat
<1>1. IsFiniteSet(1 .. Len(s))
  BY FS_Interval
<1>2. IsFiniteSet({n \in DOMAIN s : s[n] = c})
  BY <1>1, FS_Subset
<1> QED BY <1>2, FS_CardinalityType DEF Count

\* Adding one to a counter, or to none when x is no argument of f.
LEMMA IncrementType ==
    ASSUME NEW S, NEW f \in [S -> Nat], NEW x
    PROVE  [f EXCEPT ![x] = f[x] + 1] \in [S -> Nat]
<1>1. CASE x \in S
  <2>1. f[x] + 1 \in Nat
    BY <1>1
  <2> QED BY <2>1
<1>2. CASE x \notin S
  <2>1. [f EXCEPT ![x] = f[x] + 1] = f
    BY <1>2
  <2> QED BY <2>1
<1> QED BY <1>1, <1>2

\* The part of the type of each component of the state.
MainType == i \in 0 .. INIT_ENTRIES /\ created \in 0 .. 2 * Len(Creation)
QueueType == /\ queue \in Seq(Clients) /\ Len(queue) < Capacity
             /\ held \in [Workers -> Clients \cup {Nothing}]
StoreType == /\ DOMAIN store = InitKeys \cup ClientKeys
             /\ \A k \in DOMAIN store : store[k] \in Nat \cup {Absent}
             /\ serving \in BOOLEAN
CallType == /\ DOMAIN op = Workers
            /\ \A w \in Workers : op[w].phase \in {"idle", "called", "answered"}
RequestType == /\ path \in [Workers -> Paths \cup {Nothing}]
               /\ made \in [Clients -> 0 .. MaxRequests]
               /\ lost \in [Clients -> Nat]
               /\ log \in [Clients -> [Paths -> Nat]]
HistoryType == firstUpdates \in [ClientKeys -> BOOLEAN]

LEMMA TypeOKParts ==
    TypeOK <=> MainType /\ QueueType /\ StoreType /\ CallType /\ RequestType /\ HistoryType
BY DEF TypeOK, MainType, QueueType, StoreType, CallType, RequestType, HistoryType

LEMMA TypeInit == ASSUME Init PROVE TypeOK
<1>1. MainType /\ QueueType /\ RequestType
  BY ServerAssumption DEF Init, Fifo!Init, MainType, QueueType, RequestType
<1>2. StoreType /\ CallType
  BY DEF Init, KV!Init, KV!Idle, StoreType, CallType
<1>3. HistoryType
  BY DEF Init, HistoryType
<1> QED BY <1>1, <1>2, <1>3, TypeOKParts

LEMMA MainTypeStep == ASSUME TypeOK, [Next]_vars PROVE MainType'
<1>1. CASE DbInit
  BY <1>1, ServerAssumption DEF TypeOK, DbInit, MainType
<1>2. CASE CreateThread
  BY <1>2 DEF TypeOK, CreateThread, MainType
<1>3. CASE UNCHANGED main
  BY <1>3 DEF TypeOK, main, MainType
<1> QED BY <1>1, <1>2, <1>3, StepCases, Zenon
     DEF DbInitReturns, Generate, TakeRequest, ParseRequest, Lookup, LookupActs, Respond, vars

LEMMA QueueTypeStep == ASSUME TypeOK, [Next]_vars PROVE QueueType'
<1>1. CASE \E c \in Clients : Generate(c)
  <2> PICK c \in Clients : Generate(c)
    BY <1>1
  <2>1. held' = held /\ queue' = IF Len(queue) + 1 = Capacity THEN <<>> ELSE Append(queue, c)
    BY DEF Generate, Fifo!Put
  <2> QED BY <2>1, ServerAssumption DEF TypeOK, QueueType
<1>2. CASE \E w \in Workers : TakeRequest(w)
  <2> PICK w \in Workers : TakeRequest(w)
    BY <1>2
  <2>1. /\ queue # <<>>
        /\ held' = [held EXCEPT ![w] = Head(queue)] /\ queue' = Tail(queue)
    BY DEF TakeRequest, Fifo!Take
  <2>2. Head(queue) \in Clients /\ Tail(queue) \in Seq(Clients) /\ Len(Tail(queue)) < Len(queue)
    BY <2>1 DEF TypeOK
  <2> QED BY <2>1, <2>2, ServerAssumption DEF TypeOK, QueueType
<1>3. CASE \E w \in Workers : Respond(w)
  BY <1>3 DEF Respond, Fifo!Finish, TypeOK, QueueType
<1>4. CASE UNCHANGED <<queue, held>>
  BY <1>4 DEF TypeOK, QueueType
<1> QED BY <1>1, <1>2, <1>3, <1>4, StepCases, Zenon
     DEF DbInit, DbInitReturns, CreateThread, ParseRequest, Lookup, LookupActs, vars, requests

LEMMA StoreTypeStep == ASSUME TypeOK, [Next]_vars PROVE StoreType'
<1>1. CASE DbInit
  <2>0. i \in 0 .. INIT_ENTRIES - 1
    BY <1>1, ServerAssumption DEF TypeOK, DbInit
  <2>1. /\ i * INIT_STRIDE \in InitKeys
        /\ store' = [store EXCEPT ![i * INIT_STRIDE] = i % 50] /\ serving' = serving
    BY <1>1, <2>0, Zenon DEF DbInit, KV!Preload, InitKeys
  <2>2. i % 50 \in Nat
    BY DEF TypeOK
  <2> QED BY <2>1, <2>2 DEF TypeOK, StoreType
<1>2. CASE \E w \in Workers : LookupActs(w)
  <2> PICK w \in Workers, k \in ClientKeys, update \in BOOLEAN :
           KV!Hit(w, k, update) \/ KV!Miss(w, k, update)
    BY <1>2 DEF LookupActs
  <2>1. CASE KV!Hit(w, k, update)
    BY <2>1, ServerAssumption DEF KV!Hit, TypeOK, StoreType
  <2>2. CASE KV!Miss(w, k, update)
    BY <2>2 DEF KV!Miss, TypeOK, StoreType
  <2> QED BY <2>1, <2>2
<1>3. CASE DbInitReturns
  BY <1>3 DEF DbInitReturns, KV!Open, TypeOK, StoreType
<1>4. CASE UNCHANGED <<store, serving>>
  BY <1>4 DEF TypeOK, StoreType
<1> QED BY <1>1, <1>2, <1>3, <1>4, StepCases, Zenon
     DEF CreateThread, Generate, TakeRequest, ParseRequest, Lookup, Respond,
         KV!Invoke, KV!Return, vars, db

LEMMA CallTypeStep == ASSUME TypeOK, [Next]_vars PROVE CallType'
<1>1. CASE \E w \in Workers : Lookup(w)
  BY <1>1 DEF Lookup, KV!Invoke, KV!Called, TypeOK, CallType
<1>2. CASE \E w \in Workers : LookupActs(w)
  <2> PICK w \in Workers : \E v : op' = [op EXCEPT ![w] = KV!Answered(v)]
    BY <1>2, Zenon DEF LookupActs, KV!Hit, KV!Miss
  <2> QED BY DEF KV!Answered, TypeOK, CallType
<1>3. CASE \E w \in Workers : Respond(w)
  BY <1>3 DEF Respond, KV!Return, KV!Idle, TypeOK, CallType
<1>4. CASE op' = op
  BY <1>4 DEF TypeOK, CallType
<1> QED BY <1>1, <1>2, <1>3, <1>4, StepCases, Zenon
     DEF DbInit, DbInitReturns, CreateThread, Generate, TakeRequest, ParseRequest,
         KV!Preload, KV!Open, vars, db

LEMMA RequestTypeStep == ASSUME TypeOK, [Next]_vars PROVE RequestType'
<1>1. CASE \E c \in Clients : Generate(c)
  <2> PICK c \in Clients : Generate(c)
    BY <1>1
  <2>1. Append(queue, c) \in Seq(Clients)
    BY DEF TypeOK
  <2>2. \A d \in Clients : lost[d] + Count(d, Append(queue, c)) \in Nat
    <3> TAKE d \in Clients
    <3>1. Count(d, Append(queue, c)) \in Nat /\ lost[d] \in Nat
      BY <2>1, CountType DEF TypeOK
    <3> QED BY <3>1
  <2>3. lost' \in [Clients -> Nat]
    BY <2>2 DEF Generate, TypeOK
  <2>4. made' \in [Clients -> 0 .. MaxRequests]
    BY ServerAssumption DEF Generate, TypeOK
  <2> QED BY <2>3, <2>4 DEF Generate, TypeOK, RequestType
<1>2. CASE \E w \in Workers, p \in Paths : ParseRequest(w, p)
  BY <1>2 DEF ParseRequest, TypeOK, RequestType, requests
<1>3. CASE \E w \in Workers : Respond(w)
  <2> PICK w \in Workers : Respond(w)
    BY <1>3
  <2>1. log' = [log EXCEPT ![held[w]][path[w]] = @ + 1]
    BY DEF Respond
  <2>2. log' \in [Clients -> [Paths -> Nat]]
    <3> DEFINE logged == [log[held[w]] EXCEPT ![path[w]] = @ + 1]
    <3>1. log' = [log EXCEPT ![held[w]] = logged]
      BY <2>1
    <3>2. ASSUME held[w] \in Clients PROVE logged \in [Paths -> Nat]
      <4> DEFINE row == log[held[w]]
      <4>1. row \in [Paths -> Nat]
        BY <3>2 DEF TypeOK
      <4> HIDE DEF row
      <4>2. [row EXCEPT ![path[w]] = row[path[w]] + 1] \in [Paths -> Nat]
        BY <4>1, IncrementType
      <4> QED BY <4>2 DEF row
    <3> HIDE DEF logged
    <3> QED BY <3>1, <3>2 DEF TypeOK
  <2> QED BY <2>2 DEF Respond, TypeOK, RequestType
<1>4. CASE UNCHANGED <<path, made, lost, log>>
  BY <1>4 DEF TypeOK, RequestType
<1> QED BY <1>1, <1>2, <1>3, <1>4, StepCases, Zenon
     DEF DbInit, DbInitReturns, CreateThread, TakeRequest, Lookup, LookupActs, vars, requests

LEMMA HistoryTypeStep == ASSUME TypeOK, [Next]_vars PROVE HistoryType'
<1>1. CASE \E w \in Workers : LookupActs(w)
  <2>1. \E k \in ClientKeys, update \in BOOLEAN :
           firstUpdates' = [firstUpdates EXCEPT ![k] = update] \/ firstUpdates' = firstUpdates
    BY <1>1, Zenon DEF LookupActs
  <2> QED BY <2>1 DEF TypeOK, HistoryType
<1>2. CASE firstUpdates' = firstUpdates
  BY <1>2 DEF TypeOK, HistoryType
<1> QED BY <1>1, <1>2, StepCases, Zenon
     DEF DbInit, DbInitReturns, CreateThread, Generate, TakeRequest, ParseRequest, Lookup,
         Respond, vars, db

LEMMA TypeStep == ASSUME TypeOK, [Next]_vars PROVE TypeOK'
BY MainTypeStep, QueueTypeStep, StoreTypeStep, CallTypeStep, RequestTypeStep, HistoryTypeStep
   DEF TypeOK, MainType, QueueType, StoreType, CallType, RequestType, HistoryType

\* Indices, keys, calls and counters keep their types, and the queue never holds
\* Capacity requests.
THEOREM TypeCorrect == Spec => []TypeOK
<1>1. Init => TypeOK
  BY TypeInit
<1>2. TypeOK /\ [Next]_vars => TypeOK'
  BY TypeStep
<1> QED BY <1>1, <1>2, PTL DEF Spec

-----------------------------------------------------------------------------
(* Requests *)

\* What a worker is about, as far as its call of db_lookup_update has got: it
\* has parsed nothing without a request, called nothing without a path, and the
\* call is for the key and with the decision of its request.
CallInv ==
    \A w \in Workers :
        /\ held[w] = Nothing => path[w] = Nothing
        /\ path[w] = Nothing => op[w] = KV!Idle
        /\ op[w].phase = "called" =>
              op[w] = KV!Called(Key(held[w], path[w]), Decision(held[w], path[w]))

\* The steps that leave held, path and op of every worker alone.
LEMMA CallUnchanged == ASSUME CallInv, UNCHANGED <<held, path, op>> PROVE CallInv'
BY DEF CallInv

LEMMA CallStep == ASSUME TypeOK, CallInv, [Next]_vars PROVE CallInv'
<1>1. CASE \E w \in Workers : TakeRequest(w)
  <2> PICK w \in Workers : TakeRequest(w)
    BY <1>1
  <2>1. held' = [held EXCEPT ![w] = Head(queue)] /\ held[w] = Nothing
        /\ path' = path /\ op' = op
    BY DEF TakeRequest, Fifo!Take, db
  <2>2. path[w] = Nothing /\ op[w] = KV!Idle
    BY <2>1 DEF CallInv
  <2>3. \A v \in Workers : v # w => held'[v] = held[v]
    BY <2>1 DEF TypeOK
  <2> QED BY <2>1, <2>2, <2>3 DEF CallInv, KV!Idle
<1>2. CASE \E w \in Workers, p \in Paths : ParseRequest(w, p)
  <2> PICK w \in Workers, p \in Paths : ParseRequest(w, p)
    BY <1>2
  <2>1. /\ held[w] # Nothing /\ path[w] = Nothing
        /\ path' = [path EXCEPT ![w] = p] /\ held' = held /\ op' = op
    BY DEF ParseRequest, requests, db
  <2>2. op[w] = KV!Idle
    BY <2>1 DEF CallInv
  <2>3. \A v \in Workers : path'[v] = IF v = w THEN p ELSE path[v]
    BY <2>1 DEF TypeOK
  <2>4. p # Nothing
    BY ServerAssumption
  <2> QED BY <2>1, <2>2, <2>3, <2>4 DEF CallInv, KV!Idle
<1>3. CASE \E w \in Workers : Lookup(w)
  <2> PICK w \in Workers : Lookup(w)
    BY <1>3
  <2>1. /\ path[w] # Nothing /\ held' = held /\ path' = path
        /\ op' = [op EXCEPT ![w] = KV!Called(Key(held[w], path[w]), Decision(held[w], path[w]))]
    BY DEF Lookup, KV!Invoke, requests
  <2>2. \A v \in Workers : v # w => op'[v] = op[v]
    BY <2>1 DEF TypeOK
  <2>3. op'[w] = KV!Called(Key(held[w], path[w]), Decision(held[w], path[w]))
    BY <2>1 DEF TypeOK
  <2>4. \A v \in Workers : held'[v] = held[v] /\ path'[v] = path[v]
    BY <2>1
  <2>5. ASSUME NEW v \in Workers
        PROVE  /\ held'[v] = Nothing => path'[v] = Nothing
               /\ path'[v] = Nothing => op'[v] = KV!Idle
               /\ op'[v].phase = "called" =>
                     op'[v] = KV!Called(Key(held'[v], path'[v]), Decision(held'[v], path'[v]))
    BY <2>1, <2>2, <2>3, <2>4 DEF CallInv
  <2> QED BY <2>5, Zenon DEF CallInv, Key, Decision, Iterations, KV!Called, KV!Idle
<1>4. CASE \E w \in Workers : LookupActs(w)
  <2> PICK w \in Workers : LookupActs(w)
    BY <1>4
  <2>1. /\ held' = held /\ path' = path /\ op[w].phase = "called"
        /\ \E v : op' = [op EXCEPT ![w] = KV!Answered(v)]
    BY DEF LookupActs, KV!Hit, KV!Miss, KV!Called, requests
  <2>2. \A v \in Workers : v # w => op'[v] = op[v]
    BY <2>1 DEF TypeOK
  <2>3. op'[w].phase = "answered" /\ path[w] # Nothing
    BY <2>1 DEF TypeOK, CallInv, KV!Answered, KV!Idle
  <2> QED BY <2>1, <2>2, <2>3 DEF CallInv
<1>5. CASE \E w \in Workers : Respond(w)
  <2> PICK w \in Workers : Respond(w)
    BY <1>5
  <2>1. /\ held' = [held EXCEPT ![w] = Nothing]
        /\ path' = [path EXCEPT ![w] = Nothing]
        /\ op' = [op EXCEPT ![w] = KV!Idle]
    BY DEF Respond, KV!Return, Fifo!Finish
  <2>2. \A v \in Workers : v # w => held'[v] = held[v] /\ path'[v] = path[v] /\ op'[v] = op[v]
    BY <2>1 DEF TypeOK
  <2>3. path'[w] = Nothing /\ op'[w] = KV!Idle
    BY <2>1 DEF TypeOK
  <2> QED BY <2>2, <2>3 DEF CallInv, KV!Idle
<1>6. CASE UNCHANGED <<held, path, op>>
  BY <1>6, CallUnchanged
<1> QED BY <1>1, <1>2, <1>3, <1>4, <1>5, <1>6, StepCases, Zenon
     DEF DbInit, DbInitReturns, CreateThread, Generate, Fifo!Put, KV!Preload, KV!Open,
         vars, requests, db


\* The terms of RequestsAreAccountedFor, and the sum of the places of a request.
Holders(c) == Cardinality({w \in Workers : held[w] = c})
Logged(c) == SumFunctionOnSet(log[c], Paths)
Accounted(c) == made[c] = Count(c, queue) + Holders(c) + Logged(c) + lost[c]

LEMMA AccountedFor == RequestsAreAccountedFor <=> \A c \in Clients : Accounted(c)
BY DEF RequestsAreAccountedFor, Accounted, Holders, Logged

LEMMA TermsCount ==
    /\ \A c, s : Count(c, s) = Occurs(s, DOMAIN s, c)
    /\ \A c : Holders(c) = Occurs(held, Workers, c) /\ Holders(c)' = Occurs(held', Workers, c)
BY Zenon DEF Count, Holders, Occurs

LEMMA TermTypes ==
    ASSUME TypeOK, NEW c \in Clients
    PROVE  /\ made[c] \in Nat /\ lost[c] \in Nat
           /\ Count(c, queue) \in Nat /\ Holders(c) \in Nat /\ Logged(c) \in Nat
<1>1. made[c] \in Nat /\ lost[c] \in Nat /\ Count(c, queue) \in Nat
  BY CountType, ServerAssumption DEF TypeOK
<1>2. Holders(c) \in Nat
  BY FS_Subset, FS_CardinalityType, ServerAssumption DEF Holders
<1>3. Logged(c) \in Nat
  <2>1. \A p \in Paths : log[c][p] \in Nat
    BY DEF TypeOK
  <2>2. IsFiniteSet(Paths)
    BY ServerAssumption
  <2> QED BY <2>1, <2>2, SumType DEF Logged
<1> QED BY <1>1, <1>2, <1>3

LEMMA HoldersChange ==
    ASSUME NEW w \in Workers, NEW d, \A v \in Workers : v # w => held'[v] = held[v]
    PROVE  Holders(d)' = Holders(d) - (IF held[w] = d THEN 1 ELSE 0)
                                    + (IF held'[w] = d THEN 1 ELSE 0)
<1>1. IsFiniteSet(Workers)
  BY ServerAssumption
<1>2. Occurs(held', Workers, d)
        = Occurs(held, Workers, d) - (IF held[w] = d THEN 1 ELSE 0)
                                   + (IF held'[w] = d THEN 1 ELSE 0)
  <2>1. SameBut(held', held, Workers, w)
    BY Zenon DEF SameBut
  <2> QED BY <1>1, <2>1, OccursChanged
<1> QED BY <1>2, TermsCount

LEMMA AccountedUnchanged ==
    ASSUME UNCHANGED <<made, queue, held, log, lost>>, NEW c, Accounted(c)
    PROVE  Accounted(c)'
BY DEF Accounted, Holders, Logged, Count

\* A new request joins the queue, or is wiped with it.
LEMMA GenerateAccounts ==
    ASSUME TypeOK, NEW d \in Clients, Accounted(d), NEW c \in Clients, Generate(c)
    PROVE  Accounted(d)'
<1>1. made'[d] = made[d] + (IF c = d THEN 1 ELSE 0)
  BY ServerAssumption DEF Generate, TypeOK
<1>2. Count(d, Append(queue, c)) = Count(d, queue) + (IF c = d THEN 1 ELSE 0)
  <2>1. queue \in Seq(Clients)
    BY DEF TypeOK
  <2>2. Occurs(Append(queue, c), DOMAIN Append(queue, c), d)
          = Occurs(queue, DOMAIN queue, d) + (IF c = d THEN 1 ELSE 0)
    BY <2>1, OccursAppend
  <2> QED BY <2>2, TermsCount, Zenon
<1>3. Holders(d)' = Holders(d) /\ Logged(d)' = Logged(d)
  BY DEF Generate, Fifo!Put, Holders, Logged
<1>4. CASE queue' = <<>>
  <2>1. Count(d, queue)' = 0
    <3>1. {n \in DOMAIN <<>> : <<>>[n] = d} = {}
      OBVIOUS
    <3> QED BY <1>4, <3>1, FS_EmptySet DEF Count
  <2>2. lost'[d] = lost[d] + Count(d, Append(queue, c))
    BY <1>4 DEF Generate
  <2>3. made[d] = Count(d, queue) + Holders(d) + Logged(d) + lost[d]
    BY DEF Accounted
  <2>4. made'[d] = Count(d, queue)' + Holders(d)' + Logged(d)' + lost'[d]
    BY <1>1, <1>2, <1>3, <2>1, <2>2, <2>3, TermTypes
  <2> QED BY <2>4 DEF Accounted
<1>5. CASE queue' # <<>>
  <2>1. queue' = Append(queue, c) /\ lost' = lost
    BY <1>5, Zenon DEF Generate, Fifo!Put
  <2>2. Count(d, queue)' = Count(d, Append(queue, c))
    BY <2>1 DEF Count
  <2>3. made[d] = Count(d, queue) + Holders(d) + Logged(d) + lost[d]
    BY DEF Accounted
  <2>4. made'[d] = Count(d, queue)' + Holders(d)' + Logged(d)' + lost'[d]
    BY <1>1, <1>2, <1>3, <2>1, <2>2, <2>3, TermTypes
  <2> QED BY <2>4 DEF Accounted
<1> QED BY <1>4, <1>5

\* The head of the queue goes to a worker that held nothing.
LEMMA TakeAccounts ==
    ASSUME TypeOK, NEW d \in Clients, Accounted(d), NEW w \in Workers, TakeRequest(w)
    PROVE  Accounted(d)'
<1>1. /\ queue # <<>> /\ held[w] = Nothing
      /\ held' = [held EXCEPT ![w] = Head(queue)] /\ queue' = Tail(queue)
      /\ made' = made /\ lost' = lost /\ log' = log
  BY DEF TakeRequest, Fifo!Take
<1>2. Count(d, queue)' = Count(d, queue) - (IF Head(queue) = d THEN 1 ELSE 0)
  <2>1. Count(d, Tail(queue)) = Count(d, queue) - (IF Head(queue) = d THEN 1 ELSE 0)
    <3>1. queue \in Seq(Clients) /\ queue # <<>>
      BY <1>1 DEF TypeOK
    <3>2. Occurs(Tail(queue), DOMAIN Tail(queue), d)
            = Occurs(queue, DOMAIN queue, d) - (IF Head(queue) = d THEN 1 ELSE 0)
      BY <3>1, OccursTail
    <3> QED BY <3>2, TermsCount, Zenon
  <2> QED BY <1>1, <2>1 DEF Count
<1>3. Holders(d)' = Holders(d) + (IF Head(queue) = d THEN 1 ELSE 0)
  <2>1. \A v \in Workers : v # w => held'[v] = held[v]
    BY <1>1 DEF TypeOK
  <2>2. held'[w] = Head(queue) /\ held[w] # d
    BY <1>1, ServerAssumption DEF TypeOK
  <2>3. Holders(d)' = Holders(d) - (IF held[w] = d THEN 1 ELSE 0)
                                 + (IF held'[w] = d THEN 1 ELSE 0)
    BY <2>1, HoldersChange
  <2> QED BY <2>2, <2>3, TermTypes
<1>4. Logged(d)' = Logged(d)
  BY <1>1 DEF Logged
<1> QED BY <1>1, <1>2, <1>3, <1>4, TermTypes DEF Accounted

\* A worker that answers has a request of a client, and the path it has parsed.
LEMMA AnsweredRequest ==
    ASSUME TypeOK, CallInv, NEW w \in Workers, op[w].phase \in {"called", "answered"}
    PROVE  held[w] \in Clients /\ path[w] \in Paths
<1>1. op[w] # KV!Idle
  BY DEF KV!Idle
<1> QED BY <1>1 DEF TypeOK, CallInv

\* The line a worker logs replaces the request it held.
LEMMA RespondAccounts ==
    ASSUME TypeOK, CallInv, NEW d \in Clients, Accounted(d), NEW w \in Workers, Respond(w)
    PROVE  Accounted(d)'
<1>1. /\ op[w].phase = "answered"
      /\ held' = [held EXCEPT ![w] = Nothing]
      /\ log' = [log EXCEPT ![held[w]][path[w]] = @ + 1]
      /\ queue' = queue /\ made' = made /\ lost' = lost
  BY DEF Respond, KV!Return, Fifo!Finish
<1>2. held[w] \in Clients /\ path[w] \in Paths
  BY <1>1, AnsweredRequest
<1>3. Holders(d)' = Holders(d) - (IF held[w] = d THEN 1 ELSE 0)
  <2>1. \A v \in Workers : v # w => held'[v] = held[v]
    BY <1>1 DEF TypeOK
  <2>2. held'[w] # d
    BY <1>1, ServerAssumption DEF TypeOK
  <2>3. Holders(d)' = Holders(d) - (IF held[w] = d THEN 1 ELSE 0)
                                 + (IF held'[w] = d THEN 1 ELSE 0)
    BY <2>1, HoldersChange
  <2> QED BY <2>2, <2>3, TermTypes
<1>4. Logged(d)' = Logged(d) + (IF held[w] = d THEN 1 ELSE 0)
  <2>1. CASE held[w] = d
    <3>1. \A p \in Paths : log'[d][p] = IF p = path[w] THEN log[d][p] + 1 ELSE log[d][p]
      BY <1>1, <1>2, <2>1 DEF TypeOK
    <3>2. \A p \in Paths : log[d][p] \in Nat
      BY DEF TypeOK
    <3>3. IsFiniteSet(Paths)
      BY ServerAssumption
    <3>4. Logged(d)' = Logged(d) + 1
      BY <1>2, <3>1, <3>2, <3>3, SumIncrement DEF Logged
    <3> QED BY <2>1, <3>4
  <2>2. CASE held[w] # d
    <3>1. log'[d] = log[d]
      BY <1>1, <2>2 DEF TypeOK
    <3> QED BY <2>2, <3>1, TermTypes DEF Logged
  <2> QED BY <2>1, <2>2
<1>5. Count(d, queue)' = Count(d, queue)
  BY <1>1 DEF Count
<1> QED BY <1>1, <1>3, <1>4, <1>5, TermTypes DEF Accounted

AccountInv == TypeOK /\ CallInv /\ RequestsAreAccountedFor

LEMMA AccountedStep ==
    ASSUME AccountInv, [Next]_vars, NEW d \in Clients
    PROVE  Accounted(d)'
<1>0. TypeOK /\ CallInv /\ Accounted(d)
  BY AccountedFor DEF AccountInv
<1>1. CASE \E c \in Clients : Generate(c)
  BY <1>0, <1>1, GenerateAccounts
<1>2. CASE \E w \in Workers : TakeRequest(w)
  BY <1>0, <1>2, TakeAccounts
<1>3. CASE \E w \in Workers : Respond(w)
  BY <1>0, <1>3, RespondAccounts
<1>4. CASE UNCHANGED <<made, queue, held, log, lost>>
  BY <1>0, <1>4, AccountedUnchanged
<1> QED BY <1>1, <1>2, <1>3, <1>4, StepCases, Zenon
     DEF DbInit, DbInitReturns, CreateThread, ParseRequest, Lookup, LookupActs, vars, requests

\* Every request a client has made is in exactly one place: the queue, the hands
\* of one worker, the log, or among those an overrun wiped.
THEOREM RequestsAccounted == Spec => []RequestsAreAccountedFor
<1>1. Init => AccountInv
  <2> SUFFICES ASSUME Init PROVE AccountInv
    OBVIOUS
  <2>1. CallInv
    BY DEF Init, KV!Init, KV!Idle, Fifo!Init, CallInv
  <2>2. ASSUME NEW c \in Clients PROVE Accounted(c)
    <3>1. Count(c, queue) = 0
      <4>1. {n \in DOMAIN queue : queue[n] = c} = {}
        BY DEF Init, Fifo!Init
      <4> QED BY <4>1, FS_EmptySet DEF Count
    <3>2. Holders(c) = 0
      <4>1. {w \in Workers : held[w] = c} = {}
        BY ServerAssumption DEF Init, Fifo!Init
      <4> QED BY <4>1, FS_EmptySet DEF Holders
    <3>3. Logged(c) = 0
      <4>1. \A p \in Paths : log[c][p] = 0
        BY DEF Init
      <4>2. IsFiniteSet(Paths)
        BY ServerAssumption
      <4> QED BY <4>1, <4>2, SumOfZeros DEF Logged
    <3> QED BY <3>1, <3>2, <3>3 DEF Init, Accounted
  <2> QED BY <2>1, <2>2, TypeInit, AccountedFor DEF AccountInv
<1>2. AccountInv /\ [Next]_vars => AccountInv'
  <2> SUFFICES ASSUME AccountInv, [Next]_vars PROVE AccountInv'
    OBVIOUS
  <2>1. TypeOK' /\ CallInv'
    BY TypeStep, CallStep DEF AccountInv
  <2>2. RequestsAreAccountedFor'
    <3>1. \A d \in Clients : Accounted(d)'
      BY AccountedStep
    <3> QED BY <3>1, Zenon DEF RequestsAreAccountedFor, Accounted, Holders, Logged, Count
  <2> QED BY <2>1, <2>2 DEF AccountInv
<1>3. AccountInv => RequestsAreAccountedFor
  BY DEF AccountInv
<1> QED BY <1>1, <1>2, <1>3, PTL DEF Spec

-----------------------------------------------------------------------------
(* Values *)

\* The two terms of Acted: what is logged, and what has acted without being logged.
Tally == [cp \in Clients \X Paths |-> log[cp[1]][cp[2]]]
Pending(asked) ==
    {w \in Workers : op[w].phase = "answered" /\ <<held[w], path[w]>> \in asked}

LEMMA ActedTerms ==
    ASSUME NEW asked
    PROVE  Acted(asked) = SumFunctionOnSet(Tally, asked) + Cardinality(Pending(asked))
BY Zenon DEF Acted, Tally, Pending

LEMMA ActedTypes ==
    ASSUME TypeOK, NEW asked \in SUBSET (Clients \X Paths)
    PROVE  /\ IsFiniteSet(asked)
           /\ \A cp \in asked : Tally[cp] \in Nat
           /\ SumFunctionOnSet(Tally, asked) \in Nat
           /\ IsFiniteSet(Pending(asked)) /\ Cardinality(Pending(asked)) \in Nat
           /\ Acted(asked) \in Nat
<1>1. IsFiniteSet(asked)
  BY FS_Product, FS_Subset, ServerAssumption
<1>2. \A cp \in asked : Tally[cp] \in Nat
  BY DEF TypeOK, Tally
<1>3. SumFunctionOnSet(Tally, asked) \in Nat
  BY <1>1, <1>2, SumType
<1>4. IsFiniteSet(Pending(asked)) /\ Cardinality(Pending(asked)) \in Nat
  BY FS_Subset, FS_CardinalityType, ServerAssumption DEF Pending
<1> QED BY <1>1, <1>2, <1>3, <1>4, ActedTerms

\* Fewer requests have acted less often.
LEMMA ActedLess ==
    ASSUME TypeOK, NEW asked \in SUBSET (Clients \X Paths), NEW part \in SUBSET asked
    PROVE  Acted(part) <= Acted(asked)
<1>1. part \in SUBSET (Clients \X Paths)
  OBVIOUS
<1>2. SumFunctionOnSet(Tally, part) <= SumFunctionOnSet(Tally, asked)
  BY ActedTypes, SumSubset
<1>3. Cardinality(Pending(part)) <= Cardinality(Pending(asked))
  <2>1. Pending(part) \in SUBSET Pending(asked) /\ IsFiniteSet(Pending(asked))
    BY ActedTypes DEF Pending
  <2> QED BY <2>1, FS_Subset
<1>4. /\ SumFunctionOnSet(Tally, part) \in Nat /\ SumFunctionOnSet(Tally, asked) \in Nat
      /\ Cardinality(Pending(part)) \in Nat /\ Cardinality(Pending(asked)) \in Nat
  BY <1>1, ActedTypes
<1> QED BY <1>2, <1>3, <1>4, ActedTerms

\* Nothing acts, and nothing is logged.
LEMMA ActedKept ==
    ASSUME log' = log, NEW asked,
           \A w \in Workers :
              /\ op'[w].phase = "answered" <=> op[w].phase = "answered"
              /\ op[w].phase = "answered" => held'[w] = held[w] /\ path'[w] = path[w]
    PROVE  Acted(asked)' = Acted(asked)
<1>1. Pending(asked)' = Pending(asked)
  <2>1. \A w \in Workers :
           (op'[w].phase = "answered" /\ <<held'[w], path'[w]>> \in asked)
             <=> (op[w].phase = "answered" /\ <<held[w], path[w]>> \in asked)
    OBVIOUS
  <2> QED BY <2>1, Zenon DEF Pending
<1>2. Tally' = Tally
  BY DEF Tally
<1> QED BY <1>1, <1>2 DEF Acted, Tally, Pending

\* The request of worker w acts.
LEMMA ActedOnceMore ==
    ASSUME TypeOK, NEW asked \in SUBSET (Clients \X Paths), NEW w \in Workers,
           UNCHANGED <<log, held, path>>,
           op[w].phase # "answered", op'[w].phase = "answered",
           \A v \in Workers : v # w => op'[v] = op[v]
    PROVE  Acted(asked)' = Acted(asked) + (IF <<held[w], path[w]>> \in asked THEN 1 ELSE 0)
<1>1. SumFunctionOnSet(Tally, asked)' = SumFunctionOnSet(Tally, asked)
  BY DEF Tally
<1>2. Cardinality(Pending(asked))' = Cardinality(Pending(asked))
                                     + (IF <<held[w], path[w]>> \in asked THEN 1 ELSE 0)
  <2>1. IsFiniteSet(Pending(asked)) /\ Cardinality(Pending(asked)) \in Nat
    BY ActedTypes
  <2>2. w \notin Pending(asked)
    BY DEF Pending
  <2>3. CASE <<held[w], path[w]>> \in asked
    <3>1. Pending(asked)' = Pending(asked) \cup {w}
      BY <2>3 DEF Pending
    <3> QED BY <2>1, <2>2, <2>3, <3>1, FS_AddElement
  <2>4. CASE <<held[w], path[w]>> \notin asked
    <3>1. Pending(asked)' = Pending(asked)
      BY <2>4 DEF Pending
    <3> QED BY <2>1, <2>4, <3>1
  <2> QED BY <2>3, <2>4
<1>3. /\ SumFunctionOnSet(Tally, asked) \in Nat /\ Cardinality(Pending(asked)) \in Nat
  BY ActedTypes
<1>4. Acted(asked)' = SumFunctionOnSet(Tally, asked)' + Cardinality(Pending(asked))'
  BY Zenon DEF Acted, Tally, Pending
<1> QED BY <1>1, <1>2, <1>3, <1>4, ActedTerms

\* The line that is logged stands for the answer the worker has returned with.
LEMMA ActedLogged ==
    ASSUME TypeOK, CallInv, NEW asked \in SUBSET (Clients \X Paths),
           NEW w \in Workers, Respond(w)
    PROVE  Acted(asked)' = Acted(asked)
<1> DEFINE cp == <<held[w], path[w]>>
<1>1. /\ op[w].phase = "answered"
      /\ op' = [op EXCEPT ![w] = KV!Idle]
      /\ held' = [held EXCEPT ![w] = Nothing]
      /\ path' = [path EXCEPT ![w] = Nothing]
      /\ log' = [log EXCEPT ![held[w]][path[w]] = @ + 1]
  BY DEF Respond, KV!Return, Fifo!Finish
<1>2. held[w] \in Clients /\ path[w] \in Paths
  BY <1>1, AnsweredRequest
<1>3. SumFunctionOnSet(Tally', asked) = SumFunctionOnSet(Tally, asked)
                                        + (IF cp \in asked THEN 1 ELSE 0)
  <2>1. \A r \in asked : Tally'[r] = IF r = cp THEN Tally[r] + 1 ELSE Tally[r]
    <3> TAKE r \in asked
    <3>1. PICK c \in Clients, p \in Paths : r = <<c, p>>
      OBVIOUS
    <3>2. Tally[r] = log[c][p] /\ Tally'[r] = log'[c][p]
      BY <3>1 DEF Tally
    <3>3. log'[c][p] = IF c = held[w] /\ p = path[w] THEN log[c][p] + 1 ELSE log[c][p]
      BY <1>1, <1>2 DEF TypeOK
    <3> QED BY <3>1, <3>2, <3>3
  <2>2. IsFiniteSet(asked) /\ \A r \in asked : Tally[r] \in Nat
    BY ActedTypes
  <2> HIDE DEF cp
  <2>3. CASE cp \in asked
    <3>1. SumFunctionOnSet(Tally', asked) = SumFunctionOnSet(Tally, asked) + 1
      BY <2>1, <2>2, <2>3, SumIncrement
    <3> QED BY <2>3, <3>1
  <2>4. CASE cp \notin asked
    <3>1. \A r \in asked : Tally[r] = Tally'[r] /\ Tally[r] \in Nat
      BY <2>1, <2>2, <2>4
    <3>2. SumFunctionOnSet(Tally, asked) = SumFunctionOnSet(Tally', asked)
      BY <2>2, <3>1, SumSame
    <3>3. SumFunctionOnSet(Tally, asked) \in Nat
      BY ActedTypes
    <3> QED BY <2>4, <3>2, <3>3
  <2> QED BY <2>3, <2>4
<1>4. Cardinality(Pending(asked)') = Cardinality(Pending(asked))
                                     - (IF cp \in asked THEN 1 ELSE 0)
  <2>1. Pending(asked)' = Pending(asked) \ {w}
    <3>1. \A v \in Workers : v # w =>
             held'[v] = held[v] /\ path'[v] = path[v] /\ op'[v] = op[v]
      BY <1>1 DEF TypeOK
    <3>2. op'[w].phase # "answered"
      BY <1>1 DEF TypeOK, KV!Idle
    <3> QED BY <3>1, <3>2 DEF Pending
  <2>2. w \in Pending(asked) <=> cp \in asked
    BY <1>1 DEF Pending
  <2>3. IsFiniteSet(Pending(asked)) /\ Cardinality(Pending(asked)) \in Nat
    BY ActedTypes
  <2>4. Cardinality(Pending(asked) \ {w})
          = IF w \in Pending(asked) THEN Cardinality(Pending(asked)) - 1
                                    ELSE Cardinality(Pending(asked))
    BY <2>3, FS_RemoveElement, Zenon
  <2> HIDE DEF cp
  <2> QED BY <2>1, <2>2, <2>3, <2>4
<1>5. /\ SumFunctionOnSet(Tally, asked) \in Nat /\ Cardinality(Pending(asked)) \in Nat
  BY ActedTypes
<1>6. Acted(asked)' = SumFunctionOnSet(Tally', asked) + Cardinality(Pending(asked)')
  BY Zenon DEF Acted, Tally, Pending
<1> HIDE DEF cp
<1> QED BY <1>3, <1>4, <1>5, <1>6, ActedTerms

\* What the entry of key k is worth.
ValueCounts(k) ==
    store[k] = IF Acted(Asking(k)) = 0 THEN Absent
               ELSE Acted(Asking(k) \cap Updating) + (IF firstUpdates[k] THEN 0 ELSE 1)

\* While db_init fills the database, nobody has called and nothing is logged.
ValuesInv ==
    /\ ~serving =>
          /\ \A w \in Workers : op[w] = KV!Idle
          /\ \A c \in Clients : \A p \in Paths : log[c][p] = 0
          /\ \A n \in 0 .. INIT_ENTRIES - 1 :
                store[n * INIT_STRIDE] = IF n < i THEN n % 50 ELSE Absent
          /\ \A k \in ClientKeys : store[k] = Absent
    /\ serving =>
          /\ \A n \in 0 .. INIT_ENTRIES - 1 : store[n * INIT_STRIDE] = n % 50
          /\ \A k \in ClientKeys : ValueCounts(k)

LEMMA AskingPairs ==
    ASSUME NEW k
    PROVE  /\ Asking(k) \in SUBSET (Clients \X Paths)
           /\ Asking(k) \cap Updating \in SUBSET Asking(k)
           /\ Asking(k) \cap Updating \in SUBSET (Clients \X Paths)
BY DEF Asking

\* Entries of db_init are apart.
LEMMA StrideInjective ==
    ASSUME NEW m \in Nat, NEW n \in Nat, m # n
    PROVE  m * INIT_STRIDE # n * INIT_STRIDE
<1>1. INIT_STRIDE \in Nat /\ INIT_STRIDE > 0
  BY ServerAssumption
<1>2. \A a \in Nat, d \in Nat \ {0} : (a + d) * INIT_STRIDE > a * INIT_STRIDE
  BY <1>1
<1>3. CASE m < n
  <2>1. m + (n - m) = n /\ n - m \in Nat \ {0}
    BY <1>3
  <2>2. (m + (n - m)) * INIT_STRIDE > m * INIT_STRIDE
    BY <1>2, <2>1
  <2> QED BY <1>1, <2>1, <2>2
<1>4. CASE n < m
  <2>1. n + (m - n) = m /\ m - n \in Nat \ {0}
    BY <1>4
  <2>2. (n + (m - n)) * INIT_STRIDE > n * INIT_STRIDE
    BY <1>2, <2>1
  <2> QED BY <1>1, <2>1, <2>2
<1> QED BY <1>3, <1>4

LEMMA DbInitFills == ASSUME TypeOK, ValuesInv, DbInit PROVE ValuesInv'
<1>1. /\ i < INIT_ENTRIES /\ i' = i + 1 /\ ~serving /\ serving' = serving /\ op' = op /\ log' = log
      /\ store' = [store EXCEPT ![i * INIT_STRIDE] = i % 50]
  BY DEF DbInit, KV!Preload
<1>2. i \in 0 .. INIT_ENTRIES - 1
  BY <1>1, ServerAssumption DEF TypeOK
<1>3. i * INIT_STRIDE \in InitKeys
  BY <1>2, Zenon DEF InitKeys
<1>4. i * INIT_STRIDE \in DOMAIN store
  BY <1>3 DEF TypeOK
<1>5. ASSUME NEW n \in 0 .. INIT_ENTRIES - 1
      PROVE  store'[n * INIT_STRIDE] = IF n < i' THEN n % 50 ELSE Absent
  <2>1. store[n * INIT_STRIDE] = IF n < i THEN n % 50 ELSE Absent
    BY <1>1, Zenon DEF ValuesInv
  <2>2. CASE n = i
    <3>1. store'[i * INIT_STRIDE] = i % 50
      BY <1>1, <1>4, Zenon
    <3>2. n < i'
      BY <1>1, <1>2, <2>2
    <3> QED BY <2>2, <3>1, <3>2, Zenon
  <2>3. CASE n # i
    <3>1. n * INIT_STRIDE # i * INIT_STRIDE
      BY <1>2, <2>3, StrideInjective
    <3>2. store'[n * INIT_STRIDE] = store[n * INIT_STRIDE]
      BY <1>1, <3>1
    <3> QED BY <1>1, <1>2, <2>1, <2>3, <3>2
  <2> QED BY <2>2, <2>3
<1>6. ASSUME NEW k \in ClientKeys PROVE store'[k] = Absent
  <2>1. k # i * INIT_STRIDE
    BY <1>3, KeysAssumption
  <2> QED BY <1>1, <2>1 DEF ValuesInv
<1> QED BY <1>1, <1>5, <1>6 DEF ValuesInv

\* When the server opens, no request has acted.
LEMMA OpensEmpty == ASSUME TypeOK, ValuesInv, DbInitReturns PROVE ValuesInv'
<1>1. /\ i = INIT_ENTRIES /\ ~serving /\ serving' /\ UNCHANGED <<store, op, log, held, path>>
  BY DEF DbInitReturns, KV!Open, requests
<1>2. ASSUME NEW k \in ClientKeys PROVE Acted(Asking(k))' = 0 /\ store'[k] = Absent
  <2>1. Acted(Asking(k))' = Acted(Asking(k))
    BY <1>1, ActedKept
  <2>2. SumFunctionOnSet(Tally, Asking(k)) = 0
    <3>1. \A cp \in Asking(k) : Tally[cp] = 0
      BY <1>1, AskingPairs DEF Tally, ValuesInv
    <3>2. IsFiniteSet(Asking(k))
      BY AskingPairs, ActedTypes
    <3> QED BY <3>1, <3>2, SumOfZeros
  <2>3. Pending(Asking(k)) = {}
    BY <1>1 DEF Pending, ValuesInv, KV!Idle
  <2>4. Acted(Asking(k)) = 0
    BY <2>2, <2>3, ActedTerms, FS_EmptySet
  <2> QED BY <1>1, <2>1, <2>4 DEF ValuesInv
<1>3. \A k \in ClientKeys : ValueCounts(k)'
  BY <1>2, Zenon DEF ValueCounts
<1>4. \A n \in 0 .. INIT_ENTRIES - 1 : store'[n * INIT_STRIDE] = n % 50
  <2> TAKE n \in 0 .. INIT_ENTRIES - 1
  <2>1. store[n * INIT_STRIDE] = IF n < i THEN n % 50 ELSE Absent
    BY <1>1, Zenon DEF ValuesInv
  <2>2. n < i
    BY <1>1, ServerAssumption
  <2>3. store'[n * INIT_STRIDE] = store[n * INIT_STRIDE]
    BY <1>1
  <2> QED BY <2>1, <2>2, <2>3, Zenon
<1> QED BY <1>1, <1>3, <1>4 DEF ValuesInv

\* The one entry a call changes counts the call; the call that creates it is the
\* first.
LEMMA EntryCounts ==
    ASSUME TypeOK, CallInv, NEW w \in Workers, NEW k \in ClientKeys, NEW update \in BOOLEAN,
           ValueCounts(k), UNCHANGED <<log, held, path>>,
           KV!Hit(w, k, update) \/ KV!Miss(w, k, update),
           firstUpdates' = IF store[k] = Absent THEN [firstUpdates EXCEPT ![k] = update]
                                                ELSE firstUpdates,
           Acted(Asking(k))' = Acted(Asking(k)) + 1,
           Acted(Asking(k) \cap Updating)' =
              Acted(Asking(k) \cap Updating) + (IF update THEN 1 ELSE 0)
    PROVE  ValueCounts(k)'
<1> DEFINE asked == Acted(Asking(k))
           updated == Acted(Asking(k) \cap Updating)
           extra == IF firstUpdates[k] THEN 0 ELSE 1
<1>1. asked \in Nat /\ updated \in Nat /\ updated <= asked
  BY AskingPairs, ActedTypes, ActedLess
<1>2. k \in DOMAIN store /\ store[k] \in Nat \cup {Absent} /\ k \in DOMAIN firstUpdates
  BY DEF TypeOK
<1>3. Absent \notin Nat
  BY ServerAssumption
<1>4. store[k] = IF asked = 0 THEN Absent ELSE updated + extra
  BY DEF ValueCounts
<1>5. extra \in Nat
  OBVIOUS
<1>6. SUFFICES store'[k] = updated + (IF update THEN 1 ELSE 0)
                           + (IF firstUpdates'[k] THEN 0 ELSE 1)
  <2>1. asked + 1 # 0
    BY <1>1
  <2> HIDE DEF asked, updated, extra
  <2> QED BY <1>1, <2>1 DEF ValueCounts, asked, updated
<1>7. CASE KV!Hit(w, k, update)
  <2>1. store[k] # Absent /\ store'[k] = IF update THEN store[k] + 1 ELSE store[k]
    BY <1>2, <1>7 DEF KV!Hit
  <2>2. firstUpdates' = firstUpdates
    BY <2>1
  <2>3. store[k] = updated + extra /\ (IF firstUpdates'[k] THEN 0 ELSE 1) = extra
    BY <1>4, <2>1, <2>2
  <2> HIDE DEF asked, updated, extra
  <2> QED BY <1>1, <1>5, <2>1, <2>3
<1>8. CASE KV!Miss(w, k, update)
  <2>1. store[k] = Absent /\ store'[k] = 1
    BY <1>2, <1>8 DEF KV!Miss
  <2>2. firstUpdates'[k] = update
    BY <1>2, <2>1
  <2> HIDE DEF asked, updated, extra
  <2>3. asked = 0
    BY <1>1, <1>3, <1>4, <1>5, <2>1
  <2>4. updated = 0
    BY <1>1, <2>3
  <2> QED BY <2>1, <2>2, <2>4
<1> QED BY <1>7, <1>8

LEMMA ActsKeepValues ==
    ASSUME TypeOK, CallInv, ValuesInv, NEW w \in Workers, LookupActs(w)
    PROVE  ValuesInv'
<1> PICK k \in ClientKeys, update \in BOOLEAN :
         /\ KV!Hit(w, k, update) \/ KV!Miss(w, k, update)
         /\ firstUpdates' = IF store[k] = Absent THEN [firstUpdates EXCEPT ![k] = update]
                                               ELSE firstUpdates
  BY Zenon DEF LookupActs
<1>1. UNCHANGED <<log, held, path>>
  BY DEF LookupActs, requests
<1>2. /\ op[w] = KV!Called(k, update) /\ serving' = serving
      /\ \E v : op' = [op EXCEPT ![w] = KV!Answered(v)]
      /\ \E v : store' = [store EXCEPT ![k] = v]
  BY DEF KV!Hit, KV!Miss
<1>3. serving
  BY <1>2 DEF ValuesInv, KV!Called, KV!Idle
<1>4. /\ op[w].phase # "answered" /\ op'[w].phase = "answered"
      /\ \A v \in Workers : v # w => op'[v] = op[v]
  BY <1>2 DEF TypeOK, KV!Called, KV!Answered
<1>5. held[w] \in Clients /\ path[w] \in Paths
  BY <1>2, AnsweredRequest DEF KV!Called
<1>6. k = Key(held[w], path[w]) /\ update = Decision(held[w], path[w])
  <2>1. [phase |-> "called", key |-> k, do_update |-> update]
          = [phase |-> "called", key |-> Key(held[w], path[w]),
             do_update |-> Decision(held[w], path[w])]
    BY <1>2, <1>4 DEF CallInv, KV!Called
  <2>2. k = Key(held[w], path[w])
    BY <2>1, Zenon
  <2>3. update = Decision(held[w], path[w])
    BY <2>1, Zenon
  <2> QED BY <2>2, <2>3
<1>7. ASSUME NEW j \in ClientKeys PROVE <<held[w], path[w]>> \in Asking(j) <=> j = k
  BY <1>5, <1>6 DEF Asking
<1>8. <<held[w], path[w]>> \in Updating <=> update
  BY <1>5, <1>6 DEF Updating
<1>9. ASSUME NEW asked \in SUBSET (Clients \X Paths)
      PROVE  Acted(asked)' = Acted(asked) + (IF <<held[w], path[w]>> \in asked THEN 1 ELSE 0)
  BY <1>1, <1>4, ActedOnceMore
<1>10. ASSUME NEW j \in ClientKeys PROVE ValueCounts(j)'
  <2>1. /\ Acted(Asking(j))' =
              Acted(Asking(j)) + (IF <<held[w], path[w]>> \in Asking(j) THEN 1 ELSE 0)
        /\ Acted(Asking(j) \cap Updating)' =
              Acted(Asking(j) \cap Updating)
              + (IF <<held[w], path[w]>> \in Asking(j) \cap Updating THEN 1 ELSE 0)
    BY <1>9, AskingPairs
  <2>2. ValueCounts(j)
    BY <1>3 DEF ValuesInv
  <2>3. CASE j = k
    <3>1. /\ Acted(Asking(k))' = Acted(Asking(k)) + 1
          /\ Acted(Asking(k) \cap Updating)' =
                Acted(Asking(k) \cap Updating) + (IF update THEN 1 ELSE 0)
      BY <1>7, <1>8, <2>1, <2>3
    <3>2. ValueCounts(k)'
      BY <1>1, <2>2, <2>3, <3>1, EntryCounts
    <3> QED BY <2>3, <3>2
  <2>4. CASE j # k
    <3>1. store'[j] = store[j] /\ firstUpdates'[j] = firstUpdates[j]
      BY <1>2, <2>4 DEF TypeOK
    <3>2. Acted(Asking(j)) \in Nat /\ Acted(Asking(j) \cap Updating) \in Nat
      BY AskingPairs, ActedTypes
    <3>3. /\ Acted(Asking(j))' = Acted(Asking(j))
          /\ Acted(Asking(j) \cap Updating)' = Acted(Asking(j) \cap Updating)
      BY <1>7, <2>1, <2>4, <3>2
    <3> QED BY <2>2, <3>1, <3>3 DEF ValueCounts
  <2> QED BY <2>3, <2>4
<1>11. ASSUME NEW n \in 0 .. INIT_ENTRIES - 1
       PROVE  store'[n * INIT_STRIDE] = n % 50
  <2>1. n * INIT_STRIDE \in InitKeys
    BY Zenon DEF InitKeys
  <2>2. n * INIT_STRIDE # k
    BY <2>1, KeysAssumption
  <2>3. store'[n * INIT_STRIDE] = store[n * INIT_STRIDE]
    BY <1>2, <2>2
  <2> QED BY <1>3, <2>3 DEF ValuesInv
<1> QED BY <1>2, <1>3, <1>10, <1>11 DEF ValuesInv

\* The steps that change neither the table nor what has acted.
LEMMA ValuesKept ==
    ASSUME ValuesInv, UNCHANGED <<store, serving, firstUpdates>>, serving,
           \A k \in ClientKeys : /\ Acted(Asking(k))' = Acted(Asking(k))
                                 /\ Acted(Asking(k) \cap Updating)' =
                                       Acted(Asking(k) \cap Updating)
    PROVE  ValuesInv'
<1>1. ASSUME NEW k \in ClientKeys PROVE ValueCounts(k)'
  <2>1. /\ Acted(Asking(k))' = Acted(Asking(k))
        /\ Acted(Asking(k) \cap Updating)' = Acted(Asking(k) \cap Updating)
        /\ store'[k] = store[k] /\ firstUpdates'[k] = firstUpdates[k]
    OBVIOUS
  <2>2. ValueCounts(k)
    BY DEF ValuesInv
  <2> QED BY <2>1, <2>2 DEF ValueCounts
<1> QED BY <1>1 DEF ValuesInv

LEMMA ValuesUnchanged ==
    ASSUME ValuesInv, UNCHANGED <<i, store, serving, op, log, held, path, firstUpdates>>
    PROVE  ValuesInv'
<1>1. CASE ~serving
  BY <1>1 DEF ValuesInv
<1>2. CASE serving
  <2>1. \A w \in Workers :
           /\ op'[w].phase = "answered" <=> op[w].phase = "answered"
           /\ op[w].phase = "answered" => held'[w] = held[w] /\ path'[w] = path[w]
    OBVIOUS
  <2> QED BY <1>2, <2>1, ActedKept, ValuesKept
<1> QED BY <1>1, <1>2

LEMMA ValuesStep ==
    ASSUME TypeOK, CallInv, ValuesInv, [Next]_vars
    PROVE  ValuesInv'
<1>1. CASE DbInit
  BY <1>1, DbInitFills
<1>2. CASE DbInitReturns
  BY <1>2, OpensEmpty
<1>3. CASE \E w \in Workers : TakeRequest(w) \/ (\E p \in Paths : ParseRequest(w, p)) \/ Lookup(w)
  <2> PICK w \in Workers :
           TakeRequest(w) \/ (\E p \in Paths : ParseRequest(w, p)) \/ Lookup(w)
    BY <1>3
  <2>1. /\ UNCHANGED <<i, store, serving, log, firstUpdates>>
        /\ \A v \in Workers : v # w =>
              held'[v] = held[v] /\ path'[v] = path[v] /\ op'[v] = op[v]
    BY DEF TakeRequest, ParseRequest, Lookup, Fifo!Take, KV!Invoke, TypeOK, main, requests, db
  <2>2. op[w] = KV!Idle
    BY DEF TakeRequest, ParseRequest, Lookup, Fifo!Take, KV!Invoke, CallInv
  <2>3. op'[w].phase # "answered"
    <3>1. CASE Lookup(w)
      BY <3>1 DEF Lookup, KV!Invoke, KV!Called, TypeOK
    <3>2. CASE op' = op
      BY <2>2, <3>2 DEF KV!Idle
    <3> QED BY <3>1, <3>2 DEF TakeRequest, ParseRequest, db
  <2>4. \A v \in Workers :
           /\ op'[v].phase = "answered" <=> op[v].phase = "answered"
           /\ op[v].phase = "answered" => held'[v] = held[v] /\ path'[v] = path[v]
    BY <2>1, <2>2, <2>3 DEF KV!Idle
  <2>5. \A asked : Acted(asked)' = Acted(asked)
    BY <2>1, <2>4, ActedKept
  <2>6. CASE serving
    BY <2>1, <2>5, <2>6, ValuesKept
  <2>7. CASE ~serving
    <3>1. op' = op
      BY <2>7 DEF TakeRequest, ParseRequest, Lookup, KV!Invoke, db
    <3> QED BY <2>1, <2>7, <3>1 DEF ValuesInv
  <2> QED BY <2>6, <2>7
<1>4. CASE \E w \in Workers : LookupActs(w)
  BY <1>4, ActsKeepValues
<1>5. CASE \E w \in Workers : Respond(w)
  <2> PICK w \in Workers : Respond(w)
    BY <1>5
  <2>1. op[w].phase = "answered" /\ UNCHANGED <<store, serving, firstUpdates>>
    BY DEF Respond, KV!Return
  <2>2. serving
    BY <2>1 DEF ValuesInv, KV!Idle
  <2>3. \A k \in ClientKeys : /\ Acted(Asking(k))' = Acted(Asking(k))
                              /\ Acted(Asking(k) \cap Updating)' =
                                    Acted(Asking(k) \cap Updating)
    BY ActedLogged, AskingPairs
  <2> QED BY <2>1, <2>2, <2>3, ValuesKept
<1>6. CASE UNCHANGED <<i, store, serving, op, log, held, path, firstUpdates>>
  BY <1>6, ValuesUnchanged
<1> QED BY <1>1, <1>2, <1>3, <1>4, <1>5, <1>6, StepCases, Zenon
     DEF CreateThread, Generate, Fifo!Put, vars, main, requests, db

\* Clients that share an entry of the database lose none of each other's updates:
\* its value is the number of updating requests that have acted on it, and one
\* more exactly when the first to act was not one of them.
THEOREM ValuesCount == Spec => []ValuesCountUpdates
<1> DEFINE Inv == TypeOK /\ CallInv /\ ValuesInv
<1>1. Init => Inv
  <2> SUFFICES ASSUME Init PROVE Inv
    OBVIOUS
  <2>1. CallInv
    BY DEF Init, KV!Init, KV!Idle, Fifo!Init, CallInv
  <2>2. ValuesInv
    <3>1. \A n \in 0 .. INIT_ENTRIES - 1 : n * INIT_STRIDE \in InitKeys /\ ~(n < 0)
      <4> TAKE n \in 0 .. INIT_ENTRIES - 1
      <4>1. n * INIT_STRIDE \in InitKeys
        BY Zenon DEF InitKeys
      <4> QED BY <4>1
    <3>2. \A k \in InitKeys \cup ClientKeys : store[k] = Absent
      BY DEF Init, KV!Init
    <3>3. ~serving /\ i = 0
      BY DEF Init, KV!Init
    <3>4. \A n \in 0 .. INIT_ENTRIES - 1 :
             store[n * INIT_STRIDE] = IF n < i THEN n % 50 ELSE Absent
      BY <3>1, <3>2, <3>3, Zenon
    <3> QED BY <3>2, <3>3, <3>4 DEF Init, KV!Init, ValuesInv
  <2> QED BY <2>1, <2>2, TypeInit
<1>2. Inv /\ [Next]_vars => Inv'
  BY TypeStep, CallStep, ValuesStep
<1>3. Inv => ValuesCountUpdates
  BY Zenon DEF ValuesInv, ValueCounts, ValuesCountUpdates
<1> QED BY <1>1, <1>2, <1>3, PTL DEF Spec

-----------------------------------------------------------------------------
(* Hints *)

\* The actions of a step, one per disjunct of PrefetchNext.
LEMMA PrefetchStepCases ==
    ASSUME [PrefetchNext]_prefetchVars
    PROVE  \/ Boot
           \/ PrefetchMain
           \/ \E c \in Clients : PrefetchGenerate(c)
           \/ \E w \in Workers : PrefetchWork(w)
           \/ UNCHANGED prefetchVars
BY DEF PrefetchNext

\* What a call is answered, as long as the table stays as it is.
LEMMA SameTableSameAnswer ==
    ASSUME UNCHANGED g_bundles, NEW pc
    PROVE  Replay!FindBundle(pc)' = Replay!FindBundle(pc)
BY DEF Replay!FindBundle, Replay!InBundle, Replay!SelectInSeq

\* Nobody asks before the table is loaded, and each answer is what the table
\* would answer now.
OneTableInv ==
    /\ boot # "loaded" => answers = {}
    /\ \A a \in answers : a[2] = Replay!FindBundle(Label[a[1]])

LEMMA EnteringKeepsInv ==
    ASSUME OneTableInv, NEW functions, Entering(functions)
    PROVE  OneTableInv'
<1>1. boot' = "loaded" /\ g_bundles' = g_bundles
  BY DEF Entering, Loaded, bundles
<1>2. ASSUME NEW a \in answers'
      PROVE  a[2] = Replay!FindBundle(Label[a[1]])
  BY <1>2 DEF OneTableInv, Entering
<1> QED BY <1>1, <1>2, SameTableSameAnswer DEF OneTableInv

LEMMA OneTableStep ==
    ASSUME OneTableInv, [PrefetchNext]_prefetchVars
    PROVE  OneTableInv'
<1>1. CASE Boot
  <2>1. answers' = answers /\ answers = {}
    BY <1>1 DEF Boot, BundleFileMissing, LoadBundles, ParseBundles, BundlesInitReturns, OneTableInv
  <2> QED BY <2>1 DEF OneTableInv
<1>2. CASE PrefetchMain
  BY <1>2, EnteringKeepsInv DEF PrefetchMain
<1>3. CASE \E c \in Clients : PrefetchGenerate(c)
  BY <1>3, EnteringKeepsInv DEF PrefetchGenerate
<1>4. CASE \E w \in Workers : PrefetchWork(w)
  BY <1>4, EnteringKeepsInv DEF PrefetchWork
<1>5. CASE UNCHANGED prefetchVars
  BY <1>5, SameTableSameAnswer DEF OneTableInv, prefetchVars, bundles
<1> QED BY <1>1, <1>2, <1>3, <1>4, <1>5, PrefetchStepCases

\* Whoever enters a function, and whenever, gets the answer everybody gets: the
\* table main has loaded, or the empty one, is complete before any thread asks.
THEOREM OneTableForAllThreads == PrefetchSpec => []EveryThreadSeesOneTable
<1>1. PrefetchInit => OneTableInv
  BY DEF PrefetchInit, OneTableInv
<1>2. OneTableInv => EveryThreadSeesOneTable
  BY DEF OneTableInv, EveryThreadSeesOneTable
<1> QED BY <1>1, <1>2, OneTableStep, PTL DEF PrefetchSpec

\* How far main has got with the table: g_capacity tells the truth while a file is
\* read, and what a load that failed has stored is gone.
LoadInv ==
    /\ \E S : g_bundles \in Seq(S)
    /\ g_capacity \in Nat /\ allocated \in Nat /\ line \in Nat
    /\ Len(g_bundles) <= allocated
    /\ phase = "parsing" => g_capacity = allocated
    /\ phase = "parsing" /\ line = 0 => g_bundles = <<>>
    /\ phase \notin {"parsing", "ready"} => g_bundles = <<>>
    /\ boot = "access" => phase = "fresh"
    /\ boot = "loaded" => phase # "parsing"

LEMMA LoadInit == PrefetchInit => LoadInv
<1> SUFFICES ASSUME PrefetchInit PROVE LoadInv
  OBVIOUS
<1>1. /\ g_bundles = <<>> /\ g_capacity = 0 /\ allocated = 0 /\ line = 0
      /\ phase = "fresh" /\ boot = "access"
  BY DEF PrefetchInit, Replay!Init
<1>2. g_bundles \in Seq({}) /\ Len(g_bundles) = 0
  BY <1>1
<1> QED BY <1>1, <1>2, Zenon, SMT DEF LoadInv

\* A sequence stays one when anything is appended.
LEMMA AppendAny ==
    ASSUME NEW S, NEW s \in Seq(S), NEW x
    PROVE  Append(s, x) \in Seq(S \cup {x}) /\ Len(Append(s, x)) = Len(s) + 1
<1>1. s \in Seq(S \cup {x})
  OBVIOUS
<1> QED BY <1>1

LEMMA StoreFits ==
    ASSUME LoadInv, Replay!StoreBundle
    PROVE  /\ \E S : g_bundles' \in Seq(S)
           /\ g_capacity' \in Nat /\ allocated' = g_capacity'
           /\ Len(g_bundles') <= allocated'
<1>1. PICK S : g_bundles \in Seq(S)
  BY Zenon DEF LoadInv
<1>2. PICK b : g_bundles' = Append(g_bundles, b)
  BY Zenon DEF Replay!StoreBundle
<1>3. g_bundles' \in Seq(S \cup {b}) /\ Len(g_bundles') = Len(g_bundles) + 1
  BY <1>1, <1>2, AppendAny
<1>4. /\ g_capacity' = IF ~Replay!TableFull THEN g_capacity
                       ELSE IF g_capacity > 0 THEN 2 * g_capacity ELSE FirstCapacity
      /\ allocated' = IF Replay!TableFull THEN g_capacity' ELSE allocated
      /\ phase = "parsing"
  BY DEF Replay!StoreBundle, Replay!ReadEnd, Replay!ReadLine
<1>5. /\ g_capacity \in Nat /\ allocated = g_capacity /\ Len(g_bundles) <= allocated
      /\ Len(g_bundles) \in Nat
  BY <1>1, <1>4 DEF LoadInv
<1>6. FirstCapacity \in Nat \ {0}
  BY HintAssumption
<1>7. Replay!TableFull <=> Len(g_bundles) + 1 > g_capacity
  BY DEF Replay!TableFull
<1>8. g_capacity' \in Nat /\ allocated' = g_capacity' /\ Len(g_bundles) + 1 <= g_capacity'
  BY <1>4, <1>5, <1>6, <1>7
<1> QED BY <1>3, <1>8, Zenon, SMT

LEMMA BootStep == ASSUME LoadInv, Boot PROVE LoadInv'
<1> USE DEF LoadInv
<1>1. CASE BundleFileMissing
  BY <1>1 DEF BundleFileMissing, bundles
<1>2. ASSUME NEW f \in Files, LoadBundles(f) PROVE LoadInv'
  <2>1. /\ g_bundles' = <<>> /\ g_capacity' = 0 /\ allocated' = 0 /\ line' = 0
        /\ phase' = "parsing" /\ boot' = "loading"
    BY <1>2 DEF LoadBundles, Replay!BundlesInit
  <2>2. g_bundles' \in Seq({}) /\ Len(g_bundles') = 0
    BY <2>1
  <2>3. \E S : g_bundles' \in Seq(S)
    BY <2>2, Zenon
  <2> QED BY <2>1, <2>2, <2>3
<1>3. CASE BundlesInitReturns
  BY <1>3 DEF BundlesInitReturns, bundles
<1>4. CASE ParseBundles
  <2>1. boot = "loading" /\ boot' = "loading"
    BY <1>4 DEF ParseBundles
  <2>2. CASE Replay!FileMissing
    BY <2>1, <2>2 DEF Replay!FileMissing, Replay!table, Replay!parser
  <2>3. ASSUME UNCHANGED <<g_bundles, g_capacity, allocated>>, phase' = phase, line' = line + 1
        PROVE  LoadInv'
    BY <2>1, <2>3
  <2>4. CASE Replay!ReadStart
    BY <2>3, <2>4 DEF Replay!ReadStart, Replay!ReadLine, Replay!table
  <2>5. CASE Replay!SkipLine
    BY <2>3, <2>5 DEF Replay!SkipLine, Replay!ReadLine, Replay!table
  <2>6. CASE Replay!StoreBundle
    <3>1. line' = line + 1 /\ phase' = phase /\ phase = "parsing"
      BY <2>6 DEF Replay!StoreBundle, Replay!ReadEnd, Replay!ReadLine
    <3>2. line' \in Nat /\ line' # 0
      BY <3>1
    <3>3. /\ \E S : g_bundles' \in Seq(S)
          /\ g_capacity' \in Nat /\ allocated' = g_capacity'
          /\ Len(g_bundles') <= allocated'
      BY <2>6, StoreFits
    <3> QED BY <2>1, <3>1, <3>2, <3>3, Zenon
  <2>7. CASE Replay!StoreFails
    <3>1. /\ g_bundles' = <<>> /\ allocated' = 0 /\ g_capacity' = g_capacity
          /\ line' = line + 1 /\ phase' = "failed"
      BY <2>7 DEF Replay!StoreFails, Replay!ReadEnd, Replay!ReadLine
    <3>2. g_bundles' \in Seq({}) /\ Len(g_bundles') = 0 /\ line' \in Nat
      BY <3>1
    <3>3. \E S : g_bundles' \in Seq(S)
      BY <3>2, Zenon
    <3> QED BY <2>1, <3>1, <3>2, <3>3
  <2>8. CASE Replay!EndOfFile
    BY <2>1, <2>8 DEF Replay!EndOfFile, Replay!table, Replay!parser
  <2> QED BY <1>4, <2>2, <2>4, <2>5, <2>6, <2>7, <2>8 DEF ParseBundles
<1> QED BY <1>1, <1>2, <1>3, <1>4 DEF Boot

LEMMA LoadKept == ASSUME LoadInv, UNCHANGED <<boot, bundles>> PROVE LoadInv'
BY DEF LoadInv, bundles

LEMMA LoadStep == ASSUME LoadInv, [PrefetchNext]_prefetchVars PROVE LoadInv'
<1>1. CASE Boot
  BY <1>1, BootStep
<1>2. CASE PrefetchMain
  BY <1>2, LoadKept DEF PrefetchMain, Entering
<1>3. CASE \E c \in Clients : PrefetchGenerate(c)
  BY <1>3, LoadKept DEF PrefetchGenerate, Entering
<1>4. CASE \E w \in Workers : PrefetchWork(w)
  BY <1>4, LoadKept DEF PrefetchWork, Entering
<1>5. CASE UNCHANGED prefetchVars
  BY <1>5, LoadKept DEF prefetchVars
<1> QED BY <1>1, <1>2, <1>3, <1>4, <1>5, PrefetchStepCases

\* An empty table has no bundle for any pc.
LEMMA EmptyTableFindsNothing ==
    ASSUME g_bundles = <<>>, NEW pc
    PROVE  Replay!FindBundle(pc) = 0
<1>1. {n \in 1 .. Len(g_bundles) : Replay!InBundle(g_bundles[n], pc)} = {}
  OBVIOUS
<1> QED BY <1>1, Zenon DEF Replay!FindBundle, Replay!SelectInSeq

\* Whatever becomes of the load, and with any first allocation: threads search
\* entries of the array only, and find a bundle only in a table loaded to the end
\* of its file.
THEOREM HintsOfALoadedTable == PrefetchSpec => []HintsComeFromALoadedTable
<1>1. PrefetchInit => LoadInv /\ OneTableInv
  BY LoadInit DEF PrefetchInit, OneTableInv
<1>2. LoadInv /\ OneTableInv /\ [PrefetchNext]_prefetchVars => (LoadInv /\ OneTableInv)'
  BY LoadStep, OneTableStep
<1>3. LoadInv /\ OneTableInv => HintsComeFromALoadedTable
  <2> SUFFICES ASSUME LoadInv, OneTableInv, NEW a \in answers, a[2] # 0 PROVE phase = "ready"
    BY DEF LoadInv, HintsComeFromALoadedTable
  <2>1. a[2] = Replay!FindBundle(Label[a[1]]) /\ boot = "loaded"
    BY DEF OneTableInv
  <2>2. g_bundles # <<>>
    BY <2>1, EmptyTableFindsNothing
  <2> QED BY <2>1, <2>2 DEF LoadInv
<1> QED BY <1>1, <1>2, <1>3, PTL DEF PrefetchSpec

\* The composition leaves Server's variables to Server's actions, so that what is
\* proved of Server holds of PrefetchingServer.
LEMMA PrefetchingServerIsServer == PrefetchSpec => Spec
<1>1. PrefetchInit => Init
  BY DEF PrefetchInit
<1>2. [PrefetchNext]_prefetchVars => [Next]_vars
  <2> SUFFICES ASSUME [PrefetchNext]_prefetchVars PROVE [Next]_vars
    OBVIOUS
  <2>1. CASE Boot
    BY <2>1 DEF Boot, BundleFileMissing, LoadBundles, ParseBundles, BundlesInitReturns
  <2>2. CASE PrefetchMain
    BY <2>2, Zenon DEF PrefetchMain, Next, Main
  <2>3. CASE \E c \in Clients : PrefetchGenerate(c)
    BY <2>3, Zenon DEF PrefetchGenerate, Next
  <2>4. CASE \E w \in Workers : PrefetchWork(w)
    BY <2>4, Zenon DEF PrefetchWork, Next, Work
  <2>5. CASE UNCHANGED prefetchVars
    BY <2>5 DEF prefetchVars
  <2> QED BY <2>1, <2>2, <2>3, <2>4, <2>5, PrefetchStepCases
<1> QED BY <1>1, <1>2, PTL DEF PrefetchSpec, Spec
=============================================================================
