--------------------------- MODULE DatabaseProofs ---------------------------
(***************************************************************************)
(* Proofs about Database, for all sets of threads and keys and every size  *)
(* of the table.                                                           *)
(***************************************************************************)
EXTENDS Database, SequenceTheorems, TLAPS

\* The actions of a step, one per disjunct, for the case splits below.
LEMMA StepCases ==
    ASSUME [Next]_vars
    PROVE  \/ InitInsert
           \/ StartThreads
           \/ \E t \in Threads, k \in Keys, update \in BOOLEAN : Call(t, k, update)
           \/ \E t \in Threads : Lock(t)
           \/ \E t \in Threads : LoadHead(t)
           \/ \E t \in Threads : ScanNext(t)
           \/ \E t \in Threads : ScanFound(t)
           \/ \E t \in Threads : ScanEnd(t)
           \/ \E t \in Threads : StoreValue(t)
           \/ \E t \in Threads : FillEntry(t)
           \/ \E t \in Threads : LinkEntry(t)
           \/ \E t \in Threads : Unlock(t)
           \/ \E t \in Threads : Return(t)
           \/ UNCHANGED vars
BY Zenon DEF Next, DbInit, DbLookupUpdate

-----------------------------------------------------------------------------
(* Keys, buckets and the two changes of the heap *)

LEMMA BucketType == ASSUME NEW k \in Nat PROVE Bucket(k) \in Buckets
BY DatabaseAssumption DEF Bucket, Buckets

LEMMA ProductNat == ASSUME NEW i \in Nat, NEW j \in Nat PROVE i * j \in Nat
OBVIOUS

LEMMA KeysAreNat == AllKeys \subseteq Nat
<1>1. \A i \in 0 .. INIT_ENTRIES - 1 : i * INIT_STRIDE \in Nat
  <2> TAKE i \in 0 .. INIT_ENTRIES - 1
  <2>1. i \in Nat /\ INIT_STRIDE \in Nat
    BY DatabaseAssumption
  <2> QED BY <2>1, ProductNat
<1> QED BY <1>1, DatabaseAssumption DEF AllKeys

\* The keys of db_init grow.
LEMMA NextInitKey ==
    ASSUME NEW i \in Nat
    PROVE  /\ i * INIT_STRIDE \in Nat
           /\ (i + 1) * INIT_STRIDE = i * INIT_STRIDE + INIT_STRIDE
BY DatabaseAssumption, ProductNat

\* The n-th key of db_init is one of the keys.
LEMMA InitKey ==
    ASSUME NEW i \in Nat, i < INIT_ENTRIES
    PROVE  i * INIT_STRIDE \in AllKeys
BY DatabaseAssumption DEF AllKeys

\* A new first node leaves the other nodes as they are.
LEMMA LinkedHeap ==
    ASSUME heap \in Seq(Entry), db_table \in [Buckets -> Nodes \cup {NULL}],
           NEW k \in AllKeys, NEW x \in Nat, NEW m \in Nat,
           LinkFirst(k, x, m)
    PROVE  /\ heap' \in Seq(Entry)
           /\ Nodes' = Nodes \cup {Len(heap) + 1}
           /\ Len(heap') = Len(heap) + 1
           /\ \A n \in Nodes : heap'[n] = heap[n]
           /\ heap'[Len(heap) + 1] = [key |-> k, value |-> x, next |-> m]
           /\ db_table' = [db_table EXCEPT ![Bucket(k)] = Len(heap) + 1]
           /\ db_table' \in [Buckets -> Nodes' \cup {NULL}]
<1> DEFINE new == [key |-> k, value |-> x, next |-> m]
<1>1. new \in Entry
  BY DEF Entry
<1>2. heap' = Append(heap, new) /\ db_table' = [db_table EXCEPT ![Bucket(k)] = Len(heap) + 1]
  BY DEF LinkFirst
<1>3. Len(heap) \in Nat
  OBVIOUS
<1>4. heap' \in Seq(Entry) /\ Len(heap') = Len(heap) + 1
  BY <1>1, <1>2
<1>5. \A n \in Nodes : heap'[n] = heap[n]
  BY <1>1, <1>2, <1>3 DEF Nodes
<1>6. heap'[Len(heap) + 1] = new
  BY <1>1, <1>2
<1>7. Nodes' = Nodes \cup {Len(heap) + 1}
  BY <1>3, <1>4 DEF Nodes
<1>8. Bucket(k) \in Buckets
  BY BucketType, KeysAreNat
<1>9. db_table' \in [Buckets -> Nodes' \cup {NULL}]
  BY <1>2, <1>3, <1>7, <1>8
<1> QED
  BY <1>2, <1>4, <1>5, <1>6, <1>7, <1>9

\* A new value of a node leaves keys and chains as they are.
LEMMA StoredHeap ==
    ASSUME heap \in Seq(Entry), NEW m \in Nodes, NEW x \in Nat,
           heap' = [heap EXCEPT ![m].value = x]
    PROVE  /\ heap' \in Seq(Entry)
           /\ Nodes' = Nodes
           /\ Len(heap') = Len(heap)
           /\ \A n \in Nodes : /\ heap'[n].key = heap[n].key
                               /\ heap'[n].next = heap[n].next
                               /\ heap'[n].value = IF n = m THEN x ELSE heap[n].value
<1>1. heap' = [heap EXCEPT ![m] = [heap[m] EXCEPT !.value = x]]
  OBVIOUS
<1>2. DOMAIN heap = Nodes /\ \A n \in Nodes : heap[n] \in Entry
  BY DEF Nodes
<1>3. [heap[m] EXCEPT !.value = x] \in Entry
  BY <1>2 DEF Entry
<1>4. heap' \in Seq(Entry) /\ Len(heap') = Len(heap)
  BY <1>1, <1>3, <1>2, ExceptSeq
<1>5. Nodes' = Nodes
  BY <1>4 DEF Nodes
<1>6. \A n \in Nodes : heap'[n] = IF n = m THEN [heap[m] EXCEPT !.value = x] ELSE heap[n]
  BY <1>1, <1>2
<1> QED
  BY <1>2, <1>4, <1>5, <1>6 DEF Entry

-----------------------------------------------------------------------------
(* Type correctness *)

LEMMA TypeInit == Init => TypeOK
<1> SUFFICES ASSUME Init PROVE TypeOK
  OBVIOUS
<1>1. heap \in Seq(Entry) /\ db_table \in [Buckets -> Nodes \cup {NULL}]
  BY DEF Init, NULL
<1>2. loaded \in 0 .. INIT_ENTRIES
  BY DatabaseAssumption DEF Init
<1>3. call \in [Threads -> [key : Keys \cup {0}, do_update : BOOLEAN]]
  BY DEF Init
<1> QED
  BY <1>1, <1>2, <1>3 DEF Init, TypeOK, NULL, Labels

LEMMA IdxType ==
    ASSUME TypeOK, NEW t \in Threads
    PROVE  /\ call[t].key \in Nat
           /\ Idx(t) \in Buckets
           /\ db_table[Idx(t)] \in Nodes \cup {NULL}
<1>1. call[t].key \in Nat
  <2>1. call[t] \in [key : Keys \cup {0}, do_update : BOOLEAN]
    BY DEF TypeOK
  <2>2. call[t].key \in Keys \cup {0}
    BY <2>1
  <2>3. \A k \in Keys : k \in Nat
    BY DatabaseAssumption
  <2> QED BY <2>2, <2>3
<1>2. Idx(t) \in Buckets
  BY <1>1, BucketType DEF Idx
<1>3. db_table \in [Buckets -> Nodes \cup {NULL}]
  BY DEF TypeOK
<1>4. db_table[Idx(t)] \in Nodes \cup {NULL}
  BY <1>2, <1>3
<1> QED BY <1>1, <1>2, <1>4

\* The fields of a node; its next is an older node.
LEMMA NodeType ==
    ASSUME TypeOK, NEW n \in Nodes
    PROVE  heap[n].key \in AllKeys /\ heap[n].value \in Nat /\ heap[n].next \in Nat
<1>1. heap[n] \in Entry
  BY DEF TypeOK, Nodes
<1> QED BY <1>1 DEF Entry

LEMMA NextNode ==
    ASSUME TypeOK, ChainsHoldEveryEntry, NEW n \in Nodes
    PROVE  heap[n].next \in Nodes \cup {NULL}
BY DEF TypeOK, ChainsHoldEveryEntry, NewestBelow, Nodes, NULL

\* The type of the table alone is not inductive: that a node is not NULL when
\* it is written, and that its key is a key, is part of DbInv.
LEMMA TypeStep == TypeOK /\ DbInv /\ [Next]_vars => TypeOK'
<1> SUFFICES ASSUME TypeOK, DbInv, [Next]_vars PROVE TypeOK'
  OBVIOUS
<1> USE DatabaseAssumption DEF TypeOK
<1>1. CASE InitInsert
  <2> DEFINE k == loaded * INIT_STRIDE
  <2>1. loaded \in Nat /\ loaded < INIT_ENTRIES /\ loaded' = loaded + 1
    BY <1>1 DEF InitInsert
  <2>2. k \in AllKeys /\ Bucket(k) \in Buckets
    BY <2>1, InitKey, KeysAreNat, BucketType
  <2>3. loaded % 50 \in Nat /\ db_table[Bucket(k)] \in Nat
    BY <2>1, <2>2 DEF Nodes, NULL
  <2>4. LinkFirst(k, loaded % 50, db_table[Bucket(k)])
    BY <1>1 DEF InitInsert
  <2> HIDE DEF k
  <2>5. /\ heap' \in Seq(Entry)
        /\ Nodes' = Nodes \cup {Len(heap) + 1}
        /\ db_table' \in [Buckets -> Nodes' \cup {NULL}]
    BY <2>2, <2>3, <2>4, LinkedHeap
  <2> QED
    BY <1>1, <2>1, <2>5 DEF InitInsert
<1>2. CASE StartThreads
  BY <1>2 DEF StartThreads, Nodes
<1>3. ASSUME NEW t \in Threads, NEW k \in Keys, NEW update \in BOOLEAN, Call(t, k, update)
      PROVE  TypeOK'
  BY <1>3 DEF Call, GoTo, Labels, Nodes
<1>4. ASSUME NEW t \in Threads, Lock(t) PROVE TypeOK'
  BY <1>4 DEF Lock, GoTo, Labels, Nodes
<1>5. ASSUME NEW t \in Threads, LoadHead(t) PROVE TypeOK'
  <2>1. db_table[Idx(t)] \in Nodes \cup {NULL}
    BY IdxType
  <2> QED BY <1>5, <2>1 DEF LoadHead, GoTo, Labels, Nodes
<1>6. ASSUME NEW t \in Threads, ScanNext(t) PROVE TypeOK'
  <2>1. e[t] \in Nodes
    BY <1>6 DEF ScanNext
  <2>2. heap[e[t]].next \in Nodes \cup {NULL}
    BY <2>1, NextNode DEF DbInv
  <2> QED BY <1>6, <2>2 DEF ScanNext, GoTo, Labels, Nodes
<1>7. ASSUME NEW t \in Threads, ScanFound(t) PROVE TypeOK'
  <2>1. e[t] \in Nodes
    BY <1>7 DEF ScanFound
  <2>2. heap[e[t]].value \in Nat
    BY <2>1, NodeType
  <2> QED BY <1>7, <2>2 DEF ScanFound, GoTo, Labels, Nodes
<1>8. ASSUME NEW t \in Threads, ScanEnd(t) PROVE TypeOK'
  BY <1>8 DEF ScanEnd, GoTo, Labels, Nodes
<1>9. ASSUME NEW t \in Threads, StoreValue(t) PROVE TypeOK'
  <2>1. e[t] \in Nodes /\ v[t] + 1 \in Nat
    BY <1>9 DEF StoreValue, GoTo, DbInv, WalkInv
  <2>2. heap' = [heap EXCEPT ![e[t]].value = v[t] + 1]
    BY <1>9 DEF StoreValue
  <2>3. heap' \in Seq(Entry) /\ Nodes' = Nodes
    BY <2>1, <2>2, StoredHeap
  <2> QED BY <1>9, <2>3 DEF StoreValue, GoTo, Labels
<1>10. ASSUME NEW t \in Threads, FillEntry(t) PROVE TypeOK'
  <2>1. db_table[Idx(t)] \in Nodes \cup {NULL}
    BY IdxType
  <2> QED BY <1>10, <2>1 DEF FillEntry, GoTo, Labels, Nodes
<1>11. ASSUME NEW t \in Threads, LinkEntry(t) PROVE TypeOK'
  <2>1. call[t].key \in AllKeys
    BY <1>11 DEF LinkEntry, GoTo, DbInv, WalkInv, AllKeys
  <2>2. e[t] \in Nat /\ e[t] \in Nodes \cup {NULL}
    BY DEF Nodes, NULL
  <2>3. LinkFirst(call[t].key, 1, e[t])
    BY <1>11 DEF LinkEntry
  <2>4. /\ heap' \in Seq(Entry)
        /\ Nodes' = Nodes \cup {Len(heap) + 1}
        /\ db_table' \in [Buckets -> Nodes' \cup {NULL}]
    BY <2>1, <2>2, <2>3, LinkedHeap
  <2> QED BY <1>11, <2>4 DEF LinkEntry, GoTo, Labels
<1>12. ASSUME NEW t \in Threads, Unlock(t) PROVE TypeOK'
  BY <1>12 DEF Unlock, GoTo, Labels, Nodes
<1>13. ASSUME NEW t \in Threads, Return(t) PROVE TypeOK'
  BY <1>13 DEF Return, GoTo, Labels, Nodes, NULL
<1>14. CASE UNCHANGED vars
  BY <1>14 DEF vars, Nodes
<1> QED
  BY <1>1, <1>2, <1>3, <1>4, <1>5, <1>6, <1>7, <1>8, <1>9, <1>10, <1>11, <1>12,
     <1>13, <1>14, StepCases

-----------------------------------------------------------------------------
(* The invariant of the table *)

LEMMA DbInvInit == Init => DbInv
<1> SUFFICES ASSUME Init PROVE DbInv
  OBVIOUS
<1>1. LockInv
  BY DatabaseAssumption DEF Init, LockInv, Critical
<1>2. Nodes = {} /\ Len(heap) = 0
  BY DEF Init, Nodes
<1>3. InitInv
  BY <1>2 DEF Init, InitInv
<1>4. ChainsHoldEveryEntry
  BY <1>2 DEF Init, ChainsHoldEveryEntry, NewestBelow, NULL
<1>5. OneEntryPerKey
  BY <1>2 DEF OneEntryPerKey
<1>6. \A t \in Threads : WalkInv(t)
  BY DEF Init, WalkInv
<1> QED BY <1>1, <1>3, <1>4, <1>5, <1>6 DEF DbInv

LEMMA LockStep == TypeOK /\ DbInv /\ [Next]_vars => LockInv'
<1> SUFFICES ASSUME TypeOK, LockInv, InitInv, [Next]_vars PROVE LockInv'
  BY DEF DbInv
<1> USE DatabaseAssumption DEF TypeOK, LockInv, Critical, GoTo, Labels
<1>1. CASE InitInsert
  BY <1>1 DEF InitInsert
<1>2. CASE StartThreads
  BY <1>2 DEF StartThreads
<1>3. ASSUME NEW t \in Threads, NEW k \in Keys, NEW update \in BOOLEAN, Call(t, k, update)
      PROVE  LockInv'
  BY <1>3 DEF Call
<1>4. ASSUME NEW t \in Threads, Lock(t) PROVE LockInv'
  BY <1>4 DEF Lock
<1>5. ASSUME NEW t \in Threads, LoadHead(t) PROVE LockInv'
  BY <1>5 DEF LoadHead
<1>6. ASSUME NEW t \in Threads, ScanNext(t) PROVE LockInv'
  BY <1>6 DEF ScanNext
<1>7. ASSUME NEW t \in Threads, ScanFound(t) PROVE LockInv'
  BY <1>7 DEF ScanFound
<1>8. ASSUME NEW t \in Threads, ScanEnd(t) PROVE LockInv'
  BY <1>8 DEF ScanEnd
<1>9. ASSUME NEW t \in Threads, StoreValue(t) PROVE LockInv'
  BY <1>9 DEF StoreValue
<1>10. ASSUME NEW t \in Threads, FillEntry(t) PROVE LockInv'
  BY <1>10 DEF FillEntry
<1>11. ASSUME NEW t \in Threads, LinkEntry(t) PROVE LockInv'
  BY <1>11 DEF LinkEntry
<1>12. ASSUME NEW t \in Threads, Unlock(t) PROVE LockInv'
  BY <1>12 DEF Unlock
<1>13. ASSUME NEW t \in Threads, Return(t) PROVE LockInv'
  BY <1>13 DEF Return
<1>14. CASE UNCHANGED vars
  BY <1>14 DEF vars
<1> QED
  BY <1>1, <1>2, <1>3, <1>4, <1>5, <1>6, <1>7, <1>8, <1>9, <1>10, <1>11, <1>12,
     <1>13, <1>14, StepCases

\* db_init runs before the threads, and each of its keys is larger than all
\* before it.
LEMMA InitInvStep == TypeOK /\ InitInv /\ [Next]_vars => InitInv'
<1> SUFFICES ASSUME TypeOK, InitInv, [Next]_vars PROVE InitInv'
  OBVIOUS
<1>1. CASE InitInsert
  <2> DEFINE k == loaded * INIT_STRIDE
  <2>1. loaded \in Nat /\ loaded < INIT_ENTRIES /\ loaded' = loaded + 1
    BY <1>1, DatabaseAssumption DEF InitInsert, TypeOK
  <2>2. k \in AllKeys /\ k \in Nat /\ Bucket(k) \in Buckets
    BY <2>1, InitKey, KeysAreNat, BucketType
  <2>3. loaded % 50 \in Nat /\ db_table[Bucket(k)] \in Nat
    BY <2>1, <2>2 DEF TypeOK, Nodes, NULL
  <2>4. LinkFirst(k, loaded % 50, db_table[Bucket(k)])
    BY <1>1 DEF InitInsert
  <2>5. ~started /\ started' = started /\ pc' = pc
    BY <1>1, <2>1, DatabaseAssumption DEF InitInsert, InitInv
  <2>6. (loaded + 1) * INIT_STRIDE = k + INIT_STRIDE /\ INIT_STRIDE \in Nat \ {0}
    BY <2>1, NextInitKey, DatabaseAssumption
  <2>7. \A n \in Nodes : heap[n].key < k /\ heap[n].key \in Nat
    BY <2>5, NodeType, KeysAreNat DEF InitInv
  <2> HIDE DEF k
  <2>8. /\ Nodes' = Nodes \cup {Len(heap) + 1}
        /\ \A n \in Nodes : heap'[n] = heap[n]
        /\ heap'[Len(heap) + 1] = [key |-> k, value |-> loaded % 50,
                                   next |-> db_table[Bucket(k)]]
    BY <2>2, <2>3, <2>4, LinkedHeap DEF TypeOK
  <2>9. ASSUME NEW n \in Nodes' PROVE heap'[n].key < k + INIT_STRIDE
    <3>1. CASE n \in Nodes
      BY <3>1, <2>2, <2>6, <2>7, <2>8
    <3>2. CASE n = Len(heap) + 1
      BY <3>2, <2>2, <2>6, <2>8
    <3> QED BY <3>1, <3>2, <2>8
  <2>10. \A n \in Nodes' : heap'[n].key < loaded' * INIT_STRIDE
    BY <2>1, <2>6, <2>9
  <2> QED BY <2>5, <2>10 DEF InitInv
<1>2. CASE StartThreads
  BY <1>2 DEF StartThreads, InitInv
<1>3. CASE UNCHANGED vars
  BY <1>3 DEF vars, InitInv, Nodes
<1>4. ASSUME started, UNCHANGED <<loaded, started>> PROVE InitInv'
  BY <1>4 DEF InitInv
<1>5. ASSUME NEW t \in Threads, pc[t] # "idle" PROVE started
  BY <1>5 DEF InitInv
<1>6. ASSUME NEW t \in Threads, DbLookupUpdate(t)
      PROVE  started /\ UNCHANGED <<loaded, started>>
  <2>1. pc[t] # "idle"
    BY <1>6 DEF DbLookupUpdate, Lock, LoadHead, ScanNext, ScanFound, ScanEnd, StoreValue,
                FillEntry, LinkEntry, Unlock, Return, GoTo
  <2>2. UNCHANGED <<loaded, started>>
    BY <1>6 DEF DbLookupUpdate, Lock, LoadHead, ScanNext, ScanFound, ScanEnd, StoreValue,
                FillEntry, LinkEntry, Unlock, Return
  <2> QED BY <1>5, <2>1, <2>2
<1>7. ASSUME NEW t \in Threads, NEW k \in Keys, NEW update \in BOOLEAN, Call(t, k, update)
      PROVE  started /\ UNCHANGED <<loaded, started>>
  BY <1>7 DEF Call
<1> QED
  BY <1>1, <1>2, <1>3, <1>4, <1>6, <1>7, Zenon DEF Next, DbInit

-----------------------------------------------------------------------------
(* Chains and keys *)

\* The three things a step may do to the table.
TableSame == UNCHANGED <<heap, db_table>>
TableGrows ==
    \E k \in AllKeys, x \in Nat :
        LinkFirst(k, x, db_table[Bucket(k)]) /\ \A n \in Nodes : heap[n].key # k
ValueChanges ==
    \E m \in Nodes, x \in Nat : heap' = [heap EXCEPT ![m].value = x] /\ UNCHANGED db_table

LEMMA TableStep ==
    TypeOK /\ DbInv /\ [Next]_vars => TableSame \/ TableGrows \/ ValueChanges
<1> SUFFICES ASSUME TypeOK, DbInv, [Next]_vars
             PROVE  TableSame \/ TableGrows \/ ValueChanges
  OBVIOUS
<1>1. CASE InitInsert
  <2> DEFINE k == loaded * INIT_STRIDE
  <2>1. loaded \in Nat /\ loaded < INIT_ENTRIES
    BY <1>1, DatabaseAssumption DEF InitInsert, TypeOK
  <2>2. k \in AllKeys /\ k \in Nat
    BY <2>1, InitKey, KeysAreNat
  <2>3. LinkFirst(k, loaded % 50, db_table[Bucket(k)]) /\ loaded % 50 \in Nat
    BY <1>1, <2>1 DEF InitInsert
  <2>4. ~started
    BY <2>1, DatabaseAssumption DEF DbInv, InitInv
  <2>5. \A n \in Nodes : heap[n].key < k /\ heap[n].key \in Nat
    BY <2>4, NodeType, KeysAreNat DEF DbInv, InitInv
  <2> HIDE DEF k
  <2>6. \A n \in Nodes : heap[n].key # k
    BY <2>2, <2>5
  <2> QED BY <2>2, <2>3, <2>6 DEF TableGrows
<1>2. ASSUME NEW t \in Threads, LinkEntry(t) PROVE TableGrows
  <2>1. pc[t] = "link" /\ LinkFirst(call[t].key, 1, e[t])
    BY <1>2 DEF LinkEntry, GoTo
  <2>2. WalkInv(t)
    BY DEF DbInv
  <2>3. /\ call[t].key \in AllKeys
        /\ e[t] = db_table[Bucket(call[t].key)]
        /\ \A n \in Nodes : heap[n].key # call[t].key
    BY <2>1, <2>2 DEF WalkInv, Idx, AllKeys
  <2> QED BY <2>1, <2>3 DEF TableGrows
<1>3. ASSUME NEW t \in Threads, StoreValue(t) PROVE ValueChanges
  <2>1. /\ pc[t] = "store" /\ UNCHANGED db_table
        /\ heap' = [heap EXCEPT ![e[t]].value = v[t] + 1]
    BY <1>3 DEF StoreValue, GoTo
  <2>2. WalkInv(t)
    BY DEF DbInv
  <2>3. e[t] \in Nodes /\ v[t] + 1 \in Nat
    BY <2>1, <2>2 DEF WalkInv, TypeOK
  <2> QED BY <2>1, <2>3 DEF ValueChanges
<1>4. ASSUME NEW t \in Threads,
             Lock(t) \/ LoadHead(t) \/ ScanNext(t) \/ ScanFound(t) \/ ScanEnd(t)
                \/ FillEntry(t) \/ Unlock(t) \/ Return(t)
      PROVE  TableSame
  BY <1>4 DEF Lock, LoadHead, ScanNext, ScanFound, ScanEnd, FillEntry, Unlock, Return,
              TableSame
<1>5. ASSUME NEW t \in Threads, NEW k \in Keys, NEW update \in BOOLEAN, Call(t, k, update)
      PROVE  TableSame
  BY <1>5 DEF Call, TableSame
<1>6. StartThreads \/ UNCHANGED vars => TableSame
  BY DEF StartThreads, vars, TableSame
<1> QED
  BY <1>1, <1>2, <1>3, <1>4, <1>5, <1>6, Zenon DEF Next, DbInit, DbLookupUpdate

\* NewestBelow, of any heap.
Newest(h, n, b, m) ==
    /\ n \in 0 .. m - 1
    /\ n # NULL => Bucket(h[n].key) = b
    /\ \A i \in n + 1 .. m - 1 : Bucket(h[i].key) # b

\* It depends only on the keys below m.
LEMMA NewestSame ==
    ASSUME NEW h, NEW g, NEW n, NEW b, NEW m \in Nat, Newest(h, n, b, m),
           \A i \in Nat : i > 0 /\ i < m => g[i].key = h[i].key
    PROVE  Newest(g, n, b, m)
<1>1. n \in Nat /\ n < m
  BY DEF Newest
<1>2. n # NULL => Bucket(g[n].key) = b
  BY <1>1 DEF Newest, NULL
<1>3. ASSUME NEW i \in n + 1 .. m - 1 PROVE Bucket(g[i].key) # b
  <2>1. i \in Nat /\ i > 0 /\ i < m
    BY <1>1
  <2>2. g[i].key = h[i].key
    BY <2>1
  <2> QED BY <2>2 DEF Newest
<1> QED BY <1>2, <1>3 DEF Newest

LEMMA ChainsStep ==
    TypeOK /\ ChainsHoldEveryEntry /\ (TableSame \/ TableGrows \/ ValueChanges)
        => ChainsHoldEveryEntry'
<1> SUFFICES ASSUME TypeOK, ChainsHoldEveryEntry, TableSame \/ TableGrows \/ ValueChanges
             PROVE  ChainsHoldEveryEntry'
  OBVIOUS
<1>a. /\ \A c \in Buckets : Newest(heap, db_table[c], c, Len(heap) + 1)
      /\ \A n \in Nodes : Newest(heap, heap[n].next, Bucket(heap[n].key), n)
  BY DEF ChainsHoldEveryEntry, NewestBelow, Newest
<1>b. SUFFICES /\ \A c \in Buckets : Newest(heap', db_table'[c], c, Len(heap') + 1)
               /\ \A n \in Nodes' : Newest(heap', heap'[n].next, Bucket(heap'[n].key), n)
  BY DEF ChainsHoldEveryEntry, NewestBelow, Newest
<1>c. Len(heap) \in Nat /\ \A n : n \in Nodes <=> n \in Nat /\ n > 0 /\ n < Len(heap) + 1
  BY DEF Nodes, TypeOK
<1>1. CASE TableSame
  BY <1>1, <1>a DEF TableSame, Nodes
<1>2. CASE TableGrows
  <2>1. PICK k \in AllKeys, x \in Nat : LinkFirst(k, x, db_table[Bucket(k)])
    BY <1>2 DEF TableGrows
  <2> DEFINE new == Len(heap) + 1
             b == Bucket(k)
  <2>2. b \in Buckets
    BY BucketType, KeysAreNat
  <2>3. db_table[b] \in Nat
    BY <2>2 DEF TypeOK, Nodes, NULL
  <2>4. /\ Nodes' = Nodes \cup {new}
        /\ Len(heap') = new
        /\ \A n \in Nodes : heap'[n] = heap[n]
        /\ heap'[new] = [key |-> k, value |-> x, next |-> db_table[b]]
        /\ db_table' = [db_table EXCEPT ![b] = new]
    <3>1. k \in Nat /\ x \in Nat
      BY KeysAreNat
    <3> QED BY <2>1, <2>3, <3>1, LinkedHeap DEF TypeOK
  <2>5. new \in Nat /\ \A i \in Nat : i > 0 /\ i < new => heap'[i].key = heap[i].key
    BY <1>c, <2>4
  <2>6. heap'[new].key = k /\ heap'[new].next = db_table[b]
    BY <2>4
  <2>7. ASSUME NEW c \in Buckets PROVE Newest(heap', db_table'[c], c, new + 1)
    <3>1. CASE c = b
      <4>1. db_table'[c] = new
        BY <2>2, <2>4, <3>1 DEF TypeOK
      <4> QED BY <2>5, <2>6, <3>1, <4>1 DEF Newest, NULL
    <3>2. CASE c # b
      <4>1. db_table'[c] = db_table[c]
        BY <2>4, <3>2 DEF TypeOK
      <4>2. Newest(heap', db_table[c], c, new)
        BY <1>a, <2>5, NewestSame
      <4>3. Bucket(heap'[new].key) # c
        BY <2>6, <3>2
      <4> HIDE DEF new, b
      <4> QED BY <2>5, <4>1, <4>2, <4>3 DEF Newest, NULL
    <3> QED BY <3>1, <3>2
  <2>8. ASSUME NEW n \in Nodes' PROVE Newest(heap', heap'[n].next, Bucket(heap'[n].key), n)
    <3>1. CASE n \in Nodes
      <4>1. n \in Nat /\ n < new /\ heap'[n] = heap[n]
        BY <1>c, <2>4, <3>1
      <4>2. \A i \in Nat : i > 0 /\ i < n => heap'[i].key = heap[i].key
        BY <2>5, <4>1
      <4>3. Newest(heap', heap[n].next, Bucket(heap[n].key), n)
        BY <1>a, <3>1, <4>1, <4>2, NewestSame
      <4> QED BY <4>1, <4>3
    <3>2. CASE n = new
      <4>1. Newest(heap', db_table[b], b, new)
        BY <1>a, <2>2, <2>5, NewestSame
      <4> QED BY <2>6, <3>2, <4>1
    <3> QED BY <2>4, <3>1, <3>2
  <2> QED BY <2>4, <2>7, <2>8
<1>3. CASE ValueChanges
  <2>1. PICK m \in Nodes, x \in Nat :
            heap' = [heap EXCEPT ![m].value = x] /\ UNCHANGED db_table
    BY <1>3 DEF ValueChanges
  <2>2. /\ Nodes' = Nodes
        /\ Len(heap') = Len(heap)
        /\ \A n \in Nodes : heap'[n].key = heap[n].key /\ heap'[n].next = heap[n].next
    BY <2>1, StoredHeap DEF TypeOK
  <2>3. ASSUME NEW c \in Buckets PROVE Newest(heap', db_table'[c], c, Len(heap') + 1)
    <3>1. \A i \in Nat : i > 0 /\ i < Len(heap) + 1 => heap'[i].key = heap[i].key
      BY <1>c, <2>2
    <3>2. Newest(heap', db_table[c], c, Len(heap) + 1)
      BY <1>a, <1>c, <3>1, NewestSame
    <3> QED BY <2>1, <2>2, <3>2
  <2>4. ASSUME NEW n \in Nodes PROVE Newest(heap', heap'[n].next, Bucket(heap'[n].key), n)
    <3>1. n \in Nat /\ \A i \in Nat : i > 0 /\ i < n => heap'[i].key = heap[i].key
      BY <1>c, <2>2
    <3>2. Newest(heap', heap[n].next, Bucket(heap[n].key), n)
      BY <1>a, <3>1, NewestSame
    <3> QED BY <2>2, <3>2
  <2> QED BY <2>2, <2>3, <2>4
<1> QED BY <1>1, <1>2, <1>3

LEMMA KeysStep ==
    TypeOK /\ OneEntryPerKey /\ (TableSame \/ TableGrows \/ ValueChanges)
        => OneEntryPerKey'
<1> SUFFICES ASSUME TypeOK, OneEntryPerKey, TableSame \/ TableGrows \/ ValueChanges
             PROVE  OneEntryPerKey'
  OBVIOUS
<1>1. CASE TableSame
  BY <1>1 DEF TableSame, OneEntryPerKey, Nodes
<1>2. CASE TableGrows
  <2>1. PICK k \in AllKeys, x \in Nat :
            LinkFirst(k, x, db_table[Bucket(k)]) /\ \A n \in Nodes : heap[n].key # k
    BY <1>2 DEF TableGrows
  <2>2. db_table[Bucket(k)] \in Nat
    BY BucketType, KeysAreNat DEF TypeOK, Nodes, NULL
  <2>3. /\ Nodes' = Nodes \cup {Len(heap) + 1}
        /\ \A n \in Nodes : heap'[n] = heap[n]
        /\ heap'[Len(heap) + 1] = [key |-> k, value |-> x, next |-> db_table[Bucket(k)]]
    BY <2>1, <2>2, LinkedHeap DEF TypeOK
  <2>4. heap'[Len(heap) + 1].key = k
    BY <2>3
  <2> QED BY <2>1, <2>3, <2>4 DEF OneEntryPerKey
<1>3. CASE ValueChanges
  <2>1. PICK m \in Nodes, x \in Nat : heap' = [heap EXCEPT ![m].value = x]
    BY <1>3 DEF ValueChanges
  <2>2. Nodes' = Nodes /\ \A n \in Nodes : heap'[n].key = heap[n].key
    BY <2>1, StoredHeap DEF TypeOK
  <2> QED BY <2>2 DEF OneEntryPerKey
<1> QED BY <1>1, <1>2, <1>3

-----------------------------------------------------------------------------
(* The chain walk *)

\* A step of another thread leaves a walk alone: it changes the table only
\* while it holds the mutex, and then this thread is not between lock and unlock.
LEMMA WalkOther ==
    ASSUME TypeOK, NEW u \in Threads, WalkInv(u),
           call'[u] = call[u], e'[u] = e[u], v'[u] = v[u], pc'[u] = pc[u],
           TableSame \/ pc[u] \notin Critical
    PROVE  WalkInv(u)'
<1>1. CASE TableSame
  BY <1>1 DEF TableSame, WalkInv, Idx, Nodes
<1>2. CASE pc[u] \notin Critical
  BY <1>2 DEF WalkInv, Critical
<1> QED BY <1>1, <1>2

LEMMA WalkStep ==
    ASSUME TypeOK, DbInv, [Next]_vars, NEW u \in Threads
    PROVE  WalkInv(u)'
<1> USE DEF TypeOK
<1>0. WalkInv(u) /\ LockInv /\ ChainsHoldEveryEntry
  BY DEF DbInv
<1>1. CASE InitInsert
  <2>1. pc[u] = "idle"
    BY <1>1, DatabaseAssumption DEF InitInsert, DbInv, InitInv
  <2> QED BY <1>0, <1>1, <2>1, WalkOther DEF InitInsert, Critical
<1>2. CASE StartThreads
  BY <1>0, <1>2, WalkOther DEF StartThreads, TableSame
<1>3. ASSUME NEW t \in Threads, NEW k \in Keys, NEW update \in BOOLEAN, Call(t, k, update)
      PROVE  WalkInv(u)'
  <2>1. CASE u = t
    BY <1>3, <2>1 DEF Call, GoTo, WalkInv
  <2>2. CASE u # t
    BY <1>0, <1>3, <2>2, WalkOther DEF Call, GoTo, TableSame
  <2> QED BY <2>1, <2>2
<1>4. ASSUME NEW t \in Threads, Lock(t) PROVE WalkInv(u)'
  <2>1. CASE u = t
    BY <1>0, <1>4, <2>1 DEF Lock, GoTo, WalkInv
  <2>2. CASE u # t
    BY <1>0, <1>4, <2>2, WalkOther DEF Lock, GoTo, TableSame
  <2> QED BY <2>1, <2>2
<1>5. ASSUME NEW t \in Threads, LoadHead(t) PROVE WalkInv(u)'
  <2>1. CASE u = t
    <3>1. Idx(t) \in Buckets /\ NewestBelow(db_table[Idx(t)], Idx(t), Len(heap) + 1)
      BY <1>0, IdxType DEF ChainsHoldEveryEntry
    <3>2. /\ call' = call /\ heap' = heap
          /\ pc'[t] = "scan" /\ pc[t] = "head" /\ e'[t] = db_table[Idx(t)]
      BY <1>5 DEF LoadHead, GoTo
    <3>3. call[t].key \in Keys
      BY <1>0, <2>1, <3>2 DEF WalkInv
    <3>4. e'[t] # NULL => Bucket(heap[e'[t]].key) = Idx(t)
      BY <3>1, <3>2 DEF NewestBelow
    <3>5. ASSUME NEW n \in Nodes, n > e'[t] PROVE heap[n].key # call[t].key
      <4>1. n \in db_table[Idx(t)] + 1 .. Len(heap) + 1 - 1
        BY <3>1, <3>2, <3>5 DEF Nodes, NewestBelow
      <4>2. Bucket(heap[n].key) # Bucket(call[t].key)
        BY <3>1, <4>1 DEF NewestBelow, Idx
      <4> QED BY <4>2
    <3> QED BY <2>1, <3>2, <3>3, <3>4, <3>5 DEF WalkInv, Idx, Nodes
  <2>2. CASE u # t
    BY <1>0, <1>5, <2>2, WalkOther DEF LoadHead, GoTo, TableSame
  <2> QED BY <2>1, <2>2
<1>6. ASSUME NEW t \in Threads, ScanNext(t) PROVE WalkInv(u)'
  <2>1. CASE u = t
    <3>1. /\ call' = call /\ heap' = heap
          /\ pc'[t] = "scan" /\ pc[t] = "scan"
          /\ e[t] \in Nodes /\ e[t] # NULL
          /\ heap[e[t]].key # call[t].key
          /\ e'[t] = heap[e[t]].next
      BY <1>6 DEF ScanNext, GoTo
    <3>2. /\ call[t].key \in Keys
          /\ Bucket(heap[e[t]].key) = Idx(t)
          /\ \A n \in Nodes : n > e[t] => heap[n].key # call[t].key
      BY <1>0, <2>1, <3>1 DEF WalkInv
    <3>3. NewestBelow(e'[t], Idx(t), e[t])
      BY <1>0, <3>1, <3>2 DEF ChainsHoldEveryEntry
    <3>4. e'[t] # NULL => Bucket(heap[e'[t]].key) = Idx(t)
      BY <3>3 DEF NewestBelow
    <3>5. ASSUME NEW n \in Nodes, n > e'[t] PROVE heap[n].key # call[t].key
      <4>1. CASE n < e[t]
        <5>1. n \in e'[t] + 1 .. e[t] - 1
          BY <3>1, <3>3, <3>5, <4>1 DEF Nodes, NewestBelow
        <5>2. Bucket(heap[n].key) # Bucket(call[t].key)
          BY <3>3, <5>1 DEF NewestBelow, Idx
        <5> QED BY <5>2
      <4>2. n = e[t] \/ n > e[t] \/ n < e[t]
        BY <3>1 DEF Nodes
      <4> QED BY <3>1, <3>2, <4>1, <4>2
    <3> QED BY <2>1, <3>1, <3>2, <3>4, <3>5 DEF WalkInv, Idx, Nodes
  <2>2. CASE u # t
    BY <1>0, <1>6, <2>2, WalkOther DEF ScanNext, GoTo, TableSame
  <2> QED BY <2>1, <2>2
<1>7. ASSUME NEW t \in Threads, ScanFound(t) PROVE WalkInv(u)'
  <2>1. CASE u = t
    BY <1>0, <1>7, <2>1 DEF ScanFound, GoTo, WalkInv, Nodes
  <2>2. CASE u # t
    BY <1>0, <1>7, <2>2, WalkOther DEF ScanFound, GoTo, TableSame
  <2> QED BY <2>1, <2>2
<1>8. ASSUME NEW t \in Threads, ScanEnd(t) PROVE WalkInv(u)'
  <2>1. CASE u = t
    BY <1>0, <1>8, <2>1 DEF ScanEnd, GoTo, WalkInv, Nodes, NULL
  <2>2. CASE u # t
    BY <1>0, <1>8, <2>2, WalkOther DEF ScanEnd, GoTo, TableSame
  <2> QED BY <2>1, <2>2
<1>9. ASSUME NEW t \in Threads, StoreValue(t) PROVE WalkInv(u)'
  <2>1. CASE u = t
    BY <1>0, <1>9, <2>1 DEF StoreValue, GoTo, WalkInv
  <2>2. CASE u # t
    <3>1. pc[u] \notin Critical
      BY <1>0, <1>9, <2>2 DEF StoreValue, GoTo, LockInv, Critical
    <3> QED BY <1>0, <1>9, <2>2, <3>1, WalkOther DEF StoreValue, GoTo
  <2> QED BY <2>1, <2>2
<1>10. ASSUME NEW t \in Threads, FillEntry(t) PROVE WalkInv(u)'
  <2>1. CASE u = t
    BY <1>0, <1>10, <2>1 DEF FillEntry, GoTo, WalkInv, Nodes, Idx
  <2>2. CASE u # t
    BY <1>0, <1>10, <2>2, WalkOther DEF FillEntry, GoTo, TableSame
  <2> QED BY <2>1, <2>2
<1>11. ASSUME NEW t \in Threads, LinkEntry(t) PROVE WalkInv(u)'
  <2>1. CASE u = t
    BY <1>0, <1>11, <2>1 DEF LinkEntry, GoTo, WalkInv
  <2>2. CASE u # t
    <3>1. pc[u] \notin Critical
      BY <1>0, <1>11, <2>2 DEF LinkEntry, GoTo, LockInv, Critical
    <3> QED BY <1>0, <1>11, <2>2, <3>1, WalkOther DEF LinkEntry, GoTo
  <2> QED BY <2>1, <2>2
<1>12. ASSUME NEW t \in Threads, Unlock(t) PROVE WalkInv(u)'
  <2>1. CASE u = t
    BY <1>0, <1>12, <2>1 DEF Unlock, GoTo, WalkInv
  <2>2. CASE u # t
    BY <1>0, <1>12, <2>2, WalkOther DEF Unlock, GoTo, TableSame
  <2> QED BY <2>1, <2>2
<1>13. ASSUME NEW t \in Threads, Return(t) PROVE WalkInv(u)'
  <2>1. CASE u = t
    BY <1>0, <1>13, <2>1 DEF Return, GoTo, WalkInv
  <2>2. CASE u # t
    BY <1>0, <1>13, <2>2, WalkOther DEF Return, GoTo, TableSame
  <2> QED BY <2>1, <2>2
<1>14. CASE UNCHANGED vars
  BY <1>0, <1>14, WalkOther DEF vars, TableSame
<1> QED
  BY <1>1, <1>2, <1>3, <1>4, <1>5, <1>6, <1>7, <1>8, <1>9, <1>10, <1>11, <1>12,
     <1>13, <1>14, StepCases

LEMMA DbInvStep == TypeOK /\ DbInv /\ [Next]_vars => DbInv'
<1> SUFFICES ASSUME TypeOK, DbInv, [Next]_vars PROVE DbInv'
  OBVIOUS
<1>1. LockInv'
  BY LockStep
<1>2. InitInv'
  BY InitInvStep DEF DbInv
<1>3. ChainsHoldEveryEntry' /\ OneEntryPerKey'
  BY TableStep, ChainsStep, KeysStep DEF DbInv
<1>4. \A t \in Threads : WalkInv(t)'
  BY WalkStep
<1> QED BY <1>1, <1>2, <1>3, <1>4 DEF DbInv

\* The types of the table and the invariant of its lock, chains and walks, for
\* every number of threads, keys, buckets and initial entries.
THEOREM TableInvariant == Spec => [](TypeOK /\ DbInv)
<1>1. Init => TypeOK /\ DbInv
  BY TypeInit, DbInvInit
<1>2. TypeOK /\ DbInv /\ [Next]_vars => TypeOK' /\ DbInv'
  BY TypeStep, DbInvStep
<1> QED BY <1>1, <1>2, PTL DEF Spec

\* No node pointer that db_lookup_update follows or writes through is wild.
THEOREM TypeCorrect == Spec => []TypeOK
BY TableInvariant, PTL

\* No insertion loses another one, and no chain has a cycle.
THEOREM ChainsAreWhole == Spec => []ChainsHoldEveryEntry
<1>1. DbInv => ChainsHoldEveryEntry
  BY DEF DbInv
<1> QED BY <1>1, TableInvariant, PTL

\* Two threads that miss the same key do not both insert it.
THEOREM NoDuplicateKey == Spec => []OneEntryPerKey
<1>1. DbInv => OneEntryPerKey
  BY DEF DbInv
<1> QED BY <1>1, TableInvariant, PTL

-----------------------------------------------------------------------------
(* The table implements the atomic map *)

Store == [k \in AllKeys |-> ValueOf(k)]
Op == [t \in Threads |-> OpOf(t)]

\* What the walk finds is what the map holds.
LEMMA ValueOfNode ==
    ASSUME OneEntryPerKey, NEW n \in Nodes
    PROVE  ValueOf(heap[n].key) = heap[n].value
<1> DEFINE m == CHOOSE i \in Nodes : heap[i].key = heap[n].key
<1>1. m \in Nodes /\ heap[m].key = heap[n].key
  OBVIOUS
<1>2. m = n
  BY <1>1 DEF OneEntryPerKey
<1>3. ValueOf(heap[n].key) = heap[m].value
  BY DEF ValueOf
<1> QED BY <1>2, <1>3

LEMMA ValueOfMissing ==
    ASSUME NEW k, \A n \in Nodes : heap[n].key # k
    PROVE  ValueOf(k) = Absent
BY DEF ValueOf

\* The map stays as it is when the heap does.
LEMMA StoreSame == ASSUME UNCHANGED heap PROVE UNCHANGED Store
BY DEF Store, ValueOf, Nodes

\* A new node adds its key to the map.
LEMMA StoreLink ==
    ASSUME TypeOK, OneEntryPerKey, OneEntryPerKey', NEW k \in AllKeys, NEW x \in Nat,
           LinkFirst(k, x, db_table[Bucket(k)]), \A n \in Nodes : heap[n].key # k
    PROVE  Store' = [Store EXCEPT ![k] = x]
<1>1. db_table[Bucket(k)] \in Nat
  BY BucketType, KeysAreNat DEF TypeOK, Nodes, NULL
<1>2. /\ Nodes' = Nodes \cup {Len(heap) + 1}
      /\ \A n \in Nodes : heap'[n] = heap[n]
      /\ heap'[Len(heap) + 1] = [key |-> k, value |-> x, next |-> db_table[Bucket(k)]]
  BY <1>1, LinkedHeap DEF TypeOK
<1>3. heap'[Len(heap) + 1].key = k /\ heap'[Len(heap) + 1].value = x
  BY <1>2
<1>4. \A n \in Nodes' : ValueOf(heap[n].key)' = heap'[n].value
  <2> TAKE n \in Nodes'
  <2> DEFINE m == CHOOSE i \in Nodes' : heap'[i].key = heap'[n].key
  <2>1. m \in Nodes' /\ heap'[m].key = heap'[n].key
    OBVIOUS
  <2>2. m = n
    BY <2>1 DEF OneEntryPerKey
  <2>3. ValueOf(heap[n].key)' = heap'[m].value
    BY DEF ValueOf
  <2> QED BY <2>2, <2>3
<1>5. ASSUME NEW c \in AllKeys PROVE ValueOf(c)' = IF c = k THEN x ELSE ValueOf(c)
  <2>1. CASE c = k
    BY <1>2, <1>3, <1>4, <2>1
  <2>2. CASE c # k /\ \E n \in Nodes : heap[n].key = c
    <3>1. PICK n \in Nodes : heap[n].key = c
      BY <2>2
    <3>2. ValueOf(c) = heap[n].value
      BY <3>1, ValueOfNode
    <3>3. heap'[n] = heap[n] /\ n \in Nodes'
      BY <1>2
    <3>4. ValueOf(c)' = heap'[n].value
      BY <1>4, <3>1, <3>3
    <3> QED BY <2>2, <3>2, <3>3, <3>4
  <2>3. CASE c # k /\ \A n \in Nodes : heap[n].key # c
    <3>1. \A n \in Nodes' : heap'[n].key # c
      BY <1>2, <1>3, <2>3
    <3>2. ValueOf(c)' = Absent
      BY <3>1 DEF ValueOf
    <3> QED BY <2>3, <3>2, ValueOfMissing
  <2> QED BY <2>1, <2>2, <2>3
<1> QED BY <1>5 DEF Store

\* A new value of a node becomes the value of its key.
LEMMA StoreUpdate ==
    ASSUME TypeOK, OneEntryPerKey, OneEntryPerKey', NEW m \in Nodes, NEW x \in Nat,
           heap' = [heap EXCEPT ![m].value = x]
    PROVE  Store' = [Store EXCEPT ![heap[m].key] = x]
<1>1. /\ Nodes' = Nodes
      /\ \A n \in Nodes : /\ heap'[n].key = heap[n].key
                          /\ heap'[n].value = IF n = m THEN x ELSE heap[n].value
  <2>1. heap \in Seq(Entry)
    BY DEF TypeOK
  <2> QED BY <2>1, StoredHeap
<1>2. ASSUME NEW c \in AllKeys PROVE ValueOf(c)' = IF c = heap[m].key THEN x ELSE ValueOf(c)
  <2>1. CASE \E n \in Nodes : heap[n].key = c
    <3>1. PICK n \in Nodes : heap[n].key = c
      BY <2>1
    <3> DEFINE i == CHOOSE j \in Nodes' : heap'[j].key = c
    <3>2. i \in Nodes' /\ heap'[i].key = c
      BY <1>1, <3>1
    <3>3. i = n
      BY <1>1, <3>1, <3>2 DEF OneEntryPerKey
    <3>4. ValueOf(c)' = heap'[i].value
      BY <3>2 DEF ValueOf
    <3>5. ValueOf(c) = heap[n].value
      BY <3>1, ValueOfNode
    <3>6. n = m <=> c = heap[m].key
      BY <3>1 DEF OneEntryPerKey
    <3> QED BY <1>1, <3>3, <3>4, <3>5, <3>6
  <2>2. CASE \A n \in Nodes : heap[n].key # c
    <3>1. \A n \in Nodes' : heap'[n].key # c
      BY <1>1, <2>2
    <3>2. ValueOf(c)' = Absent
      BY <3>1 DEF ValueOf
    <3> QED BY <2>2, <3>2, ValueOfMissing
  <2> QED BY <2>1, <2>2
<1> QED BY <1>2 DEF Store

\* The calls as the map sees them: a step of thread t changes t's only.
LEMMA OpStep ==
    ASSUME TypeOK, NEW t \in Threads,
           \A u \in Threads \ {t} : pc'[u] = pc[u] /\ call'[u] = call[u] /\ v'[u] = v[u]
    PROVE  Op' = [Op EXCEPT ![t] = OpOf(t)']
BY DEF Op, OpOf

LEMMA OpSame == ASSUME UNCHANGED <<pc, call, v>> PROVE UNCHANGED Op
BY DEF Op, OpOf

LEMMA OpOfCases ==
    ASSUME NEW t \in Threads
    PROVE  /\ pc[t] = "idle" => OpOf(t) = KV!Idle
           /\ pc[t] \in {"unlock", "return"} => OpOf(t) = KV!Answered(v[t])
           /\ pc[t] \in {"lock", "head", "scan", "store", "fill", "link"} =>
                  OpOf(t) = KV!Called(call[t].key, call[t].do_update)
BY DEF OpOf, KV!Idle, KV!Answered, KV!Called

LEMMA OpOfCasesPrime ==
    ASSUME NEW t \in Threads
    PROVE  /\ pc'[t] = "idle" => OpOf(t)' = KV!Idle
           /\ pc'[t] \in {"unlock", "return"} => OpOf(t)' = KV!Answered(v'[t])
           /\ pc'[t] \in {"lock", "head", "scan", "store", "fill", "link"} =>
                  OpOf(t)' = KV!Called(call'[t].key, call'[t].do_update)
BY DEF OpOf, KV!Idle, KV!Answered, KV!Called

\* Steps on the way to the point where the call takes effect.
LEMMA Stutter ==
    ASSUME TypeOK, NEW t \in Threads, UNCHANGED <<heap, started, call>>,
           OpOf(t)' = OpOf(t),
           \A u \in Threads \ {t} : pc'[u] = pc[u] /\ v'[u] = v[u]
    PROVE  UNCHANGED <<Store, started, Op>>
<1>1. Store' = Store
  BY StoreSame
<1>2. Op' = [Op EXCEPT ![t] = OpOf(t)]
  BY OpStep
<1>3. Op' = Op
  BY <1>2 DEF Op
<1> QED BY <1>1, <1>3

LEMMA StoreInit == Init => KV!Init
<1> SUFFICES ASSUME Init PROVE KV!Init
  OBVIOUS
<1>1. Nodes = {}
  BY DEF Init, Nodes
<1>2. \A k \in AllKeys : ValueOf(k) = Absent
  BY <1>1 DEF ValueOf
<1>3. \A t \in Threads : OpOf(t) = KV!Idle
  BY OpOfCases DEF Init
<1> QED BY <1>2, <1>3 DEF Init, KV!Init

\* Every statement is a step of the map or leaves it alone: the read of a value
\* that stays, the write of one that changes and the link of a new entry are
\* the points where a call takes effect.
LEMMA StoreStep ==
    TypeOK /\ DbInv /\ DbInv' /\ [Next]_vars => [KV!Next]_(KV!kvVars)
<1> SUFFICES ASSUME TypeOK, DbInv, DbInv', [Next]_vars
             PROVE  KV!Next \/ UNCHANGED <<Store, started, Op>>
  BY DEF KV!kvVars, Store, Op
<1> USE DEF TypeOK
<1>0. OneEntryPerKey /\ OneEntryPerKey'
  BY DEF DbInv
<1>1. CASE InitInsert
  <2> DEFINE k == loaded * INIT_STRIDE
             x == loaded % 50
  <2>1. loaded \in Nat /\ loaded < INIT_ENTRIES /\ ~started
    BY <1>1, DatabaseAssumption DEF InitInsert, DbInv, InitInv
  <2>2. k \in AllKeys /\ k \in Nat /\ x \in Nat /\ x \in 0 .. 49
    <3>1. k \in AllKeys /\ k \in Nat
      BY <2>1, InitKey, KeysAreNat
    <3>2. x \in 0 .. 49
      BY <2>1
    <3> QED BY <3>1, <3>2
  <2>3. LinkFirst(k, x, db_table[Bucket(k)]) /\ UNCHANGED <<started, pc, call, v>>
    BY <1>1 DEF InitInsert
  <2>4. \A n \in Nodes : heap[n].key < k /\ heap[n].key \in Nat
    BY <2>1, NodeType, KeysAreNat DEF DbInv, InitInv
  <2> HIDE DEF k, x
  <2>5. \A n \in Nodes : heap[n].key # k
    BY <2>2, <2>4
  <2>6. Store' = [Store EXCEPT ![k] = x] /\ Store[k] = Absent
    BY <1>0, <2>2, <2>3, <2>5, StoreLink, ValueOfMissing DEF Store
  <2>7. Op' = Op
    BY <2>3, OpSame
  <2>8. KV!Preload(k, x)
    BY <2>1, <2>3, <2>6, <2>7 DEF KV!Preload, Store, Op
  <2> QED BY <2>2, <2>8 DEF KV!Next, KV!InitialValues
<1>2. CASE StartThreads
  <2>1. UNCHANGED <<heap, pc, call, v>> /\ ~started /\ started' = TRUE
    BY <1>2 DEF StartThreads
  <2>2. Store' = Store /\ Op' = Op
    BY <2>1, StoreSame, OpSame
  <2>3. KV!Open
    BY <2>1, <2>2 DEF KV!Open, Store, Op
  <2> QED BY <2>3 DEF KV!Next
<1>3. ASSUME NEW t \in Threads, NEW k \in Keys, NEW update \in BOOLEAN, Call(t, k, update)
      PROVE  KV!Next
  <2>1. /\ started /\ UNCHANGED <<heap, started, v>>
        /\ pc[t] = "idle" /\ pc' = [pc EXCEPT ![t] = "lock"]
        /\ call' = [call EXCEPT ![t] = [key |-> k, do_update |-> update]]
    BY <1>3 DEF Call, GoTo
  <2>2. call'[t].key = k /\ call'[t].do_update = update
    BY <2>1
  <2>3. pc'[t] = "lock"
    BY <2>1
  <2>4. OpOf(t) = KV!Idle /\ OpOf(t)' = KV!Called(k, update)
    BY <2>1, <2>2, <2>3, OpOfCases, OpOfCasesPrime
  <2>5. Op' = [Op EXCEPT ![t] = KV!Called(k, update)]
    BY <2>1, <2>4, OpStep
  <2>6. Store' = Store
    BY <2>1, StoreSame
  <2>7. KV!Invoke(t, k, update)
    BY <2>1, <2>4, <2>5, <2>6 DEF KV!Invoke, Store, Op
  <2> QED BY <2>7 DEF KV!Next, AllKeys
<1>4. ASSUME NEW t \in Threads, Lock(t) \/ LoadHead(t) \/ ScanNext(t) \/ ScanEnd(t)
                                  \/ FillEntry(t) \/ Unlock(t)
      PROVE  UNCHANGED <<Store, started, Op>>
  <2>1. /\ UNCHANGED <<heap, started, call, v>>
        /\ \A u \in Threads \ {t} : pc'[u] = pc[u]
        /\ \/ /\ pc[t] \in {"lock", "head", "scan", "store", "fill", "link"}
              /\ pc'[t] \in {"lock", "head", "scan", "store", "fill", "link"}
           \/ pc[t] \in {"unlock", "return"} /\ pc'[t] \in {"unlock", "return"}
    BY <1>4 DEF Lock, LoadHead, ScanNext, ScanEnd, FillEntry, Unlock, GoTo
  <2>2. OpOf(t)' = OpOf(t)
    BY <2>1, OpOfCases, OpOfCasesPrime
  <2> QED BY <2>1, <2>2, Stutter
<1>5. ASSUME NEW t \in Threads, ScanFound(t)
      PROVE  KV!Next \/ UNCHANGED <<Store, started, Op>>
  <2> DEFINE k == call[t].key
  <2>1. /\ UNCHANGED <<heap, started, call>>
        /\ pc[t] = "scan"
        /\ \A u \in Threads \ {t} : pc'[u] = pc[u] /\ v'[u] = v[u]
        /\ e[t] \in Nodes /\ heap[e[t]].key = k
        /\ pc'[t] = (IF call[t].do_update THEN "store" ELSE "unlock")
        /\ v'[t] = heap[e[t]].value
    BY <1>5 DEF ScanFound, GoTo
  <2>2. CASE call[t].do_update
    <3>1. OpOf(t)' = OpOf(t)
      BY <2>1, <2>2, OpOfCases, OpOfCasesPrime
    <3> QED BY <2>1, <3>1, Stutter
  <2>3. CASE ~call[t].do_update
    <3>1. WalkInv(t) /\ call[t].do_update \in BOOLEAN
      BY DEF DbInv
    <3>2. k \in AllKeys /\ call[t].do_update = FALSE
      BY <2>1, <2>3, <3>1 DEF WalkInv, AllKeys
    <3>3. heap[e[t]].value \in Nat /\ ValueOf(k) = heap[e[t]].value
      BY <1>0, <2>1, NodeType, ValueOfNode
    <3>4. Store[k] = heap[e[t]].value /\ Store[k] # Absent
      BY <3>2, <3>3, DatabaseAssumption DEF Store
    <3>5. OpOf(t) = KV!Called(k, FALSE) /\ OpOf(t)' = KV!Answered(Store[k])
      BY <2>1, <2>3, <3>2, <3>4, OpOfCases, OpOfCasesPrime
    <3>6. Op' = [Op EXCEPT ![t] = KV!Answered(Store[k])]
      BY <2>1, <3>5, OpStep
    <3>7. Store' = [Store EXCEPT ![k] = Store[k]]
      BY <2>1, StoreSame DEF Store
    <3>8. KV!Hit(t, k, FALSE)
      BY <2>1, <3>4, <3>5, <3>6, <3>7 DEF KV!Hit, Store, Op
    <3> QED BY <3>2, <3>8 DEF KV!Next
  <2> QED BY <2>2, <2>3
<1>6. ASSUME NEW t \in Threads, StoreValue(t) PROVE KV!Next
  <2> DEFINE k == call[t].key
             x == v[t] + 1
  <2>1. /\ UNCHANGED <<started, call, v>>
        /\ pc[t] = "store" /\ pc'[t] = "unlock"
        /\ \A u \in Threads \ {t} : pc'[u] = pc[u]
        /\ heap' = [heap EXCEPT ![e[t]].value = x]
    BY <1>6 DEF StoreValue, GoTo
  <2>2. WalkInv(t) /\ call[t].do_update \in BOOLEAN /\ x \in Nat /\ v[t] \in Nat
    BY DEF DbInv
  <2>3. /\ k \in AllKeys /\ call[t].do_update = TRUE
        /\ e[t] \in Nodes /\ heap[e[t]].key = k /\ heap[e[t]].value = v[t]
    BY <2>1, <2>2 DEF WalkInv, AllKeys
  <2>4. ValueOf(k) = v[t]
    BY <1>0, <2>3, ValueOfNode
  <2>5. Store[k] = v[t] /\ Store[k] # Absent
    BY <2>2, <2>3, <2>4, DatabaseAssumption DEF Store
  <2>6. Store' = [Store EXCEPT ![k] = Store[k] + 1]
    <3>1. heap' = [heap EXCEPT ![e[t]].value = x] /\ x \in Nat
      BY <2>1, <2>2
    <3>2. x = Store[k] + 1
      BY <2>5
    <3> HIDE DEF x
    <3>3. Store' = [Store EXCEPT ![heap[e[t]].key] = x]
      BY <1>0, <2>3, <3>1, StoreUpdate
    <3> QED BY <2>3, <3>2, <3>3
  <2>7. OpOf(t) = KV!Called(k, TRUE) /\ OpOf(t)' = KV!Answered(Store[k])
    BY <2>1, <2>3, <2>5, OpOfCases, OpOfCasesPrime
  <2>8. Op' = [Op EXCEPT ![t] = KV!Answered(Store[k])]
    BY <2>1, <2>7, OpStep
  <2>9. KV!Hit(t, k, TRUE)
    BY <2>1, <2>5, <2>6, <2>7, <2>8 DEF KV!Hit, Store, Op
  <2> QED BY <2>3, <2>9 DEF KV!Next
<1>7. ASSUME NEW t \in Threads, LinkEntry(t) PROVE KV!Next
  <2> DEFINE k == call[t].key
             update == call[t].do_update
  <2>1. /\ UNCHANGED <<started, call>>
        /\ pc[t] = "link" /\ pc'[t] = "unlock" /\ v'[t] = 1
        /\ \A u \in Threads \ {t} : pc'[u] = pc[u] /\ v'[u] = v[u]
        /\ LinkFirst(k, 1, e[t])
    BY <1>7 DEF LinkEntry, GoTo
  <2>2. WalkInv(t) /\ update \in BOOLEAN
    BY DEF DbInv
  <2>3. /\ k \in AllKeys /\ e[t] = db_table[Bucket(k)]
        /\ \A n \in Nodes : heap[n].key # k
    BY <2>1, <2>2 DEF WalkInv, AllKeys, Idx
  <2>4. Store' = [Store EXCEPT ![k] = 1] /\ Store[k] = Absent
    BY <1>0, <2>1, <2>3, StoreLink, ValueOfMissing DEF Store
  <2>5. OpOf(t) = KV!Called(k, update) /\ OpOf(t)' = KV!Answered(1)
    BY <2>1, OpOfCases, OpOfCasesPrime
  <2>6. Op' = [Op EXCEPT ![t] = KV!Answered(1)]
    BY <2>1, <2>5, OpStep
  <2>7. KV!Miss(t, k, update)
    BY <2>1, <2>4, <2>5, <2>6 DEF KV!Miss, Store, Op
  <2> QED BY <2>2, <2>3, <2>7 DEF KV!Next
<1>8. ASSUME NEW t \in Threads, Return(t) PROVE KV!Next
  <2>1. /\ UNCHANGED <<heap, started, call>>
        /\ pc[t] = "return" /\ pc'[t] = "idle"
        /\ \A u \in Threads \ {t} : pc'[u] = pc[u] /\ v'[u] = v[u]
    BY <1>8 DEF Return, GoTo
  <2>2. OpOf(t) = KV!Answered(v[t]) /\ OpOf(t)' = KV!Idle
    BY <2>1, OpOfCases, OpOfCasesPrime
  <2>3. Op' = [Op EXCEPT ![t] = KV!Idle] /\ Store' = Store
    BY <2>1, <2>2, OpStep, StoreSame
  <2>4. KV!Return(t)
    BY <2>1, <2>2, <2>3 DEF KV!Return, KV!Answered, Store, Op
  <2> QED BY <2>4 DEF KV!Next
<1>9. CASE UNCHANGED vars
  BY <1>9, StoreSame, OpSame DEF vars
<1> QED
  BY <1>1, <1>2, <1>3, <1>4, <1>5, <1>6, <1>7, <1>8, <1>9, StepCases

\* The hash table under its mutex is the atomic map, for every number of
\* threads, keys, buckets and initial entries: no update is lost.
THEOREM ImplementsStore == Spec => AtomicStore
<1>1. TypeOK /\ DbInv /\ [Next]_vars /\ DbInv' => [KV!Next]_(KV!kvVars)
  BY StoreStep
<1>2. Spec => KV!Init
  BY StoreInit DEF Spec
<1> QED BY <1>1, <1>2, TableInvariant, PTL DEF Spec, AtomicStore, KV!Spec
=============================================================================
