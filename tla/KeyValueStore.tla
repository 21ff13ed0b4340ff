---------------------------- MODULE KeyValueStore ----------------------------
(***************************************************************************)
(* What db_lookup_update promises the workers of the server simulator: an  *)
(* atomic map from keys to values.  A call takes effect once, at one       *)
(* instant between its invocation and its return; it answers the value it  *)
(* found, and adds one to it when it was asked to update.  The first call  *)
(* for a key creates it with value 1 and answers 1, update or not.         *)
(***************************************************************************)
EXTENDS Integers

CONSTANTS Threads,   \* the callers
          Keys,      \* the keys in use
          Absent     \* the value of a key the store does not hold

VARIABLES store,     \* key -> value, or Absent
          serving,   \* the initial contents are complete
          op         \* op[t]: where thread t's call stands

kvVars == <<store, serving, op>>

InitialValues == 0 .. 49

Idle == [phase |-> "idle"]
Called(k, update) == [phase |-> "called", key |-> k, do_update |-> update]
Answered(v) == [phase |-> "answered", value |-> v]

Init ==
    /\ store = [k \in Keys |-> Absent]
    /\ serving = FALSE
    /\ op = [t \in Threads |-> Idle]

Preload(k, v) ==
    /\ ~serving
    /\ store[k] = Absent
    /\ store' = [store EXCEPT ![k] = v]
    /\ UNCHANGED <<serving, op>>

Open ==
    /\ ~serving
    /\ serving' = TRUE
    /\ UNCHANGED <<store, op>>

Invoke(t, k, update) ==
    /\ serving
    /\ op[t] = Idle
    /\ op' = [op EXCEPT ![t] = Called(k, update)]
    /\ UNCHANGED <<store, serving>>

\* The instant the call of t for k takes effect.
Hit(t, k, update) ==
    /\ op[t] = Called(k, update)
    /\ store[k] # Absent
    /\ store' = [store EXCEPT ![k] = IF update THEN @ + 1 ELSE @]
    /\ op' = [op EXCEPT ![t] = Answered(store[k])]
    /\ UNCHANGED serving

\* Fault: an entry another call has just created is overlooked, and created again.
MissAgain(t, k, update) ==
    /\ op[t] = Called(k, update)
    /\ store[k] \in {Absent, 1}
    /\ store' = [store EXCEPT ![k] = 1]
    /\ op' = [op EXCEPT ![t] = Answered(1)]
    /\ UNCHANGED serving

Miss(t, k, update) ==
    /\ op[t] = Called(k, update)
    /\ store[k] = Absent
    /\ store' = [store EXCEPT ![k] = 1]
    /\ op' = [op EXCEPT ![t] = Answered(1)]
    /\ UNCHANGED serving

Return(t) ==
    /\ op[t].phase = "answered"
    /\ op' = [op EXCEPT ![t] = Idle]
    /\ UNCHANGED <<store, serving>>

Next ==
    \/ Open
    \/ \E k \in Keys, v \in InitialValues : Preload(k, v)
    \/ \E t \in Threads, k \in Keys, update \in BOOLEAN :
          Invoke(t, k, update) \/ Hit(t, k, update) \/ Miss(t, k, update)
    \/ \E t \in Threads : Return(t)

Spec == Init /\ [][Next]_kvVars
=============================================================================
