-------------------------------- MODULE Maps --------------------------------
(***************************************************************************)
(* std::map of C++ and dict of Python: functions that grow.                *)
(***************************************************************************)

EmptyMap == [x \in {} |-> {}]

\* map[key] = value
Put(map, key, value) ==
    [x \in DOMAIN map \cup {key} |-> IF x = key THEN value ELSE map[x]]
=============================================================================
