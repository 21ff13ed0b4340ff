----------------------------- MODULE PcMapping -----------------------------
(***************************************************************************)
(* map_bundles_to_pcs.py: it takes the address of every function from the  *)
(* disassembly of a binary, lets each function reach up to the next one,   *)
(* and writes these ranges into the bundles of bundles.json.               *)
(*                                                                         *)
(* A Python dict is its keys in order of insertion and their values.  Of   *)
(* the disassembly only the lines "address <name>:" matter.  What json     *)
(* reads and writes keeps the order of the keys.                           *)
(***************************************************************************)
EXTENDS Naturals, Sequences, SequencesExt, FiniteSets, Maps

CONSTANTS Names,        \* all function names, in alphabetical order
          LastFunction  \* length the last function is taken to have, 4096

VARIABLES labels,         \* the label lines of the disassembly, <<address, name>>
          entries,        \* the dicts of bundles.json
          phase, k,         \* the loop that runs, and its position
          func_order,       \* the labels read, sorted after the first loop
          func_ranges,      \* name -> <<start, end>>
          out               \* the dicts of bundles_pc.json

vars == <<labels, entries, phase, k, func_order, func_ranges, out>>

Init ==
    /\ labels = <<>>
    /\ entries = <<>>
    /\ phase = "start"
    /\ k = 0
    /\ func_order = <<>>
    /\ func_ranges = EmptyMap
    /\ out = <<>>

\* The script is run on a binary and a bundles.json.
Start(disassembly, bundles) ==
    /\ phase = "start"
    /\ labels' = disassembly
    /\ entries' = bundles
    /\ phase' = "read"
    /\ UNCHANGED <<k, func_order, func_ranges, out>>

\* Fault, for a mutant of SetItem: a key that is there moves to the end.
SetItemAtEnd(d, key, value) ==
    [keys |-> Append(Remove(d.keys, key), key), values |-> Put(d.values, key, value)]

\* d[key] = value: a key that is there keeps its place, a new one comes last.
SetItem(d, key, value) ==
    [keys   |-> IF key \in ToSet(d.keys) THEN d.keys ELSE Append(d.keys, key),
     values |-> Put(d.values, key, value)]

\* func_starts of the code is written here too, and never read.
ReadLabel ==
    /\ phase = "read"
    /\ k < Len(labels)
    /\ func_order' = Append(func_order, labels[k + 1])
    /\ k' = k + 1
    /\ UNCHANGED <<labels, entries, phase, func_ranges, out>>

\* Tuples compare by address, then by name.
Before(a, b) == \/ a[1] < b[1]
                \/ a[1] = b[1] /\ \E m, n \in DOMAIN Names :
                                     m < n /\ Names[m] = a[2] /\ Names[n] = b[2]

\* How many labels the sort puts before the n-th, or at its place: equal ones
\* keep their order.
Rank(n) ==
    Cardinality({m \in DOMAIN func_order :
                    \/ Before(func_order[m], func_order[n])
                    \/ func_order[m] = func_order[n] /\ m <= n})

SortLabels ==
    /\ phase = "read"
    /\ k = Len(labels)
    /\ func_order' = [r \in DOMAIN func_order |->
                        func_order[CHOOSE n \in DOMAIN func_order : Rank(n) = r]]
    /\ phase' = "ranges"
    /\ k' = 0
    /\ UNCHANGED <<labels, entries, func_ranges, out>>

\* Fault, for a mutant of EndOf: the end is taken to be exclusive.
EndOfExclusive(n) == IF n < Len(func_order) THEN func_order[n + 1][1]
                     ELSE func_order[n][1] + LastFunction

\* Where the function at position n of func_order ends.
EndOf(n) == IF n < Len(func_order) THEN func_order[n + 1][1] - 1
            ELSE func_order[n][1] + LastFunction

\* A name that comes again overwrites its earlier range.
AddRange ==
    /\ phase = "ranges"
    /\ k < Len(func_order)
    /\ LET f == func_order[k + 1]
       IN  func_ranges' = Put(func_ranges, f[2], <<f[1], EndOf(k + 1)>>)
    /\ k' = k + 1
    /\ UNCHANGED <<labels, entries, phase, func_order, out>>

RangesDone ==
    /\ phase = "ranges"
    /\ k = Len(func_order)
    /\ phase' = "map"
    /\ k' = 0
    /\ UNCHANGED <<labels, entries, func_order, func_ranges, out>>

\* Fault, for a mutant of MapBundle: an unknown function ends the loop.
MapBundleStops ==
    /\ phase = "map"
    /\ k < Len(entries)
    /\ LET b == entries[k + 1]
           f == b.values["function"]
       IN  IF f \in DOMAIN func_ranges
           THEN /\ out' = Append(out, SetItem(SetItem(b, "start_pc", func_ranges[f][1]),
                                              "end_pc", func_ranges[f][2]))
                /\ k' = k + 1
           ELSE out' = out /\ k' = Len(entries)
    /\ UNCHANGED <<labels, entries, phase, func_order, func_ranges>>

\* The copy of a bundle whose function the binary has gets its addresses;
\* any other bundle is left out with a warning.
MapBundle ==
    /\ phase = "map"
    /\ k < Len(entries)
    /\ LET b == entries[k + 1]
           f == b.values["function"]
       IN  out' = IF f \in DOMAIN func_ranges
                  THEN Append(out, SetItem(SetItem(b, "start_pc", func_ranges[f][1]),
                                           "end_pc", func_ranges[f][2]))
                  ELSE out
    /\ k' = k + 1
    /\ UNCHANGED <<labels, entries, phase, func_order, func_ranges>>

WriteBundles ==
    /\ phase = "map"
    /\ k = Len(entries)
    /\ phase' = "done"
    /\ UNCHANGED <<labels, entries, k, func_order, func_ranges, out>>

Next ==
    \/ ReadLabel \/ SortLabels \/ AddRange \/ RangesDone \/ MapBundle \/ WriteBundles
-----------------------------------------------------------------------------
(* Properties *)

TypeOK ==
    /\ phase \in {"start", "read", "ranges", "map", "done"}
    /\ k \in Nat
    /\ ToSet(func_order) \subseteq ToSet(labels)
    /\ \A f \in DOMAIN func_ranges : func_ranges[f][1] \in Nat
    /\ \A n \in DOMAIN out : DOMAIN out[n].values = ToSet(out[n].keys)

Inside(pc, range) == range[1] <= pc /\ pc <= range[2]

\* When every label has its own name and address, each address from the first
\* label to the end of the last function belongs to exactly one function, and
\* it is the one with the nearest label at or below the address.
AddressesHaveOneFunction ==
    LET Distinct == \A m, n \in DOMAIN labels :
                        m # n => labels[m][1] # labels[n][1] /\ labels[m][2] # labels[n][2]
        Below(pc) == {f \in ToSet(labels) : f[1] <= pc}
        Highest == {f \in ToSet(labels) : \A g \in ToSet(labels) : g[1] <= f[1]}
    IN  phase = "map" /\ k = 0 /\ Distinct =>
            \A last \in Highest : \A pc \in 0 .. last[1] + LastFunction :
                {f \in DOMAIN func_ranges : Inside(pc, func_ranges[f])} =
                    {f[2] : f \in {g \in Below(pc) : \A h \in Below(pc) : h[1] <= g[1]}}

\* The bundles of known functions are mapped, in the order of bundles.json, each
\* to the code of a label with its own name.
MappedInOrder ==
    phase = "done" =>
        LET known == {n \in DOMAIN entries :
                         \E f \in ToSet(labels) : f[2] = entries[n].values["function"]}
            Place(n) == Cardinality({m \in known : m <= n})
        IN  /\ Len(out) = Cardinality(known)
            /\ \A n \in known :
                  LET v == out[Place(n)].values
                  IN  /\ v["function"] = entries[n].values["function"]
                      /\ <<v["start_pc"], v["function"]>> \in ToSet(labels)
=============================================================================
