----------------------------- MODULE Toolchain -----------------------------
(***************************************************************************)
(* From a program to bundles_pc.json: callgraph_bundle.cpp analyses the    *)
(* LLVM module and writes bundles.json; map_bundles_to_pcs.py reads that   *)
(* file and the disassembly of a binary and replaces the instruction       *)
(* numbers by addresses.  The binary is built apart from the module: the   *)
(* compiler may have inlined a function, or split off a part of it.        *)
(***************************************************************************)
EXTENDS CallGraphBundles

CONSTANTS Disassemblies,  \* the label lines objdump may print for a binary of a module,
                          \* as pairs <<module, labels>>
          LastFunction    \* 4096 in map_bundles_to_pcs.py

ASSUME ToolchainAssumption ==
    /\ LastFunction \in Nat
    /\ \A d \in Disassemblies : d[2] \in Seq(Nat \X ToSet(Names))

VARIABLES labels, entries, mapPhase, mapK, func_order, func_ranges, out  \* of PcMapping

mapVars == <<labels, entries, mapPhase, mapK, func_order, func_ranges, out>>

Map == INSTANCE PcMapping WITH phase <- mapPhase, k <- mapK

ToolchainInit == Init /\ Map!Init

\* The object of a bundle in the file: the JSON library sorts the keys.
Written(b) == [keys |-> <<"end_pc", "function", "reachable_size", "start_pc">>, values |-> b]

Analyse == Next /\ UNCHANGED mapVars

\* The script is started on the finished bundles.json and a binary.
HandOver ==
    /\ phase = "done"
    /\ \E labeled \in Disassemblies :
          /\ labeled[1] = mod
          /\ Map!Start(labeled[2], [n \in DOMAIN bundles |-> Written(bundles[n])])
    /\ UNCHANGED vars

MapBundles == Map!Next /\ UNCHANGED vars

ToolchainNext == Analyse \/ HandOver \/ MapBundles

ToolchainSpec == ToolchainInit /\ [][ToolchainNext]_<<vars, mapVars>>
-----------------------------------------------------------------------------
(* Properties; those of CallGraphBundles hold of the whole too *)

ToolchainTypeOK == TypeOK /\ Map!TypeOK

AddressesHaveOneFunction == Map!AddressesHaveOneFunction
MappedInOrder == Map!MappedInOrder

\* What reaches the loader: every bundle of bundles_pc.json has the size the
\* analyser found, the addresses of one function of the binary in place of both
\* instruction numbers, and its keys still in the order the JSON library chose,
\* "end_pc" before "start_pc".
BundlesBecomeRanges ==
    mapPhase = "done" =>
        \A n \in DOMAIN out :
            LET v == out[n].values
            IN  /\ out[n].keys = Written(v).keys
                /\ \E b \in ToSet(bundles) :
                      b.function = v["function"] /\ b.reachable_size = v["reachable_size"]
                /\ \A l \in ToSet(labels) : ~(v["start_pc"] < l[1] /\ l[1] <= v["end_pc"])
                /\ v["end_pc"] - v["start_pc"] >= LastFunction
                      \/ \E l \in ToSet(labels) : l[1] = v["end_pc"] + 1
=============================================================================
