-------------------------- MODULE CallGraphBundles --------------------------
(***************************************************************************)
(* callgraph_bundle.cpp, the LLVM analyser: it measures the functions of a *)
(* module, writes the call graph, numbers the instructions and selects as  *)
(* bundles the functions whose own code and direct callees make up at      *)
(* least THRESHOLD instructions.                                           *)
(*                                                                         *)
(* A module is a sequence of functions: its name, whether it is only a     *)
(* declaration, its number of instructions, and the name called by each of *)
(* its direct call sites.  What LLVM's parser and CallGraph compute is     *)
(* taken as given; a call through a pointer has no callee there.           *)
(***************************************************************************)
EXTENDS Naturals, Sequences, SequencesExt, FiniteSets, Functions, Maps

CONSTANTS Modules,    \* the modules analysed
          Names,      \* all function names, in the order of std::string
          THRESHOLD   \* 50 in the code

ASSUME CallGraphAssumption ==
    /\ THRESHOLD \in Nat
    /\ Names \in Seq(STRING)
    /\ \A m, n \in DOMAIN Names : Names[m] = Names[n] => m = n

FunctionRecord == [name : ToSet(Names), declaration : BOOLEAN, insts : Nat,
                   calls : Seq(ToSet(Names))]

\* The functions of a module have different names; a definition has a body.
IsModule(m) ==
    /\ m \in Seq(FunctionRecord)
    /\ \A i, j \in DOMAIN m : m[i].name = m[j].name => i = j
    /\ \A i \in DOMAIN m : m[i].declaration \/ m[i].insts > 0

ASSUME ModulesAssumption == \A m \in Modules : IsModule(m)

VARIABLES mod,        \* the module
          phase, k,   \* the loop of main that runs, and its position
          funcSizes,  \* name -> instructions, of the functions defined
          callgraph,  \* the lines "caller -> callee" of callgraph.txt, one per call site
          instrIDs,   \* name -> IDs of its first and last instruction
          globalID,   \* the next instruction ID
          bundles     \* the entries of bundles.json

vars == <<mod, phase, k, funcSizes, callgraph, instrIDs, globalID, bundles>>

Init ==
    /\ mod \in Modules
    /\ phase = "measure"
    /\ k = 0
    /\ funcSizes = EmptyMap
    /\ callgraph = {}
    /\ instrIDs = EmptyMap
    /\ globalID = 0
    /\ bundles = <<>>

Defined(name) == \E f \in ToSet(mod) : f.name = name /\ ~f.declaration

\* Fault: external functions are not left out.
CalleesAll(f) == DOMAIN f.calls

\* The call sites of a function that call a function the module defines.
Callees(f) == {c \in DOMAIN f.calls : Defined(f.calls[c])}

\* The loop of this phase is at its next function.
At(p, f) ==
    /\ phase = p
    /\ k < Len(mod)
    /\ f = mod[k + 1]
    /\ k' = k + 1
    /\ UNCHANGED <<mod, phase>>

\* A loop over the module has ended.
EndPhase ==
    /\ \/ phase \in {"measure", "graph", "number"} /\ k = Len(mod)
       \/ phase = "select" /\ k = Len(Names)
    /\ phase' = CASE phase = "measure" -> "graph"
                  [] phase = "graph"   -> "number"
                  [] phase = "number"  -> "select"
                  [] phase = "select"  -> "done"
    /\ k' = 0
    /\ UNCHANGED <<mod, funcSizes, callgraph, instrIDs, globalID, bundles>>

MeasureFunction(f) ==
    /\ At("measure", f)
    /\ funcSizes' = IF f.declaration THEN funcSizes
                    ELSE Put(funcSizes, f.name, f.insts)
    /\ UNCHANGED <<callgraph, instrIDs, globalID, bundles>>

\* The order of the lines in the file is LLVM's.
WriteCalls(f) ==
    /\ At("graph", f)
    /\ LET lines == {[caller |-> f.name, site |-> c, callee |-> f.calls[c]] : c \in Callees(f)}
       IN  callgraph' = IF f.declaration THEN callgraph ELSE callgraph \cup lines
    /\ UNCHANGED <<funcSizes, instrIDs, globalID, bundles>>

\* Fault: the last ID is one too large.
NumberOneMore(f) ==
    /\ At("number", f)
    /\ IF f.declaration
       THEN UNCHANGED <<instrIDs, globalID>>
       ELSE /\ instrIDs' = Put(instrIDs, f.name, <<globalID, globalID + f.insts>>)
            /\ globalID' = globalID + f.insts
    /\ UNCHANGED <<funcSizes, callgraph, bundles>>

NumberInstructions(f) ==
    /\ At("number", f)
    /\ IF f.declaration
       THEN UNCHANGED <<instrIDs, globalID>>
       ELSE /\ instrIDs' = Put(instrIDs, f.name, <<globalID, globalID + f.insts - 1>>)
            /\ globalID' = globalID + f.insts
    /\ UNCHANGED <<funcSizes, callgraph, bundles>>

\* Fault: a function called twice is added once.
TotalSizeDistinct(f) ==
    f.insts + SumFunctionOnSet(funcSizes, {f.calls[c] : c \in Callees(f)})

\* The size of a function with its direct callees, each call site counted.
TotalSize(f) ==
    f.insts + SumFunction([c \in Callees(f) |-> funcSizes[f.calls[c]]])

\* The loop over funcSizes visits the names in their order.
SelectFunction ==
    /\ phase = "select"
    /\ k < Len(Names)
    /\ LET name == Names[k + 1]
           f    == CHOOSE g \in ToSet(mod) : g.name = name
       IN  bundles' =
               IF name \in DOMAIN funcSizes /\ TotalSize(f) >= THRESHOLD
               THEN Append(bundles, [function       |-> name,
                                     reachable_size |-> TotalSize(f),
                                     start_pc       |-> instrIDs[name][1],
                                     end_pc         |-> instrIDs[name][2]])
               ELSE bundles
    /\ k' = k + 1
    /\ UNCHANGED <<mod, phase, funcSizes, callgraph, instrIDs, globalID>>

Next ==
    \/ \E f \in ToSet(mod) : MeasureFunction(f) \/ WriteCalls(f) \/ NumberInstructions(f)
    \/ SelectFunction
    \/ EndPhase

Spec == Init /\ [][Next]_vars
-----------------------------------------------------------------------------
(* Properties *)

TypeOK ==
    /\ mod \in Modules
    /\ phase \in {"measure", "graph", "number", "select", "done"}
    /\ k \in Nat /\ globalID \in Nat
    /\ DOMAIN funcSizes \subseteq ToSet(Names) /\ DOMAIN instrIDs \subseteq ToSet(Names)
    /\ \A l \in callgraph : l.caller \in DOMAIN funcSizes /\ l.callee \in DOMAIN funcSizes
    /\ \A b \in ToSet(bundles) : b.start_pc \in Nat /\ b.end_pc \in Nat

\* The instructions of the module are numbered once each: the ranges of two
\* functions never meet, and together they use every number given out.
NumbersTileTheModule ==
    /\ \A f, g \in DOMAIN instrIDs :
          f # g => instrIDs[f][2] < instrIDs[g][1] \/ instrIDs[g][2] < instrIDs[f][1]
    /\ \A n \in 0 .. globalID - 1 :
          \E f \in DOMAIN instrIDs : instrIDs[f][1] <= n /\ n <= instrIDs[f][2]

\* The two files main writes agree: bundles.json has the functions, once each,
\* for which the calls in callgraph.txt and the instruction numbers add up to
\* THRESHOLD or more, each with that sum and its numbers.
Instructions(f) == instrIDs[f][2] - instrIDs[f][1] + 1
Reachable(f) ==
    LET lines == {l \in callgraph : l.caller = f}
    IN  Instructions(f) + SumFunction([l \in lines |-> Instructions(l.callee)])
BundlesAgreeWithCallGraph ==
    phase = "done" =>
        LET selected == {f \in DOMAIN instrIDs : Reachable(f) >= THRESHOLD}
        IN  /\ Len(bundles) = Cardinality(selected)
            /\ ToSet(bundles) = {[function       |-> f,
                                 reachable_size |-> Reachable(f),
                                 start_pc       |-> instrIDs[f][1],
                                 end_pc         |-> instrIDs[f][2]] : f \in selected}
=============================================================================
