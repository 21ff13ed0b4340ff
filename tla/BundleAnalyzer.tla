--------------------------- MODULE BundleAnalyzer ---------------------------
(***************************************************************************)
(* bundle_analyzer.cpp of checkpoint_1_gcc: it reads the function symbols  *)
(* of a binary, builds the call graph from the call instructions, sums up  *)
(* the code reachable from every function and selects the functions that   *)
(* start a bundle.                                                         *)
(*                                                                         *)
(* A binary is a record of its .text section, its symbols in table order   *)
(* and its call instructions with an immediate target, in address order.   *)
(* The recursive lambda of compute_reachable is a stack of frames; a       *)
(* recursion deeper than MaxDepth ends the process.  A function is its     *)
(* index in the sorted vector, from 1.                                     *)
(***************************************************************************)
EXTENDS Naturals, Sequences, SequencesExt

CONSTANTS Binaries,    \* the binaries analysed
          Thresholds,  \* the values of threshold, in bytes
          Unknown,     \* UINT64_MAX, the mark of a size not yet computed
          MaxDepth     \* bound: frames of the recursion the stack can hold

Binary == [text    : [addr : Nat, size : Nat],
           symbols : Seq([addr : Nat, size : Nat, type : STRING, defined : BOOLEAN]),
           calls   : Seq([at : Nat, target : Nat])]

ASSUME AnalyzerAssumption ==
    /\ Binaries \subseteq Binary
    /\ Thresholds \subseteq Nat
    /\ Unknown \notin Nat
    /\ MaxDepth \in Nat \ {0}

VARIABLES binary, threshold,
          stage,       \* what main is doing
          i, j,        \* the loop counters of the stage, counting what is done
          functions,   \* the symbols kept, sorted by address from SortSymbols on
          children,    \* children[f]: callees of f, one per call instruction
          parents,     \* parents[f]: callers of f, one per call instruction
          reachable,   \* reachable[f]: bytes reachable from f, or Unknown
          stack,       \* the frames of dfs, innermost first
          bundles_out  \* the bundles selected: out of find_bundles

input == <<binary, threshold>>
graph == <<children, parents>>
analyzerVars == <<input, stage, i, j, functions, graph, reachable, stack, bundles_out>>

N == Len(functions)
End(f) == f.addr + f.size

AnalyzerInit ==
    /\ binary \in Binaries
    /\ threshold \in Thresholds
    /\ stage = "symbols"
    /\ i = 0 /\ j = 0
    /\ functions = <<>>
    /\ children = <<>> /\ parents = <<>>
    /\ reachable = <<>>
    /\ stack = <<>>
    /\ bundles_out = <<>>

-----------------------------------------------------------------------------
(* read_elf_symbols *)

\* Fault: only the start of a symbol is tested.
InTextStart(f) == f.addr >= binary.text.addr /\ f.addr < End(binary.text)
InText(f) == f.addr >= binary.text.addr /\ End(f) <= End(binary.text)

IsFunction(sym) == sym.type = "STT_FUNC" /\ sym.size # 0 /\ sym.defined /\ InText(sym)

ReadSymbol ==
    /\ stage = "symbols"
    /\ i < Len(binary.symbols)
    /\ LET sym == binary.symbols[i + 1]
       IN  functions' = IF IsFunction(sym)
                        THEN Append(functions, [addr |-> sym.addr, size |-> sym.size])
                        ELSE functions
    /\ i' = i + 1
    /\ UNCHANGED <<input, stage, j, graph, reachable, stack, bundles_out>>

\* std::sort by address leaves symbols of the same address in any order.
SortSymbols ==
    /\ stage = "symbols"
    /\ i = Len(binary.symbols)
    /\ \E order \in [1 .. N -> 1 .. N] :
          /\ IsInjective(order)
          /\ \A a, b \in 1 .. N : a < b => functions[order[a]].addr <= functions[order[b]].addr
          /\ functions' = [f \in 1 .. N |-> functions[order[f]]]
    /\ children' = [f \in 1 .. N |-> <<>>]
    /\ parents' = [f \in 1 .. N |-> <<>>]
    /\ stage' = "calls"
    /\ i' = 0 /\ j' = 0
    /\ UNCHANGED <<input, reachable, stack, bundles_out>>

\* The file cannot be opened, is no ELF file, has no .symtab (read_elf_symbols)
\* or cannot be mapped (build_call_graph): main returns 1.
Fail ==
    /\ stage \in {"symbols", "calls"}
    /\ i = 0 /\ j = 0
    /\ stage' = "failed"
    /\ UNCHANGED <<input, i, j, functions, graph, reachable, stack, bundles_out>>

-----------------------------------------------------------------------------
(* build_call_graph *)

\* The call instructions found when disassembling function f.
CallsOf(f) ==
    SelectSeq(binary.calls, LAMBDA c : functions[f].addr <= c.at /\ c.at < End(functions[f]))

\* The first function that contains addr, or 0.
FindFuncByAddr(addr) ==
    SelectInSeq(functions, LAMBDA f : f.addr <= addr /\ addr < End(f))

\* Fault: a direct recursion is an edge like any other.
ReadCallSelf ==
    /\ stage = "calls"
    /\ i < N
    /\ j < Len(CallsOf(i + 1))
    /\ LET f == i + 1
           c == FindFuncByAddr(CallsOf(f)[j + 1].target)
       IN  IF c # 0
           THEN /\ children' = [children EXCEPT ![f] = Append(@, c)]
                /\ parents' = [parents EXCEPT ![c] = Append(@, f)]
           ELSE UNCHANGED graph
    /\ j' = j + 1
    /\ UNCHANGED <<input, stage, i, functions, reachable, stack, bundles_out>>

\* A call inside function i + 1: an edge, unless it leaves the known functions
\* or is a direct recursion.
ReadCall ==
    /\ stage = "calls"
    /\ i < N
    /\ j < Len(CallsOf(i + 1))
    /\ LET f == i + 1
           c == FindFuncByAddr(CallsOf(f)[j + 1].target)
       IN  IF c # 0 /\ c # f
           THEN /\ children' = [children EXCEPT ![f] = Append(@, c)]
                /\ parents' = [parents EXCEPT ![c] = Append(@, f)]
           ELSE UNCHANGED graph
    /\ j' = j + 1
    /\ UNCHANGED <<input, stage, i, functions, reachable, stack, bundles_out>>

\* Fault: the inner counter is not reset.
NextFunctionKeepsCount ==
    /\ stage = "calls"
    /\ i < N
    /\ j = Len(CallsOf(i + 1))
    /\ i' = i + 1
    /\ UNCHANGED <<input, stage, j, functions, graph, reachable, stack, bundles_out>>

NextFunction ==
    /\ stage = "calls"
    /\ i < N
    /\ j = Len(CallsOf(i + 1))
    /\ i' = i + 1
    /\ j' = 0
    /\ UNCHANGED <<input, stage, functions, graph, reachable, stack, bundles_out>>

GraphDone ==
    /\ stage = "calls"
    /\ i = N
    /\ reachable' = [f \in 1 .. N |-> Unknown]
    /\ stage' = "reach"
    /\ i' = 0
    /\ UNCHANGED <<input, j, functions, graph, stack, bundles_out>>

-----------------------------------------------------------------------------
(* compute_reachable *)

\* A call of dfs for f that has added up its own size and no callee yet.
Frame(f) == [fn |-> f, done |-> 0, total |-> functions[f].size]

Top == stack[1]
Callee == children[Top.fn][Top.done + 1]

\* A frame that has added the result of its next callee.
Added(frame, bytes) == [frame EXCEPT !.done = @ + 1, !.total = @ + bytes]

\* The loop over all functions calls dfs; a known function returns at once.
DfsNextRoot ==
    /\ stage = "reach"
    /\ stack = <<>>
    /\ i < N
    /\ stack' = IF reachable[i + 1] = Unknown THEN <<Frame(i + 1)>> ELSE <<>>
    /\ i' = i + 1
    /\ UNCHANGED <<input, stage, j, functions, graph, reachable, bundles_out>>

\* Fault: a callee that is known already is skipped, as in a visited set.
DfsSkipKnown ==
    /\ stage = "reach"
    /\ stack # <<>>
    /\ Top.done < Len(children[Top.fn])
    /\ reachable[Callee] # Unknown
    /\ stack' = <<Added(Top, 0)>> \o Tail(stack)
    /\ UNCHANGED <<input, stage, i, j, functions, graph, reachable, bundles_out>>

DfsKnownCallee ==
    /\ stage = "reach"
    /\ stack # <<>>
    /\ Top.done < Len(children[Top.fn])
    /\ reachable[Callee] # Unknown
    /\ stack' = <<Added(Top, reachable[Callee])>> \o Tail(stack)
    /\ UNCHANGED <<input, stage, i, j, functions, graph, reachable, bundles_out>>

DfsCall ==
    /\ stage = "reach"
    /\ stack # <<>>
    /\ Top.done < Len(children[Top.fn])
    /\ reachable[Callee] = Unknown
    /\ IF Len(stack) < MaxDepth
       THEN stack' = <<Frame(Callee)>> \o stack /\ UNCHANGED stage
       ELSE stage' = "stack_overflow" /\ UNCHANGED stack
    /\ UNCHANGED <<input, i, j, functions, graph, reachable, bundles_out>>

\* All callees are in: note the size and return it to the caller, if any.
DfsReturn ==
    /\ stage = "reach"
    /\ stack # <<>>
    /\ Top.done = Len(children[Top.fn])
    /\ reachable' = [reachable EXCEPT ![Top.fn] = Top.total]
    /\ stack' = IF Len(stack) = 1 THEN <<>>
                ELSE <<Added(stack[2], Top.total)>> \o Tail(Tail(stack))
    /\ UNCHANGED <<input, stage, i, j, functions, graph, bundles_out>>

ReachDone ==
    /\ stage = "reach"
    /\ stack = <<>>
    /\ i = N
    /\ stage' = "select"
    /\ i' = 0
    /\ UNCHANGED <<input, j, functions, graph, reachable, stack, bundles_out>>

-----------------------------------------------------------------------------
(* find_bundles *)

\* Fault: the size must exceed the threshold in every case.
IsEntryStrict(f) ==
    /\ reachable[f] > threshold
    /\ \/ parents[f] = <<>>
       \/ \E p \in ToSet(parents[f]) : reachable[p] > reachable[f] + threshold

\* A function starts a bundle when nobody calls it, or when some caller
\* reaches more than threshold bytes beyond it and it is itself larger.
IsEntry(f) ==
    /\ reachable[f] >= threshold
    /\ \/ parents[f] = <<>>
       \/ /\ reachable[f] > threshold
          /\ \E p \in ToSet(parents[f]) : reachable[p] > reachable[f] + threshold

\* What a depth-first search from f visits: the least set with f closed under calls.
Visited(f) ==
    LET Closed(S) == \A g \in S : ToSet(children[g]) \subseteq S
    IN  {g \in 1 .. N : \A S \in SUBSET (1 .. N) : f \in S /\ Closed(S) => g \in S}

SelectBundle ==
    /\ stage = "select"
    /\ i < N
    /\ LET f == i + 1
           b == [id              |-> Len(bundles_out) + 1,
                 entry           |-> f,
                 functions       |-> Visited(f),
                 reachable_bytes |-> reachable[f]]
       IN  bundles_out' = IF IsEntry(f) THEN Append(bundles_out, b) ELSE bundles_out
    /\ i' = i + 1
    /\ UNCHANGED <<input, stage, j, functions, graph, reachable, stack>>

\* write_bundles_to_json, and main returns.
WriteBundles ==
    /\ stage = "select"
    /\ i = N
    /\ stage' = "done"
    /\ UNCHANGED <<input, i, j, functions, graph, reachable, stack, bundles_out>>

-----------------------------------------------------------------------------
AnalyzerNext ==
    \/ ReadSymbol \/ SortSymbols \/ Fail
    \/ ReadCall \/ NextFunction \/ GraphDone
    \/ DfsNextRoot \/ DfsKnownCallee \/ DfsCall \/ DfsReturn \/ ReachDone
    \/ SelectBundle \/ WriteBundles

AnalyzerSpec == AnalyzerInit /\ [][AnalyzerNext]_analyzerVars

\* One thread, never blocked.
AnalyzerFairSpec == AnalyzerSpec /\ WF_analyzerVars(AnalyzerNext)
-----------------------------------------------------------------------------
(* Properties *)

Stages == {"symbols", "calls", "reach", "select", "done", "stack_overflow", "failed"}

\* Every function kept lies inside .text, so that cs_disasm reads code only.
AnalyzerTypeOK ==
    /\ binary \in Binaries /\ threshold \in Thresholds
    /\ stage \in Stages
    /\ i \in Nat /\ j \in Nat
    /\ functions \in Seq([addr : Nat, size : Nat \ {0}])
    /\ \A f \in 1 .. N : functions[f].addr >= binary.text.addr
                       /\ End(functions[f]) <= End(binary.text)
    /\ children \in Seq(Seq(1 .. N)) /\ parents \in Seq(Seq(1 .. N))
    /\ reachable \in Seq(Nat \cup {Unknown})
    /\ \A k \in DOMAIN stack : stack[k].fn \in 1 .. N

\* A size that is noted is final: it counts the function itself and, for each
\* of its call instructions, all the callee reaches, whichever function the
\* search started from and whatever had been noted before.
BytesOf(f) == [c \in DOMAIN children[f] |-> reachable[children[f][c]]]
ReachableAddsUp ==
    \A f \in DOMAIN reachable : reachable[f] # Unknown =>
        /\ \A c \in DOMAIN children[f] : BytesOf(f)[c] # Unknown
        /\ reachable[f] = functions[f].size
                            + SumFunctionOnSet(BytesOf(f), DOMAIN children[f])

\* The analysis survives exactly the binaries without mutual recursion, as long
\* as the stack can hold a frame for each function.
Recursive == \E f, g \in 1 .. N : f # g /\ g \in Visited(f) /\ f \in Visited(g)
OnlyMutualRecursionIsFatal ==
    /\ stage = "done" => ~Recursive
    /\ stage = "stack_overflow" /\ N <= MaxDepth => Recursive

\* Every function that reaches threshold bytes is part of some bundle, though
\* most of those functions do not start one themselves.
HeavyCodeIsBundled ==
    stage = "done" =>
        \A f \in 1 .. N : reachable[f] >= threshold =>
            \E b \in ToSet(bundles_out) : f \in b.functions

\* The analysis of any binary ends.
AnalysisEnds == <>(stage \in {"done", "stack_overflow", "failed"})
=============================================================================
