--------------------------- MODULE ToolchainProofs --------------------------
(***************************************************************************)
(* Proofs about the tools that run before the servers: Toolchain (what     *)
(* callgraph_bundle.cpp writes, and what map_bundles_to_pcs.py makes of it) *)
(* and BundleAnalyzer (bundle_analyzer.cpp), for every module and binary.  *)
(***************************************************************************)
EXTENDS Toolchain, BundleAnalyzer, DataTheorems

-----------------------------------------------------------------------------
(* The analyser: what has been computed of the functions seen so far *)

\* The positions of the functions with a body that the loops have visited.
Bodies(S) == {n \in S : ~mod[n].declaration}
Measured == Bodies(IF phase = "measure" THEN 1 .. k ELSE 1 .. Len(mod))
Graphed == Bodies(IF phase = "measure" THEN {}
                  ELSE IF phase = "graph" THEN 1 .. k ELSE 1 .. Len(mod))
Numbered == Bodies(IF phase \in {"measure", "graph"} THEN {}
                   ELSE IF phase = "number" THEN 1 .. k ELSE 1 .. Len(mod))
\* The names that the last loop has visited.
Considered == {Names[n] : n \in (IF phase = "select" THEN 1 .. k
                                 ELSE IF phase = "done" THEN 1 .. Len(Names) ELSE {})}

LoopInv ==
    /\ mod \in Modules
    /\ phase \in {"measure", "graph", "number", "select", "done"}
    /\ k \in Nat /\ globalID \in Nat
    /\ phase \in {"measure", "graph", "number"} => k <= Len(mod)
    /\ phase = "select" => k <= Len(Names)

NamesOf(S) == {mod[n].name : n \in S}

SizesInv ==
    /\ DOMAIN funcSizes = NamesOf(Measured)
    /\ \A n \in Measured : funcSizes[mod[n].name] = mod[n].insts

Line(f, c) == [caller |-> f.name, site |-> c, callee |-> f.calls[c]]
Lines(f) == {Line(f, c) : c \in Callees(f)}
LinesInv == callgraph = UNION {Lines(mod[n]) : n \in Graphed}

NumbersInv ==
    /\ DOMAIN instrIDs = NamesOf(Numbered)
    /\ \A n \in Numbered :
          LET r == instrIDs[mod[n].name]
          IN  r[1] \in Nat /\ r[2] = r[1] + mod[n].insts - 1 /\ r[2] < globalID

Selected == {f \in Considered \cap DOMAIN instrIDs : Reachable(f) >= THRESHOLD}
Bundle(f) == [function       |-> f,
              reachable_size |-> Reachable(f),
              start_pc       |-> instrIDs[f][1],
              end_pc         |-> instrIDs[f][2]]
BundlesInv ==
    /\ bundles \in Seq({Bundle(f) : f \in Selected})
    /\ IsFiniteSet(Selected) /\ Len(bundles) = Cardinality(Selected)
    /\ ToSet(bundles) = {Bundle(f) : f \in Selected}

\* What of the module does not depend on the loops.
LEMMA ModuleFacts ==
    ASSUME LoopInv
    PROVE  /\ Len(mod) \in Nat /\ DOMAIN mod = 1 .. Len(mod)
           /\ \A n \in 1 .. Len(mod) :
                 /\ mod[n] \in FunctionRecord
                 /\ mod[n].declaration \/ mod[n].insts > 0
           /\ \A m, n \in 1 .. Len(mod) : mod[m].name = mod[n].name => m = n
           /\ ToSet(mod) = {mod[n] : n \in 1 .. Len(mod)}
<1>1. IsModule(mod)
  BY ModulesAssumption DEF LoopInv
<1>2. Len(mod) \in Nat /\ DOMAIN mod = 1 .. Len(mod)
  BY <1>1 DEF IsModule
<1>3. ASSUME NEW n \in 1 .. Len(mod)
      PROVE  mod[n] \in FunctionRecord /\ (mod[n].declaration \/ mod[n].insts > 0)
  BY <1>1, <1>2 DEF IsModule
<1>4. ASSUME NEW m \in 1 .. Len(mod), NEW n \in 1 .. Len(mod), mod[m].name = mod[n].name
      PROVE  m = n
  BY <1>1, <1>2, <1>4 DEF IsModule
<1>5. ToSet(mod) = {mod[n] : n \in 1 .. Len(mod)}
  BY <1>2 DEF ToSet
<1> QED BY <1>2, <1>3, <1>4, <1>5

\* Every step visits the next function of one loop, or starts the next loop.
LEMMA LoopStep ==
    ASSUME LoopInv, [Next]_vars
    PROVE  LoopInv'
<1>1. CASE UNCHANGED vars
  BY <1>1 DEF vars, LoopInv
<1>2. ASSUME NEW f \in ToSet(mod), MeasureFunction(f) \/ WriteCalls(f) PROVE LoopInv'
  BY <1>2, ModuleFacts DEF MeasureFunction, WriteCalls, At, LoopInv
<1>3. ASSUME NEW f \in ToSet(mod), NumberInstructions(f) PROVE LoopInv'
  <2>1. f = mod[k + 1] /\ k + 1 \in 1 .. Len(mod)
    BY <1>3, ModuleFacts DEF NumberInstructions, At, LoopInv
  <2>2. f.insts \in Nat
    BY <2>1, ModuleFacts DEF FunctionRecord
  <2>3. globalID' \in Nat
    BY <1>3, <2>2 DEF NumberInstructions, LoopInv
  <2> QED BY <1>3, <2>3, ModuleFacts DEF NumberInstructions, At, LoopInv
<1>4. CASE SelectFunction
  BY <1>4, CallGraphAssumption DEF SelectFunction, LoopInv
<1>5. CASE EndPhase
  BY <1>5, ModuleFacts, CallGraphAssumption DEF EndPhase, LoopInv
<1> QED BY <1>1, <1>2, <1>3, <1>4, <1>5 DEF Next

\* Which functions a step adds to those visited.
LEMMA Visit ==
    ASSUME LoopInv, NEW f, NEW p \in {"measure", "graph", "number"}, At(p, f)
    PROVE  /\ k + 1 \in 1 .. Len(mod) /\ f = mod[k + 1] /\ f \in FunctionRecord
           /\ phase = p /\ mod' = mod /\ Considered' = Considered
           /\ Measured' = IF p = "measure" /\ ~f.declaration
                          THEN Measured \cup {k + 1} ELSE Measured
           /\ Graphed' = IF p = "graph" /\ ~f.declaration
                         THEN Graphed \cup {k + 1} ELSE Graphed
           /\ Numbered' = IF p = "number" /\ ~f.declaration
                          THEN Numbered \cup {k + 1} ELSE Numbered
           /\ p = "number" => k + 1 \notin Numbered
<1>1. k + 1 \in 1 .. Len(mod) /\ f = mod[k + 1] /\ phase = p /\ mod' = mod /\ phase' = p
  BY ModuleFacts DEF At, LoopInv
<1>2. k' = k + 1 /\ 1 .. k' = (1 .. k) \cup {k + 1} /\ k + 1 \notin 1 .. k
  BY DEF At, LoopInv
<1>3. Bodies(1 .. k)' = IF ~f.declaration THEN Bodies(1 .. k) \cup {k + 1} ELSE Bodies(1 .. k)
  BY <1>1, <1>2 DEF Bodies
<1>4. Bodies(1 .. Len(mod))' = Bodies(1 .. Len(mod)) /\ Bodies({})' = Bodies({})
  BY <1>1 DEF Bodies
<1>5. p = "number" => k + 1 \notin Numbered
  BY <1>1, <1>2 DEF Numbered, Bodies
<1>6. f \in FunctionRecord
  BY <1>1, ModuleFacts
<1> QED BY <1>1, <1>2, <1>3, <1>4, <1>5, <1>6 DEF Measured, Graphed, Numbered, Considered

LEMMA Consider ==
    ASSUME LoopInv, SelectFunction
    PROVE  /\ Measured' = Measured /\ Graphed' = Graphed /\ Numbered' = Numbered
           /\ k + 1 \in DOMAIN Names
           /\ Considered' = Considered \cup {Names[k + 1]} /\ Names[k + 1] \notin Considered
<1>1. /\ k' = k + 1 /\ 1 .. k' = (1 .. k) \cup {k + 1} /\ k + 1 \notin 1 .. k
      /\ k + 1 \in DOMAIN Names /\ 1 .. k \subseteq DOMAIN Names
  BY CallGraphAssumption DEF SelectFunction, LoopInv
<1>2. phase = "select" /\ phase' = phase /\ mod' = mod
  BY DEF SelectFunction
<1>3. Considered' = {Names[n] : n \in 1 .. k'} /\ Considered = {Names[n] : n \in 1 .. k}
  BY <1>2 DEF Considered
<1>4. Names[k + 1] \notin Considered
  BY <1>1, <1>3, CallGraphAssumption
<1>5. Considered' = Considered \cup {Names[k + 1]}
  BY <1>1, <1>3
<1> QED BY <1>1, <1>2, <1>4, <1>5 DEF Measured, Graphed, Numbered, Bodies

LEMMA NextLoop ==
    ASSUME LoopInv, EndPhase
    PROVE  /\ mod' = mod /\ Considered' = Considered
           /\ Measured' = Measured /\ Graphed' = Graphed /\ Numbered' = Numbered
<1>1. /\ mod' = mod /\ k' = 0 /\ 1 .. k' = {}
      /\ \/ phase = "measure" /\ phase' = "graph" /\ k = Len(mod)
         \/ phase = "graph" /\ phase' = "number" /\ k = Len(mod)
         \/ phase = "number" /\ phase' = "select" /\ k = Len(mod)
         \/ phase = "select" /\ phase' = "done" /\ k = Len(Names)
  BY DEF EndPhase
<1>2. Bodies({}) = {} /\ Bodies({})' = {} /\ Bodies(1 .. Len(mod))' = Bodies(1 .. Len(mod))
  BY <1>1 DEF Bodies
<1> QED BY <1>1, <1>2 DEF Measured, Graphed, Numbered, Considered

LEMMA NothingVisited ==
    ASSUME LoopInv, UNCHANGED vars
    PROVE  /\ mod' = mod /\ Considered' = Considered
           /\ Measured' = Measured /\ Graphed' = Graphed /\ Numbered' = Numbered
BY DEF vars, Measured, Graphed, Numbered, Considered, Bodies

\* The positions visited are positions of functions with a body.
LEMMA VisitedAreBodies ==
    ASSUME LoopInv
    PROVE  /\ \A n \in Measured \cup Graphed \cup Numbered :
                 n \in 1 .. Len(mod) /\ ~mod[n].declaration
           /\ phase # "measure" => Measured = Bodies(1 .. Len(mod))
           /\ phase \in {"select", "done"} =>
                 Graphed = Bodies(1 .. Len(mod)) /\ Numbered = Bodies(1 .. Len(mod))
BY ModuleFacts DEF LoopInv, Measured, Graphed, Numbered, Bodies

LEMMA SizesStep ==
    ASSUME LoopInv, SizesInv, [Next]_vars
    PROVE  SizesInv'
<1>1. ASSUME NEW f \in ToSet(mod), MeasureFunction(f) PROVE SizesInv'
  <2>1. At("measure", f)
    BY <1>1 DEF MeasureFunction
  <2>2. /\ k + 1 \in 1 .. Len(mod) /\ f = mod[k + 1] /\ mod' = mod
        /\ Measured' = IF ~f.declaration THEN Measured \cup {k + 1} ELSE Measured
    BY <2>1, Visit
  <2>3. CASE f.declaration
    BY <1>1, <2>2, <2>3 DEF MeasureFunction, SizesInv, NamesOf
  <2>4. CASE ~f.declaration
    <3>1. funcSizes' = Put(funcSizes, f.name, f.insts)
      BY <1>1, <2>4 DEF MeasureFunction
    <3>2. NamesOf(Measured)' = NamesOf(Measured) \cup {f.name}
      BY <2>2, <2>4 DEF NamesOf
    <3>3. DOMAIN funcSizes' = NamesOf(Measured)'
      BY <3>1, <3>2 DEF SizesInv, Put
    <3>4. ASSUME NEW n \in Measured' PROVE funcSizes'[mod'[n].name] = mod'[n].insts
      <4>1. n \in Measured \/ n = k + 1
        BY <2>2, <2>4
      <4>2. n \in 1 .. Len(mod)
        BY <2>2, <4>1, VisitedAreBodies
      <4>3. mod[n].name = f.name => n = k + 1
        BY <2>2, <4>2, ModuleFacts
      <4>4. mod[n].name \in NamesOf(Measured)'
        BY <2>2 DEF NamesOf
      <4>5. CASE n = k + 1
        BY <2>2, <3>1, <4>5 DEF Put
      <4>6. CASE n # k + 1
        BY <2>2, <3>1, <4>1, <4>3, <4>6 DEF Put, SizesInv, NamesOf
      <4> QED BY <4>5, <4>6
    <3> QED BY <3>3, <3>4 DEF SizesInv
  <2> QED BY <2>3, <2>4
<1>2. ASSUME NEW f \in ToSet(mod), WriteCalls(f) PROVE SizesInv'
  BY <1>2, Visit DEF WriteCalls, SizesInv, NamesOf
<1>3. ASSUME NEW f \in ToSet(mod), NumberInstructions(f) PROVE SizesInv'
  BY <1>3, Visit DEF NumberInstructions, SizesInv, NamesOf
<1>4. CASE SelectFunction
  BY <1>4, Consider DEF SelectFunction, SizesInv, NamesOf
<1>5. CASE EndPhase
  BY <1>5, NextLoop DEF EndPhase, SizesInv, NamesOf
<1>6. CASE UNCHANGED vars
  BY <1>6, NothingVisited DEF vars, SizesInv, NamesOf
<1> QED BY <1>1, <1>2, <1>3, <1>4, <1>5, <1>6 DEF Next

LEMMA LinesStep ==
    ASSUME LoopInv, LinesInv, [Next]_vars
    PROVE  LinesInv'
<1>0. ASSUME mod' = mod, NEW n PROVE Lines(mod[n])' = Lines(mod[n])
  BY <1>0 DEF Lines, Line, Callees, Defined
<1>1. ASSUME NEW f \in ToSet(mod), WriteCalls(f) PROVE LinesInv'
  <2>1. At("graph", f)
    BY <1>1 DEF WriteCalls
  <2>2. /\ f = mod[k + 1] /\ mod' = mod
        /\ Graphed' = IF ~f.declaration THEN Graphed \cup {k + 1} ELSE Graphed
    BY <2>1, Visit
  <2>3. callgraph' = IF f.declaration THEN callgraph ELSE callgraph \cup Lines(f)
    BY <1>1 DEF WriteCalls, Lines, Line
  <2>4. callgraph' = UNION {Lines(mod[n]) : n \in Graphed'}
    BY <2>2, <2>3 DEF LinesInv
  <2> QED BY <1>0, <2>2, <2>4 DEF LinesInv
<1>2. ASSUME mod' = mod, Graphed' = Graphed, callgraph' = callgraph PROVE LinesInv'
  BY <1>0, <1>2 DEF LinesInv
<1>3. ASSUME NEW f \in ToSet(mod), MeasureFunction(f) \/ NumberInstructions(f) PROVE LinesInv'
  BY <1>2, <1>3, Visit DEF MeasureFunction, NumberInstructions
<1>4. CASE SelectFunction
  BY <1>2, <1>4, Consider DEF SelectFunction
<1>5. CASE EndPhase
  BY <1>2, <1>5, NextLoop DEF EndPhase
<1>6. CASE UNCHANGED vars
  BY <1>2, <1>6, NothingVisited DEF vars
<1> QED BY <1>1, <1>3, <1>4, <1>5, <1>6 DEF Next

\* A function that is numbered gets the numbers from globalID on.
LEMMA NumberedNow ==
    ASSUME LoopInv, NumbersInv, NEW f \in ToSet(mod), NumberInstructions(f), ~f.declaration
    PROVE  /\ k + 1 \in 1 .. Len(mod) /\ f = mod[k + 1] /\ mod' = mod
           /\ Numbered' = Numbered \cup {k + 1}
           /\ f.insts \in Nat /\ f.insts > 0 /\ globalID \in Nat
           /\ globalID' = globalID + f.insts
           /\ DOMAIN instrIDs' = DOMAIN instrIDs \cup {f.name} /\ f.name \notin DOMAIN instrIDs
           /\ instrIDs'[f.name] = <<globalID, globalID + f.insts - 1>>
           /\ \A g \in DOMAIN instrIDs : instrIDs'[g] = instrIDs[g]
<1>1. At("number", f)
  BY DEF NumberInstructions
<1>2. /\ k + 1 \in 1 .. Len(mod) /\ f = mod[k + 1] /\ f \in FunctionRecord
      /\ mod' = mod /\ Numbered' = Numbered \cup {k + 1} /\ k + 1 \notin Numbered
  BY <1>1, Visit
<1>3. f.insts \in Nat /\ f.insts > 0
  BY <1>2, ModuleFacts DEF FunctionRecord
<1>4. f.name \notin DOMAIN instrIDs
  BY <1>2, ModuleFacts, VisitedAreBodies DEF NumbersInv, NamesOf
<1>5. /\ instrIDs' = Put(instrIDs, f.name, <<globalID, globalID + f.insts - 1>>)
      /\ globalID' = globalID + f.insts
  BY DEF NumberInstructions
<1>6. globalID \in Nat
  BY DEF LoopInv
<1> QED BY <1>2, <1>3, <1>4, <1>5, <1>6 DEF Put

LEMMA NumbersStep ==
    ASSUME LoopInv, NumbersInv, [Next]_vars
    PROVE  NumbersInv'
<1>1. ASSUME NEW f \in ToSet(mod), NumberInstructions(f), ~f.declaration PROVE NumbersInv'
  <2>0. /\ f = mod[k + 1] /\ mod' = mod /\ Numbered' = Numbered \cup {k + 1}
        /\ f.insts \in Nat /\ f.insts > 0 /\ globalID \in Nat
        /\ globalID' = globalID + f.insts
        /\ DOMAIN instrIDs' = DOMAIN instrIDs \cup {f.name}
        /\ instrIDs'[f.name] = <<globalID, globalID + f.insts - 1>>
        /\ \A g \in DOMAIN instrIDs : instrIDs'[g] = instrIDs[g]
    BY <1>1, NumberedNow
  <2>1. DOMAIN instrIDs' = NamesOf(Numbered)'
    BY <2>0 DEF NumbersInv, NamesOf
  <2>2. ASSUME NEW n \in Numbered'
        PROVE  LET r == instrIDs'[mod'[n].name]
               IN  r[1] \in Nat /\ r[2] = r[1] + mod'[n].insts - 1 /\ r[2] < globalID'
    <3>1. CASE n = k + 1
      BY <2>0, <3>1
    <3>2. CASE n # k + 1
      <4>1. n \in Numbered /\ mod[n].name \in DOMAIN instrIDs
        BY <2>0, <3>2 DEF NumbersInv, NamesOf
      <4>2. n \in 1 .. Len(mod) /\ mod[n].insts \in Nat
        BY <4>1, VisitedAreBodies, ModuleFacts DEF FunctionRecord
      <4> DEFINE r == instrIDs[mod[n].name]
      <4>3. r[1] \in Nat /\ r[2] = r[1] + mod[n].insts - 1 /\ r[2] < globalID
        BY <4>1 DEF NumbersInv
      <4>4. instrIDs'[mod'[n].name] = r /\ mod'[n].insts = mod[n].insts
        <5>1. mod' = mod /\ \A g \in DOMAIN instrIDs : instrIDs'[g] = instrIDs[g]
          BY <2>0
        <5> QED BY <4>1, <5>1
      <4> HIDE DEF r
      <4>5. r[2] < globalID'
        <5>1. globalID \in Nat /\ globalID' \in Nat /\ globalID < globalID'
          BY <2>0
        <5>2. r[2] \in Int
          BY <4>2, <4>3
        <5> QED BY <4>3, <5>1, <5>2
      <4> QED BY <4>3, <4>4, <4>5
    <3> QED BY <3>1, <3>2
  <2> QED BY <2>1, <2>2 DEF NumbersInv
<1>2. ASSUME mod' = mod, Numbered' = Numbered, instrIDs' = instrIDs, globalID' = globalID
      PROVE  NumbersInv'
  BY <1>2 DEF NumbersInv, NamesOf
<1>3. ASSUME NEW f \in ToSet(mod), NumberInstructions(f), f.declaration PROVE NumbersInv'
  BY <1>2, <1>3, Visit DEF NumberInstructions
<1>4. ASSUME NEW f \in ToSet(mod), MeasureFunction(f) \/ WriteCalls(f) PROVE NumbersInv'
  BY <1>2, <1>4, Visit DEF MeasureFunction, WriteCalls
<1>5. CASE SelectFunction
  BY <1>2, <1>5, Consider DEF SelectFunction
<1>6. CASE EndPhase
  BY <1>2, <1>6, NextLoop DEF EndPhase
<1>7. CASE UNCHANGED vars
  BY <1>2, <1>7, NothingVisited DEF vars
<1>8. ASSUME NEW f \in ToSet(mod), NumberInstructions(f) PROVE f.declaration \in BOOLEAN
  BY <1>8, Visit DEF NumberInstructions, FunctionRecord
<1> QED BY <1>1, <1>3, <1>4, <1>5, <1>6, <1>7, <1>8 DEF Next

LEMMA TileStep ==
    ASSUME LoopInv, NumbersInv, NumbersTileTheModule, [Next]_vars
    PROVE  NumbersTileTheModule'
<1>0. ASSUME NEW g \in DOMAIN instrIDs
      PROVE  instrIDs[g][1] \in Nat /\ instrIDs[g][2] \in Int /\ instrIDs[g][2] < globalID
  <2>1. PICK n \in Numbered : g = mod[n].name
    BY DEF NumbersInv, NamesOf
  <2>2. mod[n].insts \in Nat
    BY VisitedAreBodies, ModuleFacts DEF FunctionRecord
  <2> QED BY <2>1, <2>2 DEF NumbersInv
<1>1. ASSUME NEW f \in ToSet(mod), NumberInstructions(f), ~f.declaration
      PROVE  NumbersTileTheModule'
  <2>1. /\ DOMAIN instrIDs' = DOMAIN instrIDs \cup {f.name} /\ f.name \notin DOMAIN instrIDs
        /\ instrIDs'[f.name] = <<globalID, globalID + f.insts - 1>>
        /\ \A g \in DOMAIN instrIDs : instrIDs'[g] = instrIDs[g]
        /\ f.insts \in Nat /\ f.insts > 0 /\ globalID \in Nat /\ globalID' = globalID + f.insts
    BY <1>1, NumberedNow
  <2>2. ASSUME NEW g \in DOMAIN instrIDs', NEW h \in DOMAIN instrIDs', g # h
        PROVE  instrIDs'[g][2] < instrIDs'[h][1] \/ instrIDs'[h][2] < instrIDs'[g][1]
    <3>1. CASE g # f.name /\ h # f.name
      BY <2>1, <2>2, <3>1 DEF NumbersTileTheModule
    <3>2. CASE g = f.name
      BY <1>0, <2>1, <2>2, <3>2
    <3>3. CASE h = f.name
      BY <1>0, <2>1, <2>2, <3>3
    <3> QED BY <3>1, <3>2, <3>3
  <2>3. ASSUME NEW n \in 0 .. globalID' - 1
        PROVE  \E g \in DOMAIN instrIDs' : instrIDs'[g][1] <= n /\ n <= instrIDs'[g][2]
    <3>1. CASE n < globalID
      <4>1. PICK g \in DOMAIN instrIDs : instrIDs[g][1] <= n /\ n <= instrIDs[g][2]
        BY <2>1, <3>1 DEF NumbersTileTheModule
      <4> QED BY <2>1, <4>1
    <3>2. CASE n >= globalID
      BY <2>1, <3>2
    <3> QED BY <2>1, <3>1, <3>2
  <2> QED BY <2>2, <2>3 DEF NumbersTileTheModule
<1>2. ASSUME instrIDs' = instrIDs, globalID' = globalID PROVE NumbersTileTheModule'
  BY <1>2 DEF NumbersTileTheModule
<1>3. ASSUME NEW f \in ToSet(mod), NumberInstructions(f) PROVE NumbersTileTheModule'
  <2>1. f.declaration \in BOOLEAN
    BY <1>3, Visit DEF NumberInstructions, FunctionRecord
  <2> QED BY <1>1, <1>2, <1>3, <2>1 DEF NumberInstructions
<1> QED BY <1>2, <1>3 DEF Next, MeasureFunction, WriteCalls, SelectFunction, EndPhase, vars

\* The size that main computes from funcSizes and the calls in memory is the
\* one the numbers and the lines of callgraph.txt give.
LEMMA TotalIsReachable ==
    ASSUME LoopInv, SizesInv, LinesInv, NumbersInv, phase \in {"select", "done"}, NEW n \in Numbered
    PROVE  Reachable(mod[n].name) = TotalSize(mod[n])
<1> DEFINE F == mod[n]
           S == Callees(F)
           called == [c \in S |-> funcSizes[F.calls[c]]]
           lines == {l \in callgraph : l.caller = F.name}
           b == [c \in S |-> Line(F, c)]
           written == [l \in lines |-> Instructions(l.callee)]
<1>1. /\ Graphed = Bodies(1 .. Len(mod)) /\ Numbered = Bodies(1 .. Len(mod))
      /\ Measured = Bodies(1 .. Len(mod))
  BY VisitedAreBodies
<1>2. F \in FunctionRecord /\ n \in 1 .. Len(mod)
  BY VisitedAreBodies, ModuleFacts
<1>3. ASSUME NEW m \in Numbered
      PROVE  /\ Instructions(mod[m].name) = mod[m].insts /\ mod[m].insts \in Nat
             /\ funcSizes[mod[m].name] = mod[m].insts
  <2>1. mod[m].insts \in Nat
    BY VisitedAreBodies, ModuleFacts DEF FunctionRecord
  <2>2. Instructions(mod[m].name) = mod[m].insts
    BY <2>1 DEF NumbersInv, Instructions
  <2> QED BY <1>1, <2>1, <2>2 DEF SizesInv
<1>4. ASSUME NEW c \in S
      PROVE  \E m \in Numbered : F.calls[c] = mod[m].name
  BY <1>1, ModuleFacts DEF Callees, Defined, Bodies
<1>5. IsFiniteSet(S)
  <2>1. F.calls \in Seq(ToSet(Names))
    BY <1>2 DEF FunctionRecord
  <2>2. S \subseteq 1 .. Len(F.calls) /\ Len(F.calls) \in Nat
    BY <2>1 DEF Callees
  <2>3. IsFiniteSet(1 .. Len(F.calls))
    BY <2>2, FS_Interval
  <2> HIDE DEF S
  <2> QED BY <2>2, <2>3, FS_Subset
<1>6. \A c \in S : called[c] \in Nat
  BY <1>3, <1>4
<1>7. lines = {b[c] : c \in S}
  <2>1. ASSUME NEW m \in Graphed, NEW l \in Lines(mod[m]) PROVE l.caller = F.name <=> m = n
    <3>1. l.caller = mod[m].name
      BY DEF Lines, Line
    <3> QED BY <1>1, <3>1, ModuleFacts DEF Bodies
  <2>2. lines = Lines(F)
    BY <1>1, <2>1 DEF LinesInv
  <2> QED BY <2>2 DEF Lines
<1>8. \A c, d \in S : b[c] = b[d] => c = d
  BY DEF Line
<1>9. \A c \in S : written[b[c]] = called[c]
  <2> TAKE c \in S
  <2>1. b[c] \in lines /\ b[c].callee = F.calls[c]
    BY <1>7 DEF Line
  <2>2. written[b[c]] = Instructions(F.calls[c])
    BY <2>1
  <2> HIDE DEF written, lines, b
  <2> QED BY <1>3, <1>4, <2>2
<1>10. DOMAIN written = lines /\ DOMAIN called = S
  OBVIOUS
<1>11. Reachable(F.name) = F.insts + SumFunctionOnSet(written, lines)
  BY <1>3, <1>10 DEF Reachable, SumFunction
<1>12. TotalSize(F) = F.insts + SumFunctionOnSet(called, S)
  BY <1>10 DEF TotalSize, SumFunction
<1> HIDE DEF S, called, lines, b, written
<1>13. SumFunctionOnSet(written, lines) = SumFunctionOnSet(called, S)
  <2>1. SumFunctionOnSet(written, {b[c] : c \in S}) = SumFunctionOnSet(called, S)
    BY <1>5, <1>6, <1>8, <1>9, SumRenamed
  <2> QED BY <1>7, <2>1
<1> QED BY <1>11, <1>12, <1>13

LEMMA BundlesStep ==
    ASSUME LoopInv, SizesInv, LinesInv, NumbersInv, BundlesInv, [Next]_vars
    PROVE  BundlesInv'
<1>1. ASSUME instrIDs' = instrIDs, callgraph' = callgraph
      PROVE  \A f : Reachable(f)' = Reachable(f) /\ Bundle(f)' = Bundle(f)
  BY <1>1 DEF Bundle, Reachable, Instructions
<1>2. ASSUME instrIDs' = instrIDs, callgraph' = callgraph,
             Considered' = Considered, bundles' = bundles
      PROVE  BundlesInv'
  <2>1. Selected' = Selected /\ {Bundle(f) : f \in Selected}' = {Bundle(f) : f \in Selected}
    BY <1>1, <1>2 DEF Selected
  <2> QED BY <1>2, <2>1 DEF BundlesInv
<1>3. ASSUME Considered' = Considered, Considered = {}, bundles' = bundles
      PROVE  BundlesInv'
  <2>1. Selected = {} /\ Selected' = {}
    BY <1>3 DEF Selected
  <2>2. {Bundle(f) : f \in Selected} = {} /\ {Bundle(f) : f \in Selected}' = {}
    BY <2>1
  <2> QED BY <1>3, <2>1, <2>2 DEF BundlesInv
<1>4. ASSUME NEW f \in ToSet(mod), MeasureFunction(f) \/ WriteCalls(f) \/ NumberInstructions(f)
      PROVE  BundlesInv'
  <2>1. Considered' = Considered /\ phase \in {"measure", "graph", "number"}
    BY <1>4, Visit DEF MeasureFunction, WriteCalls, NumberInstructions
  <2> QED BY <1>3, <1>4, <2>1 DEF Considered, MeasureFunction, WriteCalls, NumberInstructions
<1>5. CASE SelectFunction
  <2> DEFINE name == Names[k + 1]
             F == CHOOSE g \in ToSet(mod) : g.name = name
  <2>1. Considered' = Considered \cup {name} /\ name \notin Considered
    BY <1>5, Consider
  <2>2. phase = "select" /\ instrIDs' = instrIDs /\ callgraph' = callgraph
    BY <1>5 DEF SelectFunction
  <2>3. DOMAIN funcSizes = DOMAIN instrIDs
    BY <2>2, VisitedAreBodies DEF SizesInv, NumbersInv
  <2>4. ASSUME name \in DOMAIN instrIDs PROVE TotalSize(F) = Reachable(name)
    <3>1. PICK n \in Numbered : mod[n].name = name
      BY <2>4 DEF NumbersInv, NamesOf
    <3>2. mod[n] \in ToSet(mod) /\ \A g \in ToSet(mod) : g.name = name => g = mod[n]
      BY <3>1, ModuleFacts, VisitedAreBodies
    <3>3. F = mod[n]
      BY <3>1, <3>2
    <3> QED BY <2>2, <3>1, <3>3, TotalIsReachable
  <2>5. bundles' = IF name \in DOMAIN funcSizes /\ TotalSize(F) >= THRESHOLD
                   THEN Append(bundles, [function       |-> name,
                                         reachable_size |-> TotalSize(F),
                                         start_pc       |-> instrIDs[name][1],
                                         end_pc         |-> instrIDs[name][2]])
                   ELSE bundles
    BY <1>5 DEF SelectFunction
  <2> DEFINE chosen == name \in DOMAIN instrIDs /\ Reachable(name) >= THRESHOLD
  <2>6. bundles' = IF chosen THEN Append(bundles, Bundle(name)) ELSE bundles
    BY <2>3, <2>4, <2>5 DEF Bundle
  <2> HIDE DEF F
  <2>7. /\ \A f : Reachable(f)' = Reachable(f) /\ Bundle(f)' = Bundle(f)
        /\ DOMAIN instrIDs' = DOMAIN instrIDs
    BY <1>1, <2>2
  <2>8. Selected' = {f \in (Considered \cup {name}) \cap DOMAIN instrIDs : Reachable(f) >= THRESHOLD}
    BY <2>1, <2>7 DEF Selected
  <2>9. Selected' = (IF chosen THEN Selected \cup {name} ELSE Selected) /\ name \notin Selected
    BY <2>1, <2>8 DEF Selected
  <2>10. {Bundle(f) : f \in Selected}' = {Bundle(f) : f \in Selected'}
    BY <2>7
  <2> HIDE DEF name, chosen
  <2>11. CASE ~chosen
    BY <2>6, <2>9, <2>10, <2>11 DEF BundlesInv
  <2>12. CASE chosen
    <3> DEFINE B == {Bundle(f) : f \in Selected}
               C == {Bundle(f) : f \in Selected'}
    <3>1. C = B \cup {Bundle(name)}
      BY <2>9, <2>12
    <3>2. bundles \in Seq(B) /\ ToSet(bundles) = B /\ bundles' = Append(bundles, Bundle(name))
      BY <2>6, <2>12 DEF BundlesInv
    <3>3. /\ IsFiniteSet(Selected) /\ Len(bundles) = Cardinality(Selected)
          /\ Selected' = Selected \cup {name} /\ name \notin Selected
      BY <2>9, <2>12 DEF BundlesInv
    <3>4. IsFiniteSet(Selected') /\ Cardinality(Selected') = Cardinality(Selected) + 1
      BY <3>3, FS_AddElement
    <3> HIDE DEF B, C
    <3>5. bundles' \in Seq(C)
      BY <3>1, <3>2
    <3>6. ToSet(bundles') = C
      BY <3>1, <3>2 DEF ToSet
    <3>7. Len(bundles') = Cardinality(Selected')
      BY <3>2, <3>3, <3>4
    <3> QED BY <2>10, <3>4, <3>5, <3>6, <3>7 DEF BundlesInv, C, ToSet
  <2> QED BY <2>11, <2>12
<1>6. CASE EndPhase
  BY <1>2, <1>6, NextLoop DEF EndPhase
<1>7. CASE UNCHANGED vars
  BY <1>2, <1>7, NothingVisited DEF vars
<1> QED BY <1>4, <1>5, <1>6, <1>7 DEF Next

-----------------------------------------------------------------------------
(* The analyser: theorems *)

GraphInv ==
    /\ LoopInv /\ SizesInv /\ LinesInv /\ NumbersInv
    /\ NumbersTileTheModule /\ BundlesInv

LEMMA GraphInit == Init => GraphInv
<1> SUFFICES ASSUME Init PROVE GraphInv
  OBVIOUS
<1>1. LoopInv
  <2>1. IsModule(mod)
    BY ModulesAssumption DEF Init
  <2>2. Len(mod) \in Nat
    BY <2>1 DEF IsModule
  <2> QED BY <2>2 DEF Init, LoopInv
<1>2. 1 .. k = {} /\ phase = "measure"
  BY DEF Init
<1>3. Measured = {} /\ Graphed = {} /\ Numbered = {} /\ Considered = {}
  BY <1>2 DEF Measured, Graphed, Numbered, Considered, Bodies
<1>4. DOMAIN funcSizes = {} /\ DOMAIN instrIDs = {}
  BY DEF Init, EmptyMap
<1>5. SizesInv /\ NumbersInv
  BY <1>3, <1>4 DEF SizesInv, NumbersInv, NamesOf
<1>6. LinesInv
  BY <1>3 DEF LinesInv, Init
<1>7. NumbersTileTheModule
  BY <1>4 DEF Init, NumbersTileTheModule
<1>8. BundlesInv
  <2>1. Selected = {} /\ {Bundle(f) : f \in Selected} = {}
    BY <1>3 DEF Selected
  <2> QED BY <2>1, FS_EmptySet DEF Init, BundlesInv, ToSet
<1> QED BY <1>1, <1>5, <1>6, <1>7, <1>8 DEF GraphInv

LEMMA GraphStep == GraphInv /\ [Next]_vars => GraphInv'
BY LoopStep, SizesStep, LinesStep, NumbersStep, TileStep, BundlesStep DEF GraphInv

\* The invariant gives the type invariant, and at the end the bundles are those
\* the two files call for.
LEMMA GraphType == GraphInv => TypeOK
<1> SUFFICES ASSUME GraphInv PROVE TypeOK
  OBVIOUS
<1>0. LoopInv /\ SizesInv /\ LinesInv /\ NumbersInv /\ BundlesInv
  BY DEF GraphInv
<1>1. ASSUME NEW n \in Measured \cup Graphed \cup Numbered PROVE mod[n].name \in ToSet(Names)
  BY <1>0, VisitedAreBodies, ModuleFacts DEF FunctionRecord
<1>2. DOMAIN funcSizes \subseteq ToSet(Names) /\ DOMAIN instrIDs \subseteq ToSet(Names)
  BY <1>0, <1>1 DEF SizesInv, NumbersInv, NamesOf
<1>3. ASSUME NEW l \in callgraph
      PROVE  l.caller \in DOMAIN funcSizes /\ l.callee \in DOMAIN funcSizes
  <2>0. PICK n \in Graphed : l \in Lines(mod[n])
    BY <1>0 DEF LinesInv
  <2>1. PICK c \in Callees(mod[n]) : l = Line(mod[n], c)
    BY <2>0 DEF Lines
  <2>2. phase # "measure" /\ Measured = Bodies(1 .. Len(mod))
    BY <1>0, VisitedAreBodies DEF Graphed, Bodies
  <2>3. n \in Measured
    BY <1>0, <2>2, VisitedAreBodies DEF Bodies
  <2>4. PICK m \in Measured : mod[n].calls[c] = mod[m].name
    BY <1>0, <2>2, ModuleFacts DEF Callees, Defined, Bodies
  <2> QED BY <1>0, <2>1, <2>3, <2>4 DEF Line, SizesInv, NamesOf
<1>4. ASSUME NEW b \in ToSet(bundles) PROVE b.start_pc \in Nat /\ b.end_pc \in Nat
  <2>1. PICK f \in Selected : b = Bundle(f)
    BY <1>0 DEF BundlesInv
  <2>2. PICK n \in Numbered : f = mod[n].name
    BY <1>0 DEF Selected, NumbersInv, NamesOf
  <2>3. mod[n].insts \in Nat /\ mod[n].insts > 0
    BY <1>0, VisitedAreBodies, ModuleFacts DEF FunctionRecord
  <2>4. instrIDs[f][1] \in Nat /\ instrIDs[f][2] = instrIDs[f][1] + mod[n].insts - 1
    BY <1>0, <2>2 DEF NumbersInv
  <2>5. instrIDs[f][2] \in Nat
    BY <2>3, <2>4
  <2> QED BY <2>1, <2>4, <2>5 DEF Bundle
<1> QED BY <1>0, <1>2, <1>3, <1>4 DEF TypeOK, LoopInv

LEMMA GraphAgreement == GraphInv => BundlesAgreeWithCallGraph
<1> SUFFICES ASSUME GraphInv, phase = "done"
             PROVE  LET selected == {f \in DOMAIN instrIDs : Reachable(f) >= THRESHOLD}
                    IN  /\ Len(bundles) = Cardinality(selected)
                        /\ ToSet(bundles) = {Bundle(f) : f \in selected}
  BY DEF BundlesAgreeWithCallGraph, Bundle
<1>1. DOMAIN instrIDs \subseteq ToSet(Names)
  BY GraphType DEF TypeOK
<1>2. Considered = ToSet(Names)
  BY CallGraphAssumption DEF Considered, ToSet
<1>3. Selected = {f \in DOMAIN instrIDs : Reachable(f) >= THRESHOLD}
  BY <1>1, <1>2 DEF Selected
<1> QED BY <1>3 DEF GraphInv, BundlesInv

\* The analyser on its own: its numbers tile the module, and the files agree.
THEOREM AnalyserCorrect ==
    Spec => [](TypeOK /\ NumbersTileTheModule /\ BundlesAgreeWithCallGraph)
<1>1. Init => GraphInv
  BY GraphInit
<1>2. GraphInv /\ [Next]_vars => GraphInv'
  BY GraphStep
<1>3. GraphInv => TypeOK /\ NumbersTileTheModule /\ BundlesAgreeWithCallGraph
  BY GraphType, GraphAgreement DEF GraphInv
<1> QED BY <1>1, <1>2, <1>3, PTL DEF Spec

-----------------------------------------------------------------------------
(* The script: sorting the labels *)

Label == Nat \X ToSet(Names)

\* Labels are totally ordered by address and name.
LEMMA BeforeIsTotal ==
    ASSUME NEW a \in Label, NEW b \in Label
    PROVE  /\ Map!Before(a, b) \/ Map!Before(b, a) \/ a = b
           /\ ~(Map!Before(a, b) /\ Map!Before(b, a)) /\ ~Map!Before(a, a)
           /\ Map!Before(a, b) => a[1] <= b[1]
<1>1. a[1] \in Nat /\ b[1] \in Nat
  BY DEF Label
<1>2. PICK m \in 1 .. Len(Names) : Names[m] = a[2]
  BY CallGraphAssumption DEF Label, ToSet
<1>3. PICK n \in 1 .. Len(Names) : Names[n] = b[2]
  BY CallGraphAssumption DEF Label, ToSet
<1>4. /\ \A u \in DOMAIN Names : (Names[u] = a[2] <=> u = m) /\ (Names[u] = b[2] <=> u = n)
      /\ m \in DOMAIN Names /\ n \in DOMAIN Names /\ m \in Nat /\ n \in Nat
  BY <1>2, <1>3, CallGraphAssumption
<1>5. Map!Before(a, b) <=> (a[1] < b[1] \/ (a[1] = b[1] /\ m < n))
  BY <1>4 DEF Map!Before
<1>6. Map!Before(b, a) <=> (b[1] < a[1] \/ (b[1] = a[1] /\ n < m))
  BY <1>4 DEF Map!Before
<1>7. ~Map!Before(a, a)
  BY <1>1, <1>4 DEF Map!Before
<1>8. a[1] = b[1] /\ m = n => a = b
  BY <1>2, <1>3 DEF Label
<1> QED BY <1>1, <1>4, <1>5, <1>6, <1>7, <1>8

LEMMA BeforeIsTransitive ==
    ASSUME NEW a \in Label, NEW b \in Label, NEW c \in Label,
           Map!Before(a, b), Map!Before(b, c)
    PROVE  Map!Before(a, c)
<1>1. a[1] \in Nat /\ b[1] \in Nat /\ c[1] \in Nat
  BY DEF Label
<1>2. \A u \in DOMAIN Names : u \in Nat
  BY CallGraphAssumption
<1>3. PICK m \in 1 .. Len(Names) : Names[m] = b[2]
  BY CallGraphAssumption DEF Label, ToSet
<1>4. \A u \in DOMAIN Names : Names[u] = b[2] => u = m
  BY <1>3, CallGraphAssumption
<1>5. CASE a[1] = b[1] /\ b[1] = c[1]
  <2>1. PICK u \in DOMAIN Names : u < m /\ Names[u] = a[2]
    BY <1>1, <1>4, <1>5 DEF Map!Before
  <2>2. PICK w \in DOMAIN Names : m < w /\ Names[w] = c[2]
    BY <1>1, <1>4, <1>5 DEF Map!Before
  <2>3. u < w
    BY <1>2, <1>3, <2>1, <2>2, CallGraphAssumption
  <2> QED BY <1>5, <2>1, <2>2, <2>3 DEF Map!Before
<1>6. CASE ~(a[1] = b[1] /\ b[1] = c[1])
  <2>1. a[1] <= b[1] /\ b[1] <= c[1]
    BY BeforeIsTotal
  <2>2. a[1] < c[1]
    BY <1>1, <1>6, <2>1
  <2> QED BY <2>2 DEF Map!Before
<1> QED BY <1>5, <1>6

\* The positions the sort puts before n, or at its place.
UpTo(n) == {m \in DOMAIN func_order :
                \/ Map!Before(func_order[m], func_order[n])
                \/ func_order[m] = func_order[n] /\ m <= n}

LEMMA RankIsUpTo == \A n : Map!Rank(n) = Cardinality(UpTo(n))
BY DEF Map!Rank, Map!Cardinality, Cardinality, UpTo

LEMMA UpToFacts ==
    ASSUME func_order \in Seq(Label), NEW m \in DOMAIN func_order, NEW n \in DOMAIN func_order
    PROVE  /\ n \in UpTo(n)
           /\ m \in UpTo(n) \/ n \in UpTo(m)
           /\ m \in UpTo(n) => UpTo(m) \subseteq UpTo(n)
           /\ m \in UpTo(n) /\ n \in UpTo(m) => m = n
           /\ m \in UpTo(n) => func_order[m][1] <= func_order[n][1]
<1>0. /\ \A u \in DOMAIN func_order : func_order[u] \in Label
      /\ DOMAIN func_order \subseteq Nat
  OBVIOUS
<1>1. func_order[m] \in Label /\ func_order[n] \in Label /\ m \in Nat /\ n \in Nat
  BY <1>0
<1>2. /\ Map!Before(func_order[m], func_order[n]) \/ Map!Before(func_order[n], func_order[m])
             \/ func_order[m] = func_order[n]
      /\ ~(Map!Before(func_order[m], func_order[n]) /\ Map!Before(func_order[n], func_order[m]))
      /\ ~Map!Before(func_order[n], func_order[n])
      /\ Map!Before(func_order[m], func_order[n]) => func_order[m][1] <= func_order[n][1]
  BY <1>1, BeforeIsTotal
<1>3. n \in UpTo(n)
  BY <1>1 DEF UpTo
<1>4. m \in UpTo(n) \/ n \in UpTo(m)
  BY <1>1, <1>2 DEF UpTo
<1>5. m \in UpTo(n) /\ n \in UpTo(m) => m = n
  BY <1>1, <1>2 DEF UpTo
<1>6. m \in UpTo(n) => func_order[m][1] <= func_order[n][1]
  <2>1. func_order[n][1] <= func_order[n][1]
    BY <1>1 DEF Label
  <2> QED BY <1>2, <2>1 DEF UpTo
<1>7. ASSUME m \in UpTo(n), NEW u \in UpTo(m) PROVE u \in UpTo(n)
  <2>1. u \in DOMAIN func_order /\ func_order[u] \in Label /\ u \in Nat
    BY <1>0 DEF UpTo
  <2>2. \/ Map!Before(func_order[m], func_order[n])
        \/ func_order[m] = func_order[n] /\ m <= n
    BY <1>7 DEF UpTo
  <2>3. \/ Map!Before(func_order[u], func_order[m])
        \/ func_order[u] = func_order[m] /\ u <= m
    BY DEF UpTo
  <2>4. Map!Before(func_order[u], func_order[m]) /\ Map!Before(func_order[m], func_order[n])
           => Map!Before(func_order[u], func_order[n])
    BY <1>1, <2>1, BeforeIsTransitive
  <2>5. u <= m /\ m <= n => u <= n
    BY <1>1, <2>1
  <2> QED BY <2>1, <2>2, <2>3, <2>4, <2>5 DEF UpTo
<1> QED BY <1>3, <1>4, <1>5, <1>6, <1>7

\* The ranks are the positions: every one is taken once, in the order of UpTo.
LEMMA RanksArePositions ==
    ASSUME func_order \in Seq(Label)
    PROVE  /\ \A n \in DOMAIN func_order : Map!Rank(n) \in DOMAIN func_order
           /\ \A m, n \in DOMAIN func_order : Map!Rank(m) = Map!Rank(n) => m = n
           /\ \A m, n \in DOMAIN func_order : Map!Rank(m) < Map!Rank(n) => m \in UpTo(n)
           /\ \A r \in DOMAIN func_order : \E n \in DOMAIN func_order : Map!Rank(n) = r
<1> DEFINE D == DOMAIN func_order
<1>0. D = 1 .. Len(func_order) /\ Len(func_order) \in Nat
  OBVIOUS
<1>1. IsFiniteSet(D) /\ Cardinality(D) = Len(func_order)
  <2>1. IsFiniteSet(1 .. Len(func_order)) /\ Cardinality(1 .. Len(func_order)) = Len(func_order)
    BY <1>0, FS_Interval
  <2> QED BY <1>0, <2>1
<1> HIDE DEF D
<1>2. ASSUME NEW n \in D
      PROVE  IsFiniteSet(UpTo(n)) /\ Map!Rank(n) \in D /\ Map!Rank(n) = Cardinality(UpTo(n))
  <2>1. UpTo(n) \subseteq D /\ n \in UpTo(n)
    BY UpToFacts DEF UpTo, D
  <2>2. IsFiniteSet(UpTo(n)) /\ Cardinality(UpTo(n)) <= Len(func_order)
    BY <1>1, <2>1, FS_Subset
  <2>3. Cardinality(UpTo(n)) \in Nat /\ Cardinality(UpTo(n)) # 0
    BY <2>1, <2>2, FS_CardinalityType, FS_EmptySet
  <2> QED BY <1>0, <2>2, <2>3, RankIsUpTo
<1>3. ASSUME NEW m \in D, NEW n \in D, m \in UpTo(n), m # n PROVE Map!Rank(m) < Map!Rank(n)
  <2>1. UpTo(m) \subseteq UpTo(n) /\ n \notin UpTo(m) /\ n \in UpTo(n)
    BY <1>3, UpToFacts DEF D
  <2>2. IsFiniteSet(UpTo(n)) /\ UpTo(m) \in SUBSET UpTo(n) /\ UpTo(n) # UpTo(m)
    BY <1>2, <2>1
  <2>3. Cardinality(UpTo(m)) <= Cardinality(UpTo(n)) /\ Cardinality(UpTo(m)) # Cardinality(UpTo(n))
    BY <2>2, FS_Subset
  <2>4. Map!Rank(m) \in Nat /\ Map!Rank(n) \in Nat
    BY <1>0, <1>2
  <2> QED BY <1>2, <2>3, <2>4
<1>4. ASSUME NEW m \in D, NEW n \in D PROVE m \in UpTo(n) \/ n \in UpTo(m)
  BY UpToFacts DEF D
<1>5. ASSUME NEW m \in D, NEW n \in D, Map!Rank(m) = Map!Rank(n) PROVE m = n
  BY <1>0, <1>2, <1>3, <1>4, <1>5
<1>6. ASSUME NEW m \in D, NEW n \in D, Map!Rank(m) < Map!Rank(n) PROVE m \in UpTo(n)
  BY <1>0, <1>2, <1>3, <1>4, <1>6
<1> DEFINE rank == [n \in D |-> Map!Rank(n)]
<1>7. rank \in Injection(D, D)
  BY <1>2, <1>5 DEF Injection, IsInjective
<1>8. rank \in Surjection(D, D)
  <2> HIDE DEF rank
  <2> QED BY <1>1, <1>7, FS_Injection
<1>9. \A r \in D : \E n \in D : Map!Rank(n) = r
  BY <1>8 DEF Surjection
<1> QED BY <1>2, <1>5, <1>6, <1>9 DEF D

\* What a sort by address does to the labels in s.
SortedAs(s, t) ==
    /\ t \in Seq(Label) /\ Len(t) = Len(s)
    /\ \E p \in Bijection(DOMAIN s, DOMAIN s) : \A r \in DOMAIN s : t[r] = s[p[r]]
    /\ \A r, q \in DOMAIN t : r < q => t[r][1] <= t[q][1]

LEMMA SortLabelsSorts ==
    ASSUME func_order \in Seq(Label), Map!SortLabels
    PROVE  SortedAs(func_order, func_order')
<1> DEFINE D == DOMAIN func_order
           p == [r \in D |-> CHOOSE n \in D : Map!Rank(n) = r]
<1>0. D = 1 .. Len(func_order) /\ Len(func_order) \in Nat
  OBVIOUS
<1>1. func_order' = [r \in D |-> func_order[p[r]]]
  BY DEF Map!SortLabels
<1>2. \A r \in D : p[r] \in D /\ Map!Rank(p[r]) = r
  BY RanksArePositions
<1>3. \A n \in D : Map!Rank(n) \in D /\ p[Map!Rank(n)] = n
  BY <1>2, RanksArePositions
<1> HIDE DEF p
<1>4. p \in Bijection(D, D)
  <2>1. p \in [D -> D]
    BY <1>2 DEF p
  <2>2. \A r, q \in D : p[r] = p[q] => r = q
    BY <1>2
  <2>3. \A n \in D : \E r \in D : p[r] = n
    BY <1>3
  <2> HIDE DEF D
  <2> QED BY <2>1, <2>2, <2>3 DEF Bijection, Injection, Surjection, IsInjective
<1>5. ASSUME NEW r \in D, NEW q \in D, r < q PROVE func_order'[r][1] <= func_order'[q][1]
  <2>1. p[r] \in UpTo(p[q])
    BY <1>2, <1>5, RanksArePositions
  <2>2. func_order[p[r]][1] <= func_order[p[q]][1]
    BY <1>2, <2>1, UpToFacts
  <2> QED BY <1>1, <2>2
<1>6. func_order' \in Seq(Label) /\ Len(func_order') = Len(func_order)
      /\ DOMAIN func_order' = D
  <2>1. \A n \in D : func_order[p[n]] \in Label
    BY <1>2
  <2> QED BY <1>0, <1>1, <2>1
<1>7. \A r \in D : func_order'[r] = func_order[p[r]]
  BY <1>1
<1> HIDE DEF D
<1> QED BY <1>4, <1>5, <1>6, <1>7 DEF SortedAs, D

-----------------------------------------------------------------------------
(* The script: what has been computed of the labels and bundles seen so far *)

OrderInv ==
    /\ mapPhase \in {"start", "read", "ranges", "map", "done"}
    /\ mapK \in Nat /\ labels \in Seq(Label) /\ func_order \in Seq(Label)
    /\ mapPhase = "start" => mapK = 0
    /\ mapPhase \in {"start", "read"} =>
          /\ Len(func_order) = mapK /\ mapK <= Len(labels)
          /\ \A n \in 1 .. mapK : func_order[n] = labels[n]
    /\ mapPhase \in {"ranges", "map", "done"} => SortedAs(labels, func_order)
    /\ mapPhase = "ranges" => mapK <= Len(func_order)

\* The positions of func_order that have their range, and the range.
Ranged == IF mapPhase = "ranges" THEN 1 .. mapK
          ELSE IF mapPhase \in {"map", "done"} THEN 1 .. Len(func_order) ELSE {}
CodeOf(n) == <<func_order[n][1], Map!EndOf(n)>>

RangesInv ==
    /\ DOMAIN func_ranges = {func_order[n][2] : n \in Ranged}
    /\ \A f \in DOMAIN func_ranges :
          \E n \in Ranged : f = func_order[n][2] /\ func_ranges[f] = CodeOf(n)

LEMMA OrderStep ==
    ASSUME OrderInv, [ToolchainNext]_<<vars, mapVars>>
    PROVE  OrderInv'
<1>1. CASE Map!ReadLabel
  <2>1. /\ mapPhase = "read" /\ mapPhase' = "read" /\ mapK < Len(labels) /\ mapK' = mapK + 1
        /\ func_order' = Append(func_order, labels[mapK + 1]) /\ labels' = labels
    BY <1>1 DEF Map!ReadLabel
  <2>2. labels[mapK + 1] \in Label
    BY <2>1 DEF OrderInv
  <2>3. func_order' \in Seq(Label) /\ Len(func_order') = mapK + 1
    BY <2>1, <2>2 DEF OrderInv
  <2>4. \A n \in 1 .. mapK + 1 : func_order'[n] = labels[n]
    BY <2>1 DEF OrderInv
  <2> QED BY <2>1, <2>3, <2>4 DEF OrderInv
<1>2. CASE Map!SortLabels
  <2>1. /\ mapPhase = "read" /\ mapPhase' = "ranges" /\ mapK = Len(labels) /\ mapK' = 0
        /\ labels' = labels
    BY <1>2 DEF Map!SortLabels
  <2>2. func_order = labels
    BY <2>1 DEF OrderInv
  <2>3. SortedAs(labels, func_order')
    BY <1>2, <2>2, SortLabelsSorts DEF OrderInv
  <2> QED BY <2>1, <2>3 DEF OrderInv, SortedAs
<1>3. CASE Map!AddRange \/ Map!RangesDone \/ Map!MapBundle \/ Map!WriteBundles
  <2>1. labels' = labels /\ func_order' = func_order
    BY <1>3 DEF Map!AddRange, Map!RangesDone, Map!MapBundle, Map!WriteBundles
  <2>2. SortedAs(labels, func_order)' <=> SortedAs(labels, func_order)
    BY <2>1 DEF SortedAs
  <2> QED BY <1>3, <2>1, <2>2
          DEF OrderInv, Map!AddRange, Map!RangesDone, Map!MapBundle, Map!WriteBundles
<1>4. CASE HandOver
  <2>1. PICK d \in Disassemblies :
            Map!Start(d[2], [n \in DOMAIN bundles |-> Written(bundles[n])])
    BY <1>4 DEF HandOver
  <2>2. d[2] \in Seq(Label)
    BY ToolchainAssumption DEF Label
  <2> QED BY <2>1, <2>2 DEF Map!Start, OrderInv
<1>5. CASE UNCHANGED mapVars
  <2>1. SortedAs(labels, func_order)' <=> SortedAs(labels, func_order)
    BY <1>5 DEF SortedAs, mapVars
  <2> QED BY <1>5, <2>1 DEF OrderInv, mapVars
<1> QED BY <1>1, <1>2, <1>3, <1>4, <1>5 DEF ToolchainNext, Analyse, MapBundles, Map!Next

LEMMA RangesStep ==
    ASSUME OrderInv, RangesInv, [ToolchainNext]_<<vars, mapVars>>
    PROVE  RangesInv'
<1>0. ASSUME func_order' = func_order, func_ranges' = func_ranges, Ranged' = Ranged
      PROVE  RangesInv'
  BY <1>0 DEF RangesInv, CodeOf, Map!EndOf
<1>1. CASE Map!AddRange
  <2> DEFINE f == func_order[mapK + 1]
  <2>1. /\ mapPhase = "ranges" /\ mapPhase' = "ranges" /\ mapK < Len(func_order)
        /\ mapK' = mapK + 1 /\ func_order' = func_order
        /\ func_ranges' = Map!Put(func_ranges, f[2], <<f[1], Map!EndOf(mapK + 1)>>)
    BY <1>1 DEF Map!AddRange
  <2>2. Ranged' = Ranged \cup {mapK + 1}
    BY <2>1 DEF Ranged, OrderInv
  <2>3. \A n : CodeOf(n)' = CodeOf(n)
    BY <2>1 DEF CodeOf, Map!EndOf
  <2>4. func_ranges' = Map!Put(func_ranges, f[2], CodeOf(mapK + 1))
    BY <2>1 DEF CodeOf
  <2>5. DOMAIN func_ranges' = DOMAIN func_ranges \cup {f[2]}
    BY <2>4 DEF Map!Put
  <2>6. ASSUME NEW g \in DOMAIN func_ranges'
        PROVE  \E n \in Ranged' : g = func_order'[n][2] /\ func_ranges'[g] = CodeOf(n)'
    <3>1. CASE g = f[2]
      BY <2>1, <2>2, <2>3, <2>4, <3>1 DEF Map!Put
    <3>2. CASE g # f[2]
      <4>1. g \in DOMAIN func_ranges /\ func_ranges'[g] = func_ranges[g]
        BY <2>4, <3>2 DEF Map!Put
      <4>2. PICK n \in Ranged : g = func_order[n][2] /\ func_ranges[g] = CodeOf(n)
        BY <4>1 DEF RangesInv
      <4> QED BY <2>1, <2>2, <2>3, <4>1, <4>2
    <3> QED BY <3>1, <3>2
  <2>7. DOMAIN func_ranges' = {func_order'[n][2] : n \in Ranged'}
    BY <2>1, <2>2, <2>5 DEF RangesInv
  <2> QED BY <2>6, <2>7 DEF RangesInv
<1>2. CASE Map!ReadLabel \/ Map!SortLabels \/ HandOver
  <2>1. func_ranges' = func_ranges /\ Ranged = {} /\ Ranged' = {}
    BY <1>2 DEF Map!ReadLabel, Map!SortLabels, HandOver, Map!Start, Ranged
  <2> QED BY <2>1 DEF RangesInv
<1>3. CASE Map!RangesDone \/ Map!MapBundle \/ Map!WriteBundles
  <2>1. func_order' = func_order /\ func_ranges' = func_ranges /\ Ranged' = Ranged
    BY <1>3 DEF Map!RangesDone, Map!MapBundle, Map!WriteBundles, Ranged
  <2> QED BY <1>0, <2>1
<1>4. CASE UNCHANGED mapVars
  BY <1>0, <1>4 DEF mapVars, Ranged
<1> QED BY <1>1, <1>2, <1>3, <1>4 DEF ToolchainNext, Analyse, MapBundles, Map!Next

\* The script reads what the analyser has written, and the analyser is done.
EntriesInv ==
    mapPhase # "start" =>
        /\ phase = "done"
        /\ entries = [n \in DOMAIN bundles |-> Written(bundles[n])]

LEMMA EntriesStep ==
    ASSUME EntriesInv, [ToolchainNext]_<<vars, mapVars>>
    PROVE  EntriesInv'
<1>1. CASE Analyse
  <2>1. UNCHANGED mapVars
    BY <1>1 DEF Analyse
  <2>2. phase # "done"
    BY <1>1 DEF Analyse, Next, MeasureFunction, WriteCalls, NumberInstructions, At,
                SelectFunction, EndPhase
  <2> QED BY <2>1, <2>2 DEF EntriesInv, mapVars
<1>2. CASE HandOver
  BY <1>2 DEF HandOver, Map!Start, EntriesInv, vars
<1>3. CASE MapBundles
  BY <1>3 DEF MapBundles, Map!Next, Map!ReadLabel, Map!SortLabels, Map!AddRange,
              Map!RangesDone, Map!MapBundle, Map!WriteBundles, EntriesInv, vars
<1>4. CASE UNCHANGED <<vars, mapVars>>
  BY <1>4 DEF EntriesInv, vars, mapVars
<1> QED BY <1>1, <1>2, <1>3, <1>4 DEF ToolchainNext

\* The positions of the bundles read whose function the binary has, and what
\* becomes of such a bundle.
Reached == IF mapPhase = "map" THEN 1 .. mapK
           ELSE IF mapPhase = "done" THEN 1 .. Len(entries) ELSE {}
FunctionOf(n) == entries[n].values["function"]
Known == {n \in Reached : FunctionOf(n) \in DOMAIN func_ranges}
KnownUpTo(n) == {m \in Known : m <= n}
Mapped(n) ==
    LET range == func_ranges[FunctionOf(n)]
    IN  Map!SetItem(Map!SetItem(entries[n], "start_pc", range[1]), "end_pc", range[2])

OutInv ==
    /\ Len(entries) \in Nat
    /\ mapPhase = "map" => mapK <= Len(entries)
    /\ out \in Seq({Mapped(n) : n \in Known})
    /\ IsFiniteSet(Known) /\ Len(out) = Cardinality(Known)
    /\ \A n \in Known : out[Cardinality(KnownUpTo(n))] = Mapped(n)

\* The place of a known bundle among the known ones.
LEMMA PlaceFacts ==
    ASSUME IsFiniteSet(Known), Known \subseteq Nat, NEW n \in Known
    PROVE  Cardinality(KnownUpTo(n)) \in 1 .. Cardinality(Known)
<1>1. KnownUpTo(n) \in SUBSET Known /\ n \in KnownUpTo(n)
  BY DEF KnownUpTo
<1>2. IsFiniteSet(KnownUpTo(n)) /\ Cardinality(KnownUpTo(n)) <= Cardinality(Known)
  BY <1>1, FS_Subset
<1>3. Cardinality(KnownUpTo(n)) # 0 /\ Cardinality(KnownUpTo(n)) \in Nat
  BY <1>1, <1>2, FS_EmptySet, FS_CardinalityType
<1> QED BY <1>2, <1>3, FS_CardinalityType

LEMMA OutStep ==
    ASSUME OrderInv, EntriesInv, OutInv, bundles \in Seq(ToSet(bundles)),
           [ToolchainNext]_<<vars, mapVars>>
    PROVE  OutInv'
<1>0. ASSUME entries' = entries, func_ranges' = func_ranges, out' = out, Known' = Known,
             mapPhase' = "map" => mapK' <= Len(entries)
      PROVE  OutInv'
  <2>1. \A n : Mapped(n)' = Mapped(n) /\ KnownUpTo(n)' = KnownUpTo(n)
    BY <1>0 DEF Mapped, FunctionOf, Map!SetItem, KnownUpTo
  <2> QED BY <1>0, <2>1 DEF OutInv
<1>1. CASE Map!MapBundle
  <2> DEFINE u == mapK + 1
             known == FunctionOf(u) \in DOMAIN func_ranges
  <2>1. /\ mapPhase = "map" /\ mapPhase' = "map" /\ mapK < Len(entries) /\ mapK' = u
        /\ entries' = entries /\ func_ranges' = func_ranges
    BY <1>1 DEF Map!MapBundle
  <2>2. out' = IF known THEN Append(out, Mapped(u)) ELSE out
    BY <1>1 DEF Map!MapBundle, Mapped, FunctionOf
  <2>3. mapK \in Nat /\ Len(entries) \in Nat
    BY DEF OrderInv, OutInv
  <2>4. /\ Reached' = Reached \cup {u} /\ u \in Nat /\ mapK' <= Len(entries)
        /\ \A n \in Reached : n \in Nat /\ n < u
    BY <2>1, <2>3 DEF Reached
  <2>5. \A n : Mapped(n)' = Mapped(n) /\ FunctionOf(n)' = FunctionOf(n)
    BY <2>1 DEF Mapped, FunctionOf, Map!SetItem
  <2>6. /\ Known' = (IF known THEN Known \cup {u} ELSE Known)
        /\ u \notin Known /\ \A n \in Known : n \in Nat /\ n < u
    BY <2>1, <2>4, <2>5 DEF Known
  <2>7. CASE ~known
    BY <1>0, <2>1, <2>2, <2>4, <2>6, <2>7
  <2>8. CASE known
    <3> DEFINE A == {Mapped(n) : n \in Known}
               B == {Mapped(n) : n \in Known'}
    <3>1. /\ out \in Seq(A) /\ IsFiniteSet(Known) /\ Len(out) = Cardinality(Known)
          /\ Known \subseteq Nat
      BY <2>6 DEF OutInv
    <3>2. B = A \cup {Mapped(u)} /\ Known' = Known \cup {u} /\ out' = Append(out, Mapped(u))
      BY <2>2, <2>6, <2>8
    <3>3. IsFiniteSet(Known') /\ Cardinality(Known') = Cardinality(Known) + 1
      <4>1. IsFiniteSet(Known) /\ Known' = Known \cup {u} /\ u \notin Known
        BY <2>6, <3>1, <3>2
      <4> HIDE DEF u, known, A, B
      <4> QED BY <4>1, FS_AddElement
    <3>4. out' \in Seq(B) /\ Len(out') = Cardinality(Known')
      <4> HIDE DEF A, B
      <4>1. out \in Seq(B)
        BY <3>1, <3>2
      <4> QED BY <3>1, <3>2, <3>3, <4>1
    <3>5. ASSUME NEW n \in Known' PROVE out'[Cardinality(KnownUpTo(n)')] = Mapped(n)
      <4>1. CASE n = u
        <5>1. KnownUpTo(n)' = Known'
          BY <2>4, <2>6, <3>2, <4>1 DEF KnownUpTo
        <5>2. Cardinality(KnownUpTo(n)') = Len(out) + 1
          BY <3>1, <3>3, <5>1
        <5> HIDE DEF A, B
        <5>3. Append(out, Mapped(u))[Len(out) + 1] = Mapped(u)
          BY <3>1
        <5> QED BY <3>2, <4>1, <5>2, <5>3, Zenon
      <4>2. CASE n # u
        <5>1. n \in Known
          BY <3>2, <4>2
        <5>2. KnownUpTo(n)' = KnownUpTo(n)
          BY <2>4, <2>6, <3>2, <5>1 DEF KnownUpTo
        <5>3. Cardinality(KnownUpTo(n)) \in 1 .. Len(out)
          BY <3>1, <5>1, PlaceFacts
        <5>4. out[Cardinality(KnownUpTo(n))] = Mapped(n)
          BY <5>1 DEF OutInv
        <5> HIDE DEF A, B
        <5> QED BY <3>1, <3>2, <5>2, <5>3, <5>4
      <4> QED BY <4>1, <4>2
    <3>6. {Mapped(n) : n \in Known}' = B
      BY <2>5
    <3>7. \A n \in Known' : out'[Cardinality(KnownUpTo(n)')] = Mapped(n)'
      BY <2>5, <3>5
    <3> HIDE DEF B
    <3> QED BY <2>1, <2>3, <2>4, <3>3, <3>4, <3>6, <3>7 DEF OutInv
  <2> QED BY <2>7, <2>8
<1>2. CASE Map!ReadLabel \/ Map!SortLabels \/ Map!AddRange \/ HandOver
  <2>1. out' = out /\ Known = {} /\ Known' = {} /\ mapPhase' # "map"
    BY <1>2 DEF Map!ReadLabel, Map!SortLabels, Map!AddRange, HandOver, Map!Start, Known, Reached
  <2>2. {Mapped(n) : n \in Known} = {} /\ {Mapped(n) : n \in Known}' = {}
    BY <2>1
  <2>3. Len(entries') \in Nat
    <3>1. CASE HandOver
      <4>1. entries' = [n \in DOMAIN bundles |-> Written(bundles[n])]
        BY <3>1 DEF HandOver, Map!Start
      <4> QED BY <4>1
    <3>2. CASE entries' = entries
      BY <3>2 DEF OutInv
    <3> QED BY <1>2, <3>1, <3>2 DEF Map!ReadLabel, Map!SortLabels, Map!AddRange
  <2> QED BY <2>1, <2>2, <2>3 DEF OutInv
<1>3. CASE Map!RangesDone
  <2>1. /\ mapPhase = "ranges" /\ mapPhase' = "map" /\ mapK' = 0 /\ 1 .. mapK' = {}
        /\ UNCHANGED <<entries, func_ranges, out>>
    BY <1>3 DEF Map!RangesDone
  <2>2. Known = {} /\ Known' = {}
    BY <2>1 DEF Known, Reached
  <2>3. mapK' <= Len(entries)
    BY <2>1 DEF OutInv
  <2> QED BY <1>0, <2>1, <2>2, <2>3
<1>4. CASE Map!WriteBundles
  <2>1. /\ mapPhase = "map" /\ mapPhase' = "done" /\ mapK = Len(entries)
        /\ UNCHANGED <<entries, func_ranges, out>>
    BY <1>4 DEF Map!WriteBundles
  <2>2. Known' = Known
    BY <2>1 DEF Known, Reached, FunctionOf
  <2> QED BY <1>0, <2>1, <2>2
<1>5. CASE UNCHANGED mapVars
  <2>1. UNCHANGED <<entries, func_ranges, out, mapPhase, mapK>>
    BY <1>5 DEF mapVars
  <2>2. Known' = Known
    BY <2>1 DEF Known, Reached, FunctionOf
  <2> QED BY <1>0, <2>1, <2>2 DEF OutInv
<1> QED BY <1>1, <1>2, <1>3, <1>4, <1>5 DEF ToolchainNext, Analyse, MapBundles, Map!Next

-----------------------------------------------------------------------------
(* The toolchain: theorems *)

ToolchainInv == GraphInv /\ OrderInv /\ RangesInv /\ EntriesInv /\ OutInv

LEMMA ToolchainInvInit == ToolchainInit => ToolchainInv
<1> SUFFICES ASSUME ToolchainInit PROVE ToolchainInv
  OBVIOUS
<1>1. GraphInv
  BY GraphInit DEF ToolchainInit
<1>2. /\ labels = <<>> /\ entries = <<>> /\ mapPhase = "start" /\ mapK = 0
      /\ func_order = <<>> /\ DOMAIN func_ranges = {} /\ out = <<>>
  BY DEF ToolchainInit, Map!Init, Map!EmptyMap
<1>3. OrderInv
  BY <1>2 DEF OrderInv
<1>4. RangesInv /\ EntriesInv
  BY <1>2 DEF RangesInv, Ranged, EntriesInv
<1>5. OutInv
  <2>1. Known = {} /\ {Mapped(n) : n \in Known} = {}
    BY <1>2 DEF Known, Reached
  <2> QED BY <1>2, <2>1, FS_EmptySet DEF OutInv
<1> QED BY <1>1, <1>3, <1>4, <1>5 DEF ToolchainInv

LEMMA ToolchainInvStep ==
    ToolchainInv /\ [ToolchainNext]_<<vars, mapVars>> => ToolchainInv'
<1> SUFFICES ASSUME ToolchainInv, [ToolchainNext]_<<vars, mapVars>> PROVE ToolchainInv'
  OBVIOUS
<1>1. [Next]_vars
  BY DEF ToolchainNext, Analyse, HandOver, MapBundles
<1>2. GraphInv'
  BY <1>1, GraphStep DEF ToolchainInv
<1>3. bundles \in Seq(ToSet(bundles))
  <2>1. bundles \in Seq({Bundle(f) : f \in Selected}) /\ ToSet(bundles) = {Bundle(f) : f \in Selected}
    BY DEF ToolchainInv, GraphInv, BundlesInv
  <2> QED BY <2>1
<1> QED BY <1>2, <1>3, OrderStep, RangesStep, EntriesStep, OutStep DEF ToolchainInv

\* A bundle as it stands in bundles.json, and as it is written for the loader.
LEMMA MappedBundle ==
    ASSUME ToolchainInv, NEW n \in Known
    PROVE  \E b \in ToSet(bundles) : \E u \in Ranged :
              /\ FunctionOf(n) = b.function /\ b.function = func_order[u][2]
              /\ Mapped(n).keys = <<"end_pc", "function", "reachable_size", "start_pc">>
              /\ DOMAIN Mapped(n).values = {"end_pc", "function", "reachable_size", "start_pc"}
              /\ Mapped(n).values["function"] = b.function
              /\ Mapped(n).values["reachable_size"] = b.reachable_size
              /\ Mapped(n).values["start_pc"] = func_order[u][1]
              /\ Mapped(n).values["end_pc"] = Map!EndOf(u)
<1>1. /\ mapPhase # "start" /\ n \in 1 .. Len(entries)
      /\ FunctionOf(n) \in DOMAIN func_ranges
  BY DEF Known, Reached, ToolchainInv, OutInv, OrderInv
<1>2. /\ bundles \in Seq({Bundle(f) : f \in Selected})
      /\ entries = [m \in DOMAIN bundles |-> Written(bundles[m])]
  BY <1>1 DEF ToolchainInv, GraphInv, BundlesInv, EntriesInv
<1>3. n \in DOMAIN bundles /\ entries[n] = Written(bundles[n])
  BY <1>1, <1>2
<1> DEFINE b == bundles[n]
<1>4. PICK f \in Selected : b = Bundle(f)
  BY <1>2, <1>3
<1>5. PICK u \in Ranged : FunctionOf(n) = func_order[u][2] /\ func_ranges[FunctionOf(n)] = CodeOf(u)
  BY <1>1 DEF ToolchainInv, RangesInv
<1>6. b \in ToSet(bundles)
  BY <1>3 DEF ToSet
<1> DEFINE keys == <<"end_pc", "function", "reachable_size", "start_pc">>
<1>7. entries[n].keys = keys /\ entries[n].values = b
  BY <1>3 DEF Written
<1>8. /\ DOMAIN b = {"end_pc", "function", "reachable_size", "start_pc"}
      /\ b["function"] = b.function /\ b["reachable_size"] = b.reachable_size
  BY <1>4 DEF Bundle
<1>9. FunctionOf(n) = b.function
  BY <1>7, <1>8 DEF FunctionOf
<1>10. "start_pc" \in ToSet(keys) /\ "end_pc" \in ToSet(keys)
  BY DEF ToSet
<1>11. ASSUME NEW d, NEW key, NEW value, d.keys = keys, key \in ToSet(keys)
       PROVE  /\ Map!SetItem(d, key, value).keys = keys
              /\ Map!SetItem(d, key, value).values = Map!Put(d.values, key, value)
  BY <1>11 DEF Map!SetItem, Map!ToSet, ToSet
<1> DEFINE start == Map!Put(b, "start_pc", func_order[u][1])
           both == Map!Put(start, "end_pc", Map!EndOf(u))
           once == Map!SetItem(entries[n], "start_pc", func_order[u][1])
<1> HIDE DEF keys, b
<1>12. Mapped(n) = Map!SetItem(once, "end_pc", Map!EndOf(u))
  BY <1>5 DEF Mapped, CodeOf
<1>13. once.keys = keys /\ once.values = start
  BY <1>7, <1>10, <1>11
<1>14. Mapped(n).keys = keys /\ Mapped(n).values = both
  <2> HIDE DEF once
  <2> QED BY <1>10, <1>11, <1>12, <1>13
<1>15. /\ DOMAIN both = {"end_pc", "function", "reachable_size", "start_pc"}
       /\ both["function"] = b.function /\ both["reachable_size"] = b.reachable_size
       /\ both["start_pc"] = func_order[u][1] /\ both["end_pc"] = Map!EndOf(u)
  BY <1>8 DEF Map!Put
<1> QED BY <1>5, <1>6, <1>9, <1>14, <1>15 DEF keys

\* Once sorted, func_order holds the labels in the order of their addresses.
LEMMA SortedLabels ==
    ASSUME OrderInv, mapPhase \in {"ranges", "map", "done"}
    PROVE  /\ Len(func_order) \in Nat /\ DOMAIN func_order = 1 .. Len(func_order)
           /\ ToSet(labels) = {func_order[n] : n \in 1 .. Len(func_order)}
           /\ \A n \in 1 .. Len(func_order) : func_order[n] \in Label /\ func_order[n][1] \in Nat
           /\ \A m, n \in 1 .. Len(func_order) : m <= n => func_order[m][1] <= func_order[n][1]
<1> DEFINE D == 1 .. Len(func_order)
<1>1. /\ func_order \in Seq(Label) /\ labels \in Seq(Label)
      /\ Len(func_order) = Len(labels) /\ Len(func_order) \in Nat
      /\ DOMAIN func_order = D /\ DOMAIN labels = D
  BY DEF OrderInv, SortedAs
<1>2. PICK p \in Bijection(D, D) : \A r \in D : func_order[r] = labels[p[r]]
  BY <1>1 DEF OrderInv, SortedAs
<1>3. p \in [D -> D] /\ \A n \in D : \E r \in D : p[r] = n
  BY <1>2 DEF Bijection, Injection, Surjection
<1>4. ToSet(labels) = {func_order[n] : n \in D}
  <2>1. ToSet(labels) = {labels[n] : n \in D}
    BY <1>1 DEF ToSet
  <2>2. \A n \in D : \E r \in D : labels[n] = func_order[r]
    BY <1>2, <1>3
  <2>3. \A r \in D : \E n \in D : labels[n] = func_order[r]
    BY <1>2, <1>3
  <2> HIDE DEF D
  <2> QED BY <2>1, <2>2, <2>3
<1>5. ASSUME NEW n \in D PROVE func_order[n] \in Label /\ func_order[n][1] \in Nat
  BY <1>1 DEF Label
<1>6. ASSUME NEW m \in D, NEW n \in D, m <= n PROVE func_order[m][1] <= func_order[n][1]
  <2>1. CASE m < n
    BY <1>1, <2>1 DEF OrderInv, SortedAs
  <2>2. CASE m = n
    BY <1>5, <2>2
  <2> QED BY <1>6, <2>1, <2>2
<1> QED BY <1>1, <1>4, <1>5, <1>6

LEMMA ToolchainType == ToolchainInv => ToolchainTypeOK
<1> SUFFICES ASSUME ToolchainInv PROVE ToolchainTypeOK
  OBVIOUS
<1>0. GraphInv /\ OrderInv /\ RangesInv /\ EntriesInv /\ OutInv
  BY DEF ToolchainInv
<1>1. ToSet(func_order) \subseteq ToSet(labels)
  <2>1. CASE mapPhase \in {"start", "read"}
    BY <1>0, <2>1 DEF OrderInv, ToSet
  <2>2. CASE mapPhase \in {"ranges", "map", "done"}
    BY <1>0, <2>2, SortedLabels DEF ToSet
  <2> QED BY <1>0, <2>1, <2>2 DEF OrderInv
<1>2. ASSUME NEW f \in DOMAIN func_ranges PROVE func_ranges[f][1] \in Nat
  <2>1. PICK n \in Ranged : func_ranges[f] = CodeOf(n)
    BY <1>0 DEF RangesInv
  <2>2. mapPhase \in {"ranges", "map", "done"} /\ n \in 1 .. Len(func_order)
    BY <1>0 DEF Ranged, OrderInv
  <2> QED BY <1>0, <2>1, <2>2, SortedLabels DEF CodeOf
<1>3. ASSUME NEW n \in DOMAIN out PROVE DOMAIN out[n].values = ToSet(out[n].keys)
  <2>1. PICK m \in Known : out[n] = Mapped(m)
    BY <1>0 DEF OutInv
  <2>2. /\ Mapped(m).keys = <<"end_pc", "function", "reachable_size", "start_pc">>
        /\ DOMAIN Mapped(m).values = {"end_pc", "function", "reachable_size", "start_pc"}
    BY MappedBundle
  <2>3. ToSet(<<"end_pc", "function", "reachable_size", "start_pc">>)
            = {"end_pc", "function", "reachable_size", "start_pc"}
    BY DEF ToSet
  <2> QED BY <2>1, <2>2, <2>3
<1>4. Map!TypeOK
  BY <1>0, <1>1, <1>2, <1>3 DEF Map!TypeOK, Map!ToSet, ToSet, OrderInv
<1> QED BY <1>0, <1>4, GraphType DEF ToolchainTypeOK

LEMMA ToolchainAddresses == ToolchainInv => AddressesHaveOneFunction
<1> DEFINE D == 1 .. Len(func_order)
           A(n) == func_order[n][1]
           Below(pc) == {f \in ToSet(labels) : f[1] <= pc}
           Nearest(pc) == {g \in Below(pc) : \A h \in Below(pc) : h[1] <= g[1]}
           Owners(pc) == {f \in DOMAIN func_ranges : Map!Inside(pc, func_ranges[f])}
           Distinct == \A m, n \in DOMAIN labels :
                           m # n => labels[m][1] # labels[n][1] /\ labels[m][2] # labels[n][2]
           Highest == {f \in ToSet(labels) : \A g \in ToSet(labels) : g[1] <= f[1]}
<1> SUFFICES ASSUME ToolchainInv, mapPhase = "map", Distinct,
                    NEW last \in Highest, NEW pc \in 0 .. last[1] + LastFunction
             PROVE  Owners(pc) = {f[2] : f \in Nearest(pc)}
  BY DEF AddressesHaveOneFunction, Map!AddressesHaveOneFunction, Map!ToSet, ToSet
<1>0. OrderInv /\ RangesInv
  BY DEF ToolchainInv
<1>1. /\ Len(func_order) \in Nat /\ DOMAIN func_order = D
      /\ ToSet(labels) = {func_order[n] : n \in D}
      /\ \A n \in D : A(n) \in Nat
      /\ \A m, n \in D : m <= n => A(m) <= A(n)
  BY <1>0, SortedLabels
<1>2. ASSUME NEW m \in D, NEW n \in D, m # n
      PROVE  A(m) # A(n) /\ func_order[m][2] # func_order[n][2]
  <2>1. PICK p \in Bijection(DOMAIN labels, DOMAIN labels) :
            \A r \in DOMAIN labels : func_order[r] = labels[p[r]]
    BY <1>0 DEF OrderInv, SortedAs
  <2>2. DOMAIN labels = D
    BY <1>0 DEF OrderInv, SortedAs
  <2>3. p[m] \in D /\ p[n] \in D /\ p[m] # p[n]
    BY <1>2, <2>1, <2>2 DEF Bijection, Injection, IsInjective
  <2> QED BY <2>1, <2>2, <2>3
<1>3. ASSUME NEW m \in D, NEW n \in D, m < n
      PROVE  A(m) < A(n)
  <2>1. m <= n /\ m # n
    BY <1>1, <1>3
  <2>2. A(m) <= A(n) /\ A(m) # A(n) /\ A(m) \in Nat /\ A(n) \in Nat
    BY <1>1, <1>2, <2>1
  <2> HIDE DEF A
  <2> QED BY <2>2
<1>4. Ranged = D
  BY DEF Ranged
<1>5. ASSUME NEW n \in D
      PROVE  func_order[n][2] \in DOMAIN func_ranges /\ func_ranges[func_order[n][2]] = CodeOf(n)
  <2>1. func_order[n][2] \in DOMAIN func_ranges
    BY <1>0, <1>4 DEF RangesInv
  <2>2. PICK m \in D : /\ func_order[n][2] = func_order[m][2]
                       /\ func_ranges[func_order[n][2]] = CodeOf(m)
    BY <1>0, <1>4, <2>1 DEF RangesInv
  <2> QED BY <1>2, <2>1, <2>2
<1>6. \A f \in DOMAIN func_ranges : \E n \in D : f = func_order[n][2]
  BY <1>0, <1>4 DEF RangesInv
<1>7. pc \in Nat /\ \A n \in D : n = Len(func_order) => pc <= A(n) + LastFunction
  <2>1. PICK u \in D : last = func_order[u]
    BY <1>1
  <2>2. \A n \in D : n = Len(func_order) => last[1] <= A(n)
    BY <1>1, <2>1
  <2>3. last[1] \in Nat /\ LastFunction \in Nat
    BY <1>1, <2>1, ToolchainAssumption
  <2>4. pc \in Nat /\ pc <= last[1] + LastFunction
    BY <2>3
  <2>5. ASSUME NEW n \in D, n = Len(func_order) PROVE pc <= A(n) + LastFunction
    <3>1. last[1] <= A(n) /\ A(n) \in Nat
      BY <1>1, <2>2, <2>5
    <3> HIDE DEF A
    <3> QED BY <2>3, <2>4, <3>1
  <2> QED BY <2>4, <2>5
<1>8. ASSUME NEW n \in D
      PROVE  func_order[n] \in Nearest(pc) <=> A(n) <= pc /\ pc <= Map!EndOf(n)
  <2>1. func_order[n] \in Nearest(pc) <=>
            A(n) <= pc /\ \A m \in D : A(m) <= pc => A(m) <= A(n)
    BY <1>1
  <2>2. CASE n < Len(func_order)
    <3>1. Map!EndOf(n) = A(n + 1) - 1 /\ n + 1 \in D
      BY <1>1, <2>2 DEF Map!EndOf
    <3>2. ASSUME A(n) <= pc, \A m \in D : A(m) <= pc => A(m) <= A(n)
          PROVE  pc <= A(n + 1) - 1
      <4>1. A(n) < A(n + 1) /\ A(n) \in Nat /\ A(n + 1) \in Nat
        BY <1>1, <1>3, <3>1
      <4>2. ~(A(n + 1) <= pc)
        BY <3>1, <3>2, <4>1
      <4> HIDE DEF A
      <4> QED BY <1>7, <4>1, <4>2
    <3>3. ASSUME pc <= A(n + 1) - 1, NEW m \in D, A(m) <= pc
          PROVE  A(m) <= A(n)
      <4>1. ~(n + 1 <= m)
        <5>1. ~(A(n + 1) <= A(m))
          <6>1. A(n + 1) \in Nat /\ A(m) \in Nat
            BY <1>1, <3>1
          <6> HIDE DEF A
          <6> QED BY <1>7, <3>3, <6>1
        <5> QED BY <1>1, <3>1, <5>1
      <4> QED BY <1>1, <4>1
    <3> HIDE DEF A, Nearest
    <3> QED BY <2>1, <3>1, <3>2, <3>3
  <2>3. CASE n = Len(func_order)
    <3>1. Map!EndOf(n) = A(n) + LastFunction
      BY <2>3 DEF Map!EndOf
    <3>2. \A m \in D : A(m) <= A(n)
      BY <1>1, <2>3
    <3> QED BY <1>7, <2>1, <2>3, <3>1, <3>2
  <2>4. n < Len(func_order) \/ n = Len(func_order)
    <3>1. Len(func_order) \in Nat /\ n \in 1 .. Len(func_order)
      BY <1>1
    <3> HIDE DEF A, Nearest, Owners, Distinct, Highest, D
    <3> QED BY <3>1
  <2> QED BY <2>2, <2>3, <2>4
<1>9. ASSUME NEW n \in D
      PROVE  func_order[n][2] \in Owners(pc) <=> func_order[n] \in Nearest(pc)
  <2>1. Map!Inside(pc, CodeOf(n)) <=> A(n) <= pc /\ pc <= Map!EndOf(n)
    BY DEF Map!Inside, CodeOf
  <2> QED BY <1>5, <1>8, <2>1
<1>10. Nearest(pc) \subseteq {func_order[n] : n \in D}
  BY <1>1
<1>11. Owners(pc) \subseteq {func_order[n][2] : n \in D}
  BY <1>6
<1> HIDE DEF Nearest, Owners, D
<1> QED BY <1>9, <1>10, <1>11

LEMMA ToolchainOrder == ToolchainInv => MappedInOrder
<1> SUFFICES ASSUME ToolchainInv, mapPhase = "done" PROVE MappedInOrder
  BY DEF MappedInOrder, Map!MappedInOrder
<1> DEFINE D == 1 .. Len(func_order)
           known == {n \in DOMAIN entries :
                         \E f \in ToSet(labels) : f[2] = entries[n].values["function"]}
           Place(n) == Cardinality({m \in known : m <= n})
<1>0. OrderInv /\ RangesInv /\ OutInv
  BY DEF ToolchainInv
<1>1. ToSet(labels) = {func_order[n] : n \in D} /\ \A n \in D : func_order[n] \in Label
  BY <1>0, SortedLabels
<1>2. Ranged = D /\ Reached = 1 .. Len(entries)
  BY DEF Ranged, Reached
<1>3. DOMAIN entries = 1 .. Len(entries)
  <2>1. entries = [n \in DOMAIN bundles |-> Written(bundles[n])]
    BY DEF ToolchainInv, EntriesInv
  <2>2. bundles \in Seq({Bundle(f) : f \in Selected})
    BY DEF ToolchainInv, GraphInv, BundlesInv
  <2> QED BY <2>1, <2>2
<1>4. \A name : name \in DOMAIN func_ranges <=> \E f \in ToSet(labels) : f[2] = name
  BY <1>0, <1>1, <1>2 DEF RangesInv
<1>5. Known = known
  BY <1>2, <1>3, <1>4 DEF Known, FunctionOf
<1>6. Len(out) = Cardinality(known)
  BY <1>0, <1>5 DEF OutInv
<1>7. ASSUME NEW n \in known
      PROVE  LET v == out[Place(n)].values
             IN  /\ v["function"] = entries[n].values["function"]
                 /\ <<v["start_pc"], v["function"]>> \in ToSet(labels)
  <2>1. Place(n) = Cardinality(KnownUpTo(n))
    BY <1>5 DEF KnownUpTo
  <2>2. out[Place(n)] = Mapped(n)
    BY <1>0, <1>5, <2>1 DEF OutInv
  <2>3. PICK b \in ToSet(bundles), u \in Ranged :
            /\ FunctionOf(n) = b.function /\ b.function = func_order[u][2]
            /\ Mapped(n).values["function"] = b.function
            /\ Mapped(n).values["start_pc"] = func_order[u][1]
    BY <1>5, MappedBundle
  <2>4. <<func_order[u][1], func_order[u][2]>> \in ToSet(labels)
    BY <1>1, <1>2, <2>3 DEF Label
  <2> HIDE DEF known, Place
  <2> QED BY <2>2, <2>3, <2>4 DEF FunctionOf
<1> HIDE DEF D
<1> QED BY <1>6, <1>7
        DEF MappedInOrder, Map!MappedInOrder, Map!ToSet, ToSet, Map!Cardinality, Cardinality

LEMMA ToolchainRanges == ToolchainInv => BundlesBecomeRanges
<1> SUFFICES ASSUME ToolchainInv, mapPhase = "done", NEW n \in DOMAIN out
             PROVE  LET v == out[n].values
                    IN  /\ out[n].keys = Written(v).keys
                        /\ \E b \in ToSet(bundles) :
                              b.function = v["function"] /\ b.reachable_size = v["reachable_size"]
                        /\ \A l \in ToSet(labels) : ~(v["start_pc"] < l[1] /\ l[1] <= v["end_pc"])
                        /\ v["end_pc"] - v["start_pc"] >= LastFunction
                              \/ \E l \in ToSet(labels) : l[1] = v["end_pc"] + 1
  BY DEF BundlesBecomeRanges
<1> DEFINE D == 1 .. Len(func_order)
           A(u) == func_order[u][1]
<1>0. OrderInv /\ OutInv
  BY DEF ToolchainInv
<1>1. /\ Len(func_order) \in Nat /\ ToSet(labels) = {func_order[u] : u \in D}
      /\ \A u \in D : A(u) \in Nat
      /\ \A u, w \in D : u <= w => A(u) <= A(w)
  BY <1>0, SortedLabels
<1>2. PICK m \in Known : out[n] = Mapped(m)
  BY <1>0 DEF OutInv
<1>3. PICK b \in ToSet(bundles), u \in Ranged :
          /\ Mapped(m).keys = <<"end_pc", "function", "reachable_size", "start_pc">>
          /\ Mapped(m).values["function"] = b.function
          /\ Mapped(m).values["reachable_size"] = b.reachable_size
          /\ Mapped(m).values["start_pc"] = A(u)
          /\ Mapped(m).values["end_pc"] = Map!EndOf(u)
  BY MappedBundle
<1>4. u \in D
  BY DEF Ranged
<1>5. /\ \A w \in D : ~(A(u) < A(w) /\ A(w) <= Map!EndOf(u))
      /\ Map!EndOf(u) - A(u) >= LastFunction \/ \E w \in D : A(w) = Map!EndOf(u) + 1
  <2>1. CASE u < Len(func_order)
    <3>1. Map!EndOf(u) = A(u + 1) - 1 /\ u + 1 \in D
      BY <1>1, <1>4, <2>1 DEF Map!EndOf
    <3>2. A(u + 1) \in Nat /\ A(u + 1) = Map!EndOf(u) + 1
      BY <1>1, <3>1
    <3>3. \A w \in D : w <= u \/ u + 1 <= w
      BY <1>1, <1>4
    <3>4. \A w \in D : A(w) <= A(u) \/ A(u + 1) <= A(w)
      BY <1>1, <1>4, <3>1, <3>3
    <3> HIDE DEF A
    <3> QED BY <1>1, <1>4, <3>1, <3>2, <3>4
  <2>2. CASE u = Len(func_order)
    <3>1. Map!EndOf(u) = A(u) + LastFunction
      BY <2>2 DEF Map!EndOf
    <3>2. Map!EndOf(u) - A(u) >= LastFunction
      BY <1>1, <1>4, <3>1, ToolchainAssumption
    <3>3. \A w \in D : A(w) <= A(u)
      BY <1>1, <1>4, <2>2
    <3> QED BY <1>1, <1>4, <3>2, <3>3
  <2> QED BY <1>1, <1>4, <2>1, <2>2
<1>6. \A l \in ToSet(labels) : ~(A(u) < l[1] /\ l[1] <= Map!EndOf(u))
  BY <1>1, <1>5
<1>7. Map!EndOf(u) - A(u) >= LastFunction \/ \E l \in ToSet(labels) : l[1] = Map!EndOf(u) + 1
  BY <1>1, <1>5
<1>8. out[n].keys = Written(out[n].values).keys
  BY <1>2, <1>3 DEF Written
<1> HIDE DEF A, D
<1> QED BY <1>2, <1>3, <1>6, <1>7, <1>8

LEMMA ToolchainAlways == ToolchainSpec => []ToolchainInv
BY ToolchainInvInit, ToolchainInvStep, PTL DEF ToolchainSpec

\* The states of both programs are well formed: no line of callgraph.txt names
\* an unknown function, and no dict written has keys without values.
THEOREM ToolchainTypeCorrect == ToolchainSpec => []ToolchainTypeOK
BY ToolchainAlways, ToolchainType, PTL

\* Whatever follows the analyser, the instruction numbers it gave tile the module.
THEOREM NumbersTile == ToolchainSpec => []NumbersTileTheModule
<1>1. ToolchainInv => NumbersTileTheModule
  BY DEF ToolchainInv, GraphInv
<1> QED BY <1>1, ToolchainAlways, PTL

\* bundles.json is what callgraph.txt and the numbers call for, while it is read too.
THEOREM FilesAgree == ToolchainSpec => []BundlesAgreeWithCallGraph
<1>1. ToolchainInv => BundlesAgreeWithCallGraph
  BY GraphAgreement DEF ToolchainInv
<1> QED BY <1>1, ToolchainAlways, PTL

\* For every disassembly with distinct labels, in whatever order objdump prints
\* them, the ranges are a partition of the code by nearest label.
THEOREM OneFunctionPerAddress == ToolchainSpec => []AddressesHaveOneFunction
BY ToolchainAlways, ToolchainAddresses, PTL

\* No bundle of a known function is lost, doubled or moved, with names
\* repeated and addresses shared too.
THEOREM KnownBundlesAreMapped == ToolchainSpec => []MappedInOrder
BY ToolchainAlways, ToolchainOrder, PTL

\* From the module to bundles_pc.json: every entry has the analyser's size and
\* the addresses of one function, and its "end_pc" still before its "start_pc".
THEOREM RangesReachTheLoader == ToolchainSpec => []BundlesBecomeRanges
BY ToolchainAlways, ToolchainRanges, PTL

-----------------------------------------------------------------------------
(* bundle_analyzer.cpp: the invariants *)

\* A frame of dfs for a function, with the callees it has added up so far.
FrameRecord == [fn : 1 .. N, done : Nat, total : Nat]

\* Which variables are set at which stage, and what the counters range over.
StageInv ==
    /\ i <= IF stage = "symbols" THEN Len(binary.symbols) ELSE N
    /\ stage = "symbols" => children = <<>> /\ parents = <<>>
    /\ stage \in {"symbols", "failed"} \/ (Len(children) = N /\ Len(parents) = N)
    /\ stage \in {"symbols", "calls", "failed"} => reachable = <<>>
    /\ stage \in {"symbols", "calls", "failed"} \/ Len(reachable) = N
    /\ stage \in {"reach", "stack_overflow"} \/ stack = <<>>
    /\ stack \in Seq(FrameRecord)

\* A frame that is not on top waits for the one above it.
ChainInv ==
    \A m \in DOMAIN stack :
        LET f == stack[m].fn
        IN  IF m = 1 THEN stack[m].done <= Len(children[f])
            ELSE /\ stack[m].done < Len(children[f])
                 /\ stack[m - 1].fn = children[f][stack[m].done + 1]

\* Both directions of an edge are stored, and no edge is a loop.
EdgesInv ==
    /\ \A f \in DOMAIN children : f \notin ToSet(children[f])
    /\ \A f \in DOMAIN parents : \A g \in ToSet(parents[f]) :
          g \in DOMAIN children /\ f \in ToSet(children[g])

\* The sizes r of the callees ch of f, one per call; a function whose size is
\* noted; and a frame that has added up its first callees, of known sizes, and
\* whose function has no size yet.  So a function that is on the stack twice, as
\* in a mutual recursion, waits for a callee that never returns, and no size is
\* noted twice.
Bytes(f, ch, r) == [c \in DOMAIN ch[f] |-> r[ch[f][c]]]
FunctionAddsUp(f, fs, ch, r) ==
    /\ \A c \in DOMAIN ch[f] : r[ch[f][c]] # Unknown
    /\ r[f] = fs[f].size + SumFunctionOnSet(Bytes(f, ch, r), DOMAIN ch[f])
FrameAddsUp(fr, fs, ch, r) ==
    /\ r[fr.fn] = Unknown
    /\ \A c \in 1 .. fr.done : r[ch[fr.fn][c]] # Unknown
    /\ fr.total = fs[fr.fn].size + SumFunctionOnSet(Bytes(fr.fn, ch, r), 1 .. fr.done)

NotedInv == \A f \in DOMAIN reachable :
                reachable[f] # Unknown => FunctionAddsUp(f, functions, children, reachable)
StackInv == \A m \in DOMAIN stack : FrameAddsUp(stack[m], functions, children, reachable)

\* The loop of compute_reachable leaves no function behind it without a size,
\* except the one it has just called dfs for.
ProgressInv ==
    /\ stage = "reach" => \A f \in 1 .. i : reachable[f] # Unknown
                             \/ (stack # <<>> /\ stack[Len(stack)].fn = f)
    /\ stage \in {"select", "done"} => \A f \in 1 .. N : reachable[f] # Unknown

\* The frame that was one too many.
OverflowInv ==
    stage = "stack_overflow" =>
        /\ Len(stack) >= MaxDepth
        /\ Top.done < Len(children[Top.fn])
        /\ reachable[Callee] = Unknown

\* find_bundles has a bundle of every entry it has passed.
BundleRecord == [id : Nat, entry : Nat, functions : SUBSET Nat, reachable_bytes : Nat]
SelectInv ==
    /\ bundles_out \in Seq(BundleRecord)
    /\ stage \in {"select", "done"} => \A f \in 1 .. i : IsEntry(f) =>
           \E b \in ToSet(bundles_out) : b.functions = Visited(f)
    /\ stage = "done" => i = N

TypeInv == AnalyzerTypeOK /\ StageInv /\ ChainInv
SearchInv == NotedInv /\ StackInv /\ ProgressInv /\ OverflowInv

-----------------------------------------------------------------------------
(* Stacks as sequences with the innermost frame first *)

LEMMA Elements ==
    ASSUME NEW S, NEW s \in Seq(S)
    PROVE  DOMAIN s = 1 .. Len(s) /\ Len(s) \in Nat /\ \A n \in 1 .. Len(s) : s[n] \in S
OBVIOUS

\* A function on the first n numbers is a sequence of length n.
LEMMA FunctionIsSeq ==
    ASSUME NEW S, NEW n \in Nat, NEW s \in [1 .. n -> S]
    PROVE  s \in Seq(S) /\ Len(s) = n
OBVIOUS

LEMMA NotEmpty == ASSUME NEW S, NEW s \in Seq(S), Len(s) > 0 PROVE s # <<>>
OBVIOUS

LEMMA NotOne == \A n \in Nat : (n > 1 => n # 1) /\ (n # 1 => n = 0 \/ n > 1)
OBVIOUS

\* A frame is pushed.
LEMMA Push ==
    ASSUME NEW S, NEW s \in Seq(S), NEW x \in S
    PROVE  /\ <<x>> \o s \in Seq(S) /\ Len(<<x>> \o s) = Len(s) + 1
           /\ (<<x>> \o s)[1] = x
           /\ \A m \in 2 .. Len(s) + 1 : (<<x>> \o s)[m] = s[m - 1]
OBVIOUS

\* The top frame is replaced.
LEMMA Replace ==
    ASSUME NEW S, NEW s \in Seq(S), s # <<>>, NEW x \in S
    PROVE  /\ <<x>> \o Tail(s) \in Seq(S) /\ Len(<<x>> \o Tail(s)) = Len(s)
           /\ (<<x>> \o Tail(s))[1] = x
           /\ \A m \in 2 .. Len(s) : (<<x>> \o Tail(s))[m] = s[m]
<1>1. Tail(s) \in Seq(S) /\ Len(Tail(s)) = Len(s) - 1 /\ Len(s) \in Nat \ {0}
  OBVIOUS
<1>2. \A m \in 2 .. Len(s) : Tail(s)[m - 1] = s[m]
  OBVIOUS
<1> QED BY <1>1, <1>2, Push

\* The top frame is popped and the one below it replaced.
LEMMA PopReplace ==
    ASSUME NEW S, NEW s \in Seq(S), Len(s) > 1, NEW x \in S
    PROVE  /\ <<x>> \o Tail(Tail(s)) \in Seq(S) /\ Len(<<x>> \o Tail(Tail(s))) = Len(s) - 1
           /\ (<<x>> \o Tail(Tail(s)))[1] = x
           /\ \A m \in 2 .. Len(s) - 1 : (<<x>> \o Tail(Tail(s)))[m] = s[m + 1]
<1>1. Tail(s) \in Seq(S) /\ Len(Tail(s)) = Len(s) - 1 /\ Tail(s) # <<>>
  <2>1. s # <<>> /\ Len(s) \in Nat
    OBVIOUS
  <2>2. Tail(s) \in Seq(S) /\ Len(Tail(s)) = Len(s) - 1
    BY <2>1
  <2>3. Len(Tail(s)) > 0
    BY <2>2
  <2> QED BY <2>2, <2>3, NotEmpty
<1>2. \A m \in 2 .. Len(s) - 1 : Tail(s)[m] = s[m + 1]
  OBVIOUS
<1>3. /\ <<x>> \o Tail(Tail(s)) \in Seq(S) /\ Len(<<x>> \o Tail(Tail(s))) = Len(Tail(s))
      /\ (<<x>> \o Tail(Tail(s)))[1] = x
      /\ \A m \in 2 .. Len(Tail(s)) : (<<x>> \o Tail(Tail(s)))[m] = Tail(s)[m]
  BY <1>1, Replace
<1> QED BY <1>1, <1>2, <1>3

\* What is in a sequence with one more element.
LEMMA ToSetAppend ==
    ASSUME NEW S, NEW s \in Seq(S), NEW x
    PROVE  ToSet(Append(s, x)) = ToSet(s) \cup {x}
<1>1. /\ DOMAIN Append(s, x) = DOMAIN s \cup {Len(s) + 1}
      /\ \A m \in DOMAIN s : Append(s, x)[m] = s[m]
      /\ Append(s, x)[Len(s) + 1] = x /\ Len(s) + 1 \notin DOMAIN s
  OBVIOUS
<1> QED BY <1>1, Zenon DEF ToSet

-----------------------------------------------------------------------------
(* Types and stages *)

\* FindFuncByAddr finds a function or says that there is none.
LEMMA FindType ==
    ASSUME N \in Nat, NEW a PROVE FindFuncByAddr(a) \in 0 .. N
<1> DEFINE I == {n \in 1 .. N : functions[n].addr <= a /\ a < End(functions[n])}
<1>1. FindFuncByAddr(a) = IF I # {} THEN Min(I) ELSE 0
  BY Zenon DEF FindFuncByAddr, SelectInSeq, N
<1>2. CASE I = {}
  BY <1>1, <1>2
<1>3. CASE I # {}
  <2>1. I \in SUBSET Nat
    OBVIOUS
  <2>2. Min(I) \in I
    BY <1>3, <2>1, MinOfNats
  <2> QED BY <1>1, <1>3, <2>2
<1> QED BY <1>2, <1>3

\* The sequences of the graph and the search, each with an element per function.
LEMMA Shapes ==
    ASSUME TypeInv
    PROVE  /\ N \in Nat /\ DOMAIN functions = 1 .. N
           /\ \A f \in 1 .. N : functions[f] \in [addr : Nat, size : Nat \ {0}]
           /\ stage \notin {"symbols", "failed"} =>
                /\ DOMAIN children = 1 .. N /\ DOMAIN parents = 1 .. N
                /\ \A f \in 1 .. N : /\ children[f] \in Seq(1 .. N)
                                     /\ parents[f] \in Seq(1 .. N)
           /\ stage \notin {"symbols", "calls", "failed"} =>
                /\ DOMAIN reachable = 1 .. N
                /\ \A f \in 1 .. N : reachable[f] \in Nat \cup {Unknown}
           /\ DOMAIN stack = 1 .. Len(stack) /\ Len(stack) \in Nat
           /\ \A m \in DOMAIN stack : stack[m] \in FrameRecord
<1>1. N \in Nat /\ DOMAIN functions = 1 .. N
      /\ \A f \in 1 .. N : functions[f] \in [addr : Nat, size : Nat \ {0}]
  <2>1. functions \in Seq([addr : Nat, size : Nat \ {0}])
    BY DEF TypeInv, AnalyzerTypeOK
  <2> QED BY <2>1, Elements DEF N
<1>2. ASSUME stage \notin {"symbols", "failed"}
      PROVE  /\ DOMAIN children = 1 .. N /\ DOMAIN parents = 1 .. N
             /\ \A f \in 1 .. N : children[f] \in Seq(1 .. N) /\ parents[f] \in Seq(1 .. N)
  <2>1. /\ children \in Seq(Seq(1 .. N)) /\ parents \in Seq(Seq(1 .. N))
        /\ Len(children) = N /\ Len(parents) = N
    BY <1>2 DEF TypeInv, AnalyzerTypeOK, StageInv
  <2> QED BY <2>1, Elements
<1>3. ASSUME stage \notin {"symbols", "calls", "failed"}
      PROVE  DOMAIN reachable = 1 .. N /\ \A f \in 1 .. N : reachable[f] \in Nat \cup {Unknown}
  <2>1. reachable \in Seq(Nat \cup {Unknown}) /\ Len(reachable) = N
    BY <1>3 DEF TypeInv, AnalyzerTypeOK, StageInv
  <2> QED BY <2>1, Elements
<1>4. /\ DOMAIN stack = 1 .. Len(stack) /\ Len(stack) \in Nat
      /\ \A m \in DOMAIN stack : stack[m] \in FrameRecord
  <2>1. stack \in Seq(FrameRecord)
    BY DEF TypeInv, StageInv
  <2> QED BY <2>1, Elements
<1> QED BY <1>1, <1>2, <1>3, <1>4

\* The binary a run analyses.
LEMMA BinaryType ==
    ASSUME TypeInv
    PROVE  /\ binary.text.addr \in Nat /\ binary.text.size \in Nat
           /\ Len(binary.symbols) \in Nat
           /\ \A n \in 1 .. Len(binary.symbols) :
                 binary.symbols[n].addr \in Nat /\ binary.symbols[n].size \in Nat
<1>1. binary \in Binary
  BY AnalyzerAssumption DEF TypeInv, AnalyzerTypeOK
<1>2. binary.symbols \in Seq([addr : Nat, size : Nat, type : STRING, defined : BOOLEAN])
  BY <1>1 DEF Binary
<1>3. /\ Len(binary.symbols) \in Nat
      /\ \A n \in 1 .. Len(binary.symbols) : binary.symbols[n]
            \in [addr : Nat, size : Nat, type : STRING, defined : BOOLEAN]
  BY <1>2, Elements
<1> QED BY <1>1, <1>3 DEF Binary

LEMMA AnalyzerTypeInit == AnalyzerInit => TypeInv
<1> SUFFICES ASSUME AnalyzerInit PROVE TypeInv
  OBVIOUS
<1>1. binary \in Binary
  BY AnalyzerAssumption DEF AnalyzerInit
<1>2. Len(binary.symbols) \in Nat
  BY <1>1 DEF Binary
<1> QED BY <1>1, <1>2 DEF AnalyzerInit, TypeInv, AnalyzerTypeOK, StageInv, ChainInv, Stages, N

LEMMA ReadSymbolType == ASSUME TypeInv, ReadSymbol PROVE TypeInv'
<1> DEFINE sym == binary.symbols[i + 1]
           rec == [addr |-> sym.addr, size |-> sym.size]
<1>1. /\ stage = "symbols" /\ i < Len(binary.symbols) /\ i' = i + 1
      /\ functions' = IF IsFunction(sym) THEN Append(functions, rec) ELSE functions
      /\ UNCHANGED <<input, stage, j, graph, reachable, stack, bundles_out>>
  BY DEF ReadSymbol
<1>2. /\ i \in Nat /\ children = <<>> /\ parents = <<>> /\ reachable = <<>> /\ stack = <<>>
      /\ functions \in Seq([addr : Nat, size : Nat \ {0}])
  BY <1>1 DEF TypeInv, AnalyzerTypeOK, StageInv
<1>3. sym.addr \in Nat /\ sym.size \in Nat /\ i + 1 <= Len(binary.symbols)
  BY <1>1, <1>2, BinaryType
<1>4. /\ functions' \in Seq([addr : Nat, size : Nat \ {0}])
      /\ \A f \in 1 .. Len(functions') : functions'[f].addr >= binary.text.addr
                                       /\ End(functions'[f]) <= End(binary.text)
  <2>1. \A f \in 1 .. Len(functions) : functions[f].addr >= binary.text.addr
                                     /\ End(functions[f]) <= End(binary.text)
    BY DEF TypeInv, AnalyzerTypeOK, N
  <2>2. CASE ~IsFunction(sym)
    BY <1>1, <1>2, <2>1, <2>2
  <2>3. CASE IsFunction(sym)
    <3>1. /\ rec \in [addr : Nat, size : Nat \ {0}]
          /\ rec.addr >= binary.text.addr /\ End(rec) <= End(binary.text)
      BY <1>3, <2>3 DEF IsFunction, InText, End
    <3> HIDE DEF rec
    <3>2. functions' = Append(functions, rec)
      BY <1>1, <2>3
    <3>3. /\ functions' \in Seq([addr : Nat, size : Nat \ {0}])
          /\ Len(functions') = Len(functions) + 1 /\ Len(functions) \in Nat
          /\ functions'[Len(functions) + 1] = rec
          /\ \A f \in 1 .. Len(functions) : functions'[f] = functions[f]
      BY <1>2, <3>1, <3>2
    <3>4. ASSUME NEW f \in 1 .. Len(functions')
          PROVE  functions'[f].addr >= binary.text.addr /\ End(functions'[f]) <= End(binary.text)
      <4>1. CASE f \in 1 .. Len(functions)
        BY <2>1, <3>3, <4>1
      <4>2. CASE f = Len(functions) + 1
        BY <3>1, <3>3, <4>2
      <4> QED BY <3>3, <4>1, <4>2
    <3> QED BY <3>3, <3>4
  <2> QED BY <2>2, <2>3
<1> HIDE DEF sym, rec
<1>5. AnalyzerTypeOK'
  BY <1>1, <1>2, <1>4 DEF TypeInv, AnalyzerTypeOK, input, graph, N
<1>6. StageInv' /\ ChainInv'
  BY <1>1, <1>2, <1>3 DEF StageInv, ChainInv, input, graph
<1> QED BY <1>5, <1>6 DEF TypeInv

LEMMA SortSymbolsType == ASSUME TypeInv, SortSymbols PROVE TypeInv'
<1>1. PICK order \in [1 .. N -> 1 .. N] : functions' = [f \in 1 .. N |-> functions[order[f]]]
  BY DEF SortSymbols
<1>2. /\ stage = "symbols" /\ stage' = "calls" /\ i' = 0 /\ j' = 0
      /\ children' = [f \in 1 .. N |-> <<>>] /\ parents' = [f \in 1 .. N |-> <<>>]
      /\ UNCHANGED <<input, reachable, stack, bundles_out>>
  BY DEF SortSymbols
<1>3. reachable = <<>> /\ stack = <<>>
  BY <1>2 DEF TypeInv, StageInv
<1>4. N \in Nat /\ \A f \in 1 .. N : functions[f] \in [addr : Nat, size : Nat \ {0}]
  BY Shapes
<1>5. functions' \in Seq([addr : Nat, size : Nat \ {0}]) /\ N' = N
  <2> DEFINE R == [addr : Nat, size : Nat \ {0}]
  <2>1. \A f \in 1 .. N : functions[order[f]] \in R
    BY <1>4
  <2>2. functions' \in [1 .. N -> R]
    BY <1>1, <2>1
  <2>3. functions' \in Seq(R) /\ Len(functions') = N
    <3> HIDE DEF R, N
    <3> QED BY <1>4, <2>2, FunctionIsSeq, Zenon
  <2> QED BY <2>3 DEF N
<1>6. \A f \in 1 .. N : functions'[f].addr >= binary.text.addr
                      /\ End(functions'[f]) <= End(binary.text)
  BY <1>1 DEF TypeInv, AnalyzerTypeOK
<1>7. /\ children' \in Seq(Seq(1 .. N)) /\ parents' \in Seq(Seq(1 .. N))
      /\ Len(children') = N /\ Len(parents') = N
  BY <1>2, <1>4
<1>8. AnalyzerTypeOK'
  BY <1>2, <1>3, <1>5, <1>6, <1>7 DEF TypeInv, AnalyzerTypeOK, Stages, input
<1>9. StageInv' /\ ChainInv'
  BY <1>2, <1>3, <1>4, <1>5, <1>7 DEF StageInv, ChainInv
<1> QED BY <1>8, <1>9 DEF TypeInv

\* A step that only moves on in the loop of a stage, or to the next stage.
LEMMA StageType ==
    ASSUME TypeInv, UNCHANGED <<input, functions, graph, reachable, stack>>,
           i' \in Nat, i' <= N, j' \in Nat,
           \/ stage' = stage /\ stage # "symbols"
           \/ stage \in {"symbols", "calls"} /\ stage' = "failed"
           \/ stage = "reach" /\ stage' = "stack_overflow"
           \/ stage = "reach" /\ stage' = "select" /\ stack = <<>>
           \/ stage = "select" /\ stage' = "done"
    PROVE  TypeInv'
<1>1. N' = N /\ FrameRecord' = FrameRecord
  BY DEF N, FrameRecord
<1>2. AnalyzerTypeOK'
  BY <1>1 DEF TypeInv, AnalyzerTypeOK, Stages, input, graph
<1>3. StageInv'
  <2>1. stage = "symbols" => reachable = <<>> /\ stack = <<>>
    BY DEF TypeInv, StageInv
  <2> QED BY <1>1, <2>1 DEF TypeInv, StageInv, input, graph
<1>4. ChainInv'
  BY DEF TypeInv, ChainInv, graph
<1> QED BY <1>2, <1>3, <1>4 DEF TypeInv

LEMMA ReadCallType == ASSUME TypeInv, ReadCall PROVE TypeInv'
<1> DEFINE f == i + 1
           c == FindFuncByAddr(CallsOf(f)[j + 1].target)
<1>1. /\ stage = "calls" /\ i < N /\ j' = j + 1
      /\ UNCHANGED <<input, stage, i, functions, reachable, stack, bundles_out>>
      /\ \/ UNCHANGED graph
         \/ /\ c # 0 /\ c # f
            /\ children' = [children EXCEPT ![f] = Append(@, c)]
            /\ parents' = [parents EXCEPT ![c] = Append(@, f)]
  BY DEF ReadCall
<1>2. /\ i \in Nat /\ j \in Nat /\ N \in Nat /\ reachable = <<>> /\ stack = <<>>
      /\ children \in Seq(Seq(1 .. N)) /\ parents \in Seq(Seq(1 .. N))
      /\ Len(children) = N /\ Len(parents) = N
  BY <1>1, Shapes DEF TypeInv, AnalyzerTypeOK, StageInv
<1>3. f \in 1 .. N /\ c \in 0 .. N
  BY <1>1, <1>2, FindType
<1>4. N' = N
  BY <1>1 DEF N
<1> HIDE DEF f, c
<1>5. /\ children' \in Seq(Seq(1 .. N)) /\ parents' \in Seq(Seq(1 .. N))
      /\ Len(children') = N /\ Len(parents') = N
  <2>1. CASE UNCHANGED graph
    BY <1>2, <2>1 DEF graph
  <2>2. CASE ~ UNCHANGED graph
    <3>1. /\ c \in 1 .. N
          /\ children' = [children EXCEPT ![f] = Append(@, c)]
          /\ parents' = [parents EXCEPT ![c] = Append(@, f)]
      BY <1>1, <1>3, <2>2
    <3>2. Append(children[f], c) \in Seq(1 .. N) /\ Append(parents[c], f) \in Seq(1 .. N)
      BY <1>2, <1>3, <3>1
    <3> QED BY <1>2, <1>3, <3>1, <3>2
  <2> QED BY <2>1, <2>2
<1>6. AnalyzerTypeOK'
  BY <1>1, <1>2, <1>4, <1>5 DEF TypeInv, AnalyzerTypeOK, input
<1>7. StageInv' /\ ChainInv'
  BY <1>1, <1>2, <1>4, <1>5 DEF TypeInv, StageInv, ChainInv, input
<1> QED BY <1>6, <1>7 DEF TypeInv

LEMMA GraphDoneType == ASSUME TypeInv, GraphDone PROVE TypeInv'
<1>1. /\ stage = "calls" /\ i = N /\ stage' = "reach" /\ i' = 0
      /\ reachable' = [f \in 1 .. N |-> Unknown]
      /\ UNCHANGED <<input, j, functions, graph, stack, bundles_out>>
  BY DEF GraphDone
<1>2. stack = <<>> /\ N \in Nat /\ N' = N
  BY <1>1, Shapes DEF TypeInv, StageInv, N
<1>3. reachable' \in Seq(Nat \cup {Unknown}) /\ Len(reachable') = N
  BY <1>1, <1>2
<1>4. AnalyzerTypeOK'
  BY <1>1, <1>2, <1>3 DEF TypeInv, AnalyzerTypeOK, Stages, input, graph
<1>5. StageInv' /\ ChainInv'
  BY <1>1, <1>2, <1>3 DEF TypeInv, StageInv, ChainInv, FrameRecord, input, graph
<1> QED BY <1>4, <1>5 DEF TypeInv

\* The frame that runs, and the callee it is about to add.
LEMMA TopType ==
    ASSUME TypeInv, stack # <<>>
    PROVE  /\ stage \in {"reach", "stack_overflow"} /\ Len(stack) > 0
           /\ Top = stack[1] /\ Top \in FrameRecord
           /\ Top.done <= Len(children[Top.fn])
           /\ Top.done < Len(children[Top.fn]) =>
                /\ Top.done + 1 \in DOMAIN children[Top.fn]
                /\ Callee \in 1 .. N /\ reachable[Callee] \in Nat \cup {Unknown}
<1>1. stage \in {"reach", "stack_overflow"}
  BY DEF TypeInv, StageInv
<1>2. Len(stack) > 0 /\ Top = stack[1] /\ 1 \in DOMAIN stack
  <2>1. stack \in Seq(FrameRecord)
    BY DEF TypeInv, StageInv
  <2> QED BY <2>1 DEF Top
<1>3. Top \in FrameRecord /\ Top.done <= Len(children[Top.fn])
  BY <1>2, Shapes DEF TypeInv, ChainInv
<1>4. Top.fn \in 1 .. N /\ Top.done \in Nat /\ children[Top.fn] \in Seq(1 .. N)
  BY <1>1, <1>3, Shapes DEF FrameRecord
<1>5. ASSUME Top.done < Len(children[Top.fn])
      PROVE  Top.done + 1 \in DOMAIN children[Top.fn] /\ Callee \in 1 .. N
  <2>1. Len(children[Top.fn]) \in Nat /\ DOMAIN children[Top.fn] = 1 .. Len(children[Top.fn])
    BY <1>4
  <2>2. Top.done + 1 \in 1 .. Len(children[Top.fn])
    BY <1>4, <1>5, <2>1
  <2> QED BY <1>4, <2>1, <2>2, Elements DEF Callee
<1> QED BY <1>1, <1>2, <1>3, <1>5, Shapes

\* A frame of a function of the graph, with nothing added up.
LEMMA FrameType ==
    ASSUME TypeInv, NEW f \in 1 .. N
    PROVE  /\ Frame(f) \in FrameRecord
           /\ Frame(f).fn = f /\ Frame(f).done = 0 /\ Frame(f).total = functions[f].size
<1>1. functions[f].size \in Nat
  BY Shapes
<1> QED BY <1>1 DEF Frame, FrameRecord

LEMMA AddedType ==
    ASSUME NEW fr \in FrameRecord, NEW bytes \in Nat
    PROVE  /\ Added(fr, bytes) \in FrameRecord
           /\ Added(fr, bytes).fn = fr.fn /\ Added(fr, bytes).done = fr.done + 1
           /\ Added(fr, bytes).total = fr.total + bytes
<1>1. fr = [fn |-> fr.fn, done |-> fr.done, total |-> fr.total]
      /\ fr.fn \in 1 .. N /\ fr.done \in Nat /\ fr.total \in Nat
  BY DEF FrameRecord
<1>2. Added(fr, bytes) = [fn |-> fr.fn, done |-> fr.done + 1, total |-> fr.total + bytes]
  <2>1. [fr EXCEPT !.done = fr.done + 1]
          = [fn |-> fr.fn, done |-> fr.done + 1, total |-> fr.total]
    BY <1>1
  <2>2. Added(fr, bytes) = [[fr EXCEPT !.done = fr.done + 1] EXCEPT !.total = fr.total + bytes]
    BY <1>1, <2>1 DEF Added
  <2> QED BY <2>1, <2>2
<1>3. fr.done + 1 \in Nat /\ fr.total + bytes \in Nat
  BY <1>1
<1> QED BY <1>1, <1>2, <1>3 DEF FrameRecord

\* A step of the search that leaves a stack and sizes of the right type.
LEMMA SearchType ==
    ASSUME TypeInv, stage = "reach", stage' = stage, UNCHANGED <<input, functions, graph>>,
           i' \in Nat, i' <= N, j' = j,
           stack' \in Seq(FrameRecord), reachable' \in Seq(Nat \cup {Unknown}), Len(reachable') = N,
           ChainInv'
    PROVE  TypeInv'
<1>1. N' = N /\ FrameRecord' = FrameRecord
  BY DEF N, FrameRecord
<1>2. \A m \in DOMAIN stack' : stack'[m].fn \in 1 .. N
  <2>1. \A m \in DOMAIN stack' : stack'[m] \in FrameRecord
    BY Elements, Zenon
  <2> QED BY <2>1 DEF FrameRecord
<1>3. AnalyzerTypeOK'
  BY <1>1, <1>2 DEF TypeInv, AnalyzerTypeOK, input, graph
<1>4. StageInv'
  BY <1>1 DEF TypeInv, StageInv, input, graph
<1> QED BY <1>3, <1>4 DEF TypeInv

\* What the steps of the search do to the stack.
LEMMA NextRoot ==
    ASSUME TypeInv, DfsNextRoot
    PROVE  /\ stack = <<>> /\ i + 1 \in 1 .. N /\ i' = i + 1 /\ stage = "reach"
           /\ \/ reachable[i + 1] # Unknown /\ stack' = <<>>
              \/ /\ reachable[i + 1] = Unknown
                 /\ stack' \in Seq(FrameRecord) /\ Len(stack') = 1
                 /\ stack'[1] = Frame(i + 1) /\ Frame(i + 1) \in FrameRecord
           /\ UNCHANGED <<input, stage, j, functions, graph, reachable, bundles_out>>
<1>1. i + 1 \in 1 .. N
  <2>1. N \in Nat
    BY Shapes
  <2>2. i \in Nat /\ i < N
    BY DEF DfsNextRoot, TypeInv, AnalyzerTypeOK
  <2> QED BY <2>1, <2>2
<1>2. Frame(i + 1) \in FrameRecord
  BY <1>1, FrameType
<1> HIDE DEF Frame
<1>3. /\ stack = <<>> /\ stage = "reach"
      /\ stack' = IF reachable[i + 1] = Unknown THEN <<Frame(i + 1)>> ELSE <<>>
      /\ i' = i + 1 /\ UNCHANGED <<input, stage, j, functions, graph, reachable, bundles_out>>
  BY DEF DfsNextRoot
<1> QED BY <1>1, <1>2, <1>3

LEMMA KnownCallee ==
    ASSUME TypeInv, DfsKnownCallee
    PROVE  /\ stack # <<>> /\ stage = "reach" /\ Top.done < Len(children[Top.fn])
           /\ reachable[Callee] \in Nat
           /\ stack' \in Seq(FrameRecord) /\ Len(stack') = Len(stack)
           /\ stack'[1] = Added(Top, reachable[Callee])
           /\ \A m \in 2 .. Len(stack) : stack'[m] = stack[m]
           /\ UNCHANGED <<input, stage, i, j, functions, graph, reachable, bundles_out>>
<1>1. /\ stack # <<>> /\ stage = "reach" /\ Top.done < Len(children[Top.fn])
      /\ reachable[Callee] # Unknown
      /\ stack' = <<Added(Top, reachable[Callee])>> \o Tail(stack)
      /\ UNCHANGED <<input, stage, i, j, functions, graph, reachable, bundles_out>>
  BY DEF DfsKnownCallee
<1>2. reachable[Callee] \in Nat /\ Top \in FrameRecord
  BY <1>1, TopType
<1>3. stack \in Seq(FrameRecord) /\ Added(Top, reachable[Callee]) \in FrameRecord
  BY <1>2, AddedType DEF TypeInv, StageInv
<1> QED BY <1>1, <1>2, <1>3, Replace

LEMMA CallPushed ==
    ASSUME TypeInv, DfsCall, stage' = stage
    PROVE  /\ stack # <<>> /\ stage = "reach" /\ Top.done < Len(children[Top.fn])
           /\ Callee \in 1 .. N /\ reachable[Callee] = Unknown
           /\ stack' \in Seq(FrameRecord) /\ Len(stack') = Len(stack) + 1
           /\ stack'[1] = Frame(Callee)
           /\ \A m \in 2 .. Len(stack) + 1 : stack'[m] = stack[m - 1]
           /\ UNCHANGED <<input, stage, i, j, functions, graph, reachable, bundles_out>>
<1>1. /\ stack # <<>> /\ stage = "reach" /\ Top.done < Len(children[Top.fn])
      /\ reachable[Callee] = Unknown
      /\ stack' = <<Frame(Callee)>> \o stack
      /\ UNCHANGED <<input, stage, i, j, functions, graph, reachable, bundles_out>>
  BY DEF DfsCall
<1>2. Callee \in 1 .. N
  BY <1>1, TopType
<1>3. stack \in Seq(FrameRecord) /\ Frame(Callee) \in FrameRecord
  BY <1>2, FrameType DEF TypeInv, StageInv
<1> QED BY <1>1, <1>2, <1>3, Push

LEMMA CallOverflows ==
    ASSUME TypeInv, DfsCall, stage' # stage
    PROVE  /\ stack # <<>> /\ stage = "reach" /\ stage' = "stack_overflow"
           /\ Len(stack) >= MaxDepth
           /\ Top.done < Len(children[Top.fn]) /\ reachable[Callee] = Unknown
           /\ UNCHANGED <<input, i, j, functions, graph, reachable, stack, bundles_out>>
<1>1. Len(stack) \in Nat /\ MaxDepth \in Nat
  BY Shapes, AnalyzerAssumption
<1> QED BY <1>1 DEF DfsCall

LEMMA Returned ==
    ASSUME TypeInv, DfsReturn
    PROVE  /\ stack # <<>> /\ stage = "reach" /\ Top.done = Len(children[Top.fn])
           /\ Top \in FrameRecord
           /\ reachable' = [reachable EXCEPT ![Top.fn] = Top.total]
           /\ Len(stack) = 1 => stack' = <<>>
           /\ Len(stack) > 1 =>
                /\ stack[2] \in FrameRecord
                /\ stack' \in Seq(FrameRecord) /\ Len(stack') = Len(stack) - 1
                /\ stack'[1] = Added(stack[2], Top.total)
                /\ \A m \in 2 .. Len(stack) - 1 : stack'[m] = stack[m + 1]
           /\ UNCHANGED <<input, stage, i, j, functions, graph, bundles_out>>
<1>1. /\ stack # <<>> /\ stage = "reach" /\ Top.done = Len(children[Top.fn])
      /\ reachable' = [reachable EXCEPT ![Top.fn] = Top.total]
      /\ stack' = IF Len(stack) = 1 THEN <<>>
                  ELSE <<Added(stack[2], Top.total)>> \o Tail(Tail(stack))
      /\ UNCHANGED <<input, stage, i, j, functions, graph, bundles_out>>
  BY DEF DfsReturn
<1>2. Top \in FrameRecord /\ stack \in Seq(FrameRecord) /\ Len(stack) \in Nat
  BY <1>1, TopType, Shapes DEF TypeInv, StageInv
<1>3. ASSUME Len(stack) > 1
      PROVE  stack[2] \in FrameRecord /\ Added(stack[2], Top.total) \in FrameRecord
  <2>1. stack[2] \in FrameRecord
    BY <1>2, <1>3, Elements
  <2>2. Top.total \in Nat
    BY <1>2 DEF FrameRecord
  <2> QED BY <2>1, <2>2, AddedType
<1>4. ASSUME Len(stack) > 1
      PROVE  /\ stack' \in Seq(FrameRecord) /\ Len(stack') = Len(stack) - 1
             /\ stack'[1] = Added(stack[2], Top.total)
             /\ \A m \in 2 .. Len(stack) - 1 : stack'[m] = stack[m + 1]
  <2>1. stack' = <<Added(stack[2], Top.total)>> \o Tail(Tail(stack))
    <3>1. Len(stack) # 1
      <4>1. Len(stack) \in Nat
        BY <1>2
      <4> QED BY <1>4, <4>1, NotOne, Zenon
    <3> QED BY <1>1, <3>1, Zenon
  <2> QED BY <1>2, <1>3, <1>4, <2>1, PopReplace
<1> QED BY <1>1, <1>2, <1>3, <1>4

LEMMA NextRootType == ASSUME TypeInv, DfsNextRoot PROVE TypeInv'
<1>1. /\ i' \in Nat /\ i' <= N /\ stage = "reach" /\ stage' = stage /\ j' = j
      /\ UNCHANGED <<input, functions, graph>> /\ reachable' = reachable
  BY NextRoot DEF TypeInv, AnalyzerTypeOK
<1>2. /\ reachable \in Seq(Nat \cup {Unknown}) /\ Len(reachable) = N
      /\ N \in Nat /\ \A f \in 1 .. N : Len(children[f]) \in Nat
  BY <1>1, Shapes DEF TypeInv, AnalyzerTypeOK, StageInv
<1>3. stack' \in Seq(FrameRecord) /\ ChainInv'
  <2>1. CASE stack' = <<>>
    BY <2>1 DEF ChainInv
  <2>2. CASE stack' # <<>>
    <3>1. /\ stack' \in Seq(FrameRecord) /\ Len(stack') = 1 /\ stack'[1] = Frame(i + 1)
          /\ i + 1 \in 1 .. N
      BY <2>2, NextRoot
    <3>2. stack'[1].done = 0 /\ stack'[1].fn \in 1 .. N
      BY <3>1, FrameType
    <3>3. DOMAIN stack' = {1}
      <4>1. DOMAIN stack' = 1 .. Len(stack')
        BY <3>1
      <4> QED BY <3>1, <4>1
    <3>4. children' = children
      BY <1>1 DEF graph
    <3> QED BY <1>2, <3>1, <3>2, <3>3, <3>4 DEF ChainInv
  <2> QED BY <2>1, <2>2
<1> QED BY <1>1, <1>2, <1>3, SearchType

LEMMA KnownCalleeType == ASSUME TypeInv, DfsKnownCallee PROVE TypeInv'
<1>1. /\ stage = "reach" /\ stage' = stage /\ i' = i /\ j' = j
      /\ UNCHANGED <<input, functions, graph>> /\ reachable' = reachable /\ children' = children
  BY KnownCallee DEF graph
<1>2. /\ reachable \in Seq(Nat \cup {Unknown}) /\ Len(reachable) = N /\ i \in Nat /\ i <= N
  BY <1>1 DEF TypeInv, AnalyzerTypeOK, StageInv
<1>3. /\ stack' \in Seq(FrameRecord) /\ Len(stack') = Len(stack) /\ Len(stack) \in Nat
      /\ \A m \in 2 .. Len(stack) : stack'[m] = stack[m]
      /\ Top = stack[1] /\ Top \in FrameRecord /\ Top.done < Len(children[Top.fn])
  BY KnownCallee, TopType, Shapes
<1>4. stack'[1].fn = Top.fn /\ stack'[1].done = Top.done + 1 /\ Top.done \in Nat
  <2>1. Top.done \in Nat
    BY <1>3 DEF FrameRecord
  <2>2. reachable[Callee] \in Nat /\ stack'[1] = Added(Top, reachable[Callee])
    BY KnownCallee
  <2>3. Top \in FrameRecord
    BY <1>3
  <2>4. /\ Added(Top, reachable[Callee]).fn = Top.fn
        /\ Added(Top, reachable[Callee]).done = Top.done + 1
    BY <2>2, <2>3, AddedType, Zenon
  <2> QED BY <2>1, <2>2, <2>4, Zenon
<1>5. Len(children[Top.fn]) \in Nat
  BY <1>1, <1>3, Shapes DEF FrameRecord
<1>6. ASSUME NEW m \in DOMAIN stack'
      PROVE  LET f == stack'[m].fn
             IN  IF m = 1 THEN stack'[m].done <= Len(children[f])
                 ELSE /\ stack'[m].done < Len(children[f])
                      /\ stack'[m - 1].fn = children[f][stack'[m].done + 1]
  <2>1. m \in 1 .. Len(stack)
    BY <1>3
  <2>2. CASE m = 1
    BY <1>3, <1>4, <1>5, <2>2
  <2>3. CASE m # 1
    <3>1. m \in 2 .. Len(stack) /\ m \in DOMAIN stack
      BY <2>1, <2>3, Shapes
    <3>2. stack'[m] = stack[m] /\ stack'[m - 1].fn = stack[m - 1].fn
      <4>1. CASE m = 2
        BY <1>3, <1>4, <3>1, <4>1
      <4>2. CASE m # 2
        BY <1>3, <3>1, <4>2
      <4> QED BY <4>1, <4>2
    <3> QED BY <2>3, <3>1, <3>2 DEF TypeInv, ChainInv
  <2> QED BY <2>2, <2>3
<1>7. ChainInv'
  BY <1>1, <1>6 DEF ChainInv
<1> QED BY <1>1, <1>2, <1>3, <1>7, SearchType

LEMMA CallType == ASSUME TypeInv, DfsCall PROVE TypeInv'
<1>1. CASE stage' # stage
  BY <1>1, CallOverflows, StageType, Shapes DEF TypeInv, AnalyzerTypeOK, StageInv
<1>2. CASE stage' = stage
  <2>1. /\ stage = "reach" /\ i' = i /\ j' = j
        /\ UNCHANGED <<input, functions, graph>> /\ reachable' = reachable /\ children' = children
    BY <1>2, CallPushed DEF graph
  <2>2. /\ reachable \in Seq(Nat \cup {Unknown}) /\ Len(reachable) = N /\ i \in Nat /\ i <= N
    BY <2>1 DEF TypeInv, AnalyzerTypeOK, StageInv
  <2>3. /\ stack' \in Seq(FrameRecord) /\ Len(stack') = Len(stack) + 1 /\ Len(stack) \in Nat
        /\ \A m \in 2 .. Len(stack) + 1 : stack'[m] = stack[m - 1]
        /\ Callee \in 1 .. N /\ Top = stack[1] /\ Top.done < Len(children[Top.fn])
    BY <1>2, CallPushed, TopType, Shapes
  <2>4. stack'[1].fn = Callee /\ stack'[1].done = 0 /\ Len(children[Callee]) \in Nat
    BY <1>2, <2>1, <2>3, CallPushed, FrameType, Shapes
  <2>5. ASSUME NEW m \in DOMAIN stack'
        PROVE  LET f == stack'[m].fn
               IN  IF m = 1 THEN stack'[m].done <= Len(children[f])
                   ELSE /\ stack'[m].done < Len(children[f])
                        /\ stack'[m - 1].fn = children[f][stack'[m].done + 1]
    <3>1. m \in 1 .. Len(stack) + 1
      BY <2>3
    <3>2. CASE m = 1
      BY <2>4, <3>2
    <3>3. CASE m = 2
      BY <2>3, <2>4, <3>1, <3>3 DEF Callee
    <3>4. CASE m # 1 /\ m # 2
      <4>1. m \in 2 .. Len(stack) + 1 /\ m - 1 \in 2 .. Len(stack) + 1 /\ m - 1 \in DOMAIN stack
            /\ m - 1 # 1
        BY <2>3, <3>1, <3>4, Shapes
      <4>2. stack'[m] = stack[m - 1] /\ stack'[m - 1] = stack[(m - 1) - 1]
        BY <2>3, <4>1
      <4> QED BY <3>4, <4>1, <4>2 DEF TypeInv, ChainInv
    <3> QED BY <3>2, <3>3, <3>4
  <2>6. ChainInv'
    BY <2>1, <2>5 DEF ChainInv
  <2> QED BY <1>2, <2>1, <2>2, <2>3, <2>6, SearchType
<1> QED BY <1>1, <1>2

LEMMA ReturnType == ASSUME TypeInv, DfsReturn PROVE TypeInv'
<1>1. /\ stage = "reach" /\ stage' = stage /\ i' = i /\ j' = j
      /\ UNCHANGED <<input, functions, graph>> /\ children' = children
      /\ reachable' = [reachable EXCEPT ![Top.fn] = Top.total]
  BY Returned DEF graph
<1>2. /\ reachable \in Seq(Nat \cup {Unknown}) /\ Len(reachable) = N /\ i \in Nat /\ i <= N
  BY <1>1 DEF TypeInv, AnalyzerTypeOK, StageInv
<1>3. reachable' \in Seq(Nat \cup {Unknown}) /\ Len(reachable') = N
  <2>1. Top.fn \in 1 .. N /\ Top.total \in Nat
    BY Returned DEF FrameRecord
  <2> QED BY <1>1, <1>2, <2>1
<1>4. stack' \in Seq(FrameRecord) /\ ChainInv'
  <2>0. Len(stack) \in Nat /\ Len(stack) > 0
    BY Returned, TopType, Shapes
  <2>1. CASE Len(stack) = 1
    <3>1. stack' = <<>>
      BY <2>1, Returned
    <3> QED BY <3>1 DEF ChainInv
  <2>2. CASE Len(stack) > 1
    <3>1. /\ stack' \in Seq(FrameRecord) /\ Len(stack') = Len(stack) - 1
          /\ \A m \in 2 .. Len(stack) - 1 : stack'[m] = stack[m + 1]
          /\ stack[2] \in FrameRecord /\ Top.total \in Nat
      BY <2>2, Returned DEF FrameRecord
    <3>2. stack'[1].fn = stack[2].fn /\ stack'[1].done = stack[2].done + 1
      <4>1. stack'[1] = Added(stack[2], Top.total)
        BY <2>2, Returned
      <4>2. stack[2] \in FrameRecord /\ Top.total \in Nat
        BY <3>1
      <4>3. /\ Added(stack[2], Top.total).fn = stack[2].fn
            /\ Added(stack[2], Top.total).done = stack[2].done + 1
        BY <4>2, AddedType, Zenon
      <4> QED BY <4>1, <4>3, Zenon
    <3>3. 2 \in DOMAIN stack /\ DOMAIN stack = 1 .. Len(stack)
      BY <2>0, <2>2, Shapes
    <3>4. /\ stack[2].done < Len(children[stack[2].fn]) /\ stack[2].done \in Nat
          /\ Len(children[stack[2].fn]) \in Nat
      <4>1. stack[2].fn \in 1 .. N /\ stack[2].done \in Nat
        BY <3>1 DEF FrameRecord
      <4>2. Len(children[stack[2].fn]) \in Nat
        BY <1>1, <4>1, Shapes
      <4> QED BY <3>3, <4>1, <4>2 DEF TypeInv, ChainInv
    <3>5. ASSUME NEW m \in DOMAIN stack'
          PROVE  LET f == stack'[m].fn
                 IN  IF m = 1 THEN stack'[m].done <= Len(children[f])
                     ELSE /\ stack'[m].done < Len(children[f])
                          /\ stack'[m - 1].fn = children[f][stack'[m].done + 1]
      <4>1. m \in 1 .. Len(stack) - 1
        BY <3>1
      <4>2. CASE m = 1
        BY <3>2, <3>4, <4>2
      <4>3. CASE m # 1
        <5>1. m \in 2 .. Len(stack) - 1 /\ m + 1 \in DOMAIN stack /\ m + 1 # 1 /\ (m + 1) - 1 = m
          BY <2>0, <3>3, <4>1, <4>3
        <5>2. stack'[m] = stack[m + 1] /\ stack'[m - 1].fn = stack[m].fn
          <6>1. CASE m = 2
            BY <3>1, <3>2, <5>1, <6>1
          <6>2. CASE m # 2
            <7>1. m - 1 \in 2 .. Len(stack) - 1 /\ (m - 1) + 1 = m
              BY <5>1, <6>2
            <7> QED BY <3>1, <5>1, <7>1
          <6> QED BY <6>1, <6>2
        <5> QED BY <4>3, <5>1, <5>2 DEF TypeInv, ChainInv
      <4> QED BY <4>2, <4>3
    <3>6. ChainInv'
      BY <1>1, <3>5 DEF ChainInv
    <3> QED BY <3>1, <3>6
  <2>3. Len(stack) = 1 \/ Len(stack) > 1
    <3>1. Len(stack) # 0
      BY <2>0
    <3> QED BY <2>0, <3>1, NotOne, Zenon
  <2> QED BY <2>1, <2>2, <2>3
<1> QED BY <1>1, <1>2, <1>3, <1>4, SearchType

LEMMA AnalyzerTypeStep == TypeInv /\ [AnalyzerNext]_analyzerVars => TypeInv'
<1> SUFFICES ASSUME TypeInv, [AnalyzerNext]_analyzerVars PROVE TypeInv'
  OBVIOUS
<1>0. i \in Nat /\ j \in Nat /\ N \in Nat /\ (stage # "symbols" => i <= N)
  BY Shapes DEF TypeInv, AnalyzerTypeOK, StageInv
<1>1. CASE ReadSymbol
  BY <1>1, ReadSymbolType
<1>2. CASE SortSymbols
  BY <1>2, SortSymbolsType
<1>3. CASE Fail
  BY <1>0, <1>3, StageType DEF Fail
<1>4. CASE ReadCall
  BY <1>4, ReadCallType
<1>5. CASE NextFunction
  BY <1>0, <1>5, StageType DEF NextFunction
<1>6. CASE GraphDone
  BY <1>6, GraphDoneType
<1>7. CASE DfsNextRoot
  BY <1>7, NextRootType
<1>8. CASE DfsKnownCallee
  BY <1>8, KnownCalleeType
<1>9. CASE DfsCall
  BY <1>9, CallType
<1>10. CASE DfsReturn
  BY <1>10, ReturnType
<1>11. CASE ReachDone
  BY <1>0, <1>11, StageType DEF ReachDone
<1>12. CASE SelectBundle
  BY <1>0, <1>12, StageType DEF SelectBundle
<1>13. CASE WriteBundles
  BY <1>0, <1>13, StageType DEF WriteBundles
<1>14. CASE UNCHANGED analyzerVars
  BY <1>14 DEF analyzerVars, input, graph, TypeInv, AnalyzerTypeOK, StageInv, ChainInv, N, FrameRecord
<1> QED BY <1>1, <1>2, <1>3, <1>4, <1>5, <1>6, <1>7, <1>8, <1>9, <1>10, <1>11, <1>12,
           <1>13, <1>14 DEF AnalyzerNext

\* The declared types hold of every analysis: every function kept lies in .text
\* (read_elf_symbols), and every index stored in the graph is a function.
THEOREM AnalyzerTypeCorrect == AnalyzerSpec => []AnalyzerTypeOK
<1>1. AnalyzerSpec => []TypeInv
  BY AnalyzerTypeInit, AnalyzerTypeStep, PTL DEF AnalyzerSpec
<1>2. TypeInv => AnalyzerTypeOK
  BY DEF TypeInv
<1> QED BY <1>1, <1>2, PTL

-----------------------------------------------------------------------------
(* The call graph *)

\* Steps other than those of build_call_graph leave the graph alone.
LEMMA EdgesKept ==
    ASSUME [AnalyzerNext]_analyzerVars, ~SortSymbols, ~ReadCall
    PROVE  UNCHANGED graph
BY DEF AnalyzerNext, analyzerVars, ReadSymbol, Fail, NextFunction, GraphDone, DfsNextRoot,
       DfsKnownCallee, DfsCall, DfsReturn, ReachDone, SelectBundle, WriteBundles

LEMMA EdgesInit == AnalyzerInit => EdgesInv
BY DEF AnalyzerInit, EdgesInv, ToSet

LEMMA EdgesStep == TypeInv /\ EdgesInv /\ [AnalyzerNext]_analyzerVars => EdgesInv'
<1> SUFFICES ASSUME TypeInv, EdgesInv, [AnalyzerNext]_analyzerVars PROVE EdgesInv'
  OBVIOUS
<1>1. CASE SortSymbols
  <2>1. children' = [f \in 1 .. N |-> <<>>] /\ parents' = [f \in 1 .. N |-> <<>>]
    BY <1>1 DEF SortSymbols
  <2> QED BY <2>1 DEF EdgesInv, ToSet
<1>2. CASE ReadCall
  <2> DEFINE f == i + 1
             c == FindFuncByAddr(CallsOf(f)[j + 1].target)
  <2>1. /\ stage = "calls" /\ i < N
        /\ \/ UNCHANGED graph
           \/ /\ c # 0 /\ c # f
              /\ children' = [children EXCEPT ![f] = Append(@, c)]
              /\ parents' = [parents EXCEPT ![c] = Append(@, f)]
    BY <1>2 DEF ReadCall
  <2>2. i \in Nat /\ N \in Nat
    BY Shapes DEF TypeInv, AnalyzerTypeOK
  <2>3. f \in 1 .. N /\ c \in 0 .. N
    BY <2>1, <2>2, FindType
  <2> HIDE DEF f, c
  <2>4. CASE UNCHANGED graph
    BY <2>4 DEF graph, EdgesInv
  <2>5. CASE ~ UNCHANGED graph
    <3>1. /\ c \in 1 .. N /\ c # f
          /\ children' = [children EXCEPT ![f] = Append(@, c)]
          /\ parents' = [parents EXCEPT ![c] = Append(@, f)]
      BY <2>1, <2>3, <2>5
    <3>2. /\ DOMAIN children = 1 .. N /\ DOMAIN parents = 1 .. N
          /\ children[f] \in Seq(1 .. N) /\ parents[c] \in Seq(1 .. N)
      BY <2>1, <2>3, <3>1, Shapes
    <3>3. /\ DOMAIN children' = 1 .. N /\ DOMAIN parents' = 1 .. N
          /\ children'[f] = Append(children[f], c) /\ parents'[c] = Append(parents[c], f)
          /\ \A g \in 1 .. N : /\ g # f => children'[g] = children[g]
                               /\ g # c => parents'[g] = parents[g]
      BY <2>3, <3>1, <3>2
    <3>4. /\ ToSet(children'[f]) = ToSet(children[f]) \cup {c}
          /\ ToSet(parents'[c]) = ToSet(parents[c]) \cup {f}
      BY <3>2, <3>3, ToSetAppend
    <3>5. \A g \in 1 .. N : g \notin ToSet(children'[g])
      BY <3>1, <3>2, <3>3, <3>4 DEF EdgesInv
    <3>6. \A g \in 1 .. N : ToSet(children[g]) \subseteq ToSet(children'[g])
      BY <3>3, <3>4
    <3>7. ASSUME NEW g \in 1 .. N, NEW h \in ToSet(parents'[g])
          PROVE  h \in 1 .. N /\ g \in ToSet(children'[h])
      <4>1. CASE h \in ToSet(parents[g])
        BY <3>2, <3>6, <4>1 DEF EdgesInv
      <4>2. CASE h \notin ToSet(parents[g])
        <5>1. g = c /\ h = f
          BY <3>3, <3>4, <3>7, <4>2
        <5> QED BY <2>3, <3>4, <5>1
      <4> QED BY <4>1, <4>2
    <3> QED BY <3>3, <3>5, <3>7 DEF EdgesInv
  <2> QED BY <2>4, <2>5
<1>3. CASE ~SortSymbols /\ ~ReadCall
  BY <1>3, EdgesKept DEF graph, EdgesInv
<1> QED BY <1>1, <1>2, <1>3

-----------------------------------------------------------------------------
(* The search: the sizes noted and the frames add up *)

\* A sum over one more element.
LEMMA SumNext ==
    ASSUME NEW g, NEW n \in Nat, \A c \in 1 .. n + 1 : g[c] \in Nat
    PROVE  /\ SumFunctionOnSet(g, 1 .. n) \in Nat
           /\ SumFunctionOnSet(g, 1 .. n + 1) = SumFunctionOnSet(g, 1 .. n) + g[n + 1]
<1>1. IsFiniteSet(1 .. n + 1) /\ IsFiniteSet(1 .. n)
  BY FS_Interval
<1>2. (1 .. n + 1) \ {n + 1} = 1 .. n /\ n + 1 \in 1 .. n + 1
  OBVIOUS
<1>3. SumFunctionOnSet(g, 1 .. n + 1) = g[n + 1] + SumFunctionOnSet(g, (1 .. n + 1) \ {n + 1})
  BY <1>1, <1>2, SumRemove
<1>4. SumFunctionOnSet(g, 1 .. n) \in Nat
  BY <1>1, SumType
<1>5. g[n + 1] \in Nat
  BY <1>2
<1>6. SumFunctionOnSet(g, 1 .. n + 1) = g[n + 1] + SumFunctionOnSet(g, 1 .. n)
  BY <1>2, <1>3, Zenon
<1> HIDE DEF SumFunctionOnSet
<1> QED BY <1>4, <1>5, <1>6

\* A sum of sizes that are noted does not change when others are noted.
LEMMA BytesKept ==
    ASSUME NEW f, NEW n \in Nat, NEW ch, NEW r, NEW q, 1 .. n \subseteq DOMAIN ch[f],
           \A c \in 1 .. n : r[ch[f][c]] \in Nat /\ q[ch[f][c]] = r[ch[f][c]]
    PROVE  SumFunctionOnSet(Bytes(f, ch, q), 1 .. n) = SumFunctionOnSet(Bytes(f, ch, r), 1 .. n)
<1>1. \A c \in 1 .. n : /\ Bytes(f, ch, r)[c] \in Nat
                        /\ Bytes(f, ch, r)[c] = Bytes(f, ch, q)[c]
  BY DEF Bytes
<1>2. IsFiniteSet(1 .. n)
  BY FS_Interval
<1> HIDE DEF Bytes
<1> QED BY <1>1, <1>2, SumSame

\* What a frame refers to.
LEMMA FrameRange ==
    ASSUME TypeInv, NEW m \in DOMAIN stack
    PROVE  /\ stack[m] \in FrameRecord /\ stack[m].fn \in 1 .. N /\ stack[m].done \in Nat
           /\ functions[stack[m].fn].size \in Nat
           /\ children[stack[m].fn] \in Seq(1 .. N)
           /\ 1 .. stack[m].done \subseteq DOMAIN children[stack[m].fn]
           /\ \A c \in DOMAIN children[stack[m].fn] :
                 /\ children[stack[m].fn][c] \in 1 .. N
                 /\ reachable[children[stack[m].fn][c]] \in Nat \cup {Unknown}
<1>1. stage \in {"reach", "stack_overflow"}
  BY DEF TypeInv, StageInv
<1>2. stack[m] \in FrameRecord
  BY Shapes
<1>3. stack[m].fn \in 1 .. N /\ stack[m].done \in Nat
  BY <1>2 DEF FrameRecord
<1>4. functions[stack[m].fn].size \in Nat /\ children[stack[m].fn] \in Seq(1 .. N)
  BY <1>1, <1>3, Shapes
<1>5. /\ DOMAIN children[stack[m].fn] = 1 .. Len(children[stack[m].fn])
      /\ Len(children[stack[m].fn]) \in Nat
      /\ \A c \in DOMAIN children[stack[m].fn] : children[stack[m].fn][c] \in 1 .. N
  BY <1>4, Elements, Zenon
<1>6. stack[m].done <= Len(children[stack[m].fn])
  BY <1>3, <1>5 DEF TypeInv, ChainInv
<1>7. \A f \in 1 .. N : reachable[f] \in Nat \cup {Unknown}
  BY <1>1, Shapes
<1> QED BY <1>2, <1>3, <1>4, <1>5, <1>6, <1>7

\* A frame stays right when other functions are noted.
LEMMA FrameKept ==
    ASSUME TypeInv, NEW m \in DOMAIN stack, NEW q,
           FrameAddsUp(stack[m], functions, children, reachable), q[stack[m].fn] = Unknown,
           \A f \in 1 .. N : reachable[f] # Unknown => q[f] = reachable[f]
    PROVE  FrameAddsUp(stack[m], functions, children, q)
<1> DEFINE fr == stack[m]
<1>1. \A c \in 1 .. fr.done : /\ reachable[children[fr.fn][c]] \in Nat
                              /\ q[children[fr.fn][c]] = reachable[children[fr.fn][c]]
  BY FrameRange DEF FrameAddsUp
<1>2. SumFunctionOnSet(Bytes(fr.fn, children, q), 1 .. fr.done)
        = SumFunctionOnSet(Bytes(fr.fn, children, reachable), 1 .. fr.done)
  <2>1. 1 .. fr.done \subseteq DOMAIN children[fr.fn] /\ fr.done \in Nat
    BY FrameRange
  <2> HIDE DEF fr
  <2> QED BY <1>1, <2>1, BytesKept
<1>3. Unknown \notin Nat
  BY AnalyzerAssumption
<1> QED BY <1>1, <1>2, <1>3 DEF FrameAddsUp

\* A frame that adds the size of its next callee is right again.
LEMMA FrameAdds ==
    ASSUME TypeInv, NEW m \in DOMAIN stack, NEW q,
           FrameAddsUp(stack[m], functions, children, q),
           \A f \in 1 .. N : q[f] \in Nat \cup {Unknown},
           stack[m].done < Len(children[stack[m].fn]),
           q[children[stack[m].fn][stack[m].done + 1]] # Unknown
    PROVE  FrameAddsUp(Added(stack[m], q[children[stack[m].fn][stack[m].done + 1]]),
                       functions, children, q)
<1> DEFINE f == stack[m].fn
           n == stack[m].done
           x == q[children[f][n + 1]]
           g == Bytes(f, children, q)
<1>1. /\ f \in 1 .. N /\ n \in Nat /\ stack[m] \in FrameRecord
      /\ functions[f].size \in Nat
      /\ children[f] \in Seq(1 .. N)
      /\ \A c \in DOMAIN children[f] : children[f][c] \in 1 .. N
  BY FrameRange
<1>2. DOMAIN children[f] = 1 .. Len(children[f]) /\ Len(children[f]) \in Nat
  BY <1>1
<1>3. n + 1 \in DOMAIN children[f] /\ 1 .. n + 1 \subseteq DOMAIN children[f]
  BY <1>1, <1>2
<1>4. \A c \in 1 .. n + 1 : q[children[f][c]] \in Nat
  <2>1. \A c \in 1 .. n : q[children[f][c]] # Unknown
    BY DEF FrameAddsUp
  <2>2. \A c \in 1 .. n + 1 : c \in 1 .. n \/ c = n + 1
    BY <1>1
  <2> QED BY <1>1, <1>3, <2>1, <2>2
<1>5. x \in Nat
  <2>1. n + 1 \in 1 .. n + 1
    BY <1>1
  <2> QED BY <1>4, <2>1
<1>6. \A c \in 1 .. n + 1 : g[c] = q[children[f][c]]
  BY <1>3 DEF Bytes
<1>7. /\ SumFunctionOnSet(g, 1 .. n) \in Nat
      /\ SumFunctionOnSet(g, 1 .. n + 1) = SumFunctionOnSet(g, 1 .. n) + x
  <2>1. \A c \in 1 .. n + 1 : g[c] \in Nat
    BY <1>4, <1>6
  <2>2. g[n + 1] = x
    <3>1. n + 1 \in 1 .. n + 1
      BY <1>1
    <3> HIDE DEF g
    <3> QED BY <1>6, <3>1
  <2> HIDE DEF g, x, n
  <2> QED BY <1>1, <2>1, <2>2, SumNext
<1>8. /\ Added(stack[m], x).fn = f /\ Added(stack[m], x).done = n + 1
      /\ Added(stack[m], x).total = stack[m].total + x
  BY <1>1, <1>5, AddedType
<1>9. stack[m].total = functions[f].size + SumFunctionOnSet(g, 1 .. n) /\ q[f] = Unknown
  BY DEF FrameAddsUp
<1>10. Unknown \notin Nat
  BY AnalyzerAssumption
<1>11. Added(stack[m], x).total = functions[f].size + SumFunctionOnSet(g, 1 .. n + 1)
  <2> HIDE DEF g, x, n, f
  <2> QED BY <1>1, <1>5, <1>7, <1>8, <1>9
<1>12. \A c \in 1 .. n + 1 : q[children[f][c]] # Unknown
  BY <1>4, <1>10
<1> HIDE DEF x
<1>13. FrameAddsUp(Added(stack[m], x), functions, children, q)
  BY <1>8, <1>9, <1>11, <1>12 DEF FrameAddsUp
<1> QED BY <1>13 DEF x

LEMMA SearchInit == AnalyzerInit => SearchInv
BY DEF AnalyzerInit, SearchInv, NotedInv, StackInv, ProgressInv, OverflowInv

\* The two stages of the analysis before the search.
LEMMA SearchEarly ==
    ASSUME TypeInv, stage \in {"symbols", "calls"}, stage' \in {"symbols", "calls", "failed"},
           reachable' = reachable, stack' = stack
    PROVE  SearchInv'
<1>1. reachable' = <<>> /\ stack' = <<>>
  BY DEF TypeInv, StageInv
<1>2. DOMAIN reachable' = {} /\ DOMAIN stack' = {}
  BY <1>1
<1>3. NotedInv' /\ StackInv'
  BY <1>2 DEF NotedInv, StackInv
<1> QED BY <1>3 DEF SearchInv, ProgressInv, OverflowInv

LEMMA SearchGraphDone == ASSUME TypeInv, GraphDone PROVE SearchInv'
<1>1. /\ reachable' = [f \in 1 .. N |-> Unknown] /\ stack' = stack
      /\ stage' = "reach" /\ i' = 0 /\ stage = "calls"
  BY DEF GraphDone
<1>2. DOMAIN stack' = {}
  BY <1>1 DEF TypeInv, StageInv
<1>3. NotedInv' /\ StackInv'
  BY <1>1, <1>2 DEF NotedInv, StackInv
<1> QED BY <1>1, <1>3 DEF SearchInv, ProgressInv, OverflowInv

\* Steps that note no size and leave the stack alone.
LEMMA SearchKept ==
    ASSUME SearchInv, UNCHANGED <<functions, graph, reachable, stack>>
    PROVE  NotedInv' /\ StackInv'
BY DEF SearchInv, NotedInv, StackInv, graph, FunctionAddsUp, FrameAddsUp, Bytes

LEMMA SearchNextRoot == ASSUME TypeInv, SearchInv, DfsNextRoot PROVE SearchInv'
<1>1. /\ stack = <<>> /\ i + 1 \in 1 .. N /\ i' = i + 1 /\ stage = "reach" /\ stage' = stage
      /\ functions' = functions /\ children' = children /\ reachable' = reachable
  BY NextRoot DEF graph
<1>2. NotedInv'
  BY <1>1 DEF SearchInv, NotedInv, FunctionAddsUp, Bytes
<1>3. \A f \in 1 .. i : reachable[f] # Unknown
  BY <1>1 DEF SearchInv, ProgressInv
<1>4. i \in Nat
  BY DEF TypeInv, AnalyzerTypeOK
<1>5. CASE stack' = <<>>
  <2>1. DOMAIN stack' = {}
    BY <1>5
  <2>2. reachable[i + 1] # Unknown
    <3>1. Len(<<>>) = 0
      OBVIOUS
    <3> QED BY <1>5, <3>1, NextRoot
  <2>3. \A f \in 1 .. i + 1 : reachable[f] # Unknown
    <3>1. \A f \in 1 .. i + 1 : f \in 1 .. i \/ f = i + 1
      BY <1>4
    <3> QED BY <1>3, <2>2, <3>1
  <2> QED BY <1>1, <1>2, <2>1, <2>3 DEF SearchInv, StackInv, ProgressInv, OverflowInv
<1>6. CASE stack' # <<>>
  <2>1. /\ reachable[i + 1] = Unknown /\ stack' \in Seq(FrameRecord) /\ Len(stack') = 1
        /\ stack'[1] = Frame(i + 1)
    BY <1>6, NextRoot
  <2>2. /\ Frame(i + 1).fn = i + 1 /\ Frame(i + 1).done = 0
        /\ Frame(i + 1).total = functions[i + 1].size /\ functions[i + 1].size \in Nat
    BY <1>1, FrameType, Shapes
  <2>3. FrameAddsUp(Frame(i + 1), functions, children, reachable)
    <3>1. 1 .. 0 = {}
      OBVIOUS
    <3> QED BY <2>1, <2>2, <3>1, SumOfNone DEF FrameAddsUp
  <2>4. DOMAIN stack' = {1}
    BY <2>1
  <2>5. StackInv'
    BY <1>1, <2>1, <2>3, <2>4 DEF StackInv
  <2>6. ProgressInv'
    <3>1. \A f \in 1 .. i + 1 : f \in 1 .. i \/ f = i + 1
      BY <1>4
    <3>2. stack'[Len(stack')].fn = i + 1
      BY <2>1, <2>2
    <3> QED BY <1>1, <1>3, <1>6, <3>1, <3>2 DEF ProgressInv
  <2> QED BY <1>1, <1>2, <2>5, <2>6 DEF SearchInv, OverflowInv
<1> QED BY <1>5, <1>6

LEMMA SearchKnownCallee == ASSUME TypeInv, SearchInv, DfsKnownCallee PROVE SearchInv'
<1>1. /\ stage = "reach" /\ stage' = stage /\ i' = i
      /\ functions' = functions /\ children' = children /\ reachable' = reachable
  BY KnownCallee DEF graph
<1>2. NotedInv'
  BY <1>1 DEF SearchInv, NotedInv, FunctionAddsUp, Bytes
<1>3. /\ stack # <<>> /\ Len(stack) \in Nat /\ Len(stack) > 0 /\ Top = stack[1]
      /\ DOMAIN stack = 1 .. Len(stack) /\ Top.done < Len(children[Top.fn])
      /\ stack' \in Seq(FrameRecord) /\ Len(stack') = Len(stack)
      /\ stack'[1] = Added(Top, reachable[Callee])
      /\ \A m \in 2 .. Len(stack) : stack'[m] = stack[m]
      /\ reachable[Callee] \in Nat /\ Top \in FrameRecord
  BY KnownCallee, TopType, Shapes
<1>4. 1 \in DOMAIN stack
  BY <1>3
<1>5. FrameAddsUp(Added(Top, reachable[Callee]), functions, children, reachable)
  <2>1. \A f \in 1 .. N : reachable[f] \in Nat \cup {Unknown}
    BY <1>1, Shapes
  <2>2. reachable[Callee] # Unknown
    BY <1>3, AnalyzerAssumption
  <2>3. FrameAddsUp(stack[1], functions, children, reachable)
    BY <1>4 DEF SearchInv, StackInv
  <2> QED BY <1>3, <1>4, <2>1, <2>2, <2>3, FrameAdds DEF Callee
<1>6. DOMAIN stack' = 1 .. Len(stack)
  BY <1>3
<1>7. \A m \in 1 .. Len(stack) : FrameAddsUp(stack'[m], functions, children, reachable)
  <2> TAKE m \in 1 .. Len(stack)
  <2>1. CASE m = 1
    BY <1>3, <1>5, <2>1
  <2>2. CASE m # 1
    <3>1. m \in 2 .. Len(stack)
      BY <1>3, <2>2
    <3> QED BY <1>3, <3>1 DEF SearchInv, StackInv
  <2> QED BY <2>1, <2>2
<1>8. StackInv'
  BY <1>1, <1>6, <1>7 DEF StackInv
<1>9. stack'[Len(stack')].fn = stack[Len(stack)].fn /\ stack' # <<>>
  <2>0. stack' # <<>> /\ Added(Top, reachable[Callee]).fn = Top.fn
    <3>1. Len(stack') > 0
      BY <1>3
    <3>2. stack' # <<>>
      BY <1>3, <3>1, NotEmpty
    <3>3. Added(Top, reachable[Callee]).fn = Top.fn
      BY <1>3, AddedType, Zenon
    <3> QED BY <3>2, <3>3
  <2>1. CASE Len(stack) = 1
    <3>1. stack'[Len(stack')] = Added(Top, reachable[Callee]) /\ stack[Len(stack)] = Top
      BY <1>3, <2>1, Zenon
    <3> QED BY <2>0, <3>1, Zenon
  <2>2. CASE Len(stack) # 1
    <3>1. Len(stack) \in 2 .. Len(stack)
      BY <1>3, <2>2
    <3> QED BY <1>3, <2>0, <3>1
  <2> QED BY <2>1, <2>2
<1>10. ProgressInv'
  BY <1>1, <1>3, <1>9 DEF SearchInv, ProgressInv
<1> QED BY <1>1, <1>2, <1>8, <1>10 DEF SearchInv, OverflowInv

LEMMA SearchCall == ASSUME TypeInv, SearchInv, DfsCall PROVE SearchInv'
<1>1. CASE stage' # stage
  <2>1. /\ stage' = "stack_overflow" /\ Len(stack) >= MaxDepth
        /\ Top.done < Len(children[Top.fn]) /\ reachable[Callee] = Unknown
        /\ UNCHANGED <<functions, graph, reachable, stack>>
    BY <1>1, CallOverflows
  <2>2. OverflowInv'
    BY <2>1 DEF OverflowInv, Top, Callee, graph
  <2> QED BY <2>1, <2>2, SearchKept DEF SearchInv, ProgressInv
<1>2. CASE stage' = stage
  <2>1. /\ stage = "reach" /\ i' = i
        /\ functions' = functions /\ children' = children /\ reachable' = reachable
    BY <1>2, CallPushed DEF graph
  <2>2. NotedInv'
    BY <2>1 DEF SearchInv, NotedInv, FunctionAddsUp, Bytes
  <2>3. /\ stack # <<>> /\ Len(stack) \in Nat /\ Len(stack) > 0 /\ DOMAIN stack = 1 .. Len(stack)
        /\ Callee \in 1 .. N /\ reachable[Callee] = Unknown
        /\ stack' \in Seq(FrameRecord) /\ Len(stack') = Len(stack) + 1
        /\ stack'[1] = Frame(Callee)
        /\ \A m \in 2 .. Len(stack) + 1 : stack'[m] = stack[m - 1]
    BY <1>2, CallPushed, TopType, Shapes
  <2>4. /\ Frame(Callee).fn = Callee /\ Frame(Callee).done = 0
        /\ Frame(Callee).total = functions[Callee].size /\ functions[Callee].size \in Nat
    BY <2>3, FrameType, Shapes
  <2>5. FrameAddsUp(Frame(Callee), functions, children, reachable)
    <3>1. 1 .. 0 = {}
      OBVIOUS
    <3> QED BY <2>3, <2>4, <3>1, SumOfNone DEF FrameAddsUp
  <2>6. DOMAIN stack' = 1 .. Len(stack) + 1
    BY <2>3
  <2>7. \A m \in 1 .. Len(stack) + 1 : FrameAddsUp(stack'[m], functions, children, reachable)
    <3> TAKE m \in 1 .. Len(stack) + 1
    <3>1. CASE m = 1
      BY <2>3, <2>5, <3>1
    <3>2. CASE m # 1
      <4>1. m \in 2 .. Len(stack) + 1 /\ m - 1 \in DOMAIN stack
        BY <2>3, <3>2
      <4> QED BY <2>3, <4>1 DEF SearchInv, StackInv
    <3> QED BY <3>1, <3>2
  <2>8. StackInv'
    BY <2>1, <2>6, <2>7 DEF StackInv
  <2>9. stack'[Len(stack')].fn = stack[Len(stack)].fn /\ stack' # <<>>
    <3>1. Len(stack) + 1 \in 2 .. Len(stack) + 1 /\ (Len(stack) + 1) - 1 = Len(stack)
      BY <2>3
    <3> QED BY <2>3, <3>1
  <2>10. ProgressInv'
    BY <1>2, <2>1, <2>3, <2>9 DEF SearchInv, ProgressInv
  <2> QED BY <1>2, <2>1, <2>2, <2>8, <2>10 DEF SearchInv, OverflowInv
<1> QED BY <1>1, <1>2

\* The function that returns is on the stack once: a second frame of it would
\* wait, through the frames in between, for a callee of it that has no size.
LEMMA ReturnsOnce ==
    ASSUME TypeInv, SearchInv, stack # <<>>, Top.done = Len(children[Top.fn]),
           NEW m \in 2 .. Len(stack)
    PROVE  stack[m].fn # Top.fn
<1> SUFFICES ASSUME stack[m].fn = Top.fn PROVE FALSE
  OBVIOUS
<1>1. /\ Len(stack) \in Nat /\ DOMAIN stack = 1 .. Len(stack)
      /\ m \in DOMAIN stack /\ m - 1 \in DOMAIN stack /\ 1 \in DOMAIN stack
      /\ m # 1 /\ Top = stack[1]
  BY Shapes DEF Top
<1>2. /\ stack[m].done < Len(children[Top.fn])
      /\ stack[m - 1].fn = children[Top.fn][stack[m].done + 1]
  BY <1>1 DEF TypeInv, ChainInv
<1>3. reachable[stack[m - 1].fn] = Unknown
  BY <1>1 DEF SearchInv, StackInv, FrameAddsUp
<1>4. \A c \in 1 .. Top.done : reachable[children[Top.fn][c]] # Unknown
  BY <1>1 DEF SearchInv, StackInv, FrameAddsUp
<1>5. stack[m].done + 1 \in 1 .. Top.done
  <2>1. Top.done \in Nat /\ stack[m].done \in Nat
    BY <1>1, FrameRange
  <2> QED BY <1>2, <2>1
<1> QED BY <1>2, <1>3, <1>4, <1>5

LEMMA SearchReturn == ASSUME TypeInv, SearchInv, DfsReturn PROVE SearchInv'
<1> DEFINE t == Top.fn
           q == [reachable EXCEPT ![Top.fn] = Top.total]
<1>1. /\ stage = "reach" /\ stage' = stage /\ i' = i /\ reachable' = q
      /\ functions' = functions /\ children' = children
      /\ stack # <<>> /\ Top.done = Len(children[t])
  BY Returned DEF graph
<1>2. /\ Len(stack) \in Nat /\ Len(stack) > 0 /\ DOMAIN stack = 1 .. Len(stack)
      /\ Top = stack[1] /\ 1 \in DOMAIN stack
      /\ DOMAIN reachable = 1 .. N /\ N \in Nat
      /\ \A f \in 1 .. N : reachable[f] \in Nat \cup {Unknown}
  BY <1>1, TopType, Shapes
<1>3. t \in 1 .. N /\ Top.total \in Nat /\ children[t] \in Seq(1 .. N)
  <2>1. Top \in FrameRecord
    BY Returned
  <2> QED BY <1>2, <2>1, FrameRange DEF FrameRecord
<1>4. /\ reachable[t] = Unknown
      /\ \A c \in 1 .. Top.done : reachable[children[t][c]] # Unknown
      /\ Top.total = functions[t].size
                       + SumFunctionOnSet(Bytes(t, children, reachable), 1 .. Top.done)
  BY <1>2 DEF SearchInv, StackInv, FrameAddsUp
<1>5. /\ DOMAIN q = 1 .. N /\ q[t] = Top.total
      /\ \A f \in 1 .. N : q[f] \in Nat \cup {Unknown}
      /\ \A f \in 1 .. N : f # t => q[f] = reachable[f]
      /\ \A f \in 1 .. N : reachable[f] # Unknown => q[f] = reachable[f]
  BY <1>2, <1>3, <1>4
<1> HIDE DEF q
<1>6. Unknown \notin Nat
  BY AnalyzerAssumption
<1>7. FunctionAddsUp(t, functions, children, q)
  <2>1. DOMAIN children[t] = 1 .. Top.done /\ Top.done \in Nat
    BY <1>1, <1>2, <1>3, FrameRange
  <2>2. \A c \in 1 .. Top.done : /\ children[t][c] \in 1 .. N
                                 /\ reachable[children[t][c]] \in Nat
                                 /\ q[children[t][c]] = reachable[children[t][c]]
    <3>1. \A c \in 1 .. Top.done : children[t][c] \in 1 .. N
      <4> HIDE DEF t
      <4> QED BY <1>3, <2>1, Elements, Zenon
    <3> HIDE DEF t
    <3> QED BY <1>2, <1>4, <1>5, <3>1
  <2>3. SumFunctionOnSet(Bytes(t, children, q), 1 .. Top.done)
          = SumFunctionOnSet(Bytes(t, children, reachable), 1 .. Top.done)
    <3> HIDE DEF t
    <3> QED BY <2>1, <2>2, BytesKept
  <2> QED BY <1>4, <1>5, <1>6, <2>1, <2>2, <2>3 DEF FunctionAddsUp
<1>8. ASSUME NEW f \in 1 .. N, q[f] # Unknown, f # t
      PROVE  FunctionAddsUp(f, functions, children, q)
  <2>1. FunctionAddsUp(f, functions, children, reachable) /\ q[f] = reachable[f]
    BY <1>2, <1>5, <1>8 DEF SearchInv, NotedInv
  <2>2. children[f] \in Seq(1 .. N)
    BY <1>1, Shapes
  <2>3. /\ DOMAIN children[f] = 1 .. Len(children[f]) /\ Len(children[f]) \in Nat
        /\ \A c \in DOMAIN children[f] : children[f][c] \in 1 .. N
    BY <2>2, Elements, Zenon
  <2>4. \A c \in DOMAIN children[f] : /\ reachable[children[f][c]] \in Nat
                                      /\ q[children[f][c]] = reachable[children[f][c]]
    BY <1>2, <1>5, <2>1, <2>3 DEF FunctionAddsUp
  <2>5. SumFunctionOnSet(Bytes(f, children, q), DOMAIN children[f])
          = SumFunctionOnSet(Bytes(f, children, reachable), DOMAIN children[f])
    BY <2>3, <2>4, BytesKept
  <2> QED BY <1>6, <2>1, <2>4, <2>5 DEF FunctionAddsUp
<1>9. NotedInv'
  <2>1. \A f \in 1 .. N : q[f] # Unknown => FunctionAddsUp(f, functions, children, q)
    BY <1>7, <1>8
  <2> QED BY <1>1, <1>5, <2>1 DEF NotedInv
<1>10. ASSUME NEW m \in 2 .. Len(stack)
       PROVE  m \in DOMAIN stack /\ FrameAddsUp(stack[m], functions, children, q)
  <2>1. m \in DOMAIN stack
    BY <1>2
  <2>2. stack[m].fn # t
    BY <1>1, ReturnsOnce
  <2>3. FrameAddsUp(stack[m], functions, children, reachable)
    BY <2>1 DEF SearchInv, StackInv
  <2>4. stack[m].fn \in 1 .. N
    BY <2>1, FrameRange
  <2>5. q[stack[m].fn] = Unknown
    BY <1>5, <2>2, <2>3, <2>4 DEF FrameAddsUp
  <2> QED BY <1>5, <2>1, <2>3, <2>5, FrameKept
<1>11. StackInv'
  <2>1. CASE Len(stack) = 1
    <3>1. stack' = <<>>
      BY <2>1, Returned
    <3> QED BY <3>1 DEF StackInv
  <2>2. CASE Len(stack) > 1
    <3>1. /\ stack' \in Seq(FrameRecord) /\ Len(stack') = Len(stack) - 1
          /\ stack'[1] = Added(stack[2], Top.total)
          /\ \A m \in 2 .. Len(stack) - 1 : stack'[m] = stack[m + 1]
      BY <2>2, Returned
    <3>2. 2 \in 2 .. Len(stack) /\ 2 \in DOMAIN stack /\ 2 - 1 = 1
      BY <1>2, <2>2
    <3>3. stack[2].done < Len(children[stack[2].fn])
          /\ children[stack[2].fn][stack[2].done + 1] = t
      BY <1>2, <3>2 DEF TypeInv, ChainInv
    <3>4. q[children[stack[2].fn][stack[2].done + 1]] = Top.total /\ Top.total # Unknown
      BY <1>3, <1>5, <1>6, <3>3
    <3>5. FrameAddsUp(Added(stack[2], Top.total), functions, children, q)
      <4>1. FrameAddsUp(stack[2], functions, children, q)
        BY <1>10, <3>2
      <4>2. FrameAddsUp(Added(stack[2], q[children[stack[2].fn][stack[2].done + 1]]),
                        functions, children, q)
        BY <1>5, <3>2, <3>3, <3>4, <4>1, FrameAdds
      <4> QED BY <3>4, <4>2
    <3>6. ASSUME NEW m \in 1 .. Len(stack) - 1
          PROVE  FrameAddsUp(stack'[m], functions, children, q)
      <4>1. CASE m = 1
        BY <3>1, <3>5, <4>1
      <4>2. CASE m # 1
        <5>1. m \in 2 .. Len(stack) - 1 /\ m + 1 \in 2 .. Len(stack)
          BY <1>2, <4>2
        <5> QED BY <1>10, <3>1, <5>1
      <4> QED BY <4>1, <4>2
    <3>7. DOMAIN stack' = 1 .. Len(stack) - 1
      BY <3>1
    <3> QED BY <1>1, <3>6, <3>7 DEF StackInv
  <2>3. Len(stack) = 1 \/ Len(stack) > 1
    <3>1. Len(stack) # 0
      BY <1>2
    <3> QED BY <1>2, <3>1, NotOne, Zenon
  <2> QED BY <2>1, <2>2, <2>3
<1>12. ProgressInv'
  <2>0. i \in Nat /\ i <= N
    BY <1>1 DEF TypeInv, AnalyzerTypeOK, StageInv
  <2> SUFFICES ASSUME NEW f \in 1 .. i
               PROVE  q[f] # Unknown \/ (stack' # <<>> /\ stack'[Len(stack')].fn = f)
    BY <1>1 DEF ProgressInv
  <2>1. f \in 1 .. N
    BY <1>2, <2>0
  <2>2. CASE reachable[f] # Unknown
    BY <1>5, <2>1, <2>2
  <2>3. CASE f = t
    BY <1>3, <1>5, <1>6, <2>3
  <2>4. CASE reachable[f] = Unknown /\ f # t
    <3>1. stack[Len(stack)].fn = f
      BY <1>1, <2>4 DEF SearchInv, ProgressInv
    <3>2. Len(stack) # 1
      BY <1>2, <2>4, <3>1
    <3>3. Len(stack) > 1
      <4>1. Len(stack) # 0
        BY <1>2
      <4> QED BY <1>2, <3>2, <4>1, NotOne, Zenon
    <3>4. /\ stack' \in Seq(FrameRecord) /\ Len(stack') = Len(stack) - 1
          /\ stack'[1] = Added(stack[2], Top.total) /\ stack[2] \in FrameRecord
          /\ \A m \in 2 .. Len(stack) - 1 : stack'[m] = stack[m + 1]
      BY <3>3, Returned
    <3>5. stack' # <<>>
      <4>1. Len(stack') > 0
        BY <1>2, <3>3, <3>4
      <4> QED BY <3>4, <4>1, NotEmpty
    <3>6. stack'[Len(stack')].fn = f
      <4>1. CASE Len(stack) = 2
        <5>1. Len(stack') = 1
          BY <3>4, <4>1
        <5>2. stack'[1].fn = stack[2].fn
          <6>1. Added(stack[2], Top.total).fn = stack[2].fn
            BY <1>3, <3>4, AddedType, Zenon
          <6> QED BY <3>4, <6>1, Zenon
        <5> QED BY <3>1, <4>1, <5>1, <5>2, Zenon
      <4>2. CASE Len(stack) # 2
        <5>1. Len(stack) - 1 \in 2 .. Len(stack) - 1 /\ (Len(stack) - 1) + 1 = Len(stack)
          BY <1>2, <3>3, <4>2
        <5> QED BY <3>1, <3>4, <5>1
      <4> QED BY <4>1, <4>2
    <3> QED BY <3>5, <3>6
  <2> QED BY <2>2, <2>3, <2>4
<1> QED BY <1>1, <1>9, <1>11, <1>12 DEF SearchInv, OverflowInv

\* The search is over: every function has a size.
LEMMA SearchDone == ASSUME TypeInv, SearchInv, ReachDone PROVE SearchInv'
<1>1. /\ stage = "reach" /\ stack = <<>> /\ i = N /\ stage' = "select" /\ i' = 0
      /\ UNCHANGED <<functions, graph, reachable, stack>>
  BY DEF ReachDone
<1>2. \A f \in 1 .. N : reachable[f] # Unknown
  BY <1>1 DEF SearchInv, ProgressInv
<1>3. ProgressInv'
  BY <1>1, <1>2 DEF ProgressInv, N
<1> QED BY <1>1, <1>3, SearchKept DEF SearchInv, OverflowInv

\* find_bundles looks at the sizes only.
LEMMA SearchLate ==
    ASSUME SearchInv, SelectBundle \/ WriteBundles PROVE SearchInv'
<1>1. /\ stage = "select" /\ stage' \in {"select", "done"}
      /\ UNCHANGED <<functions, graph, reachable, stack>>
  BY DEF SelectBundle, WriteBundles
<1>2. ProgressInv'
  BY <1>1 DEF SearchInv, ProgressInv, N
<1> QED BY <1>1, <1>2, SearchKept DEF SearchInv, OverflowInv

LEMMA SearchStep == TypeInv /\ SearchInv /\ [AnalyzerNext]_analyzerVars => SearchInv'
<1> SUFFICES ASSUME TypeInv, SearchInv, [AnalyzerNext]_analyzerVars PROVE SearchInv'
  OBVIOUS
<1>1. CASE ReadSymbol \/ SortSymbols \/ Fail \/ ReadCall \/ NextFunction
  BY <1>1, SearchEarly DEF ReadSymbol, SortSymbols, Fail, ReadCall, NextFunction
<1>2. CASE GraphDone
  BY <1>2, SearchGraphDone
<1>3. CASE DfsNextRoot
  BY <1>3, SearchNextRoot
<1>4. CASE DfsKnownCallee
  BY <1>4, SearchKnownCallee
<1>5. CASE DfsCall
  BY <1>5, SearchCall
<1>6. CASE DfsReturn
  BY <1>6, SearchReturn
<1>7. CASE ReachDone
  BY <1>7, SearchDone
<1>8. CASE SelectBundle \/ WriteBundles
  BY <1>8, SearchLate
<1>9. CASE UNCHANGED analyzerVars
  <2>1. UNCHANGED <<stage, i, functions, graph, reachable, stack>>
    BY <1>9 DEF analyzerVars
  <2>2. ProgressInv' /\ OverflowInv'
    BY <2>1 DEF SearchInv, ProgressInv, OverflowInv, N, graph, Top, Callee
  <2> QED BY <2>1, <2>2, SearchKept DEF SearchInv
<1> QED BY <1>1, <1>2, <1>3, <1>4, <1>5, <1>6, <1>7, <1>8, <1>9 DEF AnalyzerNext

\* Whatever function the search starts from and whatever was noted before, a
\* size that is noted is the function's own plus all that its calls reach.
THEOREM SizesAddUp == AnalyzerSpec => []ReachableAddsUp
<1>1. AnalyzerSpec => [](TypeInv /\ SearchInv)
  BY AnalyzerTypeInit, AnalyzerTypeStep, SearchInit, SearchStep, PTL DEF AnalyzerSpec
<1>2. SearchInv => ReachableAddsUp
  BY DEF SearchInv, NotedInv, ReachableAddsUp, FunctionAddsUp, BytesOf, Bytes
<1> QED BY <1>1, <1>2, PTL

-----------------------------------------------------------------------------
(* Sizes decrease along calls, so a survivor has no mutual recursion *)

\* When every function has a size, a caller's is the greater one.
LEMMA CalleeSmaller ==
    ASSUME TypeInv, SearchInv, stage \in {"select", "done"}
    PROVE  \A f \in 1 .. N : /\ reachable[f] \in Nat
                             /\ \A g \in ToSet(children[f]) : g \in 1 .. N /\ reachable[g] < reachable[f]
<1>1. \A f \in 1 .. N : reachable[f] \in Nat
  BY Shapes DEF SearchInv, ProgressInv
<1>2. ASSUME NEW f \in 1 .. N, NEW g \in ToSet(children[f])
      PROVE  g \in 1 .. N /\ reachable[g] < reachable[f]
  <2> DEFINE D == DOMAIN children[f]
             b == Bytes(f, children, reachable)
  <2>1. children[f] \in Seq(1 .. N) /\ functions[f].size \in Nat \ {0} /\ DOMAIN reachable = 1 .. N
    BY Shapes
  <2>2. /\ IsFiniteSet(D) /\ \A c \in D : children[f][c] \in 1 .. N
    <3>1. D = 1 .. Len(children[f]) /\ Len(children[f]) \in Nat
          /\ \A c \in D : children[f][c] \in 1 .. N
      BY <2>1, Elements, Zenon
    <3> QED BY <3>1, FS_Interval
  <2>3. PICK c \in D : g = children[f][c]
    BY DEF ToSet
  <2>4. \A d \in D : b[d] = reachable[children[f][d]] /\ b[d] \in Nat
    BY <1>1, <2>2 DEF Bytes
  <2>5. reachable[f] = functions[f].size + SumFunctionOnSet(b, D)
    <3>1. reachable[f] # Unknown
      BY <1>1, AnalyzerAssumption
    <3> QED BY <2>1, <3>1 DEF SearchInv, NotedInv, FunctionAddsUp
  <2>6. IsFiniteSet(D \ {c}) /\ \A d \in D \ {c} : b[d] \in Nat
    BY <2>2, <2>4, FS_RemoveElement
  <2> HIDE DEF D, b
  <2>7. SumFunctionOnSet(b, D \ {c}) \in Nat
    BY <2>6, SumType
  <2>8. SumFunctionOnSet(b, D) = b[c] + SumFunctionOnSet(b, D \ {c})
    BY <2>2, <2>3, <2>4, SumRemove
  <2>9. b[c] = reachable[g] /\ reachable[g] \in Nat /\ g \in 1 .. N
    BY <1>1, <2>2, <2>3, <2>4
  <2> QED BY <2>1, <2>5, <2>7, <2>8, <2>9
<1> QED BY <1>1, <1>2

\* What a function reaches is smaller than the function, or the function itself.
LEMMA VisitedSmaller ==
    ASSUME TypeInv, SearchInv, stage \in {"select", "done"}, NEW f \in 1 .. N, NEW g \in Visited(f)
    PROVE  g \in 1 .. N /\ (g = f \/ reachable[g] < reachable[f])
<1> DEFINE S == {h \in 1 .. N : h = f \/ reachable[h] < reachable[f]}
<1>1. ASSUME NEW h \in S PROVE ToSet(children[h]) \subseteq S
  <2> SUFFICES ASSUME NEW c \in ToSet(children[h]) PROVE c \in S
    OBVIOUS
  <2>1. h \in 1 .. N /\ c \in 1 .. N /\ reachable[c] < reachable[h]
        /\ reachable[c] \in Nat /\ reachable[h] \in Nat /\ reachable[f] \in Nat
    BY CalleeSmaller
  <2> QED BY <2>1
<1>2. f \in S /\ S \in SUBSET (1 .. N)
  OBVIOUS
<1> HIDE DEF S
<1>3. g \in S
  BY <1>1, <1>2 DEF Visited
<1> QED BY <1>3 DEF S

LEMMA SurvivorNotRecursive ==
    ASSUME TypeInv, SearchInv, stage \in {"select", "done"} PROVE ~ Recursive
<1> SUFFICES ASSUME NEW f \in 1 .. N, NEW g \in 1 .. N, f # g, g \in Visited(f), f \in Visited(g)
             PROVE  FALSE
  BY DEF Recursive
<1>1. reachable[g] < reachable[f] /\ reachable[f] < reachable[g]
  BY VisitedSmaller
<1>2. reachable[f] \in Nat /\ reachable[g] \in Nat
  BY CalleeSmaller
<1> QED BY <1>1, <1>2

-----------------------------------------------------------------------------
(* A stack with more frames than functions holds a cycle of calls *)

\* Along a chain in which each function calls the one before it, the later
\* ones reach the earlier ones.
LEMMA ChainVisited ==
    ASSUME NEW n \in Nat, NEW F \in [0 .. n -> 1 .. N],
           \A m \in 0 .. n : m > 0 => F[m - 1] \in ToSet(children[F[m]]),
           NEW b \in 0 .. n, NEW a \in 0 .. b
    PROVE  F[a] \in Visited(F[b])
<1> SUFFICES ASSUME NEW S \in SUBSET (1 .. N), F[b] \in S,
                    \A g \in S : ToSet(children[g]) \subseteq S
             PROVE  F[a] \in S
  <2>1. F[a] \in 1 .. N
    OBVIOUS
  <2> QED BY <2>1 DEF Visited
<1> DEFINE Good == {d \in Nat : d <= b => F[b - d] \in S}
<1>1. 0 \in Good
  OBVIOUS
<1>2. ASSUME NEW d \in Good PROVE d + 1 \in Good
  <2> SUFFICES ASSUME d + 1 <= b PROVE F[b - (d + 1)] \in S
    OBVIOUS
  <2>1. F[b - d] \in S /\ b - d \in 0 .. n /\ b - d > 0 /\ (b - d) - 1 = b - (d + 1)
    OBVIOUS
  <2>2. F[(b - d) - 1] \in ToSet(children[F[b - d]])
    BY <2>1
  <2>3. ToSet(children[F[b - d]]) \subseteq S
    BY <2>1
  <2>4. F[(b - d) - 1] \in S
    BY <2>2, <2>3, Zenon
  <2> QED BY <2>1, <2>4
<1> HIDE DEF Good
<1>3. Good = Nat
  BY <1>1, <1>2, SetInduction DEF Good
<1>4. b - a \in Good /\ b - (b - a) = a /\ b - a <= b
  BY <1>3
<1> QED BY <1>4 DEF Good

LEMMA OverflowRecursive ==
    ASSUME TypeInv, EdgesInv, SearchInv, stage = "stack_overflow", N <= MaxDepth
    PROVE  Recursive
<1> DEFINE L == Len(stack)
           F == [m \in 0 .. L |-> IF m = 0 THEN Callee ELSE stack[m].fn]
<1>1. /\ L \in Nat /\ DOMAIN stack = 1 .. L /\ N \in Nat /\ MaxDepth \in Nat
      /\ L >= MaxDepth /\ L > 0 /\ stack # <<>>
  <2>1. L \in Nat /\ DOMAIN stack = 1 .. L /\ N \in Nat /\ MaxDepth \in Nat \ {0}
    BY Shapes, AnalyzerAssumption
  <2>2. L >= MaxDepth
    BY DEF SearchInv, OverflowInv
  <2>3. L > 0
    BY <2>1, <2>2
  <2>4. stack \in Seq(FrameRecord)
    BY DEF TypeInv, StageInv
  <2> QED BY <2>1, <2>2, <2>3, <2>4, NotEmpty
<1>2. /\ Top = stack[1] /\ Top.done < Len(children[Top.fn])
      /\ Callee = children[Top.fn][Top.done + 1]
      /\ Top.done + 1 \in DOMAIN children[Top.fn] /\ Callee \in 1 .. N
  <2>1. Top.done < Len(children[Top.fn])
    BY DEF SearchInv, OverflowInv
  <2> QED BY <1>1, <2>1, TopType DEF Callee
<1>3. F \in [0 .. L -> 1 .. N]
  <2> SUFFICES ASSUME NEW m \in 0 .. L PROVE F[m] \in 1 .. N
    OBVIOUS
  <2>1. CASE m = 0
    BY <1>2, <2>1
  <2>2. CASE m # 0
    <3>1. m \in DOMAIN stack
      BY <1>1, <2>2
    <3> QED BY <2>2, <3>1, FrameRange
  <2> QED BY <2>1, <2>2
<1>4. ASSUME NEW m \in 0 .. L, m > 0
      PROVE  F[m - 1] \in ToSet(children[F[m]])
  <2>1. m \in DOMAIN stack /\ m - 1 \in 0 .. L /\ F[m] = stack[m].fn
    BY <1>1, <1>4
  <2>2. CASE m = 1
    <3>1. F[m - 1] = Callee /\ F[m] = Top.fn
      BY <1>2, <2>1, <2>2
    <3> HIDE DEF F
    <3> QED BY <1>2, <3>1 DEF ToSet
  <2>3. CASE m # 1
    <3>1. /\ stack[m].done < Len(children[stack[m].fn])
          /\ stack[m - 1].fn = children[stack[m].fn][stack[m].done + 1]
      BY <2>1, <2>3 DEF TypeInv, ChainInv
    <3>2. stack[m].done + 1 \in DOMAIN children[stack[m].fn]
      <4>1. stack[m].done \in Nat /\ children[stack[m].fn] \in Seq(1 .. N)
        BY <2>1, FrameRange
      <4> QED BY <3>1, <4>1
    <3>3. F[m - 1] = stack[m - 1].fn
      <4>1. m - 1 # 0
        BY <1>1, <1>4, <2>3
      <4> QED BY <2>1, <4>1
    <3> HIDE DEF F
    <3> QED BY <2>1, <3>1, <3>2, <3>3 DEF ToSet
  <2> QED BY <2>2, <2>3
<1> HIDE DEF F
<1>5. PICK x \in 0 .. L, y \in 0 .. L : x # y /\ F[x] = F[y]
  <2>1. IsFiniteSet(0 .. L) /\ Cardinality(0 .. L) = L + 1
    <3>1. IsFiniteSet(0 .. L) /\ Cardinality(0 .. L) = IF 0 > L THEN 0 ELSE L - 0 + 1
      BY <1>1, FS_Interval
    <3> QED BY <1>1, <3>1
  <2>2. IsFiniteSet(1 .. N) /\ Cardinality(1 .. N) = N
    <3>1. N \in Int /\ 1 \in Int
      BY <1>1
    <3>2. IsFiniteSet(1 .. N) /\ Cardinality(1 .. N) = IF 1 > N THEN 0 ELSE N - 1 + 1
      BY <3>1, FS_Interval, Zenon
    <3> QED BY <1>1, <3>2
  <2>3. Cardinality(1 .. N) < Cardinality(0 .. L)
    BY <1>1, <2>1, <2>2
  <2> HIDE DEF L
  <2> QED BY <1>3, <2>1, <2>2, <2>3, FS_PigeonHole
<1>6. PICK a \in 0 .. L, b \in 0 .. L : a < b /\ F[a] = F[b]
  BY <1>1, <1>5
<1>7. b > 0 /\ b - 1 \in 0 .. L /\ b - 1 \in 0 .. b /\ a \in 0 .. b - 1
  BY <1>1, <1>6
<1>8. F[b - 1] \in Visited(F[b]) /\ F[b] \in Visited(F[b - 1])
  <2> HIDE DEF L
  <2>1. \A m \in 0 .. L : m > 0 => F[m - 1] \in ToSet(children[F[m]])
    BY <1>4
  <2>2. F[b - 1] \in Visited(F[b])
    BY <1>1, <1>3, <1>7, <2>1, ChainVisited
  <2>3. F[a] \in Visited(F[b - 1])
    BY <1>1, <1>3, <1>7, <2>1, ChainVisited
  <2> QED BY <1>6, <2>2, <2>3
<1>9. F[b] # F[b - 1]
  <2>1. F[b] \in 1 .. N /\ F[b - 1] \in ToSet(children[F[b]])
    BY <1>3, <1>4, <1>7
  <2>2. DOMAIN children = 1 .. N
    BY Shapes
  <2> QED BY <2>1, <2>2 DEF EdgesInv
<1>10. F[b] \in 1 .. N /\ F[b - 1] \in 1 .. N
  BY <1>3, <1>7
<1> QED BY <1>8, <1>9, <1>10 DEF Recursive

\* compute_reachable returns only for binaries without mutual recursion, and
\* with a stack that can hold a frame of each function it kills only the others.
THEOREM OnlyRecursionKills == AnalyzerSpec => []OnlyMutualRecursionIsFatal
<1>1. AnalyzerSpec => [](TypeInv /\ EdgesInv /\ SearchInv)
  BY AnalyzerTypeInit, AnalyzerTypeStep, EdgesInit, EdgesStep, SearchInit, SearchStep,
     PTL DEF AnalyzerSpec
<1>2. TypeInv /\ EdgesInv /\ SearchInv => OnlyMutualRecursionIsFatal
  BY SurvivorNotRecursive, OverflowRecursive DEF OnlyMutualRecursionIsFatal
<1> QED BY <1>1, <1>2, PTL

-----------------------------------------------------------------------------
(* The bundles *)

LEMMA SelectInit == AnalyzerInit => SelectInv
BY DEF AnalyzerInit, SelectInv

\* A function that is done, as an entry or as none, stays done.
LEMMA SelectStep ==
    TypeInv /\ SearchInv /\ SelectInv /\ [AnalyzerNext]_analyzerVars => SelectInv'
<1> SUFFICES ASSUME TypeInv, SearchInv, SelectInv, [AnalyzerNext]_analyzerVars PROVE SelectInv'
  OBVIOUS
<1>1. CASE SelectBundle
  <2> DEFINE f == i + 1
             b == [id              |-> Len(bundles_out) + 1,
                   entry           |-> f,
                   functions       |-> Visited(f),
                   reachable_bytes |-> reachable[f]]
  <2>1. /\ stage = "select" /\ stage' = stage /\ i < N /\ i' = f
        /\ UNCHANGED <<threshold, functions, children, parents, reachable>>
        /\ bundles_out' = IF IsEntry(f) THEN Append(bundles_out, b) ELSE bundles_out
    BY <1>1 DEF SelectBundle, input, graph
  <2>2. i \in Nat /\ N \in Nat /\ f \in 1 .. N
    BY <2>1, Shapes DEF TypeInv, AnalyzerTypeOK
  <2>3. b \in BundleRecord
    <3>1. reachable[f] \in Nat
      BY <2>1, <2>2, CalleeSmaller
    <3>2. Visited(f) \in SUBSET Nat
      BY <2>2 DEF Visited
    <3>3. bundles_out \in Seq(BundleRecord)
      BY DEF SelectInv
    <3>4. Len(bundles_out) + 1 \in Nat
      BY <3>3
    <3> QED BY <2>2, <3>1, <3>2, <3>4 DEF BundleRecord
  <2>4. b.functions = Visited(f)
    OBVIOUS
  <2>5. \A g \in 1 .. i' : g \in 1 .. i \/ g = f
    BY <2>1, <2>2
  <2>6. \A g : (IsEntry(g)' <=> IsEntry(g)) /\ Visited(g)' = Visited(g)
    BY <2>1 DEF IsEntry, Visited, N
  <2> HIDE DEF b, f
  <2>7. bundles_out \in Seq(BundleRecord)
    BY DEF SelectInv
  <2>8. /\ bundles_out' \in Seq(BundleRecord)
        /\ ToSet(bundles_out) \subseteq ToSet(bundles_out')
        /\ IsEntry(f) => b \in ToSet(bundles_out')
    <3>1. CASE IsEntry(f)
      <4>1. ToSet(bundles_out') = ToSet(bundles_out) \cup {b}
        BY <2>1, <2>7, <3>1, ToSetAppend
      <4> QED BY <2>1, <2>3, <2>7, <3>1, <4>1
    <3>2. CASE ~ IsEntry(f)
      BY <2>1, <2>7, <3>2
    <3> QED BY <3>1, <3>2
  <2>9. ASSUME NEW g \in 1 .. i', IsEntry(g)
        PROVE  \E x \in ToSet(bundles_out') : x.functions = Visited(g)
    <3>1. CASE g \in 1 .. i
      BY <2>1, <2>8, <2>9, <3>1 DEF SelectInv
    <3>2. CASE g = f
      BY <2>4, <2>8, <2>9, <3>2
    <3> QED BY <2>5, <3>1, <3>2
  <2> QED BY <2>1, <2>6, <2>8, <2>9 DEF SelectInv
<1>2. CASE ReachDone
  BY <1>2 DEF ReachDone, SelectInv
<1>3. CASE WriteBundles
  <2>1. /\ stage = "select" /\ stage' = "done" /\ i = N /\ i' = i
        /\ UNCHANGED <<threshold, functions, children, parents, reachable, bundles_out>>
    BY <1>3 DEF WriteBundles, input, graph
  <2>2. \A g : (IsEntry(g)' <=> IsEntry(g)) /\ Visited(g)' = Visited(g)
    BY <2>1 DEF IsEntry, Visited, N
  <2> QED BY <2>1, <2>2 DEF SelectInv, N
<1>4. CASE UNCHANGED analyzerVars
  <2>1. UNCHANGED <<stage, i, threshold, functions, children, parents, reachable, bundles_out>>
    BY <1>4 DEF analyzerVars, input, graph
  <2>2. \A g : (IsEntry(g)' <=> IsEntry(g)) /\ Visited(g)' = Visited(g)
    BY <2>1 DEF IsEntry, Visited, N
  <2> QED BY <2>1, <2>2 DEF SelectInv, N
<1>5. CASE ~ (SelectBundle \/ ReachDone \/ WriteBundles \/ UNCHANGED analyzerVars)
  <2>1. bundles_out' = bundles_out /\ stage' \notin {"select", "done"}
    BY <1>5 DEF AnalyzerNext, ReadSymbol, SortSymbols, Fail, ReadCall, NextFunction, GraphDone,
           DfsNextRoot, DfsKnownCallee, DfsCall, DfsReturn
  <2> QED BY <2>1 DEF SelectInv
<1> QED BY <1>1, <1>2, <1>3, <1>4, <1>5

\* A caller of a function reaches all that the function reaches.
LEMMA CallerVisits ==
    ASSUME NEW p \in 1 .. N, NEW g \in ToSet(children[p]), NEW f \in Visited(g)
    PROVE  f \in Visited(p)
<1>1. ASSUME NEW S \in SUBSET (1 .. N), p \in S, \A h \in S : ToSet(children[h]) \subseteq S
      PROVE  f \in S
  <2>1. g \in S
    BY <1>1
  <2> QED BY <1>1, <2>1 DEF Visited
<1>2. f \in 1 .. N
  BY DEF Visited
<1> QED BY <1>1, <1>2 DEF Visited

\* The greatest function that reaches f has no caller, and is no smaller than f.
LEMMA RootAbove ==
    ASSUME TypeInv, EdgesInv, SearchInv, stage \in {"select", "done"}, NEW f \in 1 .. N
    PROVE  \E g \in 1 .. N : /\ f \in Visited(g) /\ parents[g] = <<>>
                             /\ reachable[g] >= reachable[f]
<1> DEFINE A == {g \in 1 .. N : f \in Visited(g)}
           R == {reachable[g] : g \in A}
           total == SumFunctionOnSet(reachable, 1 .. N)
<1>1. \A g \in 1 .. N : reachable[g] \in Nat
  BY CalleeSmaller
<1>2. f \in A
  BY DEF Visited
<1>3. total \in Nat /\ \A y \in R : y <= total
  <2>1. IsFiniteSet(1 .. N) /\ N \in Nat
    BY Shapes, FS_Interval
  <2>2. total \in Nat
    BY <1>1, <2>1, SumType
  <2>3. ASSUME NEW g \in 1 .. N PROVE reachable[g] <= total
    <3>1. total = reachable[g] + SumFunctionOnSet(reachable, (1 .. N) \ {g})
      BY <1>1, <2>1, SumRemove
    <3>2. IsFiniteSet((1 .. N) \ {g})
      BY <2>1, FS_RemoveElement
    <3>3. SumFunctionOnSet(reachable, (1 .. N) \ {g}) \in Nat
      BY <1>1, <3>2, SumType
    <3> HIDE DEF total
    <3> QED BY <1>1, <3>1, <3>3
  <2> QED BY <2>2, <2>3
<1>4. R \in SUBSET Nat /\ reachable[f] \in R
  BY <1>1, <1>2
<1>5. Max(R) \in R /\ \A y \in R : y <= Max(R)
  <2> HIDE DEF R, total
  <2>1. R # {}
    BY <1>4
  <2> QED BY <1>3, <1>4, <2>1, MaxOfNats
<1>6. PICK g \in A : \A h \in A : reachable[h] <= reachable[g]
  BY <1>5
<1>7. parents[g] = <<>>
  <2> SUFFICES ASSUME parents[g] # <<>> PROVE FALSE
    OBVIOUS
  <2>1. parents[g] \in Seq(1 .. N) /\ DOMAIN parents = 1 .. N /\ DOMAIN children = 1 .. N
    BY Shapes
  <2>2. 1 \in DOMAIN parents[g]
    BY <2>1
  <2>3. PICK p \in ToSet(parents[g]) : TRUE
    BY <2>2 DEF ToSet
  <2>4. p \in 1 .. N /\ g \in ToSet(children[p])
    BY <2>1, <2>3 DEF EdgesInv
  <2>5. p \in A
    BY <2>4, CallerVisits
  <2>6. reachable[g] < reachable[p]
    BY <2>4, CalleeSmaller
  <2>7. reachable[p] <= reachable[g]
    BY <1>6, <2>5
  <2> QED BY <1>1, <2>4, <2>6, <2>7
<1>8. reachable[g] >= reachable[f]
  BY <1>1, <1>2, <1>6
<1> QED BY <1>7, <1>8

\* Whatever reaches threshold bytes is in a bundle: find_bundles may drop a
\* function as an entry, never the code it reaches.
THEOREM HeavyBundled == AnalyzerSpec => []HeavyCodeIsBundled
<1>1. AnalyzerSpec => [](TypeInv /\ EdgesInv /\ SearchInv /\ SelectInv)
  BY AnalyzerTypeInit, AnalyzerTypeStep, EdgesInit, EdgesStep, SearchInit, SearchStep,
     SelectInit, SelectStep, PTL DEF AnalyzerSpec
<1>2. TypeInv /\ EdgesInv /\ SearchInv /\ SelectInv => HeavyCodeIsBundled
  <2> SUFFICES ASSUME TypeInv, EdgesInv, SearchInv, SelectInv, stage = "done",
                      NEW f \in 1 .. N, reachable[f] >= threshold
               PROVE  \E b \in ToSet(bundles_out) : f \in b.functions
    BY DEF HeavyCodeIsBundled
  <2>1. PICK g \in 1 .. N : /\ f \in Visited(g) /\ parents[g] = <<>>
                            /\ reachable[g] >= reachable[f]
    BY RootAbove
  <2>2. reachable[g] >= threshold
    <3>1. threshold \in Nat
      BY AnalyzerAssumption DEF TypeInv, AnalyzerTypeOK
    <3>2. reachable[f] \in Nat /\ reachable[g] \in Nat
      BY CalleeSmaller
    <3> QED BY <2>1, <3>1, <3>2
  <2>3. IsEntry(g)
    BY <2>1, <2>2 DEF IsEntry
  <2>4. \E b \in ToSet(bundles_out) : b.functions = Visited(g)
    BY <2>3 DEF SelectInv
  <2> QED BY <2>1, <2>4
<1> QED BY <1>1, <1>2, PTL
=============================================================================
