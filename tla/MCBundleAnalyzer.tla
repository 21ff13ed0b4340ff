-------------------------- MODULE MCBundleAnalyzer --------------------------
EXTENDS BundleAnalyzer

Func(addr, size) == [addr |-> addr, size |-> size, type |-> "STT_FUNC", defined |-> TRUE]

\* The functions of the binaries, not in address order; and among them a data
\* symbol, a symbol without a size, an undefined one and one that runs past
\* the end of .text.
ThreeFunctions == <<Func(2, 3), Func(5, 2), Func(0, 2)>>
OtherSymbols == <<[Func(3, 1) EXCEPT !.type = "STT_OBJECT"], Func(4, 0),
                  [Func(6, 1) EXCEPT !.defined = FALSE], Func(6, 4)>>

\* Two names for the same code, as a linker makes of aliases.
WithAlias == <<Func(0, 2), Func(2, 3), Func(2, 3)>>

Text == [addr |-> 0, size |-> 7]

\* A call at each of some addresses, to a function start, into the middle of
\* a function, or out of .text; NoCall where there is none.
NoCall == 99
Sites == <<0, 1, 2, 5>>
Targets == {0, 2, 5, NoCall}
CallsAt(targets) ==
    LET at == [k \in DOMAIN Sites |-> [at |-> Sites[k], target |-> targets[k]]]
    IN  SelectSeq(at, LAMBDA c : c.target # NoCall)

MCBinaries ==
    {[text |-> Text, symbols |-> ThreeFunctions, calls |-> CallsAt(t)] :
        t \in [DOMAIN Sites -> Targets]}
    \cup {[text |-> Text, symbols |-> syms, calls |-> CallsAt(t)] :
        syms \in {ThreeFunctions \o OtherSymbols, WithAlias},
        t \in {<<3, 50, 5, 2>>, <<2, 5, 5, NoCall>>, <<0, 2, 6, 0>>}}
=============================================================================
