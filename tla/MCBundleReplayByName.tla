------------------------ MODULE MCBundleReplayByName ------------------------
EXTENDS BundleReplayByName

Name(f) == [key |-> "function", value |-> f, quoted |-> TRUE]
Start(a) == [key |-> "start_pc", value |-> a, quoted |-> TRUE]
End(a) == [key |-> "end_pc", value |-> a, quoted |-> TRUE]
Bare(field) == [field EXCEPT !.quoted = FALSE]
Size == [key |-> "reachable_size", value |-> 60, quoted |-> FALSE]

\* Entries of a function: inside a page, up to the first byte of a page, over
\* more pages than MaxPages, up to the end of the address space, backwards, of
\* bare instruction numbers as in bundles.json, and unreadable.
Ranges == {<<4, 6>>, <<11, 32>>, <<17, 62>>, <<56, 63>>, <<38, 38>>}
FunctionFirst(f, r) == <<Name(f), Start(r[1]), End(r[2])>>
Sorted(f, r) == <<End(r[2]), Name(f), Size, Start(r[1])>>
Entries(Order(_, _), f) == {Order(f, r) : r \in Ranges}

Odd == {<<Name("f"), End(20), Size, Start(3)>>,
        <<Name("g"), Bare(Start(7)), Bare(End(10))>>,
        <<Name("f"), Start(8), End(Unreadable)>>}

FilesIn(Order(_, _)) ==
    {<<>>}
    \cup {a \o b : a \in Entries(Order, "f"), b \in Entries(Order, "g") \cup Entries(Order, "f")}
    \cup {a \o Order("g", <<7, 10>>) \o c : a \in Entries(Order, "f"), c \in Entries(Order, "h")}

\* Files of the toolchain: the keys of an entry in alphabetical order.
MCSortedFiles == FilesIn(Sorted)

MCFiles ==
    FilesIn(FunctionFirst) \cup MCSortedFiles
    \cup {a \o b : a \in Odd, b \in Odd}
    \cup {a \o <<Name(Unclosed)>> : a \in Odd \cup Entries(Sorted, "f")}
    \cup {a \o <<End(20), Name(Unclosed)>> : a \in Entries(Sorted, "f")}
    \cup {<<End(9), Name("f"), Start(Unreadable)>>, <<Name("f")>>, <<Name("f"), Start(1)>>}
=============================================================================
