--------------------------- MODULE MCBundleReplay ---------------------------
EXTENDS BundleReplay

Entry(start, end) == [k \in {"function", "reachable_size", "start_pc", "end_pc"} |->
                         CASE k = "start_pc" -> start
                           [] k = "end_pc"   -> end
                           [] OTHER          -> Unreadable]

\* Adjacent functions as map_bundles_to_pcs.py finds them: one inside a page,
\* one across a page boundary, one of several pages that ends where a page
\* ends, one that starts a page, one of a single address; and one whose end is
\* not readable.
MCEntries == {Entry(4, 6), Entry(7, 10), Entry(11, 31), Entry(32, 37), Entry(38, 38),
              Entry(40, Unreadable)}

\* The same, with a function that ends on the first byte of a page.
MCEntriesAtPageEnd == {Entry(11, 32), Entry(33, 37)}

FilesOf(entries, n) ==
    {f \in UNION {[1 .. m -> entries] : m \in 0 .. n} : IsInjective(f)}

MCFiles == FilesOf(MCEntries, 3)
MCFilesAtPageEnd == FilesOf(MCEntriesAtPageEnd, 2)

\* The order a hand-written file would have, and the order of the files in the
\* repository: callgraph_bundle.cpp's JSON library sorts the keys, and
\* map_bundles_to_pcs.py keeps the order of what it copies.
StartFirst == <<"function", "start_pc", "end_pc">>
SortedKeys == <<"end_pc", "function", "reachable_size", "start_pc">>

MCAddrBases == {0, 24}
MCPcs == {4, 6, 7, 10, 11, 31, 32, 38, 41, 56, 61, 63}
=============================================================================
