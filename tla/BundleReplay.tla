---------------------------- MODULE BundleReplay ----------------------------
(***************************************************************************)
(* bundle_replay.c of checkpoint_2_improved: the table of code bundles the *)
(* server loads from bundles_pc.json and the prefetch hints it issues when *)
(* a thread enters a function.                                             *)
(*                                                                         *)
(* The file is what map_bundles_to_pcs.py writes: a list of entries, each  *)
(* with one key per line, in the order KeyOrder.  parse_bundle_file reads  *)
(* it line by line; an unreadable number (no colon, or strtoull sets       *)
(* errno) is Unreadable.  Addresses are uintptr_t: arithmetic on them is   *)
(* modulo AddrSpace.  The table is written by bundles_init, before any     *)
(* thread exists, and by bundles_free; a call never overlaps those.        *)
(***************************************************************************)
EXTENDS Naturals, Sequences, FiniteSets, SequencesExt

CONSTANTS Files,         \* the files bundles_init may be given
          KeyOrder,      \* the keys of an entry, in the order of its lines
          Unreadable,    \* a value the parser cannot convert
          AddrSpace,     \* 2^64 in the code
          AddrBases,     \* the values of addr_base, 0 in main
          Pcs,           \* the entry labels the server asks about
          PageSize,      \* g_page_size: sysconf's answer, 4096
          FirstCapacity, \* entries of the first allocation, 128
          Lines,         \* lines a call prefetches, 8
          CacheLine      \* the fallback step, 64

ASSUME ReplayAssumption ==
    /\ AddrSpace \in Nat \ {0}
    /\ AddrBases \subseteq Nat
    /\ Pcs \subseteq 0 .. AddrSpace - 1
    /\ PageSize \in Nat \ {0}
    /\ FirstCapacity \in Nat \ {0}
    /\ Lines \in Nat \ {0}
    /\ CacheLine \in Nat \ {0}
    /\ Unreadable \notin Nat
    /\ KeyOrder \in Seq(STRING)
    /\ \A f \in Files :
          /\ Len(f) \in Nat /\ DOMAIN f = 1 .. Len(f)
          /\ \A i \in DOMAIN f : \A k \in {"start_pc", "end_pc"} :
                f[i][k] \in (0 .. AddrSpace - 1) \cup {Unreadable}

VARIABLES g_bundles,   \* the table: g_num_bundles is its length
          g_capacity,  \* entries the code takes the array to have
          allocated,   \* entries it has: 0 when the pointer is NULL
          g_addr_base,
          file,        \* the entries of the file being, or last, read
          line,        \* parse_bundle_file: lines read so far
          have_start, cur_start,
          phase,       \* "fresh", "parsing", "ready", "failed" or "freed"
          last         \* the last bundles_prefetch_for_pc call: its pc, the
                       \* bundle it found, the hints it gave

table == <<g_bundles, g_capacity, allocated, g_addr_base>>
parser == <<file, line, have_start, cur_start>>
vars == <<table, parser, phase, last>>

Addresses == 0 .. AddrSpace - 1
NoCall == [pc |-> AddrSpace, found |-> 0, use_madvise |-> FALSE, pages |-> {}, lines |-> {}]

Init ==
    /\ g_bundles = <<>>
    /\ g_capacity = 0
    /\ allocated = 0
    /\ g_addr_base = 0
    /\ file = <<>>
    /\ line = 0
    /\ have_start = FALSE
    /\ cur_start = 0
    /\ phase = "fresh"
    /\ last = NoCall

-----------------------------------------------------------------------------
(* bundles_init and parse_bundle_file *)

\* page_align_range: the page of s, and the first page at or above e.
StartPage(s) == (s \div PageSize) * PageSize
\* Fault: the sum is kept in a wider type, so the end of the last page is AddrSpace.
EndPageWide(e) == ((e + PageSize - 1) \div PageSize) * PageSize
\* Fault: the end is rounded down, like the start.
EndPageDown(e) == (e \div PageSize) * PageSize
EndPage(e) == (((e + PageSize - 1) % AddrSpace) \div PageSize) * PageSize

\* Fault: g_capacity is not reset.
BundlesInitKeepsCapacity(f, addr_base) ==
    /\ phase # "parsing"
    /\ g_addr_base' = addr_base
    /\ g_bundles' = <<>>
    /\ g_capacity' = g_capacity
    /\ allocated' = 0
    /\ file' = f
    /\ line' = 0
    /\ have_start' = FALSE
    /\ cur_start' = 0
    /\ phase' = "parsing"
    /\ last' = NoCall

\* bundles_init forgets the old table, its array not freed; the file opens and
\* parsing starts.
BundlesInit(f, addr_base) ==
    /\ phase # "parsing"
    /\ g_addr_base' = addr_base
    /\ g_bundles' = <<>>
    /\ g_capacity' = 0
    /\ allocated' = 0
    /\ file' = f
    /\ line' = 0
    /\ have_start' = FALSE
    /\ cur_start' = 0
    /\ phase' = "parsing"
    /\ last' = NoCall

\* fopen fails: bundles_init returns -1 with an empty table.
FileMissing ==
    /\ phase = "parsing"
    /\ line = 0
    /\ phase' = "failed"
    /\ UNCHANGED <<table, parser, last>>

\* The keys of all lines, and what the next line holds.
LinesPerEntry == Len(KeyOrder)
NextKey == KeyOrder[(line % LinesPerEntry) + 1]
NextValue == file[(line \div LinesPerEntry) + 1][NextKey]

ReadLine(key) ==
    /\ phase = "parsing"
    /\ line < Len(file) * LinesPerEntry
    /\ NextKey = key
    /\ line' = line + 1

\* Fault: a start_pc whose end_pc was unreadable is kept for the next entry.
ReadStartKeepsOld ==
    /\ ReadLine("start_pc")
    /\ NextValue # Unreadable
    /\ cur_start' = IF have_start THEN cur_start ELSE (NextValue + g_addr_base) % AddrSpace
    /\ have_start' = TRUE
    /\ UNCHANGED <<table, file, phase, last>>

\* A readable "start_pc" line.
ReadStart ==
    /\ ReadLine("start_pc")
    /\ NextValue # Unreadable
    /\ cur_start' = (NextValue + g_addr_base) % AddrSpace
    /\ have_start' = TRUE
    /\ UNCHANGED <<table, file, phase, last>>

\* Lines that change nothing: other keys, unreadable numbers, and an "end_pc"
\* with no "start_pc" before it.
SkipLine ==
    /\ \/ \E key \in ToSet(KeyOrder) \ {"start_pc", "end_pc"} : ReadLine(key)
       \/ \E key \in {"start_pc", "end_pc"} : ReadLine(key) /\ NextValue = Unreadable
       \/ ReadLine("end_pc") /\ ~have_start
    /\ UNCHANGED <<table, file, have_start, cur_start, phase, last>>

\* An "end_pc" line that ends the bundle a "start_pc" line has begun.
ReadEnd ==
    /\ ReadLine("end_pc")
    /\ NextValue # Unreadable
    /\ have_start

TableFull == Len(g_bundles) + 1 > g_capacity

StoreBundle ==
    /\ ReadEnd
    /\ g_capacity' = IF ~TableFull THEN g_capacity
                     ELSE IF g_capacity > 0 THEN 2 * g_capacity ELSE FirstCapacity
    /\ allocated' = IF TableFull THEN g_capacity' ELSE allocated
    /\ LET end == (NextValue + g_addr_base) % AddrSpace
       IN  g_bundles' = Append(g_bundles, [start_pc   |-> cur_start,
                                           end_pc     |-> end,
                                           start_page |-> StartPage(cur_start),
                                           end_page   |-> EndPage(end)])
    /\ have_start' = FALSE
    /\ cur_start' = 0
    /\ UNCHANGED <<g_addr_base, file, phase, last>>

\* Fault: the array is freed, the number of bundles kept.
StoreFailsKeepsCount ==
    /\ ReadEnd
    /\ TableFull
    /\ g_bundles' = g_bundles
    /\ allocated' = 0
    /\ phase' = "failed"
    /\ UNCHANGED <<g_capacity, g_addr_base, file, have_start, cur_start, last>>

\* realloc fails: bundles_init frees the array and returns -1.  It leaves
\* g_capacity as it is, which no longer says what is allocated.
StoreFails ==
    /\ ReadEnd
    /\ TableFull
    /\ g_bundles' = <<>>
    /\ allocated' = 0
    /\ phase' = "failed"
    /\ UNCHANGED <<g_capacity, g_addr_base, file, have_start, cur_start, last>>

EndOfFile ==
    /\ phase = "parsing"
    /\ line = Len(file) * LinesPerEntry
    /\ phase' = "ready"
    /\ UNCHANGED <<table, parser, last>>

BundlesFree ==
    /\ phase # "parsing"
    /\ g_bundles' = <<>>
    /\ g_capacity' = 0
    /\ allocated' = 0
    /\ phase' = "freed"
    /\ last' = NoCall
    /\ UNCHANGED <<g_addr_base, parser>>

-----------------------------------------------------------------------------
(* bundles_prefetch_for_pc *)

InBundle(b, pc) == b.start_pc <= pc /\ pc <= b.end_pc

\* find_bundle_for_pc: the first bundle of the table that contains pc, or 0.
FindBundle(pc) == SelectInSeq(g_bundles, LAMBDA b : InBundle(b, pc))

\* madvise_range: the pages advised, from start_page up to end_page.
Pages(b) == {p \in b.start_page .. b.end_page - 1 : (p - b.start_page) % PageSize = 0}

\* Fault: the samples are counted from 1.
PrefetchLinesFromOne(b) ==
    IF b.end_pc <= b.start_pc THEN {}
    ELSE LET share == (b.end_pc - b.start_pc) \div Lines
         IN  {(b.start_pc + i * share) % AddrSpace : i \in 1 .. Lines}

\* prefetch_lines_in_range: Lines addresses, a Lines-th of the range apart.
PrefetchLines(b) ==
    IF b.end_pc <= b.start_pc THEN {}
    ELSE LET share == (b.end_pc - b.start_pc) \div Lines
             step  == IF share = 0 THEN CacheLine ELSE share
         IN  {(b.start_pc + i * step) % AddrSpace : i \in 0 .. Lines - 1}

PrefetchForPc(pc, use_madvise, do_prefetch_lines) ==
    /\ phase # "parsing"
    /\ LET i == FindBundle(pc)
       IN  last' = [pc    |-> pc,
                    found |-> i,
                    use_madvise |-> use_madvise,
                    pages |-> IF i # 0 /\ use_madvise THEN Pages(g_bundles[i]) ELSE {},
                    lines |-> IF i # 0 /\ do_prefetch_lines
                              THEN PrefetchLines(g_bundles[i]) ELSE {}]
    /\ UNCHANGED <<table, parser, phase>>

-----------------------------------------------------------------------------
Next ==
    \/ \E f \in Files, addr_base \in AddrBases : BundlesInit(f, addr_base)
    \/ FileMissing \/ ReadStart \/ SkipLine \/ StoreBundle \/ StoreFails \/ EndOfFile
    \/ BundlesFree
    \/ \E pc \in Pcs, use_madvise, do_prefetch_lines \in BOOLEAN :
          PrefetchForPc(pc, use_madvise, do_prefetch_lines)

Spec == Init /\ [][Next]_vars
-----------------------------------------------------------------------------
(* Properties *)

Bundle == [start_pc : Addresses, end_pc : Addresses,
           start_page : Addresses, end_page : Addresses]

TypeOK ==
    /\ g_bundles \in Seq(Bundle)
    /\ g_capacity \in Nat /\ allocated \in Nat
    /\ g_addr_base \in AddrBases \cup {0}
    /\ file \in Files \cup {<<>>}
    /\ line \in 0 .. Len(file) * LinesPerEntry
    /\ have_start \in BOOLEAN
    /\ cur_start \in Addresses
    /\ phase \in {"fresh", "parsing", "ready", "failed", "freed"}
    /\ last.pc \in Pcs \cup {AddrSpace}
    /\ last.found \in 0 .. Len(g_bundles)

\* parse_bundle_file writes no bundle past the array g_bundles points to,
\* through every growth, failed growth, free and renewed bundles_init, though
\* all it compares with is g_capacity, which a failed growth leaves stale.  A
\* table that is not being filled or served has no array.
TableFits ==
    /\ Len(g_bundles) <= allocated
    /\ phase \in {"fresh", "failed", "freed"} => allocated = 0

\* The entries of the file with two readable numbers, at their runtime addresses.
Relocated(x) == [start_pc |-> (x["start_pc"] + g_addr_base) % AddrSpace,
                 end_pc   |-> (x["end_pc"] + g_addr_base) % AddrSpace]
ReadableEntries ==
    LET Readable(x) == x["start_pc"] # Unreadable /\ x["end_pc"] # Unreadable
    IN  {Relocated(x) : x \in {y \in ToSet(file) : Readable(y)}}
RangeOf(b) == [start_pc |-> b.start_pc, end_pc |-> b.end_pc]

\* bundle_replay.h: a call triggers "prefetch for the bundle that contains pc".
\* It finds a bundle exactly when an entry of the file contains pc, and the
\* bundle it finds is such an entry, never one entry's start with another's end.
PrefetchesTheBundleOfPc ==
    phase = "ready" /\ last # NoCall =>
        LET Candidates == {x \in ReadableEntries : InBundle(x, last.pc)}
        IN  IF Candidates = {} THEN last.found = 0
            ELSE last.found # 0 /\ RangeOf(g_bundles[last.found]) \in Candidates

\* The page of an address.
PageOf(a) == (a \div PageSize) * PageSize

\* A call that may use madvise advises the page of every address of the bundle
\* and no page beyond it; only a page that begins at end_pc is left out.  A
\* bundle in the last page of the address space is exempt: end_page wraps there.
AdvisesTheBundle ==
    last.found # 0 /\ last.use_madvise =>
        LET b == g_bundles[last.found]
        IN  b.end_pc + PageSize <= AddrSpace =>
                last.pages = {PageOf(a) : a \in b.start_pc .. b.end_pc} \ {b.end_pc}

\* bundle_replay.c:142: "do a few __builtin_prefetch inside the range".  The lines
\* of a bundle of at least Lines addresses lie inside it, and there are Lines of
\* them.  Of a shorter one the code takes a step of CacheLine and leaves it.
LinesInBundle ==
    last.lines # {} =>
        LET b == g_bundles[last.found]
        IN  b.end_pc - b.start_pc >= Lines =>
                /\ last.lines \subseteq b.start_pc .. b.end_pc - 1
                /\ Cardinality(last.lines) = Lines

\* bundle_replay.c:16 calls end_page the "page address after last page": the
\* last page of a bundle ends there, and find_bundle_for_pc counts end_pc in.
EndPageIsAfterTheBundle ==
    \A i \in DOMAIN g_bundles : g_bundles[i].end_pc < g_bundles[i].end_page
=============================================================================
