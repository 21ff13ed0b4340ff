------------------------- MODULE BundleReplayByName -------------------------
(***************************************************************************)
(* bundle_replay.c of checkpoint_2_initial, the first prefetcher: it reads *)
(* the bundle file in one piece, keeps the first MAX_BUNDLES functions in  *)
(* a static array, and advises the pages of a function asked for by name.  *)
(*                                                                         *)
(* A file is the sequence of its fields: a key, a value, and whether the   *)
(* value is a quoted string.  strstr and strchr find fields from a place   *)
(* on.  Numbers written without quotes follow a colon and a space, as both *)
(* JSON writers of the toolchain write them.  Names are shorter than       *)
(* MAX_NAME and numbers than 63 characters, as in every file of theirs.    *)
(***************************************************************************)
EXTENDS Naturals, Sequences, FiniteSets, FiniteSetsExt

CONSTANTS Files,       \* the files load_bundles_json may be given
          Names,       \* the function names in files and in calls
          Unclosed,    \* a function name cut off by the end of the file
          Unreadable,  \* a quoted value strtoull makes nothing of
          AddrSpace,   \* 2^64 in the code
          PageSize,    \* sysconf(_SC_PAGESIZE)
          MAX_BUNDLES, \* size of the array, 1024
          MaxPages     \* max_pages, 256

ASSUME ByNameAssumption ==
    /\ AddrSpace \in Nat \ {0}
    /\ PageSize \in Nat \ {0}
    /\ MAX_BUNDLES \in Nat
    /\ MaxPages \in Nat
    /\ Unclosed \notin Names
    /\ Unreadable \notin Nat
    /\ Files \subseteq Seq([key : {"function"}, value : Names \cup {Unclosed}, quoted : {TRUE}]
                           \cup [key    : {"start_pc", "end_pc", "reachable_size"},
                                 value  : (0 .. AddrSpace - 1) \cup {Unreadable},
                                 quoted : BOOLEAN])

VARIABLES bundles,   \* the array: bundle_count is its length
          file, p,   \* the file being, or last, read, and the field p points to
          phase,     \* "fresh", "loading" or "ready"
          last       \* the last bundle_prefetch_by_name call: its name, the bundle
                     \* it found or 0, and the pages it advised

vars == <<bundles, file, p, phase, last>>

NoCall == [name |-> Unclosed, found |-> 0, pages |-> <<>>]

Init ==
    /\ bundles = <<>>
    /\ file = <<>>
    /\ p = 1
    /\ phase = "fresh"
    /\ last = NoCall

-----------------------------------------------------------------------------
(* load_bundles_json *)

\* The file opens.  When it does not, nothing changes.
LoadOpen(f) ==
    /\ phase # "loading"
    /\ file' = f
    /\ p' = 1
    /\ bundles' = <<>>
    /\ phase' = "loading"
    /\ last' = NoCall

\* strstr: the first field with this key from place i on, or 0.
FindField(key, i) ==
    LET found == {j \in i .. Len(file) : file[j].key = key}
    IN  IF found = {} THEN 0 ELSE Min(found)

\* The number read for key: that of the next field with this key, in this entry
\* or a later one.  strchr looks for a quote behind the colon: behind a bare
\* number it finds the next key, whose text converts to 0; behind the last
\* number of a file it finds none, and the loop that copies digits stops at the
\* space.  strtoull makes 0 of text.
Number(key, i) ==
    LET j == FindField(key, i)
    IN  IF j = 0 \/ ~file[j].quoted \/ file[j].value = Unreadable THEN 0 ELSE file[j].value

\* Fault: off by one in the test for a full array.
NextFunctionLate ==
    LET i == FindField("function", p)
    IN  IF i = 0 \/ Len(bundles) > MAX_BUNDLES \/ file[i].value = Unclosed THEN 0 ELSE i

\* Where the loop finds its next function; 0 when it ends: no more functions,
\* the array is full, or the name is cut off.
NextFunction ==
    LET i == FindField("function", p)
    IN  IF i = 0 \/ Len(bundles) >= MAX_BUNDLES \/ file[i].value = Unclosed THEN 0 ELSE i

LoadEntry ==
    /\ phase = "loading"
    /\ NextFunction # 0
    /\ LET i == NextFunction
       IN  /\ bundles' = Append(bundles, [name  |-> file[i].value,
                                          start |-> Number("start_pc", i + 1),
                                          end   |-> Number("end_pc", i + 1)])
           /\ p' = i + 1
    /\ UNCHANGED <<file, phase, last>>

LoadEnd ==
    /\ phase = "loading"
    /\ NextFunction = 0
    /\ phase' = "ready"
    /\ UNCHANGED <<bundles, file, p, last>>

-----------------------------------------------------------------------------
(* bundle_prefetch_by_name *)

FindBundle(name) ==
    LET found == {i \in DOMAIN bundles : bundles[i].name = name}
    IN  IF found = {} THEN 0 ELSE Min(found)

\* Fault: the last page is left out when it holds only the end.
PagesExclusive(b) ==
    LET first == (b.start \div PageSize) * PageSize
        total == (b.end - first + PageSize - 1) \div PageSize
    IN  IF b.end <= b.start THEN <<>>
        ELSE [n \in 1 .. (IF total > MaxPages THEN MaxPages ELSE total) |->
                 (first + (n - 1) * PageSize) % AddrSpace]

\* The pages advised for b, in order.
Pages(b) ==
    LET first == (b.start \div PageSize) * PageSize
        total == (b.end - first) \div PageSize + 1
    IN  IF b.end <= b.start THEN <<>>
        ELSE [n \in 1 .. (IF total > MaxPages THEN MaxPages ELSE total) |->
                 (first + (n - 1) * PageSize) % AddrSpace]

PrefetchByName(name) ==
    /\ phase # "loading"
    /\ LET i == FindBundle(name)
       IN  last' = [name |-> name, found |-> i,
                    pages |-> IF i = 0 THEN <<>> ELSE Pages(bundles[i])]
    /\ UNCHANGED <<bundles, file, p, phase>>

-----------------------------------------------------------------------------
Next ==
    \/ \E f \in Files : LoadOpen(f)
    \/ LoadEntry \/ LoadEnd
    \/ \E name \in Names : PrefetchByName(name)

Spec == Init /\ [][Next]_vars
-----------------------------------------------------------------------------
(* Properties *)

Bundle == [name : Names, start : 0 .. AddrSpace - 1, end : 0 .. AddrSpace - 1]

\* Types; the array holds at most MAX_BUNDLES bundles.
TypeOK ==
    /\ bundles \in Seq(Bundle)
    /\ Len(bundles) <= MAX_BUNDLES
    /\ file \in Files \cup {<<>>}
    /\ p \in 1 .. Len(file) + 1
    /\ phase \in {"fresh", "loading", "ready"}
    /\ last.name \in Names \cup {Unclosed}
    /\ last.found \in 0 .. Len(bundles)
    /\ last.pages \in Seq(0 .. AddrSpace - 1)

PageOf(a) == (a \div PageSize) * PageSize

\* The places of the functions of the file, up to a cut-off name, and how many
\* are in front of place i.
Functions == {i \in DOMAIN file :
                 /\ file[i].key = "function"
                 /\ \A j \in 1 .. i : file[j].key = "function" => file[j].value # Unclosed}
Before(i) == Cardinality({j \in Functions : j < i})

\* The part of the file that belongs to the function at place i when each
\* function comes first in its entry.
EntryOf(i) == {j \in i + 1 .. Len(file) : \A h \in i + 1 .. j : file[h].key # "function"}

\* What the entry of the function at place i gives for key; 0 if it gives none.
Given(key, i) ==
    LET own == {j \in EntryOf(i) : file[j].key = key /\ file[j].quoted /\ file[j].value \in Nat}
    IN  IF own = {} THEN 0 ELSE file[Min(own)].value

\* An entry has a key once, and every entry both.
Once(key, i) == \E j \in EntryOf(i) : \A h \in EntryOf(i) : file[h].key = key <=> h = j
Complete == \A i \in Functions : \A key \in {"start_pc", "end_pc"} : Once(key, i)

\* bundle_replay.h: "Prefetch pages/lines for a bundle identified by function
\* name".  When each entry names its function first and gives it both addresses,
\* a call advises the pages of the first entry with this name, the lowest
\* MaxPages of them if there are more; none when the function is not among the
\* first MAX_BUNDLES or its numbers are not quoted.
AdvisesThePagesOfTheFunction ==
    phase = "ready" /\ last # NoCall /\ Complete =>
        LET own     == {i \in Functions : file[i].value = last.name}
            i       == Min(own)
            covered == {PageOf(a) : a \in Given("start_pc", i) .. Given("end_pc", i)}
            pages   == {last.pages[n] : n \in DOMAIN last.pages}
        IN  IF \/ own = {}
               \/ Before(i) >= MAX_BUNDLES
               \/ Given("end_pc", i) <= Given("start_pc", i)
            THEN pages = {}
            ELSE /\ pages \subseteq covered
                 /\ Cardinality(pages) = Min({MaxPages, Cardinality(covered)})
                 /\ \A a \in pages, b \in covered \ pages : a < b

\* The order the toolchain writes: end before function before start.
ToolchainOrder ==
    /\ \A i \in Functions : Once("start_pc", i)
    /\ \A i \in DOMAIN file :
          /\ file[i].key = "function" => i > 1 /\ file[i - 1].key = "end_pc"
          /\ file[i].key = "end_pc" => i < Len(file) /\ file[i + 1].key = "function"

\* bundle_replay.h says "Prefetch pages/lines for a bundle identified by function
\* name", and names no order of the keys.  In a file as the toolchain writes it a
\* call for a function that is in the file once, with a start below its end,
\* would advise the pages of that function, MaxPages of them at most.  The code
\* takes the end of the entry after it, and for the last function none.
PrefetchesTheBundleOfName ==
    phase = "ready" /\ last # NoCall /\ ToolchainOrder =>
        \A i \in Functions :
            LET start   == Given("start_pc", i)
                end     == file[i - 1]
                covered == {PageOf(a) : a \in start .. end.value}
                pages   == {last.pages[n] : n \in DOMAIN last.pages}
            IN  /\ {j \in Functions : file[j].value = last.name} = {i}
                /\ Before(i) < MAX_BUNDLES
                /\ end.quoted /\ end.value # Unreadable
                /\ start < end.value
                => /\ pages \subseteq covered
                   /\ Cardinality(pages) = Min({MaxPages, Cardinality(covered)})
=============================================================================
