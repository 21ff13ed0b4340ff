------------------------- MODULE BundleReplayProofs -------------------------
(***************************************************************************)
(* Proofs about BundleReplay, for any file, key order, page size and size  *)
(* of the address space.                                                   *)
(***************************************************************************)
EXTENDS BundleReplay, DataTheorems, TLAPS

LEMMA StepCases ==
    ASSUME [Next]_vars
    PROVE  \/ \E f \in Files, addr_base \in AddrBases : BundlesInit(f, addr_base)
           \/ FileMissing \/ ReadStart \/ SkipLine \/ StoreBundle \/ StoreFails
           \/ EndOfFile \/ BundlesFree
           \/ \E pc \in Pcs, use_madvise, do_prefetch_lines \in BOOLEAN :
                 PrefetchForPc(pc, use_madvise, do_prefetch_lines)
           \/ UNCHANGED vars
BY Zenon DEF Next

-----------------------------------------------------------------------------
(* Arithmetic *)

\* A page begins at or below each of its addresses.
LEMMA PageBelow ==
    ASSUME NEW a \in Nat
    PROVE  /\ (a \div PageSize) * PageSize \in Nat
           /\ (a \div PageSize) * PageSize <= a
<1>1. PageSize \in Nat /\ PageSize > 0
  BY ReplayAssumption
<1>2. a \div PageSize \in Nat
  BY <1>1
<1>3. a = PageSize * (a \div PageSize) + (a % PageSize) /\ a % PageSize >= 0 /\ a % PageSize \in Nat
  BY <1>1
<1> QED BY <1>1, <1>2, <1>3

LEMMA StartPageType == ASSUME NEW s \in Addresses PROVE StartPage(s) \in Addresses
BY PageBelow, ReplayAssumption DEF Addresses, StartPage

LEMMA EndPageType == ASSUME NEW e \in Addresses PROVE EndPage(e) \in Addresses
<1>1. e + PageSize - 1 \in Nat
  BY ReplayAssumption DEF Addresses
<1>2. (e + PageSize - 1) % AddrSpace \in Addresses
  BY <1>1, ReplayAssumption DEF Addresses
<1> QED BY <1>2, PageBelow, ReplayAssumption DEF Addresses, EndPage

\* The first bundle found has a place in the table.
LEMMA FindBundleType ==
    ASSUME g_bundles \in Seq(Bundle), NEW pc
    PROVE  FindBundle(pc) \in 0 .. Len(g_bundles)
<1> DEFINE I == {i \in 1 .. Len(g_bundles) : InBundle(g_bundles[i], pc)}
<1>1. FindBundle(pc) = IF I # {} THEN Min(I) ELSE 0
  BY DEF FindBundle, SelectInSeq
<1>2. I \in SUBSET Nat
  OBVIOUS
<1>3. I # {} => Min(I) \in I
  BY <1>2, MinOfNats, Zenon
<1> QED BY <1>1, <1>3

\* The entry a line belongs to.
LEMMA LineOfEntry ==
    ASSUME NEW a \in Nat, NEW m \in Nat, NEW n \in Nat, a < m * n
    PROVE  n > 0 /\ a \div n \in Nat /\ a \div n < m
<1>1. n > 0
  BY SMT
<1>2. /\ a \div n \in Nat
      /\ a = n * (a \div n) + (a % n) /\ a % n \in Nat
  BY <1>1
<1>3. ASSUME a \div n >= m PROVE FALSE
  <2>1. a \div n - m \in Nat
    BY <1>2, <1>3
  <2>2. n * (a \div n - m) \in Nat
    BY <2>1
  <2>3. n * (a \div n) = n * m + n * (a \div n - m)
    BY <1>2
  <2> QED BY <1>2, <2>2, <2>3
<1> QED BY <1>1, <1>2, <1>3

-----------------------------------------------------------------------------
(* The table and the parser *)

\* TypeOK needs the file to be a sequence of entries, and that a call is
\* forgotten while the table is filled.
TypeInv ==
    /\ TypeOK
    /\ phase = "parsing" => last = NoCall

FileType == /\ Len(file) \in Nat /\ DOMAIN file = 1 .. Len(file)
            /\ \A i \in DOMAIN file : \A k \in {"start_pc", "end_pc"} :
                  file[i][k] \in Addresses \cup {Unreadable}

LEMMA FileIsTyped == ASSUME TypeOK PROVE FileType /\ LinesPerEntry \in Nat
BY ReplayAssumption DEF TypeOK, FileType, Addresses, LinesPerEntry

LEMMA MoreLines == ASSUME TypeOK, NEW key, ReadLine(key)
                   PROVE  line' \in 0 .. Len(file) * LinesPerEntry /\ line' > 0
<1>1. Len(file) \in Nat /\ LinesPerEntry \in Nat
  BY FileIsTyped DEF FileType
<1>2. Len(file) * LinesPerEntry \in Nat
  BY <1>1
<1> QED BY <1>2 DEF TypeOK, ReadLine

\* A readable number is an address.
LEMMA NumberType ==
    ASSUME TypeOK, NEW key \in {"start_pc", "end_pc"}, ReadLine(key), NextValue # Unreadable
    PROVE  NextValue \in Addresses /\ (NextValue + g_addr_base) % AddrSpace \in Addresses
<1>1. FileType /\ LinesPerEntry \in Nat
  BY FileIsTyped
<1>2. line \in Nat /\ line < Len(file) * LinesPerEntry /\ NextKey = key
  BY <1>1 DEF TypeOK, ReadLine, FileType
<1>3. (line \div LinesPerEntry) + 1 \in DOMAIN file
  <2>1. Len(file) \in Nat /\ DOMAIN file = 1 .. Len(file)
    BY <1>1 DEF FileType
  <2>2. line \div LinesPerEntry \in Nat /\ line \div LinesPerEntry < Len(file)
    BY <1>1, <1>2, <2>1, LineOfEntry
  <2> QED BY <2>1, <2>2
<1>4. NextValue \in Addresses
  BY <1>1, <1>2, <1>3 DEF NextValue, FileType
<1>5. g_addr_base \in Nat
  BY ReplayAssumption DEF TypeOK
<1> QED BY <1>4, <1>5, ReplayAssumption DEF Addresses

LEMMA StoredBundle ==
    ASSUME TypeOK, StoreBundle
    PROVE  /\ g_bundles' \in Seq(Bundle)
           /\ Len(g_bundles') = Len(g_bundles) + 1
<1> DEFINE end == (NextValue + g_addr_base) % AddrSpace
           b == [start_pc |-> cur_start, end_pc |-> end,
                 start_page |-> StartPage(cur_start), end_page |-> EndPage(end)]
<1>1. end \in Addresses
  BY NumberType DEF StoreBundle, ReadEnd
<1>2. b \in Bundle
  BY <1>1, StartPageType, EndPageType DEF TypeOK, Bundle
<1>3. g_bundles' = Append(g_bundles, b)
  BY DEF StoreBundle
<1> HIDE DEF b
<1> QED BY <1>2, <1>3 DEF TypeOK

-----------------------------------------------------------------------------
(* Type correctness *)

LEMMA TypeInit == Init => TypeInv
<1> SUFFICES ASSUME Init PROVE TypeInv
  OBVIOUS
<1>1. line \in 0 .. Len(file) * LinesPerEntry
  BY ReplayAssumption DEF Init, LinesPerEntry
<1>2. g_bundles \in Seq(Bundle) /\ Len(g_bundles) = 0
  BY DEF Init
<1>3. last.pc = AddrSpace /\ last.found = 0
  BY DEF Init, NoCall
<1>4. cur_start \in Addresses
  BY ReplayAssumption DEF Init, Addresses
<1>5. /\ g_capacity \in Nat /\ allocated \in Nat
      /\ g_addr_base \in AddrBases \cup {0}
      /\ file \in Files \cup {<<>>}
      /\ have_start \in BOOLEAN
      /\ phase = "fresh"
  BY DEF Init
<1> QED BY <1>1, <1>2, <1>3, <1>4, <1>5 DEF TypeInv, TypeOK

LEMMA TypeNext == TypeInv /\ [Next]_vars => TypeInv'
<1> SUFFICES ASSUME TypeInv, [Next]_vars PROVE TypeInv'
  OBVIOUS
<1> USE DEF TypeInv
<1>1. ASSUME NEW f \in Files, NEW addr_base \in AddrBases, BundlesInit(f, addr_base)
      PROVE  TypeInv'
  <2>1. Len(f) \in Nat /\ LinesPerEntry \in Nat
    BY ReplayAssumption DEF LinesPerEntry
  <2>2. 0 <= Len(f) * LinesPerEntry /\ Len(f) * LinesPerEntry \in Nat
    BY <2>1
  <2>3. line' \in 0 .. Len(file') * LinesPerEntry'
    BY <1>1, <2>2 DEF BundlesInit, LinesPerEntry
  <2>4. g_bundles' \in Seq(Bundle) /\ Len(g_bundles') = 0
    BY <1>1 DEF BundlesInit
  <2>5. /\ last' = NoCall
        /\ last'.pc \in Pcs \cup {AddrSpace}
        /\ last'.found \in 0 .. Len(g_bundles')
    BY <1>1, <2>4 DEF BundlesInit, NoCall
  <2>6. /\ g_capacity' \in Nat /\ allocated' \in Nat
        /\ g_addr_base' \in AddrBases \cup {0}
        /\ file' \in Files \cup {<<>>}
        /\ have_start' = FALSE
        /\ phase' = "parsing"
    BY <1>1 DEF BundlesInit
  <2>7. cur_start' \in Addresses
    BY <1>1, ReplayAssumption DEF BundlesInit, Addresses
  <2>8. TypeOK'
    BY <2>3, <2>4, <2>5, <2>6, <2>7, Zenon DEF TypeOK
  <2> QED BY <2>5, <2>8
<1>2. CASE FileMissing
  BY <1>2 DEF FileMissing, TypeOK, table, parser, LinesPerEntry
<1>3. CASE ReadStart
  <2>1. line' \in 0 .. Len(file) * LinesPerEntry
    BY <1>3, MoreLines, Zenon DEF ReadStart
  <2>2. cur_start' \in Addresses
    BY <1>3, NumberType DEF ReadStart
  <2>3. /\ UNCHANGED <<g_bundles, g_capacity, allocated, g_addr_base, file, phase, last>>
        /\ have_start' = TRUE
    BY <1>3 DEF ReadStart, table
  <2> QED BY <2>1, <2>2, <2>3 DEF TypeOK, LinesPerEntry
<1>4. CASE SkipLine
  <2>1. \E key : ReadLine(key)
    BY <1>4, Zenon DEF SkipLine
  <2>2. line' \in 0 .. Len(file) * LinesPerEntry
    BY <2>1, MoreLines
  <2> QED BY <1>4, <2>2 DEF SkipLine, TypeOK, table, LinesPerEntry
<1>5. CASE StoreBundle
  <2>0. ReadLine("end_pc")
    BY <1>5 DEF StoreBundle, ReadEnd
  <2>1. line' \in 0 .. Len(file) * LinesPerEntry /\ phase = "parsing"
    BY <2>0, MoreLines DEF ReadLine
  <2>2. g_capacity' \in Nat /\ allocated' \in Nat
    BY <1>5, ReplayAssumption DEF StoreBundle, TypeOK
  <2>3. last'.found \in 0 .. Len(g_bundles')
    BY <1>5, <2>1, StoredBundle DEF StoreBundle, TypeOK, NoCall
  <2>4. /\ UNCHANGED <<g_addr_base, file, phase, last>>
        /\ have_start' = FALSE /\ cur_start' \in Addresses
    BY <1>5, ReplayAssumption DEF StoreBundle, Addresses
  <2> QED BY <1>5, <2>1, <2>2, <2>3, <2>4, StoredBundle DEF TypeOK, LinesPerEntry
<1>6. CASE StoreFails
  <2>0. ReadLine("end_pc")
    BY <1>6 DEF StoreFails, ReadEnd
  <2>1. line' \in 0 .. Len(file) * LinesPerEntry /\ phase = "parsing"
    BY <2>0, MoreLines DEF ReadLine
  <2> QED BY <1>6, <2>1 DEF StoreFails, TypeOK, NoCall, LinesPerEntry
<1>7. CASE EndOfFile
  BY <1>7 DEF EndOfFile, TypeOK, table, parser, LinesPerEntry
<1>8. CASE BundlesFree
  BY <1>8 DEF BundlesFree, TypeOK, NoCall, parser, LinesPerEntry
<1>9. ASSUME NEW pc \in Pcs, NEW use_madvise \in BOOLEAN, NEW do_prefetch_lines \in BOOLEAN,
             PrefetchForPc(pc, use_madvise, do_prefetch_lines)
      PROVE  TypeInv'
  <2>1. /\ last'.pc \in Pcs
        /\ last'.found \in 0 .. Len(g_bundles)
    BY <1>9, FindBundleType DEF PrefetchForPc, TypeOK
  <2> QED BY <1>9, <2>1 DEF PrefetchForPc, TypeOK, table, parser, LinesPerEntry
<1>10. CASE UNCHANGED vars
  BY <1>10 DEF vars, table, parser, TypeOK, LinesPerEntry
<1> QED BY <1>1, <1>2, <1>3, <1>4, <1>5, <1>6, <1>7, <1>8, <1>9, <1>10, StepCases

\* In every reachable state the table holds bundles of addresses, the parser
\* is within its file, and the bundle the last call found has a place in the
\* table: find_bundle_for_pc never reads outside g_bundles.
THEOREM TypeCorrect == Spec => []TypeOK
<1>1. TypeInv => TypeOK
  BY DEF TypeInv
<1> QED BY <1>1, TypeInit, TypeNext, PTL DEF Spec

-----------------------------------------------------------------------------
(* The table fits its allocation *)

\* TableFits, and: while a file is read g_capacity is what is allocated, and before
\* its first line that is nothing, so that a file that cannot be opened leaves no
\* array.
TableInv ==
    /\ TypeInv
    /\ TableFits
    /\ phase = "parsing" => g_capacity = allocated
    /\ phase = "parsing" /\ line = 0 => allocated = 0

LEMMA TableInit == Init => TableInv
BY TypeInit DEF Init, TableInv, TableFits

LEMMA TableNext == TableInv /\ [Next]_vars => TableInv'
<1> SUFFICES ASSUME TableInv, [Next]_vars PROVE TableInv'
  OBVIOUS
<1>0. TypeInv' /\ TypeOK
  BY TypeNext DEF TableInv, TypeInv
<1> USE DEF TableInv, TableFits
<1>1. ASSUME NEW f \in Files, NEW addr_base \in AddrBases, BundlesInit(f, addr_base)
      PROVE  TableInv'
  BY <1>0, <1>1 DEF BundlesInit
<1>2. CASE FileMissing
  BY <1>0, <1>2 DEF FileMissing, table, parser
<1>3. CASE ReadStart
  <2>1. line' > 0
    BY <1>0, <1>3, MoreLines, Zenon DEF ReadStart
  <2> QED BY <1>0, <1>3, <2>1 DEF ReadStart, ReadLine, table
<1>4. CASE SkipLine
  <2>1. \E key : ReadLine(key)
    BY <1>4, Zenon DEF SkipLine
  <2>2. line' > 0 /\ phase = "parsing"
    BY <1>0, <2>1, MoreLines DEF ReadLine
  <2> QED BY <1>0, <1>4, <2>2 DEF SkipLine, table
<1>5. CASE StoreBundle
  <2>0. ReadLine("end_pc") /\ phase' = phase
    BY <1>5 DEF StoreBundle, ReadEnd
  <2>1. line' # 0 /\ phase = "parsing"
    BY <1>0, <2>0, MoreLines DEF ReadLine
  <2>2. Len(g_bundles) \in Nat /\ g_capacity \in Nat /\ allocated = g_capacity
    BY <1>0, <2>1 DEF TypeOK
  <2>3. Len(g_bundles) + 1 <= g_capacity' /\ allocated' = g_capacity'
    BY <1>5, <2>2, ReplayAssumption DEF StoreBundle, TableFull
  <2>4. Len(g_bundles') <= allocated'
    BY <1>0, <1>5, <2>3, StoredBundle
  <2> QED BY <1>0, <2>0, <2>1, <2>3, <2>4
<1>6. CASE StoreFails
  <2>1. g_bundles' = <<>> /\ phase' = "failed" /\ allocated' = 0
    BY <1>6 DEF StoreFails
  <2>2. Len(g_bundles') <= allocated'
    BY <2>1
  <2> QED BY <1>0, <2>1, <2>2, Zenon
<1>7. CASE EndOfFile
  BY <1>0, <1>7 DEF EndOfFile, table, parser
<1>8. CASE BundlesFree
  BY <1>0, <1>8 DEF BundlesFree
<1>9. ASSUME NEW pc \in Pcs, NEW use_madvise \in BOOLEAN, NEW do_prefetch_lines \in BOOLEAN,
             PrefetchForPc(pc, use_madvise, do_prefetch_lines)
      PROVE  TableInv'
  BY <1>0, <1>9 DEF PrefetchForPc, table, parser
<1>10. CASE UNCHANGED vars
  BY <1>0, <1>10 DEF vars, table, parser
<1> QED BY <1>1, <1>2, <1>3, <1>4, <1>5, <1>6, <1>7, <1>8, <1>9, <1>10, StepCases

\* No file, however long, and no sequence of bundles_init, failed growth and
\* bundles_free makes the parser write past the array it has, also when a failed
\* growth has left g_capacity behind; and no array is left by a load that failed.
THEOREM TableNeverOverflows == Spec => []TableFits
<1>1. TableInv => TableFits
  BY DEF TableInv
<1> QED BY <1>1, TableInit, TableNext, PTL DEF Spec

-----------------------------------------------------------------------------
(* What a call finds *)

\* FindBundle is the first bundle that contains pc.
LEMMA FindBundleFirst ==
    ASSUME g_bundles \in Seq(Bundle), NEW pc
    PROVE  /\ FindBundle(pc) # 0 =>
                 /\ FindBundle(pc) \in DOMAIN g_bundles
                 /\ InBundle(g_bundles[FindBundle(pc)], pc)
           /\ \A n \in DOMAIN g_bundles : InBundle(g_bundles[n], pc) => FindBundle(pc) # 0
<1> DEFINE I == {n \in 1 .. Len(g_bundles) : InBundle(g_bundles[n], pc)}
<1>1. FindBundle(pc) = IF I # {} THEN Min(I) ELSE 0
  BY DEF FindBundle, SelectInSeq
<1>2. I \in SUBSET Nat
  OBVIOUS
<1>3. I # {} => Min(I) \in I
  BY <1>2, MinOfNats, Zenon
<1>4. \A n \in DOMAIN g_bundles : InBundle(g_bundles[n], pc) => n \in I
  OBVIOUS
<1>5. \A n \in I : n # 0 /\ n \in DOMAIN g_bundles /\ InBundle(g_bundles[n], pc)
  OBVIOUS
<1> HIDE DEF I
<1>6. CASE I = {}
  BY <1>1, <1>4, <1>6
<1>7. CASE I # {}
  <2>1. FindBundle(pc) = Min(I) /\ Min(I) \in I
    BY <1>1, <1>3, <1>7
  <2> QED BY <1>5, <2>1
<1> QED BY <1>6, <1>7

LEMMA SameTableSameBundle ==
    ASSUME UNCHANGED g_bundles, NEW pc
    PROVE  FindBundle(pc)' = FindBundle(pc)
BY DEF FindBundle, InBundle, SelectInSeq

\* The pages of an entry are those of its addresses, and what the last call gave
\* is what the table would give now.
AlignedInv ==
    \A n \in DOMAIN g_bundles :
        /\ g_bundles[n].start_page = StartPage(g_bundles[n].start_pc)
        /\ g_bundles[n].end_page = EndPage(g_bundles[n].end_pc)
LastInv ==
    last # NoCall =>
        /\ last.found = FindBundle(last.pc)
        /\ last.found # 0 /\ last.use_madvise => last.pages = Pages(g_bundles[last.found])
        /\ last.lines # {} => last.found # 0 /\ last.lines = PrefetchLines(g_bundles[last.found])
AnswerInv == TypeInv /\ AlignedInv /\ LastInv

LEMMA LastKept ==
    ASSUME LastInv, UNCHANGED <<g_bundles, last>>
    PROVE  LastInv'
<1>1. FindBundle(last.pc)' = FindBundle(last.pc)
  BY SameTableSameBundle DEF FindBundle, SelectInSeq, InBundle
<1> QED BY <1>1 DEF LastInv, NoCall, Pages, PrefetchLines

LEMMA AlignedStep ==
    ASSUME TypeInv, AlignedInv, [Next]_vars
    PROVE  AlignedInv'
<1>1. CASE StoreBundle
  <2> DEFINE end == (NextValue + g_addr_base) % AddrSpace
             b == [start_pc |-> cur_start, end_pc |-> end,
                   start_page |-> StartPage(cur_start), end_page |-> EndPage(end)]
  <2>1. g_bundles' = Append(g_bundles, b) /\ g_bundles \in Seq(Bundle)
    BY <1>1 DEF StoreBundle, TypeInv, TypeOK
  <2>2. b.start_page = StartPage(b.start_pc) /\ b.end_page = EndPage(b.end_pc)
    OBVIOUS
  <2> HIDE DEF b
  <2>3. ASSUME NEW n \in DOMAIN g_bundles'
        PROVE  (n \in DOMAIN g_bundles /\ g_bundles'[n] = g_bundles[n]) \/ g_bundles'[n] = b
    BY <2>1
  <2> QED BY <2>2, <2>3 DEF AlignedInv, StartPage, EndPage
<1>2. CASE g_bundles' = <<>>
  BY <1>2 DEF AlignedInv
<1>3. CASE g_bundles' = g_bundles
  BY <1>3 DEF AlignedInv, StartPage, EndPage
<1> QED BY <1>1, <1>2, <1>3, StepCases, Zenon
     DEF BundlesInit, FileMissing, ReadStart, SkipLine, StoreFails, EndOfFile, BundlesFree,
         PrefetchForPc, vars, table

LEMMA LastStep ==
    ASSUME TypeInv, LastInv, [Next]_vars
    PROVE  LastInv'
<1>1. ASSUME NEW pc \in Pcs, NEW use_madvise \in BOOLEAN, NEW do_prefetch_lines \in BOOLEAN,
             PrefetchForPc(pc, use_madvise, do_prefetch_lines)
      PROVE  LastInv'
  <2>1. g_bundles' = g_bundles
    BY <1>1 DEF PrefetchForPc, table
  <2>2. /\ last'.pc = pc
        /\ last'.found = FindBundle(pc)
        /\ last'.use_madvise = use_madvise
        /\ FindBundle(pc) # 0 /\ use_madvise => last'.pages = Pages(g_bundles[FindBundle(pc)])
        /\ \/ last'.lines = {}
           \/ FindBundle(pc) # 0 /\ last'.lines = PrefetchLines(g_bundles[FindBundle(pc)])
    BY <1>1 DEF PrefetchForPc
  <2>3. FindBundle(pc)' = FindBundle(pc)
    BY <2>1, SameTableSameBundle
  <2> QED BY <2>1, <2>2, <2>3 DEF LastInv, Pages, PrefetchLines
<1>2. CASE StoreBundle \/ StoreFails
  <2>1. phase = "parsing" /\ last' = last
    BY <1>2 DEF StoreBundle, StoreFails, ReadEnd, ReadLine
  <2> QED BY <2>1 DEF TypeInv, LastInv, NoCall
<1>3. CASE last' = NoCall
  BY <1>3 DEF LastInv, NoCall
<1>4. CASE UNCHANGED <<g_bundles, last>>
  BY <1>4, LastKept
<1> QED BY <1>1, <1>2, <1>3, <1>4, StepCases, Zenon
     DEF BundlesInit, FileMissing, ReadStart, SkipLine, EndOfFile, BundlesFree, vars, table

\* A call's answer stays what the table would answer: every step that changes the
\* table forgets the call, and start_page and end_page are always those of
\* start_pc and end_pc.
THEOREM AnswersComeFromTheTable == Spec => []AnswerInv
<1>1. Init => AnswerInv
  BY TypeInit DEF Init, AnswerInv, AlignedInv, LastInv
<1>2. AnswerInv /\ [Next]_vars => AnswerInv'
  BY TypeNext, AlignedStep, LastStep DEF AnswerInv
<1> QED BY <1>1, <1>2, PTL DEF Spec

-----------------------------------------------------------------------------
(* Pages *)

\* PageOf(a) is the multiple of PageSize at or below a, and the only one.
LEMMA PageOfIs ==
    ASSUME NEW a \in Nat
    PROVE  /\ a \div PageSize \in Nat /\ PageOf(a) = PageSize * (a \div PageSize)
           /\ PageOf(a) \in Nat /\ PageOf(a) <= a /\ a < PageOf(a) + PageSize
<1>1. PageSize \in Nat \ {0}
  BY ReplayAssumption
<1>2. /\ a \div PageSize \in Nat /\ a % PageSize \in Nat /\ a % PageSize < PageSize
      /\ a = PageSize * (a \div PageSize) + (a % PageSize)
      /\ PageSize * (a \div PageSize) \in Nat
  BY <1>1, Quotient
<1>3. (a \div PageSize) * PageSize = PageSize * (a \div PageSize)
  BY <1>1, <1>2
<1> QED BY <1>1, <1>2, <1>3 DEF PageOf

\* madvise_range's loop over the pages from start_page up to end_page reaches the
\* page of every address of the range, but not a page that begins at its end.
LEMMA PagesOfRange ==
    ASSUME NEW s \in Addresses, NEW e \in Addresses, s <= e, e + PageSize <= AddrSpace,
           NEW b, b.start_page = StartPage(s), b.end_page = EndPage(e)
    PROVE  Pages(b) = {PageOf(a) : a \in s .. e} \ {e}
<1> DEFINE top == e + PageSize - 1
           k0 == s \div PageSize
           k1 == top \div PageSize
<1>0. PageSize \in Nat \ {0} /\ s \in Nat /\ e \in Nat /\ AddrSpace \in Nat \ {0}
  BY ReplayAssumption DEF Addresses
<1>1. /\ k0 \in Nat /\ StartPage(s) = PageSize * k0 /\ StartPage(s) \in Nat
      /\ StartPage(s) <= s /\ s < StartPage(s) + PageSize
  BY <1>0, PageOfIs, Zenon DEF PageOf, StartPage
<1>2. top \in Nat /\ top < AddrSpace
  BY <1>0
<1>3. top % AddrSpace = top
  <2> HIDE DEF top
  <2> QED BY <1>0, <1>2
<1>4. /\ k1 \in Nat /\ EndPage(e) = PageSize * k1 /\ EndPage(e) \in Nat
      /\ EndPage(e) <= top /\ top < EndPage(e) + PageSize
  BY <1>2, <1>3, PageOfIs, Zenon DEF PageOf, EndPage
<1>5. e <= EndPage(e)
  BY <1>0, <1>4
<1> HIDE DEF top, k0, k1
<1>6. ASSUME NEW p \in Pages(b)
      PROVE  p \in {PageOf(a) : a \in s .. e} \ {e}
  <2> DEFINE m == (p - StartPage(s)) \div PageSize
  <2>1. /\ p \in StartPage(s) .. EndPage(e) - 1 /\ (p - StartPage(s)) % PageSize = 0
        /\ p \in Nat /\ p - StartPage(s) \in Nat
    BY <1>1, <1>4 DEF Pages
  <2>2. m \in Nat /\ p - StartPage(s) = PageSize * m
    BY <1>0, <2>1, Quotient
  <2> HIDE DEF m
  <2>3. PageSize * (k0 + m) = PageSize * k0 + PageSize * m
    BY <1>0, <1>1, <2>2
  <2>4. p = PageSize * (k0 + m)
    BY <1>0, <1>1, <2>1, <2>2, <2>3
  <2>5. p + PageSize <= EndPage(e)
    <3>1. k0 + m \in Nat /\ PageSize * (k0 + m) < PageSize * k1
      BY <1>1, <1>4, <2>1, <2>2, <2>4
    <3>2. k0 + m < k1
      BY <1>0, <1>4, <3>1, TimesLess
    <3>3. PageSize * (k0 + m) + PageSize <= PageSize * k1
      BY <1>0, <1>4, <3>1, <3>2, TimesLess
    <3> QED BY <1>4, <2>4, <3>3
  <2>6. p < e
    BY <1>0, <1>4, <2>1, <2>5 DEF top
  <2>7. CASE p >= s
    <3>1. (PageSize * (k0 + m) + 0) \div PageSize = k0 + m
      BY <1>0, <1>1, <2>2, Division
    <3>2. PageSize * (k0 + m) + 0 = p
      BY <2>1, <2>4
    <3>3. PageOf(p) = p
      BY <2>1, <2>4, <3>1, <3>2, PageOfIs
    <3> QED BY <1>0, <2>1, <2>6, <2>7, <3>3
  <2>8. CASE p < s
    <3>1. PageSize * m < PageSize * 1
      BY <1>0, <1>1, <2>1, <2>2, <2>8
    <3>2. m < 1
      BY <1>0, <2>2, <3>1, TimesLess
    <3>3. p = StartPage(s)
      BY <1>0, <1>1, <2>1, <2>2, <3>2
    <3>4. PageOf(s) = p
      BY <3>3 DEF PageOf, StartPage
    <3> QED BY <1>0, <2>1, <2>6, <3>4
  <2> QED BY <1>0, <2>1, <2>7, <2>8
<1>7. ASSUME NEW a \in s .. e, PageOf(a) # e
      PROVE  PageOf(a) \in Pages(b)
  <2> DEFINE k == a \div PageSize
             p == PageOf(a)
  <2>0. a \in Nat /\ s <= a /\ a <= e
    BY <1>0
  <2>1. k \in Nat /\ p = PageSize * k /\ p \in Nat /\ p <= a /\ a < p + PageSize
    BY <2>0, PageOfIs
  <2> HIDE DEF k, p
  <2>2. p < e
    BY <1>0, <1>7, <2>0, <2>1 DEF p
  <2>3. k0 <= k
    <3>1. CASE k < k0
      <4>1. PageSize * k + PageSize <= PageSize * k0
        BY <1>0, <1>1, <2>1, <3>1, TimesLess
      <4> QED BY <1>0, <1>1, <2>0, <2>1, <4>1
    <3> QED BY <1>1, <2>1, <3>1
  <2>4. k - k0 \in Nat /\ PageSize * k = PageSize * k0 + PageSize * (k - k0)
    BY <1>0, <1>1, <2>1, <2>3
  <2>5. PageSize * (k - k0) \in Nat
    BY <1>0, <2>4, TimesLess
  <2>6. p - StartPage(s) = PageSize * (k - k0) + 0
    BY <1>0, <1>1, <2>1, <2>4, <2>5
  <2>7. (PageSize * (k - k0) + 0) % PageSize = 0
    BY <1>0, <2>4, Division
  <2>8. p \in StartPage(s) .. EndPage(e) - 1
    BY <1>0, <1>1, <1>4, <1>5, <2>1, <2>2, <2>5, <2>6
  <2> QED BY <2>6, <2>7, <2>8 DEF Pages, p
<1> QED BY <1>6, <1>7

\* The bundle a call has found is in the table, and has the pc in its range.
LEMMA FoundBundle ==
    ASSUME AnswerInv, last.found # 0
    PROVE  /\ last # NoCall /\ last.found \in DOMAIN g_bundles
           /\ g_bundles[last.found] \in Bundle
           /\ g_bundles[last.found].start_pc <= g_bundles[last.found].end_pc
<1>1. last # NoCall
  BY DEF NoCall
<1>2. last.found = FindBundle(last.pc) /\ g_bundles \in Seq(Bundle)
  BY <1>1 DEF AnswerInv, LastInv, TypeInv, TypeOK
<1>3. last.found \in DOMAIN g_bundles /\ InBundle(g_bundles[last.found], last.pc)
  BY <1>2, FindBundleFirst
<1>4. g_bundles[last.found] \in Bundle
  BY <1>2, <1>3
<1>5. last.pc \in Nat
  <2>1. last.pc \in Pcs \cup {AddrSpace}
    BY DEF AnswerInv, TypeInv, TypeOK
  <2>2. last.pc \in 0 .. AddrSpace - 1 \/ last.pc = AddrSpace
    BY <2>1, ReplayAssumption, Zenon
  <2>3. AddrSpace \in Nat
    BY ReplayAssumption
  <2> QED BY <2>2, <2>3
<1> QED BY <1>1, <1>3, <1>4, <1>5, ReplayAssumption DEF InBundle, Bundle, Addresses

\* For every page size and address space, madvise is given the page of every
\* address of the bundle and no other, except a page that begins at end_pc.
THEOREM BundleIsAdvised == Spec => []AdvisesTheBundle
<1>1. AnswerInv => AdvisesTheBundle
  <2> SUFFICES ASSUME AnswerInv, last.found # 0, last.use_madvise,
                      g_bundles[last.found].end_pc + PageSize <= AddrSpace
               PROVE  last.pages = {PageOf(a) : a \in g_bundles[last.found].start_pc
                                                    .. g_bundles[last.found].end_pc}
                                   \ {g_bundles[last.found].end_pc}
    BY DEF AdvisesTheBundle
  <2> DEFINE b == g_bundles[last.found]
  <2>1. /\ last # NoCall /\ last.found \in DOMAIN g_bundles
        /\ b \in Bundle /\ b.start_pc <= b.end_pc
    BY FoundBundle
  <2>2. b.start_page = StartPage(b.start_pc) /\ b.end_page = EndPage(b.end_pc)
    BY <2>1 DEF AnswerInv, AlignedInv
  <2>3. last.pages = Pages(b)
    BY <2>1 DEF AnswerInv, LastInv
  <2>4. b.start_pc \in Addresses /\ b.end_pc \in Addresses
    BY <2>1 DEF Bundle
  <2>5. b.end_pc + PageSize <= AddrSpace
    OBVIOUS
  <2> HIDE DEF b
  <2>6. Pages(b) = {PageOf(a) : a \in b.start_pc .. b.end_pc} \ {b.end_pc}
    BY <2>1, <2>2, <2>4, <2>5, PagesOfRange
  <2> QED BY <2>3, <2>6 DEF b
<1> QED BY <1>1, AnswersComeFromTheTable, PTL

-----------------------------------------------------------------------------
(* Lines *)

\* prefetch_lines_in_range's samples of a range of at least Lines addresses are
\* Lines different addresses of the range.
LEMMA LinesOfRange ==
    ASSUME NEW b \in Bundle, b.end_pc - b.start_pc >= Lines
    PROVE  /\ PrefetchLines(b) \subseteq b.start_pc .. b.end_pc - 1
           /\ Cardinality(PrefetchLines(b)) = Lines
<1> DEFINE s == b.start_pc
           e == b.end_pc
           share == (e - s) \div Lines
           sample == [n \in 0 .. Lines - 1 |-> s + n * share]
<1>0. /\ s \in Nat /\ e \in Nat /\ e < AddrSpace /\ AddrSpace \in Nat
      /\ Lines \in Nat \ {0} /\ e - s \in Nat /\ e - s >= Lines
  BY ReplayAssumption DEF Bundle, Addresses
<1> HIDE DEF s, e
<1>1. share \in Nat /\ Lines * share <= e - s /\ share # 0
  <2>1. /\ share \in Nat /\ (e - s) % Lines \in Nat /\ (e - s) % Lines < Lines
        /\ e - s = Lines * share + ((e - s) % Lines) /\ Lines * share \in Nat
    BY <1>0, Quotient
  <2> HIDE DEF share
  <2>2. share = 0 => Lines * share = 0
    BY <1>0
  <2> QED BY <1>0, <2>1, <2>2
<1> HIDE DEF share
<1>2. ASSUME NEW n \in 0 .. Lines - 1
      PROVE  /\ n * share \in Nat
             /\ s + n * share \in s .. e - 1
             /\ (s + n * share) % AddrSpace = s + n * share
  <2>1. n \in Nat /\ n < Lines /\ share \in Nat \ {0}
    BY <1>0, <1>1
  <2>2. n * share = share * n /\ share * Lines = Lines * share
    BY <1>0, <2>1
  <2>3. share * n \in Nat /\ share * n + share <= share * Lines
    BY <1>0, <2>1, TimesLess
  <2>4. s + n * share \in s .. e - 1 /\ n * share \in Nat
    BY <1>0, <1>1, <2>1, <2>2, <2>3
  <2>5. s + n * share \in Nat /\ s + n * share < AddrSpace
    BY <1>0, <2>4
  <2>6. \A a \in Nat : a < AddrSpace => a % AddrSpace = a
    BY <1>0
  <2> QED BY <2>4, <2>5, <2>6
<1>3. PrefetchLines(b) = {s + n * share : n \in 0 .. Lines - 1}
  <2>1. PrefetchLines(b) = {(s + n * share) % AddrSpace : n \in 0 .. Lines - 1}
    <3>1. ~(b.end_pc <= b.start_pc) /\ share # 0
      BY <1>0, <1>1 DEF s, e
    <3> QED BY <3>1, Zenon DEF PrefetchLines, share, s, e
  <2> QED BY <1>2, <2>1
<1>4. ASSUME NEW m \in 0 .. Lines - 1, NEW n \in 0 .. Lines - 1, m < n
      PROVE  s + m * share # s + n * share
  <2>1. m \in Nat /\ n \in Nat /\ share \in Nat \ {0}
    BY <1>0, <1>1
  <2>2. m * share = share * m /\ n * share = share * n
    BY <2>1
  <2>3. share * m + share <= share * n /\ share * m \in Nat /\ share * n \in Nat
    BY <1>4, <2>1, TimesLess
  <2> QED BY <1>0, <2>1, <2>2, <2>3
<1>5. Cardinality(PrefetchLines(b)) = Lines
  <2>1. sample \in [0 .. Lines - 1 -> PrefetchLines(b)]
    BY <1>3
  <2>2. \A m, n \in 0 .. Lines - 1 : sample[m] = sample[n] => m = n
    <3> TAKE m, n \in 0 .. Lines - 1
    <3>1. m < n \/ n < m \/ m = n
      BY <1>0
    <3> QED BY <1>4, <3>1
  <2>3. \A a \in PrefetchLines(b) : \E n \in 0 .. Lines - 1 : sample[n] = a
    BY <1>3
  <2> HIDE DEF sample
  <2>4. sample \in Bijection(0 .. Lines - 1, PrefetchLines(b))
    BY <2>1, <2>2, <2>3 DEF Bijection, Injection, Surjection, IsInjective
  <2>5. IsFiniteSet(0 .. Lines - 1) /\ Cardinality(0 .. Lines - 1) = Lines
    BY <1>0, FS_Interval
  <2> QED BY <2>4, <2>5, FS_Bijection DEF ExistsBijection
<1> QED BY <1>2, <1>3, <1>5 DEF s, e

\* For every number of lines and size of the address space, the lines prefetched
\* of a bundle with an address for each are different and inside it.
THEOREM LinesAreInBundle == Spec => []LinesInBundle
<1>1. AnswerInv => LinesInBundle
  <2> SUFFICES ASSUME AnswerInv, last.lines # {}
               PROVE  LET b == g_bundles[last.found]
                      IN  b.end_pc - b.start_pc >= Lines =>
                            /\ last.lines \subseteq b.start_pc .. b.end_pc - 1
                            /\ Cardinality(last.lines) = Lines
    BY DEF LinesInBundle
  <2>1. last # NoCall
    BY DEF NoCall
  <2>2. last.found # 0 /\ last.lines = PrefetchLines(g_bundles[last.found])
    BY <2>1 DEF AnswerInv, LastInv
  <2>3. g_bundles[last.found] \in Bundle
    BY <2>2, FoundBundle
  <2> QED BY <2>2, <2>3, LinesOfRange
<1> QED BY <1>1, AnswersComeFromTheTable, PTL

-----------------------------------------------------------------------------
(* What the parser has stored *)

\* The files the parser of bundles_pc.json reads right: of each entry the line of
\* "start_pc" comes before the one of "end_pc", and its number is readable.  (After
\* an unreadable end an unreadable start would leave the start of the entry before.)
StartBeforeEnd(S, E) ==
    /\ S \in DOMAIN KeyOrder /\ E \in DOMAIN KeyOrder /\ S < E
    /\ \A n \in DOMAIN KeyOrder :
          /\ KeyOrder[n] = "start_pc" <=> n = S
          /\ KeyOrder[n] = "end_pc" <=> n = E
StartsReadable == \A f \in Files : \A n \in DOMAIN f : f[n]["start_pc"] # Unreadable

\* The entry the next line is in, and the number of its lines that have been read.
Entry == line \div LinesPerEntry + 1
Offset == line % LinesPerEntry

\* The "end_pc" line of entry n has been read.
Ended(n, E) == n < Entry \/ (n = Entry /\ E <= Offset)
Stored == {RangeOf(g_bundles[n]) : n \in DOMAIN g_bundles}
Complete(E) == {n \in DOMAIN file : Ended(n, E) /\ file[n]["end_pc"] # Unreadable}

\* The table holds the entries whose ends have been read; between its two lines an
\* entry's start is the current one.
ParsedInv(S, E) ==
    /\ phase \in {"parsing", "ready"} => Stored = {Relocated(file[n]) : n \in Complete(E)}
    /\ phase = "parsing" /\ S <= Offset /\ Offset < E =>
          have_start /\ cur_start = Relocated(file[Entry]).start_pc
    /\ phase = "ready" => line = Len(file) * LinesPerEntry

LEMMA KeyPlaces ==
    ASSUME NEW S, NEW E, StartBeforeEnd(S, E)
    PROVE  /\ LinesPerEntry \in Nat \ {0}
           /\ S \in 1 .. LinesPerEntry /\ E \in 1 .. LinesPerEntry /\ S < E
<1>1. KeyOrder \in Seq(STRING)
  BY ReplayAssumption
<1>2. DOMAIN KeyOrder = 1 .. Len(KeyOrder) /\ Len(KeyOrder) \in Nat
  BY <1>1
<1> QED BY <1>2 DEF StartBeforeEnd, LinesPerEntry

\* Where a line takes the parser.
LEMMA LineAdvances ==
    ASSUME TypeOK, NEW S, NEW E, StartBeforeEnd(S, E), NEW key, ReadLine(key)
    PROVE  /\ Entry \in DOMAIN file /\ Offset + 1 \in DOMAIN KeyOrder
           /\ KeyOrder[Offset + 1] = key
           /\ NextValue = file[Entry][key]
           /\ Entry \in Nat /\ Offset \in Nat
           /\ \A n \in Nat : Ended(n, E)' <=> Ended(n, E) \/ (n = Entry /\ Offset + 1 = E)
           /\ S <= Offset' /\ Offset' < E =>
                 /\ Entry' = Entry /\ Offset + 1 # E
                 /\ Offset + 1 = S \/ (S <= Offset /\ Offset < E)
<1>0. LinesPerEntry \in Nat \ {0} /\ S \in 1 .. LinesPerEntry /\ E \in 1 .. LinesPerEntry /\ S < E
  BY KeyPlaces
<1>1. FileType /\ line \in Nat /\ line < Len(file) * LinesPerEntry /\ Len(file) \in Nat
  BY <1>0, FileIsTyped DEF TypeOK, ReadLine, FileType
<1>2. line \div LinesPerEntry \in Nat /\ line \div LinesPerEntry < Len(file)
  BY <1>0, <1>1, LineOfEntry
<1>3. Offset \in Nat /\ Offset < LinesPerEntry
  BY <1>0, <1>1, Quotient DEF Offset
<1>4. Entry \in Nat /\ Entry \in DOMAIN file
  BY <1>1, <1>2 DEF Entry, FileType
<1>5. Offset + 1 \in DOMAIN KeyOrder
  <2>1. DOMAIN KeyOrder = 1 .. LinesPerEntry
    BY ReplayAssumption DEF LinesPerEntry
  <2> QED BY <1>0, <1>3, <2>1
<1>6. KeyOrder[Offset + 1] = key /\ NextValue = file[Entry][key]
  BY Zenon DEF ReadLine, NextKey, NextValue, Entry, Offset
<1>7. \/ Offset + 1 < LinesPerEntry /\ Entry' = Entry /\ Offset' = Offset + 1
      \/ Offset + 1 = LinesPerEntry /\ Entry' = Entry + 1 /\ Offset' = 0
  <2>1. line' = line + 1 /\ LinesPerEntry' = LinesPerEntry
    BY DEF ReadLine, LinesPerEntry
  <2>2. \/ /\ (line % LinesPerEntry) + 1 < LinesPerEntry
           /\ (line + 1) \div LinesPerEntry = line \div LinesPerEntry
           /\ (line + 1) % LinesPerEntry = (line % LinesPerEntry) + 1
        \/ /\ (line % LinesPerEntry) + 1 = LinesPerEntry
           /\ (line + 1) \div LinesPerEntry = line \div LinesPerEntry + 1
           /\ (line + 1) % LinesPerEntry = 0
    BY <1>0, <1>1, NextQuotient
  <2> QED BY <2>1, <2>2, Zenon DEF Entry, Offset
<1> HIDE DEF Entry, Offset
<1>8. ASSUME NEW n \in Nat
      PROVE  Ended(n, E)' <=> Ended(n, E) \/ (n = Entry /\ Offset + 1 = E)
  BY <1>0, <1>3, <1>4, <1>7 DEF Ended
<1>9. S <= Offset' /\ Offset' < E =>
         /\ Entry' = Entry /\ Offset + 1 # E
         /\ Offset + 1 = S \/ (S <= Offset /\ Offset < E)
  BY <1>0, <1>3, <1>7
<1> QED BY <1>3, <1>4, <1>5, <1>6, <1>8, <1>9

\* A line that completes no entry with a readable end leaves the table complete.
LEMMA CompleteKept ==
    ASSUME TypeOK, NEW S, NEW E, StartBeforeEnd(S, E), NEW key, ReadLine(key),
           UNCHANGED <<file, g_addr_base>>,
           Offset + 1 = E => NextValue = Unreadable
    PROVE  /\ Complete(E)' = Complete(E)
           /\ {Relocated(file[n]) : n \in Complete(E)}' = {Relocated(file[n]) : n \in Complete(E)}
<1>1. DOMAIN file \in SUBSET Nat
  BY FileIsTyped DEF FileType
<1>2. /\ KeyOrder[Offset + 1] = key /\ Offset + 1 \in DOMAIN KeyOrder
      /\ NextValue = file[Entry][key]
      /\ \A n \in Nat : Ended(n, E)' <=> Ended(n, E) \/ (n = Entry /\ Offset + 1 = E)
  BY LineAdvances, Zenon
<1>3. Offset + 1 = E => file[Entry]["end_pc"] = Unreadable
  BY <1>2 DEF StartBeforeEnd
<1>4. \A n \in DOMAIN file : file[n]["end_pc"] # Unreadable => (Ended(n, E)' <=> Ended(n, E))
  BY <1>1, <1>2, <1>3
<1>5. Complete(E)' = Complete(E)
  BY <1>4, Zenon DEF Complete
<1>6. \A n \in Complete(E) : Relocated(file[n])' = Relocated(file[n])
  BY DEF Relocated
<1> QED BY <1>5, <1>6, Zenon DEF Relocated

LEMMA ParsedReadStart ==
    ASSUME TypeInv, NEW S, NEW E, StartBeforeEnd(S, E), ParsedInv(S, E), ReadStart
    PROVE  ParsedInv(S, E)'
<1>1. /\ ReadLine("start_pc") /\ phase = "parsing" /\ TypeOK
      /\ UNCHANGED <<g_bundles, g_addr_base, file, phase>>
      /\ have_start' = TRUE /\ cur_start' = (NextValue + g_addr_base) % AddrSpace
  BY DEF ReadStart, ReadLine, table, TypeInv
<1>2. /\ KeyOrder[Offset + 1] = "start_pc" /\ Offset + 1 \in DOMAIN KeyOrder
      /\ NextValue = file[Entry]["start_pc"]
      /\ S <= Offset' /\ Offset' < E => Entry' = Entry
  BY <1>1, LineAdvances, Zenon
<1>3. Offset + 1 # E
  BY <1>2 DEF StartBeforeEnd
<1>4. {Relocated(file[n]) : n \in Complete(E)}' = {Relocated(file[n]) : n \in Complete(E)}
  BY <1>1, <1>3, CompleteKept, Zenon
<1>5. Stored' = Stored
  BY <1>1 DEF Stored, RangeOf
<1>6. Stored' = {Relocated(file[n]) : n \in Complete(E)}'
  BY <1>1, <1>4, <1>5 DEF ParsedInv
<1>7. Entry' = Entry => cur_start' = Relocated(file[Entry])'.start_pc
  BY <1>1, <1>2 DEF Relocated
<1>8. S <= Offset' /\ Offset' < E => have_start' /\ cur_start' = Relocated(file[Entry])'.start_pc
  BY <1>1, <1>2, <1>7
<1> QED BY <1>1, <1>6, <1>8, Zenon DEF ParsedInv

LEMMA ParsedSkip ==
    ASSUME TypeInv, NEW S, NEW E, StartBeforeEnd(S, E), StartsReadable, ParsedInv(S, E), SkipLine
    PROVE  ParsedInv(S, E)'
<1>1. /\ TypeOK /\ phase = "parsing"
      /\ UNCHANGED <<g_bundles, g_addr_base, file, phase, have_start, cur_start>>
  BY DEF SkipLine, ReadLine, table, TypeInv
<1> PICK key : /\ ReadLine(key)
               /\ \/ key \in ToSet(KeyOrder) \ {"start_pc", "end_pc"}
                  \/ key \in {"start_pc", "end_pc"} /\ NextValue = Unreadable
                  \/ key = "end_pc" /\ ~have_start
  BY Zenon DEF SkipLine
<1>2. /\ KeyOrder[Offset + 1] = key /\ Offset + 1 \in DOMAIN KeyOrder
      /\ NextValue = file[Entry][key] /\ Entry \in DOMAIN file /\ Offset \in Nat
      /\ S <= Offset' /\ Offset' < E =>
            Entry' = Entry /\ (Offset + 1 = S \/ (S <= Offset /\ Offset < E))
  BY <1>1, LineAdvances, Zenon
<1>3. key = "start_pc" <=> Offset + 1 = S
  BY <1>2, Zenon DEF StartBeforeEnd
<1>4. key = "end_pc" <=> Offset + 1 = E
  BY <1>2, Zenon DEF StartBeforeEnd
<1>5. key # "start_pc"
  <2> SUFFICES ASSUME key = "start_pc" PROVE FALSE
    OBVIOUS
  <2>1. NextValue = Unreadable
    OBVIOUS
  <2>2. file \in Files
    BY <1>1, <1>2 DEF TypeOK
  <2>3. file[Entry]["start_pc"] # Unreadable
    BY <1>2, <2>2 DEF StartsReadable
  <2> QED BY <1>2, <2>1, <2>3
<1>6. Offset + 1 = E => NextValue = Unreadable
  <2> SUFFICES ASSUME Offset + 1 = E, NextValue # Unreadable PROVE FALSE
    OBVIOUS
  <2>1. key = "end_pc" /\ ~have_start
    BY <1>4
  <2>2. S <= Offset /\ Offset < E
    BY <1>2, KeyPlaces
  <2> QED BY <1>1, <2>1, <2>2 DEF ParsedInv
<1>7. {Relocated(file[n]) : n \in Complete(E)}' = {Relocated(file[n]) : n \in Complete(E)}
  BY <1>1, <1>6, CompleteKept, Zenon
<1>8. Stored' = Stored
  BY <1>1 DEF Stored, RangeOf
<1>9. Stored' = {Relocated(file[n]) : n \in Complete(E)}'
  BY <1>1, <1>7, <1>8 DEF ParsedInv
<1>10. S <= Offset' /\ Offset' < E => have_start' /\ cur_start' = Relocated(file[Entry])'.start_pc
  <2> SUFFICES ASSUME S <= Offset', Offset' < E
               PROVE  have_start' /\ cur_start' = Relocated(file[Entry])'.start_pc
    OBVIOUS
  <2>1. Entry' = Entry /\ S <= Offset /\ Offset < E
    BY <1>2, <1>3, <1>5
  <2>2. have_start /\ cur_start = Relocated(file[Entry]).start_pc
    BY <1>1, <2>1 DEF ParsedInv
  <2>3. Relocated(file[Entry])' = Relocated(file[Entry])
    BY <1>1, <2>1 DEF Relocated
  <2> QED BY <1>1, <2>2, <2>3
<1> QED BY <1>1, <1>9, <1>10, Zenon DEF ParsedInv

LEMMA ParsedStore ==
    ASSUME TypeInv, NEW S, NEW E, StartBeforeEnd(S, E), StartsReadable, ParsedInv(S, E), StoreBundle
    PROVE  ParsedInv(S, E)'
<1> DEFINE end == (NextValue + g_addr_base) % AddrSpace
           b == [start_pc |-> cur_start, end_pc |-> end,
                 start_page |-> StartPage(cur_start), end_page |-> EndPage(end)]
<1>1. /\ TypeOK /\ phase = "parsing" /\ ReadLine("end_pc") /\ NextValue # Unreadable
      /\ UNCHANGED <<g_addr_base, file, phase>>
      /\ g_bundles' = Append(g_bundles, b) /\ g_bundles \in Seq(Bundle)
  BY DEF StoreBundle, ReadEnd, ReadLine, TypeInv, TypeOK
<1>2. /\ KeyOrder[Offset + 1] = "end_pc" /\ Offset + 1 \in DOMAIN KeyOrder
      /\ NextValue = file[Entry]["end_pc"] /\ Entry \in DOMAIN file /\ Offset \in Nat
      /\ \A n \in Nat : Ended(n, E)' <=> Ended(n, E) \/ (n = Entry /\ Offset + 1 = E)
      /\ S <= Offset' /\ Offset' < E =>
            Entry' = Entry /\ Offset + 1 # E
  BY <1>1, LineAdvances, Zenon
<1>3. Offset + 1 = E /\ S <= Offset /\ Offset < E /\ Offset + 1 # S
  <2>1. Offset + 1 = E
    BY <1>2 DEF StartBeforeEnd
  <2> QED BY <1>2, <2>1, KeyPlaces
<1>4. RangeOf(b) = Relocated(file[Entry])
  <2>1. cur_start = (file[Entry]["start_pc"] + g_addr_base) % AddrSpace
    BY <1>1, <1>3 DEF ParsedInv, Relocated
  <2> QED BY <1>2, <2>1 DEF RangeOf, Relocated
<1>5. Stored' = Stored \cup {Relocated(file[Entry])}
  <2> HIDE DEF b
  <2>1. /\ DOMAIN g_bundles' = DOMAIN g_bundles \cup {Len(g_bundles) + 1}
        /\ \A n \in DOMAIN g_bundles : g_bundles'[n] = g_bundles[n]
        /\ g_bundles'[Len(g_bundles) + 1] = b
    BY <1>1
  <2>2. Stored' = {RangeOf(g_bundles'[n]) : n \in DOMAIN g_bundles'}
    BY Zenon DEF Stored, RangeOf
  <2>3. Stored' = {RangeOf(g_bundles[n]) : n \in DOMAIN g_bundles} \cup {RangeOf(b)}
    BY <2>1, <2>2
  <2> QED BY <1>4, <2>3 DEF Stored
<1>6. Complete(E)' = Complete(E) \cup {Entry}
  <2>1. DOMAIN file \in SUBSET Nat
    BY <1>1, FileIsTyped DEF FileType
  <2>2. \A n \in DOMAIN file : Ended(n, E)' <=> Ended(n, E) \/ n = Entry
    BY <1>2, <1>3, <2>1
  <2>3. file[Entry]["end_pc"] # Unreadable
    BY <1>1, <1>2
  <2>4. Complete(E)' = {n \in DOMAIN file : Ended(n, E)' /\ file[n]["end_pc"] # Unreadable}
    BY <1>1, Zenon DEF Complete
  <2> QED BY <1>2, <2>2, <2>3, <2>4 DEF Complete
<1>7. {Relocated(file[n]) : n \in Complete(E)}'
        = {Relocated(file[n]) : n \in Complete(E)} \cup {Relocated(file[Entry])}
  <2>1. {Relocated(file[n]) : n \in Complete(E)}' = {Relocated(file[n]) : n \in Complete(E)'}
    BY <1>1, Zenon DEF Relocated
  <2> QED BY <1>6, <2>1
<1>8. Stored' = {Relocated(file[n]) : n \in Complete(E)}'
  BY <1>1, <1>5, <1>7 DEF ParsedInv
<1>9. ~(S <= Offset' /\ Offset' < E)
  BY <1>2, <1>3
<1> QED BY <1>1, <1>8, <1>9, Zenon DEF ParsedInv

\* At the end of the file every entry is complete.
LEMMA ParsedEnd ==
    ASSUME TypeInv, NEW S, NEW E, StartBeforeEnd(S, E), StartsReadable, ParsedInv(S, E),
           phase = "ready"
    PROVE  Stored = ReadableEntries
<1>1. LinesPerEntry \in Nat \ {0} /\ E \in Nat /\ E > 0
  BY KeyPlaces
<1>2. Len(file) \in Nat /\ DOMAIN file = 1 .. Len(file) /\ TypeOK
  BY FileIsTyped DEF FileType, TypeInv
<1>3. line = Len(file) * LinesPerEntry
  BY DEF ParsedInv
<1>4. line = LinesPerEntry * Len(file) + 0
  BY <1>1, <1>2, <1>3
<1>5. Entry = Len(file) + 1
  BY <1>1, <1>2, <1>4, Division DEF Entry
<1>6. \A n \in DOMAIN file : Ended(n, E)
  BY <1>2, <1>5 DEF Ended
<1>7. \A n \in DOMAIN file : file[n]["start_pc"] # Unreadable
  BY <1>2 DEF TypeOK, StartsReadable
<1>8. Stored = {Relocated(file[n]) : n \in {m \in DOMAIN file : file[m]["end_pc"] # Unreadable}}
  BY <1>6 DEF ParsedInv, Complete
<1>9. ReadableEntries = {Relocated(file[n]) : n \in {m \in DOMAIN file : file[m]["end_pc"] # Unreadable}}
  BY <1>7 DEF ReadableEntries, ToSet
<1> QED BY <1>8, <1>9

LEMMA ParsedStep ==
    ASSUME TypeInv, NEW S, NEW E, StartBeforeEnd(S, E), StartsReadable, ParsedInv(S, E),
           [Next]_vars
    PROVE  ParsedInv(S, E)'
<1>1. ASSUME NEW f \in Files, NEW addr_base \in AddrBases, BundlesInit(f, addr_base)
      PROVE  ParsedInv(S, E)'
  <2>1. g_bundles' = <<>> /\ line' = 0 /\ phase' = "parsing" /\ file' = f /\ LinesPerEntry' = LinesPerEntry
    BY <1>1 DEF BundlesInit, LinesPerEntry
  <2>2. LinesPerEntry \in Nat \ {0} /\ S \in Nat \ {0} /\ E \in Nat \ {0}
    BY KeyPlaces
  <2>3. LinesPerEntry * 0 + 0 = 0
    BY <2>2
  <2>4. 0 \div LinesPerEntry = 0 /\ 0 % LinesPerEntry = 0
    BY <2>2, <2>3, Division
  <2>5. Entry' = 1 /\ Offset' = 0
    BY <2>1, <2>4 DEF Entry, Offset
  <2>6. DOMAIN f \in SUBSET (Nat \ {0})
    <3>1. DOMAIN f = 1 .. Len(f) /\ Len(f) \in Nat
      BY ReplayAssumption
    <3> QED BY <3>1
  <2>7. Complete(E)' = {}
    BY <2>1, <2>2, <2>5, <2>6 DEF Complete, Ended
  <2>8. Stored' = {}
    BY <2>1 DEF Stored
  <2>9. Stored' = {Relocated(file[n]) : n \in Complete(E)}'
    BY <2>7, <2>8 DEF Relocated
  <2> QED BY <2>1, <2>2, <2>5, <2>9 DEF ParsedInv
<1>2. CASE ReadStart
  BY <1>2, ParsedReadStart
<1>3. CASE SkipLine
  BY <1>3, ParsedSkip
<1>4. CASE StoreBundle
  BY <1>4, ParsedStore
<1>5. CASE FileMissing \/ StoreFails \/ BundlesFree
  <2>1. phase' \in {"failed", "freed"}
    BY <1>5 DEF FileMissing, StoreFails, BundlesFree
  <2> QED BY <2>1 DEF ParsedInv
<1>6. ASSUME UNCHANGED <<g_bundles, g_addr_base, parser>>,
             phase' = phase \/ (phase = "parsing" /\ phase' = "ready"
                                 /\ line = Len(file) * LinesPerEntry)
      PROVE  ParsedInv(S, E)'
  <2>1. UNCHANGED <<g_bundles, g_addr_base, file, line, have_start, cur_start>>
    BY <1>6 DEF parser
  <2>2. Stored' = Stored /\ Complete(E)' = Complete(E) /\ Entry' = Entry /\ Offset' = Offset
    BY <2>1 DEF Stored, RangeOf, Complete, Ended, Entry, Offset, LinesPerEntry
  <2>3. /\ {Relocated(file[n]) : n \in Complete(E)}' = {Relocated(file[n]) : n \in Complete(E)}
        /\ Relocated(file[Entry])' = Relocated(file[Entry])
        /\ LinesPerEntry' = LinesPerEntry
    BY <2>1, <2>2 DEF Relocated, LinesPerEntry
  <2> QED BY <1>6, <2>1, <2>2, <2>3 DEF ParsedInv
<1>7. CASE EndOfFile
  BY <1>6, <1>7 DEF EndOfFile, table
<1>8. ASSUME NEW pc \in Pcs, NEW use_madvise \in BOOLEAN, NEW do_prefetch_lines \in BOOLEAN,
             PrefetchForPc(pc, use_madvise, do_prefetch_lines)
      PROVE  ParsedInv(S, E)'
  BY <1>6, <1>8 DEF PrefetchForPc, table
<1>9. CASE UNCHANGED vars
  BY <1>6, <1>9 DEF vars, table
<1> QED BY <1>1, <1>2, <1>3, <1>4, <1>5, <1>7, <1>8, <1>9, StepCases

\* When the keys of an entry come in the order start_pc, end_pc, and the starts can
\* be read, a call finds a bundle exactly when an entry of the file contains its
\* pc, and the bundle is such an entry.  (In the order of the repository's files
\* it does not: the run replay_sorted_keys.)
THEOREM BundleOfPcIsPrefetched ==
    ASSUME NEW S, NEW E, StartBeforeEnd(S, E), StartsReadable
    PROVE  Spec => []PrefetchesTheBundleOfPc
<1> DEFINE Inv == AnswerInv /\ ParsedInv(S, E)
<1>1. Init => Inv
  BY TypeInit DEF Init, AnswerInv, AlignedInv, LastInv, ParsedInv
<1>2. Inv /\ [Next]_vars => Inv'
  BY TypeNext, AlignedStep, LastStep, ParsedStep DEF AnswerInv
<1>3. Inv => PrefetchesTheBundleOfPc
  <2> SUFFICES ASSUME Inv, phase = "ready", last # NoCall
               PROVE  LET Candidates == {x \in ReadableEntries : InBundle(x, last.pc)}
                      IN  IF Candidates = {} THEN last.found = 0
                          ELSE last.found # 0 /\ RangeOf(g_bundles[last.found]) \in Candidates
    BY DEF PrefetchesTheBundleOfPc
  <2>1. /\ last.found = FindBundle(last.pc) /\ g_bundles \in Seq(Bundle)
        /\ Stored = ReadableEntries
    BY ParsedEnd DEF AnswerInv, LastInv, TypeInv, TypeOK
  <2>2. \A b : InBundle(RangeOf(b), last.pc) <=> InBundle(b, last.pc)
    BY DEF InBundle, RangeOf
  <2>3. /\ last.found # 0 =>
              /\ last.found \in DOMAIN g_bundles
              /\ InBundle(g_bundles[last.found], last.pc)
        /\ \A n \in DOMAIN g_bundles : InBundle(g_bundles[n], last.pc) => last.found # 0
    BY <2>1, FindBundleFirst
  <2>4. ASSUME last.found # 0
        PROVE  RangeOf(g_bundles[last.found]) \in ReadableEntries
               /\ InBundle(RangeOf(g_bundles[last.found]), last.pc)
    BY <2>1, <2>2, <2>3, <2>4, Zenon DEF Stored
  <2>5. ASSUME NEW x \in ReadableEntries, InBundle(x, last.pc)
        PROVE  last.found # 0
    <3>1. PICK n \in DOMAIN g_bundles : x = RangeOf(g_bundles[n])
      BY <2>1, Zenon DEF Stored
    <3> QED BY <2>2, <2>3, <2>5, <3>1
  <2> QED BY <2>4, <2>5
<1> QED BY <1>1, <1>2, <1>3, PTL DEF Spec
=============================================================================
